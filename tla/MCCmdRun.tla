----------------------------- MODULE MCCmdRun -------------------------------
(* The sequence state under its two kinds of caller: `engine run`, and any   *)
(* caller that leaves no gap (stage = "api").  A network is one token per    *)
(* position.                                                                 *)
EXTENDS CmdRun

CONSTANT MaxApi   \* bound: calls of decode by the arbitrary caller

MCNets == [1..Context -> Tok]

MCGreedy(f, h) == f[Len(h)]

MCPrompts == UNION {[1..k -> Tok] : k \in 0..3}

ApiInit ==
    /\ Init
    /\ net = [i \in 1..Context |-> Eos] /\ ids = <<>> /\ ntok = 0
    /\ ctx = Context /\ stage = "api" /\ exit = 0
    /\ pos = 0 /\ tok_id = Eos /\ produced = 0 /\ out = <<>>

ApiCall == stage = "api" /\ calls < MaxApi /\ Decode /\ UNCHANGED runVars

EitherSpec == (RunInit \/ ApiInit) /\ [][RunNext \/ ApiCall]_allVars
=============================================================================
