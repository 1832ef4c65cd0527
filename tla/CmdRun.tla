------------------------------- MODULE CmdRun -------------------------------
(***************************************************************************)
(* `engine run`: cmd_run of src/app/cli.c on the qwen3 sequence state.     *)
(* The prompt is decoded position by position without logits, its last     *)
(* token with; then each argmax is fed back.  The run ends at the end of   *)
(* the text (EOS), after ntok tokens, or when a decode fails.              *)
(***************************************************************************)
EXTENDS SeqState

CONSTANTS Nets, Greedy(_, _),   \* a network's argmax after a history
          Eos,
          Prompts,              \* encoded prompts; the empty one included
          NTok                  \* values given with -n

ASSUME CmdRunAssumption ==
    /\ Eos \in Tok /\ Prompts \subseteq Seq(Tok) /\ NTok \subseteq Nat

\* An argmax over the vocabulary is a token.
ASSUME GreedyAssumption ==
    \A f \in Nets, k \in 1..Context : \A h \in [1..k -> Tok] : Greedy(f, h) \in Tok

VARIABLES net,
          ids, ntok,
          ctx,         \* positions of the sequence state
          stage,       \* "start", "decode", "read", "ended"
          exit, pos, tok_id, produced,
          out          \* the tokens produced, EOS excluded

runVars == <<net, ids, ntok, ctx, stage, exit, pos, tok_id, produced, out>>
allVars == <<vars, runVars>>

\* parse_opts asks for one token at least.
Tokens(k) == IF k < 1 THEN 1 ELSE k

RunInit ==
    /\ Init
    /\ net \in Nets /\ ids \in Prompts /\ ntok \in {Tokens(k) : k \in NTok}
    /\ ctx = 0 /\ stage = "start" /\ exit = 0
    /\ pos = 0 /\ tok_id \in Tok /\ produced = 0 /\ out = <<>>

n == Len(ids)

Smaller(a, b) == IF a < b THEN a ELSE b

\* The empty prompt, a plan or a load that fails, and a context that cannot
\* hold the prompt end the run.  The plan grants up to Context positions.
Refused ==
    /\ stage = "start"
    /\ stage' = "ended" /\ exit' = 1
    /\ UNCHANGED <<vars, net, ids, ntok, ctx, pos, tok_id, produced, out>>

\* The model is loaded and the sequence state is created.
Begin ==
    /\ stage = "start" /\ n > 0
    /\ \E granted \in 1..Context : ctx' = Smaller(granted, n + ntok)
    /\ ctx' >= n + 1
    /\ stage' = "decode" /\ tok_id' = ids[1]
    /\ UNCHANGED <<vars, net, ids, ntok, exit, pos, produced, out>>

\* Logits are asked for from the last prompt position on.
LastPrompt == pos + 1 >= n

LoopBoundLess == ctx - 2

\* The loop runs while pos is below this.
LoopBound == ctx - 1

\* The loop's body up to the call.
CallDecode ==
    /\ stage = "decode" /\ pos < LoopBound
    /\ DecodeBegin(tok_id, pos, LastPrompt)
    /\ stage' = "read"
    /\ UNCHANGED <<net, ids, ntok, ctx, exit, pos, tok_id, produced, out>>

\* decode has returned 0 in the prompt: the next token is known.
Prefill ==
    /\ stage = "read" /\ pc = "idle" /\ ret = 0 /\ ~LastPrompt
    /\ tok_id' = ids[pos + 2] /\ pos' = pos + 1 /\ stage' = "decode"
    /\ UNCHANGED <<vars, net, ids, ntok, ctx, exit, produced, out>>

\* The argmax of the logits as they are.
Best == IF logits = Mixed THEN Mixed ELSE Greedy(net, logits)

\* Mutant: the end of the text is printed too.
ProducePastEos ==
    /\ stage = "read" /\ pc = "idle" /\ ret = 0 /\ LastPrompt
    /\ tok_id' = Best /\ out' = Append(out, Best)
    /\ produced' = produced + 1
    /\ IF produced + 1 >= ntok
       THEN stage' = "ended" /\ UNCHANGED pos
       ELSE stage' = "decode" /\ pos' = pos + 1
    /\ UNCHANGED <<vars, net, ids, ntok, ctx, exit>>

\* decode has returned 0 at or after the last prompt position.
Produce ==
    /\ stage = "read" /\ pc = "idle" /\ ret = 0 /\ LastPrompt
    /\ Best # Eos
    /\ tok_id' = Best /\ out' = Append(out, Best)
    /\ produced' = produced + 1
    /\ IF produced + 1 >= ntok
       THEN stage' = "ended" /\ UNCHANGED pos
       ELSE stage' = "decode" /\ pos' = pos + 1
    /\ UNCHANGED <<vars, net, ids, ntok, ctx, exit>>

\* The end of the text; below, a failed decode and the end of the context.  In
\* all three the run reports and exits 0.
EndOfText ==
    /\ stage = "read" /\ pc = "idle" /\ ret = 0 /\ LastPrompt /\ Best = Eos
    /\ stage' = "ended"
    /\ UNCHANGED <<vars, net, ids, ntok, ctx, exit, pos, tok_id, produced, out>>

DecodeFailed ==
    /\ stage = "read" /\ pc = "idle" /\ ret # 0
    /\ stage' = "ended"
    /\ UNCHANGED <<vars, net, ids, ntok, ctx, exit, pos, tok_id, produced, out>>

ContextEnds ==
    /\ stage = "decode" /\ pos >= LoopBound
    /\ stage' = "ended"
    /\ UNCHANGED <<vars, net, ids, ntok, ctx, exit, pos, tok_id, produced, out>>

Within == (LayerStep \/ DecodeFails \/ DecodeReturns) /\ UNCHANGED runVars

RunNext ==
    Refused \/ Begin \/ CallDecode \/ Prefill \/ Produce
    \/ EndOfText \/ DecodeFailed \/ ContextEnds \/ Within

RunSpec == RunInit /\ [][RunNext]_allVars

-----------------------------------------------------------------------------
(* Properties.                                                             *)

\* What is printed is the network's greedy continuation of the prompt, up to
\* and without the end of the text: prompt positions need no logits.
PrintsGreedy ==
    \A i \in 1..Len(out) :
        /\ out[i] # Eos
        /\ out[i] = Greedy(net, ids \o SubSeq(out, 1, i - 1))

\* The run produces as many tokens as were asked for, or as fit, unless the
\* text ends or a decode fails: the loop's bound loses none.
ProducesAll ==
    (stage = "ended" /\ exit = 0 /\ ret = 0) =>
        \/ Len(out) = ctx - n
        \/ Greedy(net, ids \o out) = Eos
=============================================================================
