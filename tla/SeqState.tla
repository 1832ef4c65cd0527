------------------------------ MODULE SeqState ------------------------------
(***************************************************************************)
(* The sequence state of qwen3 (src/models/qwen3/qwen3.c): K and V rows    *)
(* per layer and position, written by decode as it passes each layer.  The *)
(* position is the caller's to choose, so a caller may rewind (model.h);   *)
(* decode may fail between any two layers.                                 *)
(*                                                                         *)
(* A value is represented by the tokens it was computed from, in order of  *)
(* position, or by Mixed when they do not form one history.  A row of      *)
(* layer 0 comes from its own token alone; a row of a later layer from all *)
(* the tokens up to its position.                                          *)
(***************************************************************************)
EXTENDS Integers, Sequences

CONSTANTS NLayers, Context, Tok, Mixed,
          MaxCalls    \* bound: calls of decode

ASSUME SeqStateAssumption ==
    /\ NLayers \in Nat \ {0} /\ Context \in Nat \ {0} /\ MaxCalls \in Nat
    /\ Mixed \notin Seq(Tok)

VARIABLES rows,      \* kc and vc
          n_seen,
          x,         \* the residual stream
          logits,
          pc,        \* "idle", "layers", "head"
          call,      \* the arguments [token, pos, want]
          L,
          ret,       \* of the last decode
          path,      \* the history the caller means: tokens of positions 0, 1, ...
          calls

stateVars == <<rows, n_seen>>
callVars  == <<x, pc, call, L>>
vars == <<stateVars, callVars, logits, ret, path, calls>>

Position == 0..(Context - 1)
Layer    == 0..(NLayers - 1)
Value    == Seq(Tok) \union {Mixed}

\* qwen3_state_create: zeroed rows.
Init ==
    /\ rows = [l \in Layer |-> [t \in Position |-> <<>>]] /\ n_seen = 0
    /\ x = <<>> /\ logits = <<>> /\ pc = "idle" /\ L = 0
    /\ call \in [token : Tok, pos : {0}, want : {FALSE}]
    /\ ret = 0 /\ path = <<>> /\ calls = 0

Prefix(s, n) == SubSeq(s, 1, n)

\* The position is outside the state: refused before anything is touched.
DecodeRefused(tok, p, want) ==
    /\ pc = "idle" /\ calls < MaxCalls
    /\ p \notin Position
    /\ ret' = -1 /\ calls' = calls + 1
    /\ UNCHANGED <<stateVars, callVars, logits, path>>

\* decode is called and the token's embedding row is read.  The caller's
\* history is cut at the position.
DecodeBegin(tok, p, want) ==
    /\ pc = "idle" /\ calls < MaxCalls
    /\ p \in Position
    /\ call' = [token |-> tok, pos |-> p, want |-> want]
    /\ x' = <<tok>> /\ L' = 0 /\ pc' = "layers"
    /\ path' = Prefix(path, p) /\ calls' = calls + 1
    /\ UNCHANGED <<stateVars, logits, ret>>

\* What attention makes of layer l's rows up to position p.
Attend(layer, l, p, v) ==
    IF l = 0
    THEN IF \A t \in 0..p : Len(layer[t]) = 1
         THEN [i \in 1..(p + 1) |-> layer[i - 1][1]] ELSE Mixed
    ELSE IF v # Mixed /\ \A t \in 0..(p - 1) : layer[t] = Prefix(v, t + 1)
         THEN v ELSE Mixed

\* This position's K and V are written before attention reads the rows.
Store(layer, p, v) == [layer EXCEPT ![p] = v]

LayerStep ==
    /\ pc = "layers"
    /\ LET p == call.pos
           layer == Store(rows[L], p, x)
       IN  /\ rows' = [rows EXCEPT ![L] = layer]
           /\ x' = Attend(layer, L, p, x)
    /\ L' = L + 1
    /\ pc' = IF L + 1 = NLayers THEN "head" ELSE "layers"
    /\ UNCHANGED <<n_seen, logits, call, ret, path, calls>>

\* A read or a projection fails: decode returns -1 with the rows of the layers
\* it passed already written, and in the head with part of the logits.
DecodeFails ==
    /\ pc # "idle"
    /\ pc' = "idle" /\ ret' = -1
    /\ logits' \in IF pc = "head" /\ call.want THEN {logits, Mixed} ELSE {logits}
    /\ UNCHANGED <<stateVars, x, call, L, path, calls>>

\* Mutant: a position seen before is taken to have its logits.
DecodeReturnsStale ==
    /\ pc = "head"
    /\ logits' = IF call.want /\ call.pos + 1 > n_seen THEN x ELSE logits
    /\ n_seen' = IF call.pos + 1 > n_seen THEN call.pos + 1 ELSE n_seen
    /\ pc' = "idle" /\ ret' = 0
    /\ path' = Append(path, call.token)
    /\ UNCHANGED <<rows, x, call, L, calls>>

\* The head, when logits are wanted, and the return.
DecodeReturns ==
    /\ pc = "head"
    /\ logits' = IF call.want THEN x ELSE logits
    /\ n_seen' = IF call.pos + 1 > n_seen THEN call.pos + 1 ELSE n_seen
    /\ pc' = "idle" /\ ret' = 0
    /\ path' = Append(path, call.token)
    /\ UNCHANGED <<rows, x, call, L, calls>>

\* A caller that leaves no gap: it goes on, repeats a position or rewinds.
Decode ==
    \E tok \in Tok, p \in 0..Len(path), want \in BOOLEAN :
        DecodeBegin(tok, p, want) \/ DecodeRefused(tok, p, want)

Next == Decode \/ LayerStep \/ DecodeFails \/ DecodeReturns

Spec == Init /\ [][Next]_vars

-----------------------------------------------------------------------------
(* Properties.                                                             *)

\* What a row of layer l at position t must hold for history h.
RowOf(h, l, t) == IF l = 0 THEN <<h[t + 1]>> ELSE Prefix(h, t + 1)

\* The rows below the caller's position hold its history, in every layer,
\* after any sequence of rewinds, repeats and failures.
RowsHoldPath ==
    \A l \in Layer, t \in 0..(Len(path) - 1) : rows[l][t] = RowOf(path, l, t)

\* Logits that were asked for are those of the caller's history, whatever was
\* decoded at these positions before: a rewind needs no reset.
LogitsOfPath ==
    (pc = "idle" /\ calls > 0 /\ ret = 0 /\ call.want) => logits = path
=============================================================================
