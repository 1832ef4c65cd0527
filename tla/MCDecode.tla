----------------------------- MODULE MCDecode -------------------------------
(* A network is one token per position, with a period no shorter than a run  *)
(* is long: the true continuation of a run is arbitrary, and every pattern of *)
(* accepted and rejected drafts occurs.  In the prompt, and in a resumed      *)
(* sequence, n-grams repeat, so that the n-gram search has something to       *)
(* propose.                                                                   *)
EXTENDS Decode

CONSTANT NetLen     \* the period of a network

MCNets == [1..NetLen -> Tok]

MCGreedy(n, ctx) == n[(Len(ctx) % NetLen) + 1]

MCPrompts == {<<2, 1, 2, 1, 2>>}

\* Full recompute, speculative (which without a match is plain incremental
\* decode), hybrid.
Opt(s, h, i) == [spec |-> s, hybrid |-> h, incremental |-> i]
MCOptions == {Opt(0, FALSE, FALSE), Opt(2, FALSE, TRUE), Opt(2, TRUE, TRUE)}
=============================================================================
