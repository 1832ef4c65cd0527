---------------------------- MODULE MCExpertStep ----------------------------
(* The cache under its two kinds of caller: the MoE step with distinct       *)
(* experts in any order, and any caller whatever (epc = "any"), with batches *)
(* of up to three keys that may repeat or be out of range.                   *)
EXTENDS ExpertStep, Functions

CONSTANT MaxCalls   \* bound on hits + misses under the arbitrary caller

MCSteps   == UNION {{ids \in [1..n -> Keys] : IsInjective(ids)} : n \in 1..NKeys}
MCBatches == UNION {[1..n -> 0..NKeys] : n \in 1..3}

AnyInit == Init /\ epc = "any" /\ want = <<>> /\ exact = TRUE /\ drops = FALSE
           /\ reads = [k \in Keys |-> 0] /\ roomy = TRUE

AnyCall ==
    /\ epc = "any"
    /\ \/ hits + misses < MaxCalls /\ prefetch_reads < MaxCalls /\ Call
       \/ BatchStep
       \/ \E k \in Keys, on \in BOOLEAN : Pin(k, on)
       \/ ResetStats
    /\ UNCHANGED stepVars

EitherSpec == (StepInit \/ AnyInit) /\ [][StepNext \/ AnyCall]_allVars
=============================================================================
