----------------------------- MODULE ExpertStep -----------------------------
(***************************************************************************)
(* The cache's user: the routed experts of one token (k3_moe) or of one    *)
(* chunk of prompt tokens (moe_prefill_chunk), src/core/k3_ops.c, through  *)
(* the expert cache of src/cache/k3_cache.c.  Both hand the list of        *)
(* experts to getmany, then get and compute them one by one.  A token's    *)
(* list is its top-k; a chunk's is the union of its tokens' top-k, in      *)
(* order of first appearance, and may exceed the cache.                    *)
(*                                                                         *)
(* A token's sum is exact when every expert of its list was computed from  *)
(* its own bytes and description, so the floats are abstracted to the set  *)
(* of experts so computed.                                                 *)
(***************************************************************************)
EXTENDS Cache

CONSTANTS Steps,     \* lists of experts a token or a chunk may want
          MaxTopk    \* K3_MAX_TOPK, the most getmany passes on

ASSUME StepAssumption ==
    /\ MaxTopk \in Nat \ {0}
    /\ \A ids \in Steps : ids \in Seq(Keys) /\ ids # <<>>

VARIABLES epc,       \* "out", "batch" in getmany, "use" in the loop after it
          want,      \* experts not fetched yet
          exact,     \* every expert used in this step was the right one
          drops,     \* k3_expert_drops # 0
          reads,     \* [key] times read whole in this step
          roomy      \* no list since the last reset exceeded the cache

stepVars == <<epc, want, exact, drops, reads, roomy>>
allVars  == <<vars, stepVars>>

StepInit ==
    /\ Init
    /\ epc = "out" /\ want = <<>> /\ exact = TRUE /\ drops = FALSE
    /\ reads = [k \in Keys |-> 0] /\ roomy = TRUE

\* Routing is done: getmany gets the list, or the first MaxTopk of it.
Start(ids) ==
    /\ epc = "out" /\ hits + misses + Len(ids) <= MaxCount
    /\ GetMany(SubSeq(ids, 1, IF Len(ids) < MaxTopk THEN Len(ids) ELSE MaxTopk))
    /\ epc' = "batch" /\ want' = ids /\ exact' = TRUE
    /\ reads' = [k \in Keys |-> 0]
    /\ roomy' = (roomy /\ Len(ids) <= NSlot)
    /\ UNCHANGED drops

\* A step inside getmany.
Fetch ==
    /\ epc = "batch" /\ BatchStep
    /\ epc' = IF pc' = "idle" THEN "use" ELSE "batch"
    /\ reads' = [k \in Keys |-> IF slot_of[k] = None /\ slot_of'[k] # None
                                THEN reads[k] + 1 ELSE reads[k]]
    /\ UNCHANGED <<want, exact, drops, roomy>>

\* Mutant: an expert that did not load is passed over in silence.
UseSilently ==
    /\ epc = "use"
    /\ LET k == Head(want) IN
         /\ Get(k)
         /\ reads' = [reads EXCEPT ![k] = IF slot_of[k] = None /\ slot_of'[k] # None
                                          THEN @ + 1 ELSE @]
         /\ exact' = (exact /\ slot_of'[k] # None
                      /\ bytes'[slot_of'[k]] = k /\ meta'[slot_of'[k]] = k)
         /\ UNCHANGED drops
    /\ want' = Tail(want)
    /\ epc' = IF Len(want) = 1 THEN "out" ELSE "use"
    /\ UNCHANGED roomy

\* get the next expert and compute it.  One that does not load is dropped:
\* its part of the sum is missing (k3_moe) or was never written
\* (moe_prefill_chunk), and the drop is counted.
Use ==
    /\ epc = "use"
    /\ LET k == Head(want) IN
         /\ Get(k)
         /\ reads' = [reads EXCEPT ![k] = IF slot_of[k] = None /\ slot_of'[k] # None
                                          THEN @ + 1 ELSE @]
         /\ exact' = (exact /\ slot_of'[k] # None
                      /\ bytes'[slot_of'[k]] = k /\ meta'[slot_of'[k]] = k)
         /\ drops' = (drops \/ slot_of'[k] = None)
    /\ want' = Tail(want)
    /\ epc' = IF Len(want) = 1 THEN "out" ELSE "use"
    /\ UNCHANGED roomy

\* k3_cache_reset_stats, between steps.
Reset ==
    /\ epc = "out" /\ ResetStats
    /\ roomy' = TRUE /\ reads' = [k \in Keys |-> 0]
    /\ UNCHANGED <<epc, want, exact, drops>>

StepNext == (\E ids \in Steps : Start(ids)) \/ Fetch \/ Use \/ Reset

StepSpec == StepInit /\ [][StepNext]_allVars

-----------------------------------------------------------------------------
(* Properties.                                                             *)

\* No expert is read twice for one step, as long as lists fit the cache: what
\* getmany brought in is still resident when get asks for it, whatever the
\* cache held before (moe_prefill_chunk: "fetch each unique expert ONCE";
\* test_cache.c says it of k3_moe's pattern).
FetchOnce == roomy => \A k \in Keys : reads[k] <= 1

\* A token or chunk whose result is not the exact one is never silent:
\* k3_expert_drops is then not zero and the run fails, also when a key is
\* refused in a batch that already overwrote its victim's description.
ExactOrCounted == epc = "out" => exact \/ drops
=============================================================================
