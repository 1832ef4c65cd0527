----------------------------- MODULE LayerWalk ------------------------------
(***************************************************************************)
(* The two callers of the streamer: the layer loop of qwen3_decode         *)
(* (src/models/qwen3/qwen3.c) and that of forward (src/cli/k3_run.c, with  *)
(* k3_trunk_bind and k3_trunk_prefetch of src/io/k3_trunk.c).  Both visit  *)
(* the layers in order and, for each one, get its block, hint the next and *)
(* compute.  They differ (Backend) in the hint after the last layer, in     *)
(* where a layer can fail, and in that qwen3 reads the embedding row and   *)
(* the LM head from storage.  The K3 loop may visit only a prefix of the   *)
(* packed layers (NBound).                                                 *)
(***************************************************************************)
EXTENDS Streamer

CONSTANTS NBound,      \* layers in the loop
          Backend,     \* "qwen3" or "k3"
          Retry        \* TRUE: the caller decodes again after a failure

ASSUME WalkAssumption ==
    /\ NBound \in 1..NBlocks
    /\ Backend \in {"qwen3", "k3"}
    /\ Retry \in BOOLEAN

VARIABLES wpc,  \* "out" between tokens, "get" and "compute" in the loop,
                \* "head" after it, "failed" after a decode gave -1
          L     \* the layer

walkVars == <<wpc, L>>
allVars  == <<vars, walkVars>>

\* The block hinted while layer l computes.
Hint(l) == IF l + 1 < NBound THEN l + 1
           ELSE IF Backend = "qwen3" THEN 0 ELSE l + 1

\* Between tokens L keeps the value the last loop ended with.
WalkInit == Init /\ wpc = "out" /\ L = NBound - 1

\* Decode is called: the embedding row is read and the loop begins.
StartToken ==
    /\ wpc = "out" \/ (Retry /\ wpc = "failed")
    /\ hits + misses + NBound <= MaxGets
    /\ wpc' = "get" /\ L' = 0
    /\ Get(0)

\* The read of the embedding row fails: decode returns -1 at once.
EmbeddingFails ==
    /\ Backend = "qwen3"
    /\ wpc = "out" \/ (Retry /\ wpc = "failed")
    /\ Callable
    /\ wpc' = "failed"
    /\ UNCHANGED <<vars, L>>

\* get returned NULL: decode returns -1.
LayerFails ==
    /\ wpc = "get" /\ pc = "null"
    /\ wpc' = "failed"
    /\ UNCHANGED <<vars, L>>

\* The layer itself fails: in k3 its tensors cannot be bound, before the
\* hint; in qwen3 a projection is refused, after it.
ComputeFails ==
    /\ wpc = IF Backend = "k3" THEN "get" ELSE "compute"
    /\ pc = "have"
    /\ wpc' = "failed"
    /\ UNCHANGED <<vars, L>>

\* get returned the layer: hint the next one.
HintNext ==
    /\ wpc = "get" /\ pc = "have"
    /\ wpc' = "compute"
    /\ \/ PrefetchClaim(Hint(L))
       \/ PrefetchSkips(Hint(L)) /\ UNCHANGED vars
    /\ UNCHANGED L

\* The layer is computed: get the next one.
NextLayer ==
    /\ wpc = "compute" /\ L + 1 < NBound
    /\ wpc' = "get" /\ L' = L + 1
    /\ Get(L + 1)

\* The last layer is computed.
LastLayer ==
    /\ wpc = "compute" /\ L + 1 = NBound
    /\ wpc' = "head"
    /\ UNCHANGED <<vars, L>>

\* The final norm and the LM head; reading the head may fail.
Head ==
    /\ wpc = "head"
    /\ wpc' \in IF Backend = "qwen3" THEN {"out", "failed"} ELSE {"out"}
    /\ UNCHANGED <<vars, L>>

\* The model is destroyed between tokens.
DestroyModel ==
    /\ wpc \in {"out", "failed"}
    /\ Destroy
    /\ UNCHANGED walkVars

\* A step inside a streamer call or of the reader thread.
StreamerStep == (Reader \/ CallReturns) /\ UNCHANGED walkVars

WalkStep == StartToken \/ LayerFails \/ HintNext \/ NextLayer \/ LastLayer
            \/ Head

WalkNext == WalkStep \/ EmbeddingFails \/ ComputeFails \/ DestroyModel \/ StreamerStep

WalkSpec == WalkInit /\ [][WalkNext]_allVars

-----------------------------------------------------------------------------
(* Properties.                                                             *)

\* The walk's variables stay in their domains, and match the streamer's.
WalkTypeOK ==
    /\ TypeOK
    /\ wpc \in {"out", "get", "compute", "head", "failed"}
    /\ L \in 0..NBound-1
    /\ wpc = "out" => pc \in {"idle", "have", "join", "freed"}
    /\ wpc = "get" => pc \in {"collect", "load", "have", "null"}
    /\ wpc = "get" /\ pc # "null" => arg = L
    /\ wpc \in {"compute", "head"} => pc = "have" /\ arg = L
    /\ wpc = "failed" => pc \notin {"collect", "load"}
    /\ wpc \in {"out", "head"} => L = NBound - 1

\* While a layer computes, the weights it reads are that layer's: in its
\* pinned buffer, or in a ring slot the reader leaves alone.
ComputesOnItsLayer ==
    wpc = "compute" =>
        IF Pinned(L) THEN L \in pin
        ELSE held = L /\ arena[hslot] = L /\ hpad = L

\* The reader and the caller never read from storage at the same time: a
\* block that was hinted is collected, never read a second time.
ReadsNeverOverlap == ~(reader = "read" /\ pc = "load")

\* The hit rate of the cyclic walk is exactly NPin of NBlocks when more
\* blocks stream than the ring has slots: the first pass misses them all,
\* each later pass hits the pinned ones only.
HitRateExact ==
    (wpc = "out" /\ NBound = NBlocks /\ NBlocks - NPin > NSlot /\ misses > 0)
        => hits = NPin * (((hits + misses) \div NBlocks) - 1)
=============================================================================
