------------------------------ MODULE MCWalk --------------------------------
(* The streamer under its callers: the layer loop, and any caller that makes *)
(* any call in any order (wpc = "any") as long as a get that misses finds no *)
(* prefetch outstanding and a prefetch spares the slot of the pointer held.  *)
EXTENDS LayerWalk

CONSTANT MaxAny   \* bound on hits + misses under the arbitrary caller

AnyInit == Init /\ wpc = "any" /\ L = 0

AnyCall ==
    /\ wpc = "any"
    /\ \/ \E b \in CallArgs :
            \/ hits + misses < MaxAny /\ Get(b) /\ (GetMiss(b) => ~busy /\ ~done)
            \/ (held = None \/ hslot # ring) /\ PrefetchClaim(b)
       \/ Destroy
    /\ UNCHANGED walkVars

\* Reads return, and the scheduler runs both threads: a call that can finish
\* does.  Nothing makes the caller issue a call.
EitherSpec ==
    /\ WalkInit \/ AnyInit
    /\ [][WalkNext \/ AnyCall]_allVars
    /\ WF_allVars(Reader /\ UNCHANGED walkVars)
    /\ WF_allVars(CallReturns /\ UNCHANGED walkVars)
=============================================================================
