--------------------------- MODULE StreamerSizing ---------------------------
(***************************************************************************)
(* How eng_streamer_create (src/storage/streamer.c) divides its budget     *)
(* between ring slots and pinned blocks, and whether the buffers it then   *)
(* allocates can take every block: load_block hands their sizes to the     *)
(* aligned read as its capacity.                                           *)
(*                                                                         *)
(* The sizing loop is one action per pass.  Inputs are chosen in Init and  *)
(* stay fixed.                                                             *)
(***************************************************************************)
EXTENDS AlignedRead

CONSTANTS NBlocks,     \* cfg->nblocks
          Sizes,       \* block sizes to consider
          Budgets,     \* cfg->budget_bytes
          Extras,      \* cfg->extra_bytes
          RingWants,   \* cfg->ring_want
          Offsets      \* where in an alignment unit a block may start

ASSUME SizingAssumption ==
    /\ NBlocks \in Nat \ {0}
    /\ Sizes \subseteq Nat \ {0}
    /\ Budgets \subseteq Nat /\ Extras \subseteq Nat
    /\ RingWants \subseteq Nat \ {0}
    /\ Offsets \subseteq 0..Align-1

\* The bound of the sizing loop.
MaxPass == 4

Blocks == 0..NBlocks-1

VARIABLES nbytes, budget, extra, ring_want,     \* the configuration
          pass, ring_slot, npin, ring, spent,   \* locals of the loop
          fixed,    \* the loop ended on its break
          status,   \* "sizing", "sized", "created", "refused"
          last      \* the last load_block, see Load

cfgVars  == <<nbytes, budget, extra, ring_want>>
loopVars == <<pass, ring_slot, npin, ring, spent, fixed>>
vars     == <<cfgVars, loopVars, status, last>>

NoLoad == [block |-> -1]

\* Mutant: no room for the caller's bytes.
NeedNoExtra(nb, ex, b) == AlignUp(nb[b]) + Align

\* What a buffer for block b alone takes: room for the widened window and
\* the caller's extra bytes.
Need(nb, ex, b) == AlignUp(nb[b]) + Align + ex

\* The buffers of the first n blocks.
PinCost(nb, ex, n) ==
    LET cost[k \in 0..n] == IF k = 0 THEN 0 ELSE cost[k-1] + Need(nb, ex, k-1)
    IN  IF n = 0 THEN 0 ELSE cost[n]

\* The blocks that stream when n are pinned; if none does, the loop takes
\* the last block.
Streaming(n) == IF n < NBlocks THEN n..NBlocks-1 ELSE {NBlocks-1}

Biggest(n, b) == b \in Streaming(n) /\ \A c \in Streaming(n) : nbytes[c] <= nbytes[b]

\* Mutant: no room for the widened window.
SlotBytesNoWindow(b) == AlignUp(AlignUp(nbytes[b]) + extra)

\* The slot for the largest streaming block b.
SlotBytes(b) == AlignUp(AlignUp(nbytes[b]) + Align + extra)

\* Slots are dropped, down to one, until the ring fits.
Ring(rg, rs) ==
    /\ rg >= 1
    /\ rg > 1 => rg * rs <= budget
    /\ rg < ring_want => (rg + 1) * rs > budget

\* Mutant: the ring is not counted before blocks are pinned.
PinsBesideNothing(np, sp) ==
    /\ np > 0 => PinCost(nbytes, extra, np) <= budget
    /\ np < NBlocks => PinCost(nbytes, extra, np + 1) > budget

\* Blocks are pinned in order while the next one fits beside sp.
Pins(np, sp) ==
    /\ np > 0 => sp + PinCost(nbytes, extra, np) <= budget
    /\ np < NBlocks => sp + PinCost(nbytes, extra, np + 1) > budget

Init ==
    /\ nbytes \in [Blocks -> Sizes]
    /\ budget \in Budgets /\ extra \in Extras /\ ring_want \in RingWants
    /\ pass = 0 /\ ring_slot = 0 /\ npin = 0 /\ ring = ring_want /\ spent = 0
    /\ fixed = FALSE
    /\ status = "sizing"
    /\ last = NoLoad

\* One pass: the slot from the blocks that stream, the ring from the slot,
\* the pinned prefix from what is left.
Pass ==
    /\ status = "sizing"
    /\ \E b \in Blocks, rg \in 0..ring_want, np \in 0..NBlocks :
         LET rs == SlotBytes(b) IN
         /\ Biggest(npin, b) /\ Ring(rg, rs) /\ Pins(np, rg * rs)
         /\ ring_slot' = rs /\ ring' = rg /\ npin' = np
         /\ spent' = rg * rs + PinCost(nbytes, extra, np)
         /\ fixed' = (rs = ring_slot /\ np = npin)
    /\ pass' = pass + 1
    /\ status' = IF fixed' \/ pass' = MaxPass THEN "sized" ELSE "sizing"
    /\ UNCHANGED <<cfgVars, last>>

\* Even one slot is too much.
Refuse ==
    /\ status = "sized" /\ ring * ring_slot > budget
    /\ status' = "refused"
    /\ UNCHANGED <<cfgVars, loopVars, last>>

\* The buffers are allocated; an allocation may fail.
Allocate ==
    /\ status = "sized" /\ ring * ring_slot <= budget
    /\ status' \in {"created", "refused"}
    /\ UNCHANGED <<cfgVars, loopVars, last>>

\* The capacity of the buffer block b is read into.
Cap(b) == IF b < npin THEN Need(nbytes, extra, b) ELSE ring_slot

\* load_block for block b: ok is what it tells eng_streamer_get, pad the
\* payload offset it records.  The file ends with the block or goes on.  A
\* load depends on nothing an earlier one left, so one is enough.
Load(b) ==
    /\ status = "created" /\ last = NoLoad
    /\ \E off \in Offsets, more \in {0, Align}, direct \in BOOLEAN :
         \E r \in ReadAligned(off, nbytes[b], Cap(b), off + nbytes[b] + more, direct) :
           last' = [block |-> b, start |-> IF direct THEN PayloadOff(off) ELSE 0,
                    pad |-> r.pad, got |-> r.got, ok |-> r.ret = nbytes[b]]
    /\ UNCHANGED <<cfgVars, loopVars, status>>

Next == Pass \/ Refuse \/ Allocate \/ \E b \in Blocks : Load(b)

Spec == Init /\ [][Next]_vars

-----------------------------------------------------------------------------
(* Properties.                                                             *)

\* The sizes and counts the loop computes are natural numbers in range.
TypeOK ==
    /\ pass \in 0..MaxPass
    /\ ring_slot \in Nat /\ spent \in Nat
    /\ npin \in 0..NBlocks /\ ring \in 1..ring_want
    /\ fixed \in BOOLEAN
    /\ status \in {"sizing", "sized", "created", "refused"}

\* A streamer that is created stays within its budget, ring and pinned
\* buffers together, whatever pass the loop stopped at.
WithinBudget == status = "created" => ring * ring_slot + PinCost(nbytes, extra, npin) <= budget

\* Every buffer can take the widened window of every block that may be read
\* into it, wherever the block lies in the file: no load is refused for lack
\* of room.  streamer.h: the ring is "sized to the largest block that can
\* still arrive in it".
BuffersFit ==
    status = "created" =>
        \A b \in Blocks, off \in 0..Align-1 : WindowLen(off, nbytes[b]) <= Cap(b)

\* No pass takes a pinned block back or asks for a larger slot than the pass
\* before it, so the loop may stop at its bound short of its fixed point.
\* streamer.c: "It is monotone".
Monotone == [][npin <= npin' /\ (pass > 0 => ring_slot' <= ring_slot)]_vars

\* A load reports success exactly when the payload is in the buffer, and
\* then the payload starts where the recorded offset says; the caller's
\* extra bytes behind it are inside the buffer too.
LoadTruthful ==
    last # NoLoad =>
        LET nb == nbytes[last.block] IN
        /\ last.ok <=> last.got >= last.start + nb
        /\ last.ok => /\ last.pad = last.start
                      /\ last.pad + AlignUp(nb) + extra <= Cap(last.block)
=============================================================================
