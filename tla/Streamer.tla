------------------------------ MODULE Streamer ------------------------------
(***************************************************************************)
(* The block streamer, src/storage/streamer.c: a pinned prefix of blocks,  *)
(* a ring of uniform slots for the others, and one reader thread that      *)
(* fills a ring slot ahead of the caller.                                  *)
(*                                                                         *)
(* Two processes: the caller, which runs eng_streamer_get, _prefetch and   *)
(* _destroy one call at a time, and the reader, which runs io_main.  A     *)
(* step is what one of them does between two points where the other can    *)
(* interfere: a section under io->mu, or the start or the end of a read.   *)
(*                                                                         *)
(* Bytes are abstracted to the block they belong to.  A buffer that is     *)
(* being written, or was left by a failed read, holds None.                *)
(***************************************************************************)
EXTENDS Integers

CONSTANTS NBlocks,   \* s->nblocks
          NPin,      \* s->npin: blocks 0..NPin-1 have buffers of their own
          NSlot,     \* s->nslot: ring slots
          AsyncCfg,  \* cfg->async
          MaxGets    \* bound on the counters hits + misses

ASSUME StreamerAssumption ==
    /\ NBlocks \in Nat \ {0}
    /\ NPin \in 0..NBlocks
    /\ NSlot \in Nat \ {0}
    /\ AsyncCfg \in BOOLEAN
    /\ MaxGets \in Nat

None   == -1
Blocks == 0..NBlocks-1
Slots  == 0..NSlot-1
Pinned(b) == b < NPin

VARIABLES
    block_of,  \* [slot] block the index says is in the slot, None if empty
    slot_of,   \* [block] its slot, None if not resident; itself if pinned
    ring,      \* next slot to reuse
    arena,     \* [slot] block whose bytes the slot really holds
    slot_pad,  \* [slot] block whose payload offset is recorded for the slot
    pin,       \* pinned blocks whose buffers hold their bytes
    clash,     \* slots that both threads have been writing at one time
    has_io,    \* s->io # NULL: the reader thread exists
    busy, done, stop, io_block, io_slot, result,  \* StreamIO
    reader,    \* where io_main is
    rblock, rslot,                                \* its locals b, slot
    pc,        \* where the caller is
    arg, lslot,                                   \* its block and slot
    held, hslot, hpad, \* last ring pointer returned and not yet given up
    hits, misses

indexVars  == <<block_of, slot_of, ring>>
bufVars    == <<arena, slot_pad, pin, clash>>
ioVars     == <<busy, done, stop, io_block, io_slot, result>>
readerVars == <<reader, rblock, rslot>>
callVars   == <<pc, arg, lslot>>
ptrVars    == <<held, hslot, hpad>>
countVars  == <<hits, misses>>
vars == <<indexVars, bufVars, ioVars, readerVars, callVars, ptrVars,
          countVars, has_io>>

-----------------------------------------------------------------------------
(* Construction.                                                           *)

\* The two-slot rule: the reader exists only if the ring has two slots.
\* pthread_create may fail, and then the streamer is synchronous.
ReaderStarts == IF AsyncCfg /\ NSlot >= 2 THEN BOOLEAN ELSE {FALSE}

\* A streamer as eng_streamer_create returns it.
Init ==
    /\ block_of = [s \in Slots |-> None]
    /\ slot_of = [b \in Blocks |-> None]
    /\ ring = 0
    /\ arena = [s \in Slots |-> None]
    /\ slot_pad = [s \in Slots |-> None]
    /\ pin = {}
    /\ clash = {}
    /\ has_io \in ReaderStarts
    /\ busy = FALSE /\ done = FALSE /\ stop = FALSE
    /\ io_block = 0 /\ io_slot = 0 /\ result = TRUE
    /\ reader = IF has_io THEN "wait" ELSE "none"
    /\ rblock = None /\ rslot = None
    /\ pc = "idle" /\ arg = None /\ lslot = None
    /\ held = None /\ hslot = None /\ hpad = None
    /\ hits = 0 /\ misses = 0

-----------------------------------------------------------------------------
(* load_block: what a read does to the buffer it fills.                    *)

ReaderWrites(s) == reader = "read" /\ rslot = s
CallerWrites(s) == pc = "load" /\ lslot = s

\* A read into slot s begins; other says whether the other thread is
\* writing the same slot.
BeginWrite(s, other) ==
    /\ arena' = [arena EXCEPT ![s] = None]
    /\ clash' = IF other THEN clash \cup {s} ELSE clash \ {s}

\* A read of block b into slot s ends.  After a clash the bytes may be
\* either thread's or a mixture.
EndWrite(b, s, ok) ==
    \E bytes \in IF s \in clash THEN {b, None} ELSE {b} :
        arena' = [arena EXCEPT ![s] = IF ok THEN bytes ELSE None]

-----------------------------------------------------------------------------
(* The reader thread, io_main.                                             *)

\* Woken with work: copy the request and start the read, outside the lock.
ReaderTake ==
    /\ reader = "wait"
    /\ busy /\ ~stop
    /\ reader' = "read"
    /\ rblock' = io_block
    /\ rslot' = io_slot
    /\ BeginWrite(io_slot, CallerWrites(io_slot))
    /\ UNCHANGED <<indexVars, slot_pad, pin, ioVars, callVars, ptrVars,
                   countVars, has_io>>

\* Mutant: a failed read is not reported.
ReaderDoneHidesFailure(ok) ==
    /\ reader = "read"
    /\ EndWrite(rblock, rslot, ok)
    /\ slot_pad' = IF ok THEN [slot_pad EXCEPT ![rslot] = rblock] ELSE slot_pad
    /\ result' = ok /\ done' = ok /\ busy' = FALSE /\ reader' = "wait"
    /\ UNCHANGED <<indexVars, pin, clash, stop, io_block, io_slot, rblock,
                   rslot, callVars, ptrVars, countVars, has_io>>

\* The read ends.  result is io->result once the lock is taken again.
ReaderDone(ok) ==
    /\ reader = "read"
    /\ EndWrite(rblock, rslot, ok)
    /\ slot_pad' = IF ok THEN [slot_pad EXCEPT ![rslot] = rblock] ELSE slot_pad
    /\ result' = ok
    /\ done' = TRUE
    /\ busy' = FALSE
    /\ reader' = "wait"
    /\ UNCHANGED <<indexVars, pin, clash, stop, io_block, io_slot, rblock,
                   rslot, callVars, ptrVars, countVars, has_io>>

\* Asked to stop: leave the loop, even with a request pending.
ReaderExit ==
    /\ reader = "wait"
    /\ stop
    /\ reader' = "exit"
    /\ UNCHANGED <<indexVars, bufVars, ioVars, rblock, rslot, callVars,
                   ptrVars, countVars, has_io>>

Reader == ReaderTake \/ (\E ok \in BOOLEAN : ReaderDone(ok)) \/ ReaderExit

-----------------------------------------------------------------------------
(* The caller.  pc: "idle" no call made yet, "collect" and "load" inside   *)
(* eng_streamer_get, "have" it returned a pointer, "null" it returned      *)
(* NULL, "join" inside eng_streamer_destroy, "freed" after it.             *)

Callable == pc \in {"idle", "have", "null"}

\* Mutant: the ring does not move on.
ClaimKeepsRing(s) ==
    /\ s = ring
    /\ slot_of' = IF block_of[s] # None
                  THEN [slot_of EXCEPT ![block_of[s]] = None] ELSE slot_of
    /\ block_of' = [block_of EXCEPT ![s] = None]
    /\ UNCHANGED ring

\* Claim the next ring slot and mark it empty before anything is read.
Claim(s) ==
    /\ s = ring
    /\ ring' = (ring + 1) % NSlot
    /\ slot_of' = IF block_of[s] # None
                  THEN [slot_of EXCEPT ![block_of[s]] = None] ELSE slot_of
    /\ block_of' = [block_of EXCEPT ![s] = None]

Resident(b) == \E s \in Slots : block_of[s] = b
Outstanding(b) == has_io /\ (busy \/ done) /\ io_block = b

\* get returns the pointer into slot s for block b.
ReturnSlot(b, s, pad) ==
    /\ pc' = "have" /\ arg' = b
    /\ held' = b /\ hslot' = s /\ hpad' = pad

\* get returns NULL.
ReturnNull == pc' = "null" /\ UNCHANGED <<arg, ptrVars>>

\* A block number out of range: NULL, nothing else.
GetOutOfRange(b) ==
    /\ Callable
    /\ b \notin Blocks
    /\ ReturnNull
    /\ UNCHANGED <<indexVars, bufVars, ioVars, readerVars, lslot, countVars,
                   has_io>>

\* A pinned block that was loaded before.
GetPinnedHit(b) ==
    /\ Callable
    /\ b \in Blocks /\ Pinned(b) /\ slot_of[b] # None
    /\ hits' = hits + 1
    /\ pc' = "have" /\ arg' = b
    /\ UNCHANGED <<indexVars, bufVars, ioVars, readerVars, lslot, ptrVars,
                   misses, has_io>>

\* First touch of a pinned block: its read starts.
GetPinnedLoad(b) ==
    /\ Callable
    /\ b \in Blocks /\ Pinned(b) /\ slot_of[b] = None
    /\ pc' = "load" /\ arg' = b /\ lslot' = None
    /\ UNCHANGED <<indexVars, bufVars, ioVars, readerVars, ptrVars,
                   countVars, has_io>>

\* A prefetch of b is outstanding: io_collect waits for it.
GetCollect(b) ==
    /\ Callable
    /\ b \in Blocks /\ ~Pinned(b) /\ Outstanding(b)
    /\ pc' = "collect" /\ arg' = b
    /\ held' = None /\ hslot' = None /\ hpad' = None
    /\ UNCHANGED <<indexVars, bufVars, ioVars, readerVars, lslot, countVars,
                   has_io>>

\* The block is in the ring.
GetHit(b) ==
    /\ Callable
    /\ b \in Blocks /\ ~Pinned(b) /\ ~Outstanding(b)
    /\ \E s \in Slots :
         /\ block_of[s] = b
         /\ \A t \in Slots : block_of[t] = b => s <= t
         /\ ReturnSlot(b, s, slot_pad[s])
    /\ hits' = hits + 1
    /\ UNCHANGED <<indexVars, bufVars, ioVars, readerVars, lslot, misses,
                   has_io>>

\* The block is nowhere: claim a slot and start a read on this thread.
GetMiss(b) ==
    /\ Callable
    /\ b \in Blocks /\ ~Pinned(b) /\ ~Outstanding(b) /\ ~Resident(b)
    /\ Claim(ring)
    /\ BeginWrite(ring, ReaderWrites(ring))
    /\ pc' = "load" /\ arg' = b /\ lslot' = ring
    /\ held' = None /\ hslot' = None /\ hpad' = None
    /\ UNCHANGED <<slot_pad, pin, ioVars, readerVars, countVars, has_io>>

Get(b) == \/ GetOutOfRange(b)
          \/ GetPinnedHit(b) \/ GetPinnedLoad(b)
          \/ GetCollect(b) \/ GetHit(b) \/ GetMiss(b)

\* Mutant: a collected prefetch counts as a hit.
CollectCountsHit ==
    /\ pc = "collect"
    /\ done
    /\ done' = FALSE
    /\ IF result
       THEN /\ block_of' = [block_of EXCEPT ![io_slot] = arg]
            /\ slot_of' = [slot_of EXCEPT ![arg] = io_slot]
            /\ hits' = hits + 1
            /\ ReturnSlot(arg, io_slot, slot_pad[io_slot])
       ELSE ReturnNull /\ UNCHANGED <<block_of, slot_of, hits>>
    /\ UNCHANGED <<ring, bufVars, busy, stop, io_block, io_slot, result,
                   readerVars, lslot, misses, has_io>>

\* Mutant: the block is published although its read failed.
CollectPublishesAnyway ==
    /\ pc = "collect"
    /\ done
    /\ done' = FALSE
    /\ block_of' = [block_of EXCEPT ![io_slot] = arg]
    /\ slot_of' = [slot_of EXCEPT ![arg] = io_slot]
    /\ IF result
       THEN misses' = misses + 1 /\ ReturnSlot(arg, io_slot, slot_pad[io_slot])
       ELSE ReturnNull /\ UNCHANGED misses
    /\ UNCHANGED <<ring, bufVars, busy, stop, io_block, io_slot, result,
                   readerVars, lslot, hits, has_io>>

\* io_collect after its wait: publish the block only if the read succeeded.
Collect ==
    /\ pc = "collect"
    /\ done
    /\ done' = FALSE
    /\ IF result
       THEN /\ block_of' = [block_of EXCEPT ![io_slot] = arg]
            /\ slot_of' = [slot_of EXCEPT ![arg] = io_slot]
            /\ misses' = misses + 1
            /\ ReturnSlot(arg, io_slot, slot_pad[io_slot])
       ELSE ReturnNull /\ UNCHANGED <<block_of, slot_of, misses>>
    /\ UNCHANGED <<ring, bufVars, busy, stop, io_block, io_slot, result,
                   readerVars, lslot, hits, has_io>>

\* Mutant: the buffer is returned although its read failed.
PinnedLoadedAnyway(ok) ==
    /\ pc = "load" /\ Pinned(arg)
    /\ pc' = "have" /\ UNCHANGED <<arg, ptrVars>>
    /\ IF ok
       THEN /\ pin' = pin \cup {arg}
            /\ slot_of' = [slot_of EXCEPT ![arg] = arg]
            /\ misses' = misses + 1
       ELSE UNCHANGED <<pin, slot_of, misses>>
    /\ UNCHANGED <<block_of, ring, arena, slot_pad, clash, ioVars,
                   readerVars, lslot, hits, has_io>>

\* The end of a read the caller did itself, for a pinned block.
PinnedLoaded(ok) ==
    /\ pc = "load" /\ Pinned(arg)
    /\ IF ok
       THEN /\ pin' = pin \cup {arg}
            /\ slot_of' = [slot_of EXCEPT ![arg] = arg]
            /\ misses' = misses + 1
            /\ pc' = "have" /\ UNCHANGED <<arg, ptrVars>>
       ELSE ReturnNull /\ UNCHANGED <<pin, slot_of, misses>>
    /\ UNCHANGED <<block_of, ring, arena, slot_pad, clash, ioVars,
                   readerVars, lslot, hits, has_io>>

\* The end of a read the caller did itself, into a ring slot.
Loaded(ok) ==
    /\ pc = "load" /\ ~Pinned(arg)
    /\ EndWrite(arg, lslot, ok)
    /\ IF ok
       THEN /\ slot_pad' = [slot_pad EXCEPT ![lslot] = arg]
            /\ block_of' = [block_of EXCEPT ![lslot] = arg]
            /\ slot_of' = [slot_of EXCEPT ![arg] = lslot]
            /\ misses' = misses + 1
            /\ ReturnSlot(arg, lslot, arg)
       ELSE ReturnNull /\ UNCHANGED <<slot_pad, block_of, slot_of, misses>>
    /\ UNCHANGED <<ring, pin, clash, ioVars, readerVars, lslot, hits, has_io>>

\* eng_streamer_prefetch, when it has something to do.
PrefetchClaim(b) ==
    /\ Callable
    /\ b \in Blocks /\ ~Pinned(b) /\ has_io
    /\ ~Resident(b)
    /\ ~busy /\ ~done /\ slot_of[b] = None
    /\ Claim(ring)
    /\ io_block' = b /\ io_slot' = ring
    /\ done' = FALSE /\ busy' = TRUE
    /\ UNCHANGED <<bufVars, stop, result, readerVars, callVars, ptrVars,
                   countVars, has_io>>

\* eng_streamer_prefetch, when one of its early returns applies.
PrefetchSkips(b) ==
    b \in Blocks => \/ Pinned(b)
                    \/ ~has_io
                    \/ Resident(b)
                    \/ busy \/ done \/ slot_of[b] # None

\* eng_streamer_destroy: ask the reader to stop, then wait for it.
Destroy ==
    /\ Callable
    /\ stop' = has_io
    /\ pc' = "join"
    /\ held' = None /\ hslot' = None /\ hpad' = None
    /\ UNCHANGED <<indexVars, bufVars, busy, done, io_block, io_slot, result,
                   readerVars, arg, lslot, countVars, has_io>>

\* Mutant: the buffers are freed without waiting for the reader.
JoinSkipsWait ==
    /\ pc = "join"
    /\ pc' = "freed"
    /\ UNCHANGED <<indexVars, bufVars, ioVars, readerVars, arg, lslot,
                   ptrVars, countVars, has_io>>

\* The join returns and every buffer is freed.
Join ==
    /\ pc = "join"
    /\ has_io => reader = "exit"
    /\ pc' = "freed"
    /\ UNCHANGED <<indexVars, bufVars, ioVars, readerVars, arg, lslot,
                   ptrVars, countVars, has_io>>

\* The end of a call that waits: on the reader, or on a read of its own.
CallReturns ==
    \/ Collect
    \/ \E ok \in BOOLEAN : PinnedLoaded(ok) \/ Loaded(ok)
    \/ Join

-----------------------------------------------------------------------------
(* A caller that makes any call in any order.                              *)

CallArgs == -1..NBlocks

Next ==
    \/ Reader
    \/ CallReturns
    \/ \E b \in CallArgs : \/ hits + misses < MaxGets /\ Get(b)
                          \/ PrefetchClaim(b)
    \/ Destroy

Spec == Init /\ [][Next]_vars

-----------------------------------------------------------------------------
(* Properties.                                                             *)

\* Every variable of the streamer stays in its domain.
TypeOK ==
    /\ block_of \in [Slots -> Blocks \cup {None}]
    /\ slot_of \in [Blocks -> Int]
    /\ ring \in Slots
    /\ arena \in [Slots -> Blocks \cup {None}]
    /\ slot_pad \in [Slots -> Blocks \cup {None}]
    /\ pin \in SUBSET Blocks
    /\ clash \in SUBSET Slots
    /\ has_io \in BOOLEAN
    /\ busy \in BOOLEAN /\ done \in BOOLEAN /\ stop \in BOOLEAN
    /\ result \in BOOLEAN
    /\ io_block \in Blocks /\ io_slot \in Slots
    /\ reader \in {"none", "wait", "read", "exit"}
    /\ rblock \in Blocks \cup {None} /\ rslot \in Slots \cup {None}
    /\ reader = "read" => rblock \in Blocks /\ rslot \in Slots
    /\ pc \in {"idle", "collect", "load", "have", "null", "join", "freed"}
    /\ arg \in Blocks \cup {None} /\ lslot \in Slots \cup {None}
    /\ pc \in {"collect", "load"} => arg \in Blocks
    /\ pc = "load" /\ ~Pinned(arg) => lslot \in Slots
    /\ held \in Blocks \cup {None} /\ hslot \in Slots \cup {None}
    /\ hpad \in Blocks \cup {None}
    /\ held # None => hslot \in Slots
    /\ hits \in Nat /\ misses \in Nat

\* The pointer eng_streamer_get returned for a ring block addresses that
\* block's bytes, at that block's payload offset, until the caller asks for
\* another ring block: no prefetch may read over it in the meantime.
PointerValid == held # None => arena[hslot] = held /\ hpad = held

\* Where the index says a block is, its bytes and its payload offset are;
\* block_of and slot_of agree; a pinned block is marked loaded only if its
\* buffer was filled.  A failed read leaves no entry behind.
IndexTruth ==
    /\ \A s \in Slots : block_of[s] # None =>
         /\ arena[s] = block_of[s] /\ slot_pad[s] = block_of[s]
         /\ slot_of[block_of[s]] = s
    /\ \A b \in Blocks : slot_of[b] # None =>
         IF Pinned(b) THEN b \in pin /\ slot_of[b] = b
         ELSE slot_of[b] \in Slots /\ block_of[slot_of[b]] = b

\* The slot reserved for the reader is nobody else's while busy is set: the
\* caller does not read into it, the index has no entry for it, and the
\* caller's pointer does not address it.
SlotExclusive ==
    /\ clash = {}
    /\ busy => /\ ~CallerWrites(io_slot)
               /\ block_of[io_slot] = None
               /\ held # None => hslot # io_slot

\* eng_streamer_destroy frees nothing the reader still uses: it returns only
\* after the reader left its loop, whatever read was in flight.
FreedQuiet == pc = "freed" => reader \in {"none", "exit"}

\* Calls return.  A get that waits on the reader, or reads, ends: io_collect
\* never misses the reader's completion, whether the read succeeded or not.
\* eng_streamer_destroy ends, even with a prefetch in flight.
CallsReturn ==
    /\ pc \in {"collect", "load"} ~> pc \in {"have", "null"}
    /\ pc = "join" ~> pc = "freed"
=============================================================================
