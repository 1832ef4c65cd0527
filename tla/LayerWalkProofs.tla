-------------------------- MODULE LayerWalkProofs ---------------------------
(***************************************************************************)
(* First what holds of the streamer whatever calls are made, in whatever   *)
(* order, for every number of blocks, pinned blocks and ring slots.  Then  *)
(* the layer loops: they keep the streamer's discipline when the loop      *)
(* covers every packed layer and a failed decode is not retried.           *)
(*                                                                         *)
(* The second argument is about where the ring is when a hint claims a     *)
(* slot.  With more streamed blocks than slots (cycling), slots are        *)
(* claimed in walk order, so the ring points past the slot in use.  With   *)
(* as many slots as streamed blocks or more (filling), block NPin + s goes *)
(* to slot s, and once all are there nothing is claimed again.             *)
(***************************************************************************)
EXTENDS LayerWalk, TLAPS

-----------------------------------------------------------------------------
(* The streamer: types.                                                    *)

\* The next ring index, without the remainder.
LEMMA RingNext ==
    ASSUME NEW r \in Slots
    PROVE  /\ (r + 1) % NSlot = IF r + 1 = NSlot THEN 0 ELSE r + 1
           /\ (r + 1) % NSlot \in Slots
  BY StreamerAssumption DEF Slots

\* What the streamer does in one step, whoever calls it.
StreamerNext == \/ Reader \/ CallReturns \/ Destroy \/ UNCHANGED vars
                \/ \E b \in Int : Get(b) \/ PrefetchClaim(b)

\* The free caller takes only such steps.
LEMMA NextIsStreamerNext == [Next]_vars => StreamerNext
  BY StreamerAssumption DEF Next, StreamerNext, CallArgs

\* Initially every variable is in its domain.
LEMMA InitType == Init => TypeOK
<1> SUFFICES ASSUME Init PROVE TypeOK
  OBVIOUS
<1>1. /\ busy \in BOOLEAN /\ done \in BOOLEAN /\ stop \in BOOLEAN
      /\ result \in BOOLEAN /\ has_io \in BOOLEAN
  BY Zenon DEF Init, ReaderStarts
<1>2. reader \in {"none", "wait"}
  BY DEF Init
<1> QED
  BY <1>1, <1>2, StreamerAssumption DEF Init, TypeOK, Slots, Blocks, None

\* Claiming a slot keeps the index in its domain.
LEMMA ClaimType ==
    ASSUME TypeOK, Claim(ring)
    PROVE  /\ ring' \in Slots
           /\ slot_of' \in [Blocks -> Int]
           /\ block_of' \in [Slots -> Blocks \cup {None}]
  BY RingNext DEF TypeOK, Claim, None, Blocks

\* So does a read, for the arena.
LEMMA BeginWriteType ==
    ASSUME TypeOK, NEW s \in Slots, NEW o \in BOOLEAN, BeginWrite(s, o)
    PROVE  /\ arena' \in [Slots -> Blocks \cup {None}]
           /\ clash' \in SUBSET Slots
  BY DEF TypeOK, BeginWrite

\* Its end as well.
LEMMA EndWriteType ==
    ASSUME TypeOK, NEW s \in Slots, NEW b \in Blocks, NEW ok \in BOOLEAN,
           EndWrite(b, s, ok)
    PROVE  arena' \in [Slots -> Blocks \cup {None}]
  BY DEF TypeOK, EndWrite

\* Every step keeps every variable in its domain.
LEMMA TypeStep == TypeOK /\ StreamerNext => TypeOK'
<1> SUFFICES ASSUME TypeOK, StreamerNext PROVE TypeOK'
  OBVIOUS
<1> USE DEF indexVars, bufVars, ioVars, readerVars, callVars, ptrVars, countVars
<1>1. CASE ReaderTake
  <2>1. /\ arena' \in [Slots -> Blocks \cup {None}]
        /\ clash' \in SUBSET Slots
    BY Zenon, <1>1, BeginWriteType DEF ReaderTake, TypeOK, CallerWrites
  <2> QED
    BY <1>1, <2>1 DEF ReaderTake, TypeOK
<1>2. ASSUME NEW ok \in BOOLEAN, ReaderDone(ok) PROVE TypeOK'
  <2>1. arena' \in [Slots -> Blocks \cup {None}]
    BY <1>2, EndWriteType DEF ReaderDone, TypeOK
  <2>2. result' \in BOOLEAN /\ done' \in BOOLEAN /\ busy' \in BOOLEAN
    BY Zenon, <1>2 DEF ReaderDone
  <2>3. slot_pad' \in [Slots -> Blocks \cup {None}]
    BY <1>2 DEF ReaderDone, TypeOK
  <2> QED
    BY <1>2, <2>1, <2>2, <2>3 DEF ReaderDone, TypeOK
<1>3. CASE ReaderExit
  BY <1>3 DEF ReaderExit, TypeOK
<1>4. CASE Collect
  <2>1. done' \in BOOLEAN
    BY Zenon, <1>4 DEF Collect
  <2>2. CASE result
    BY <1>4, <2>1, <2>2 DEF Collect, TypeOK, ReturnSlot, Slots
  <2>3. CASE ~result
    BY <1>4, <2>1, <2>3 DEF Collect, TypeOK, ReturnNull
  <2> QED
    BY <2>2, <2>3
<1>5. ASSUME NEW ok \in BOOLEAN, PinnedLoaded(ok) PROVE TypeOK'
  <2>1. CASE ok
    <3>1. /\ arg \in Blocks /\ arg \in Int
          /\ pin' = pin \cup {arg} /\ slot_of' = [slot_of EXCEPT ![arg] = arg]
          /\ misses' = misses + 1 /\ pc' = "have"
          /\ UNCHANGED <<arg, ptrVars>>
      BY <1>5, <2>1 DEF PinnedLoaded, TypeOK, Blocks
    <3>2. slot_of' \in [Blocks -> Int] /\ pin' \in SUBSET Blocks
      BY <3>1 DEF TypeOK
    <3> QED
      BY <1>5, <3>1, <3>2 DEF PinnedLoaded, TypeOK
  <2>2. CASE ~ok
    BY <1>5, <2>2 DEF PinnedLoaded, TypeOK, ReturnNull
  <2> QED
    BY <2>1, <2>2
<1>6. ASSUME NEW ok \in BOOLEAN, Loaded(ok) PROVE TypeOK'
  <2>1. arena' \in [Slots -> Blocks \cup {None}]
    BY <1>6, EndWriteType DEF Loaded, TypeOK
  <2>2. CASE ok
    <3>1. /\ arg \in Blocks /\ lslot \in Slots /\ lslot \in Int
          /\ slot_pad' = [slot_pad EXCEPT ![lslot] = arg]
          /\ block_of' = [block_of EXCEPT ![lslot] = arg]
          /\ slot_of' = [slot_of EXCEPT ![arg] = lslot]
          /\ misses' = misses + 1
          /\ ReturnSlot(arg, lslot, arg)
      BY <1>6, <2>2 DEF Loaded, TypeOK, Slots
    <3> QED
      BY <1>6, <2>1, <3>1 DEF Loaded, TypeOK, ReturnSlot
  <2>3. CASE ~ok
    BY <1>6, <2>1, <2>3 DEF Loaded, TypeOK, ReturnNull
  <2> QED
    BY <2>2, <2>3
<1>7. CASE Join
  BY <1>7 DEF Join, TypeOK
<1>8. CASE Destroy
  BY <1>8 DEF Destroy, TypeOK
<1>9. ASSUME NEW b \in Int, Get(b) PROVE TypeOK'
  <2>1. CASE GetOutOfRange(b)
    BY <2>1 DEF GetOutOfRange, ReturnNull, TypeOK
  <2>2. CASE GetPinnedHit(b)
    BY <2>2 DEF GetPinnedHit, TypeOK
  <2>3. CASE GetPinnedLoad(b)
    BY <2>3 DEF GetPinnedLoad, TypeOK
  <2>4. CASE GetCollect(b)
    BY <2>4 DEF GetCollect, TypeOK, None
  <2>5. CASE GetHit(b)
    BY <2>5 DEF GetHit, ReturnSlot, TypeOK
  <2>6. CASE GetMiss(b)
    <3>1. /\ arena' \in [Slots -> Blocks \cup {None}]
          /\ clash' \in SUBSET Slots
      BY Zenon, <2>6, BeginWriteType DEF GetMiss, TypeOK, ReaderWrites
    <3>2. /\ ring' \in Slots
          /\ slot_of' \in [Blocks -> Int]
          /\ block_of' \in [Slots -> Blocks \cup {None}]
      BY <2>6, ClaimType DEF GetMiss
    <3> QED
      BY <2>6, <3>1, <3>2 DEF GetMiss, TypeOK, None
  <2> QED
    BY <1>9, <2>1, <2>2, <2>3, <2>4, <2>5, <2>6 DEF Get
<1>10. ASSUME NEW b \in Int, PrefetchClaim(b) PROVE TypeOK'
  <2>1. /\ ring' \in Slots
        /\ slot_of' \in [Blocks -> Int]
        /\ block_of' \in [Slots -> Blocks \cup {None}]
    BY <1>10, ClaimType DEF PrefetchClaim
  <2>2. done' \in BOOLEAN /\ busy' \in BOOLEAN
    BY Zenon, <1>10 DEF PrefetchClaim
  <2> QED
    BY <1>10, <2>1, <2>2 DEF PrefetchClaim, TypeOK
<1>11. CASE UNCHANGED vars
  BY <1>11 DEF vars, TypeOK
<1> QED
  BY <1>1, <1>2, <1>3, <1>4, <1>5, <1>6, <1>7, <1>8, <1>9, <1>10, <1>11
     DEF StreamerNext, Reader, CallReturns

\* For every geometry and every order of calls, the streamer's state stays
\* well formed.
THEOREM TypeCorrect == Spec => []TypeOK
  BY InitType, TypeStep, NextIsStreamerNext, PTL DEF Spec

-----------------------------------------------------------------------------
(* The streamer: the reader and the waits.                                 *)

\* How the flags of StreamIO, the reader and the caller go together.
ReaderInv ==
    /\ (reader = "none") <=> ~has_io
    /\ ~has_io => ~busy /\ ~done /\ ~stop
    /\ has_io => NSlot >= 2
    /\ reader = "read" => busy /\ rblock = io_block /\ rslot = io_slot
    /\ ~(busy /\ done)
    /\ reader = "exit" => stop
    /\ stop => pc \in {"join", "freed"}
    /\ pc = "collect" => has_io /\ (busy \/ done) /\ io_block = arg
    /\ FreedQuiet

\* A new streamer has no work for its reader.
LEMMA InitReader == Init => ReaderInv
  BY Zenon DEF Init, ReaderInv, FreedQuiet, ReaderStarts

\* Every step keeps the flags, the reader and the caller in agreement.
LEMMA ReaderStep == TypeOK /\ ReaderInv /\ StreamerNext => ReaderInv'
<1> SUFFICES ASSUME TypeOK, ReaderInv, StreamerNext PROVE ReaderInv'
  OBVIOUS
<1> USE DEF ReaderInv, FreedQuiet, indexVars, bufVars, ioVars, readerVars,
            callVars, ptrVars, countVars
<1>1. CASE ReaderTake
  BY <1>1 DEF ReaderTake
<1>2. ASSUME NEW ok \in BOOLEAN, ReaderDone(ok) PROVE ReaderInv'
  BY <1>2 DEF ReaderDone
<1>3. CASE ReaderExit
  BY <1>3 DEF ReaderExit
<1>4. CASE Collect
  BY <1>4 DEF Collect, ReturnSlot, ReturnNull
<1>5. ASSUME NEW ok \in BOOLEAN, PinnedLoaded(ok) PROVE ReaderInv'
  BY <1>5 DEF PinnedLoaded, ReturnNull
<1>6. ASSUME NEW ok \in BOOLEAN, Loaded(ok) PROVE ReaderInv'
  BY <1>6 DEF Loaded, ReturnSlot, ReturnNull
<1>7. CASE Join
  BY <1>7 DEF Join
<1>8. CASE Destroy
  BY <1>8 DEF Destroy, Callable
<1>9. ASSUME NEW b \in Int, Get(b) PROVE ReaderInv'
  <2>1. /\ UNCHANGED <<has_io, busy, done, stop, io_block, io_slot, reader, rblock, rslot>>
        /\ pc \notin {"join", "freed"} /\ pc' \in {"have", "null", "load", "collect"}
    BY Zenon, <1>9 DEF Get, GetOutOfRange, GetPinnedHit, GetPinnedLoad, GetCollect,
         GetHit, GetMiss, ReturnNull, ReturnSlot, Callable
  <2>2. pc' = "collect" => has_io /\ (busy \/ done) /\ io_block = arg'
    BY Zenon, <1>9 DEF Get, GetOutOfRange, GetPinnedHit, GetPinnedLoad, GetCollect,
         GetHit, GetMiss, ReturnNull, ReturnSlot, Outstanding
  <2>3. ~stop /\ pc' \notin {"join", "freed"}
    BY Zenon, <2>1
  <2> QED
    BY Zenon, <2>1, <2>2, <2>3
<1>10. ASSUME NEW b \in Int, PrefetchClaim(b) PROVE ReaderInv'
  BY Zenon, <1>10 DEF PrefetchClaim, Callable
<1>11. CASE UNCHANGED vars
  BY <1>11 DEF vars
<1> QED
  BY Zenon, <1>1, <1>2, <1>3, <1>4, <1>5, <1>6, <1>7, <1>8, <1>9, <1>10, <1>11
     DEF StreamerNext, Reader, CallReturns

\* Whatever the calls, destroy frees the buffers only when the reader has
\* left its loop.
THEOREM FreedIsQuiet == Spec => []FreedQuiet
<1>1. TypeOK /\ ReaderInv /\ [Next]_vars => (TypeOK /\ ReaderInv)'
  BY TypeStep, ReaderStep, NextIsStreamerNext
<1>2. ReaderInv => FreedQuiet
  BY DEF ReaderInv
<1> QED
  BY <1>1, <1>2, InitType, InitReader, PTL DEF Spec

-----------------------------------------------------------------------------
(* The streamer: which callers are safe.                                   *)

\* The streamer does not itself check that a slot it claims is free.  What
\* makes a step safe: a get that misses comes with no prefetch outstanding,
\* and a prefetch does not claim the slot of the caller's pointer.
Discipline ==
    /\ (\E b \in Int : GetMiss(b)) => ~busy /\ ~done
    /\ (\E b \in Int : PrefetchClaim(b)) => held = None \/ hslot # ring

LoadingRing == pc = "load" /\ ~Pinned(arg)

\* The slot promised to the reader is out of everyone's sight, and holds its
\* block once the read succeeded.
PromisedSlot ==
    /\ busy \/ done => /\ block_of[io_slot] = None
                       /\ held # None => hslot # io_slot
                       /\ slot_of[io_block] = None
                       /\ ~Pinned(io_block)
                       /\ ~LoadingRing
    /\ done /\ result => arena[io_slot] = io_block /\ slot_pad[io_slot] = io_block

\* So is the slot the caller reads into.
LoadingSlot ==
    /\ LoadingRing => block_of[lslot] = None /\ slot_of[arg] = None /\ held = None
    /\ pc = "load" /\ Pinned(arg) => lslot = None /\ slot_of[arg] = None
    /\ pc = "collect" => held = None

\* The inductive invariant.
SafeInv ==
    /\ TypeOK /\ ReaderInv
    /\ IndexTruth /\ PointerValid
    /\ clash = {}
    /\ PromisedSlot /\ LoadingSlot

\* It gives every safety property of the streamer.
LEMMA SafeImplies == SafeInv => PointerValid /\ IndexTruth /\ SlotExclusive
  BY DEF SafeInv, SlotExclusive, PromisedSlot, LoadingSlot, LoadingRing,
         CallerWrites, TypeOK, Slots, None

\* A new streamer satisfies it.
LEMMA InitSafe == Init => SafeInv
<1> SUFFICES ASSUME Init PROVE SafeInv
  OBVIOUS
<1>1. TypeOK /\ ReaderInv
  BY InitType, InitReader
<1>2. IndexTruth
  BY DEF Init, IndexTruth
<1> QED
  BY <1>1, <1>2 DEF Init, SafeInv, PointerValid, PromisedSlot, LoadingSlot,
                    LoadingRing

\* A step of the reader writes only the slot it was promised.
LEMMA SafeReaderTake == SafeInv /\ ReaderTake => SafeInv'
<1> SUFFICES ASSUME SafeInv, ReaderTake PROVE SafeInv'
  OBVIOUS
<1> USE DEF indexVars, ioVars, callVars, ptrVars, countVars
<1>1. (TypeOK /\ ReaderInv)'
  BY TypeStep, ReaderStep DEF SafeInv, StreamerNext, Reader
<1>2. clash' = {}
  BY DEF SafeInv, ReaderTake, BeginWrite, CallerWrites, PromisedSlot,
         LoadingSlot, LoadingRing, TypeOK, Slots, None
<1>3. /\ arena' = [arena EXCEPT ![io_slot] = None]
      /\ io_slot \in Slots /\ arena \in [Slots -> Blocks \cup {None}]
      /\ block_of[io_slot] = None /\ busy /\ ~done
      /\ held # None => hslot # io_slot /\ hslot \in Slots
  BY DEF SafeInv, ReaderTake, BeginWrite, PromisedSlot, TypeOK, ReaderInv
<1>4. IndexTruth'
  BY Zenon, <1>3 DEF SafeInv, IndexTruth, ReaderTake
<1>5. PointerValid'
  BY Zenon, <1>3 DEF SafeInv, PointerValid, ReaderTake
<1>6. (PromisedSlot /\ LoadingSlot)'
  BY <1>3 DEF SafeInv, PromisedSlot, LoadingSlot, LoadingRing, ReaderTake
<1> QED
  BY <1>1, <1>2, <1>4, <1>5, <1>6 DEF SafeInv

\* When its read ends, the promised slot holds the block or nothing.
LEMMA SafeReaderDone ==
    ASSUME NEW ok \in BOOLEAN
    PROVE  SafeInv /\ ReaderDone(ok) => SafeInv'
<1> SUFFICES ASSUME SafeInv, ReaderDone(ok) PROVE SafeInv'
  OBVIOUS
<1> USE DEF indexVars, callVars, ptrVars, countVars
<1>1. (TypeOK /\ ReaderInv)'
  BY TypeStep, ReaderStep DEF SafeInv, StreamerNext, Reader
<1>2. /\ busy /\ ~done /\ rblock = io_block /\ rslot = io_slot
      /\ io_slot \in Slots /\ io_block \in Blocks
      /\ arena \in [Slots -> Blocks \cup {None}]
      /\ slot_pad \in [Slots -> Blocks \cup {None}]
      /\ block_of[io_slot] = None
      /\ held # None => hslot # io_slot /\ hslot \in Slots
  BY DEF SafeInv, ReaderDone, PromisedSlot, TypeOK, ReaderInv
<1>3. /\ \A s \in Slots : s # io_slot => arena'[s] = arena[s] /\ slot_pad'[s] = slot_pad[s]
      /\ ok => arena'[io_slot] = io_block /\ slot_pad'[io_slot] = io_block
  BY <1>2 DEF SafeInv, ReaderDone, EndWrite
<1>4. IndexTruth'
  <2>1. UNCHANGED <<block_of, slot_of, pin>> /\ IndexTruth
    BY DEF SafeInv, ReaderDone
  <2>2. \A s \in Slots : block_of[s] # None => s # io_slot
    BY <1>2
  <2> QED
    BY <1>3, <2>1, <2>2 DEF IndexTruth
<1>5. PointerValid'
  BY <1>2, <1>3 DEF SafeInv, PointerValid, ReaderDone
<1>6. (PromisedSlot /\ LoadingSlot)'
  BY Zenon, <1>2, <1>3 DEF SafeInv, PromisedSlot, LoadingSlot, LoadingRing, ReaderDone
<1> QED
  BY <1>1, <1>4, <1>5, <1>6 DEF SafeInv, ReaderDone

\* Publishing block b in slot s, which was empty and now holds b's bytes,
\* keeps the index true.
LEMMA PublishIsTrue ==
    ASSUME TypeOK, IndexTruth,
           NEW s \in Slots, NEW b \in Blocks, ~Pinned(b),
           block_of[s] = None, slot_of[b] = None,
           block_of' = [block_of EXCEPT ![s] = b],
           slot_of' = [slot_of EXCEPT ![b] = s],
           arena'[s] = b, slot_pad'[s] = b, pin' = pin,
           \A t \in Slots : t # s => arena'[t] = arena[t] /\ slot_pad'[t] = slot_pad[t]
    PROVE  IndexTruth'
<1>1. /\ block_of \in [Slots -> Blocks \cup {None}] /\ slot_of \in [Blocks -> Int]
      /\ s # None /\ b # None
  BY DEF TypeOK, Slots, Blocks, None
<1>2. ASSUME NEW t \in Slots, block_of'[t] # None
      PROVE  /\ arena'[t] = block_of'[t] /\ slot_pad'[t] = block_of'[t]
             /\ slot_of'[block_of'[t]] = t
  <2>1. CASE t = s
    BY <1>1, <2>1
  <2>2. CASE t # s
    <3>1. block_of'[t] = block_of[t] /\ block_of[t] \in Blocks /\ block_of[t] # b
      BY <1>1, <1>2, <2>2 DEF IndexTruth, Slots, None
    <3> QED
      BY <1>1, <1>2, <2>2, <3>1 DEF IndexTruth
  <2> QED
    BY <2>1, <2>2
<1>3. ASSUME NEW c \in Blocks, slot_of'[c] # None
      PROVE  IF Pinned(c) THEN c \in pin' /\ slot_of'[c] = c
             ELSE slot_of'[c] \in Slots /\ block_of'[slot_of'[c]] = c
  <2>1. CASE c = b
    BY <1>1, <2>1
  <2>2. CASE c # b
    <3>1. slot_of'[c] = slot_of[c] /\ slot_of[c] # None
      BY <1>1, <1>3, <2>2
    <3>2. CASE Pinned(c)
      BY <3>1, <3>2 DEF IndexTruth
    <3>3. CASE ~Pinned(c)
      <4>1. slot_of[c] \in Slots /\ block_of[slot_of[c]] = c /\ slot_of[c] # s
        BY <1>1, <3>1, <3>3 DEF IndexTruth, Blocks, None
      <4> QED
        BY <1>1, <3>1, <3>3, <4>1
    <3> QED
      BY <3>2, <3>3
  <2> QED
    BY <2>1, <2>2
<1> QED
  BY Zenon, <1>2, <1>3 DEF IndexTruth

\* Collecting a prefetch publishes its block, or drops it if the read failed.
LEMMA SafeCollect == SafeInv /\ Collect => SafeInv'
<1> SUFFICES ASSUME SafeInv, Collect PROVE SafeInv'
  OBVIOUS
<1> USE DEF bufVars, readerVars
<1>1. (TypeOK /\ ReaderInv)'
  BY TypeStep, ReaderStep DEF SafeInv, StreamerNext, CallReturns
<1>2. /\ done /\ ~busy /\ io_block = arg /\ ~Pinned(arg)
      /\ io_slot \in Slots /\ io_slot # None /\ arg \in Blocks /\ arg # None
      /\ block_of \in [Slots -> Blocks \cup {None}] /\ slot_of \in [Blocks -> Int]
      /\ block_of[io_slot] = None /\ slot_of[arg] = None /\ held = None
      /\ ~done' /\ ~busy'
      /\ result => arena[io_slot] = arg /\ slot_pad[io_slot] = arg
  <2>1. None \notin Slots /\ None \notin Blocks
    BY DEF Slots, Blocks, None
  <2> QED
    BY Zenon, <2>1 DEF SafeInv, Collect, PromisedSlot, LoadingSlot, TypeOK, ReaderInv
<1>3. CASE result
  <2>1. /\ block_of' = [block_of EXCEPT ![io_slot] = arg]
        /\ slot_of' = [slot_of EXCEPT ![arg] = io_slot]
        /\ pc' = "have" /\ held' = arg /\ hslot' = io_slot
        /\ hpad' = slot_pad[io_slot]
        /\ UNCHANGED <<arena, slot_pad, pin, clash>>
    BY Zenon, <1>3 DEF Collect, ReturnSlot
  <2>2. IndexTruth'
    BY Zenon, <1>2, <1>3, <2>1, PublishIsTrue DEF SafeInv
  <2>3. PointerValid'
    BY <1>2, <1>3, <2>1 DEF PointerValid
  <2> QED
    BY <1>1, <1>2, <2>1, <2>2, <2>3
       DEF SafeInv, PromisedSlot, LoadingSlot, LoadingRing
<1>4. CASE ~result
  <2>1. /\ pc' = "null"
        /\ UNCHANGED <<block_of, slot_of, arena, slot_pad, pin, clash, held,
                       hslot, hpad>>
    BY Zenon, <1>4 DEF Collect, ReturnNull, ptrVars
  <2> QED
    BY <1>1, <1>2, <2>1
       DEF SafeInv, PromisedSlot, LoadingSlot, LoadingRing, IndexTruth, PointerValid
<1> QED
  BY <1>3, <1>4

\* So does the end of the caller's own read of a ring block.
LEMMA SafeLoaded ==
    ASSUME NEW ok \in BOOLEAN
    PROVE  SafeInv /\ Loaded(ok) => SafeInv'
<1> SUFFICES ASSUME SafeInv, Loaded(ok) PROVE SafeInv'
  OBVIOUS
<1> USE DEF ioVars, readerVars
<1>1. (TypeOK /\ ReaderInv)'
  BY TypeStep, ReaderStep DEF SafeInv, StreamerNext, CallReturns
<1>a. pc = "load" /\ ~Pinned(arg) /\ UNCHANGED <<busy, done, clash, pin>>
  BY DEF Loaded
<1>b. PromisedSlot /\ LoadingSlot /\ LoadingRing /\ TypeOK /\ clash = {}
  BY <1>a DEF SafeInv, LoadingRing
<1>c. /\ lslot \in Slots /\ arg \in Blocks
      /\ block_of \in [Slots -> Blocks \cup {None}] /\ slot_of \in [Blocks -> Int]
      /\ arena \in [Slots -> Blocks \cup {None}]
      /\ slot_pad \in [Slots -> Blocks \cup {None}]
  BY <1>a, <1>b DEF TypeOK
<1>d. lslot # None /\ arg # None
  BY <1>c DEF Slots, Blocks, None
<1>e. ~busy /\ ~done /\ block_of[lslot] = None /\ slot_of[arg] = None /\ held = None
  BY <1>a, <1>b DEF PromisedSlot, LoadingSlot
<1>2. /\ ~busy /\ ~done /\ ~Pinned(arg)
      /\ lslot \in Slots /\ lslot # None /\ arg \in Blocks /\ arg # None
      /\ block_of \in [Slots -> Blocks \cup {None}] /\ slot_of \in [Blocks -> Int]
      /\ arena \in [Slots -> Blocks \cup {None}]
      /\ slot_pad \in [Slots -> Blocks \cup {None}]
      /\ block_of[lslot] = None /\ slot_of[arg] = None /\ held = None
      /\ ~done' /\ ~busy' /\ clash' = {} /\ pin' = pin
  BY <1>a, <1>b, <1>c, <1>d, <1>e
<1>3. CASE ok
  <2>1. /\ block_of' = [block_of EXCEPT ![lslot] = arg]
        /\ slot_of' = [slot_of EXCEPT ![arg] = lslot]
        /\ slot_pad' = [slot_pad EXCEPT ![lslot] = arg]
        /\ pc' = "have" /\ held' = arg /\ hslot' = lslot /\ hpad' = arg
    BY <1>3 DEF Loaded, ReturnSlot
  <2>2. arena' = [arena EXCEPT ![lslot] = arg]
    BY <1>3 DEF Loaded, EndWrite, SafeInv
  <2>3. IndexTruth'
    BY Zenon, <1>2, <2>1, <2>2, PublishIsTrue DEF SafeInv
  <2>4. PointerValid'
    BY <1>2, <2>1, <2>2 DEF PointerValid
  <2> QED
    BY <1>1, <1>2, <2>1, <2>3, <2>4
       DEF SafeInv, PromisedSlot, LoadingSlot, LoadingRing
<1>4. CASE ~ok
  <2>1. /\ pc' = "null" /\ arena' = [arena EXCEPT ![lslot] = None]
        /\ UNCHANGED <<block_of, slot_of, slot_pad, held, hslot, hpad>>
    BY <1>4 DEF Loaded, ReturnNull, ptrVars, EndWrite
  <2>2. IndexTruth'
    BY <1>2, <2>1 DEF SafeInv, IndexTruth
  <2> QED
    BY <1>1, <1>2, <2>1, <2>2
       DEF SafeInv, PromisedSlot, LoadingSlot, LoadingRing, PointerValid
<1> QED
  BY <1>3, <1>4

\* Claiming a slot takes its block out of the index and touches no other.
LEMMA ClaimIsTrue ==
    ASSUME TypeOK, IndexTruth, Claim(ring), pin' = pin,
           \A t \in Slots : t # ring => arena'[t] = arena[t] /\ slot_pad'[t] = slot_pad[t]
    PROVE  /\ IndexTruth'
           /\ block_of'[ring] = None
           /\ \A t \in Slots : t # ring => block_of'[t] = block_of[t]
           /\ \A b \in Blocks : slot_of[b] = None => slot_of'[b] = None
<1>1. /\ block_of \in [Slots -> Blocks \cup {None}] /\ slot_of \in [Blocks -> Int]
      /\ ring \in Slots /\ None \notin Blocks
      /\ block_of' = [block_of EXCEPT ![ring] = None]
  BY DEF TypeOK, Claim, Blocks, None
<1>2. /\ \A b \in Blocks : b # block_of[ring] => slot_of'[b] = slot_of[b]
      /\ block_of[ring] # None => slot_of'[block_of[ring]] = None
  BY <1>1 DEF Claim
<1>3. ASSUME NEW t \in Slots, block_of'[t] # None
      PROVE  /\ arena'[t] = block_of'[t] /\ slot_pad'[t] = block_of'[t]
             /\ slot_of'[block_of'[t]] = t
  <2>1. t # ring /\ block_of'[t] = block_of[t] /\ block_of[t] \in Blocks
    BY <1>1, <1>3
  <2>2. block_of[t] # block_of[ring]
    BY <1>1, <2>1 DEF IndexTruth
  <2> QED
    BY <1>1, <1>2, <2>1, <2>2 DEF IndexTruth
<1>4. ASSUME NEW c \in Blocks, slot_of'[c] # None
      PROVE  IF Pinned(c) THEN c \in pin' /\ slot_of'[c] = c
             ELSE slot_of'[c] \in Slots /\ block_of'[slot_of'[c]] = c
  <2>1. c # block_of[ring] /\ slot_of'[c] = slot_of[c]
    BY <1>1, <1>2, <1>4
  <2>2. CASE Pinned(c)
    BY <1>4, <2>1, <2>2 DEF IndexTruth
  <2>3. CASE ~Pinned(c)
    BY <1>1, <1>4, <2>1, <2>3 DEF IndexTruth
  <2> QED
    BY <2>2, <2>3
<1> QED
  BY <1>1, <1>2, <1>3, <1>4 DEF IndexTruth

\* A block the ring does not hold has no slot.
LEMMA NotResident ==
    ASSUME TypeOK, IndexTruth, NEW b \in Blocks, ~Pinned(b), ~Resident(b)
    PROVE  slot_of[b] = None
  BY DEF TypeOK, IndexTruth, Resident

\* A get that misses with no prefetch outstanding is safe.
LEMMA SafeGetMiss ==
    ASSUME NEW b \in Int
    PROVE  SafeInv /\ GetMiss(b) /\ ~busy /\ ~done => SafeInv'
<1> SUFFICES ASSUME SafeInv, GetMiss(b), ~busy, ~done PROVE SafeInv'
  OBVIOUS
<1> USE DEF ioVars, readerVars
<1>1. (TypeOK /\ ReaderInv)'
  BY TypeStep, ReaderStep DEF SafeInv, StreamerNext, Get
<1>2. /\ b \in Blocks /\ ~Pinned(b) /\ Claim(ring) /\ pin' = pin
      /\ pc' = "load" /\ arg' = b /\ lslot' = ring /\ held' = None
      /\ slot_pad' = slot_pad /\ ~busy' /\ ~done'
      /\ arena' = [arena EXCEPT ![ring] = None]
      /\ arena \in [Slots -> Blocks \cup {None}] /\ ring \in Slots
      /\ TypeOK /\ IndexTruth
  BY DEF GetMiss, BeginWrite, SafeInv, TypeOK
<1>3. clash' = {}
  BY DEF GetMiss, BeginWrite, SafeInv, ReaderWrites, ReaderInv
<1>4. slot_of[b] = None
  BY <1>2, NotResident DEF GetMiss
<1>5. IndexTruth' /\ block_of'[ring] = None /\ slot_of'[b] = None
  BY <1>2, <1>4, ClaimIsTrue
<1> QED
  BY <1>1, <1>2, <1>3, <1>5
     DEF SafeInv, PointerValid, PromisedSlot, LoadingSlot, LoadingRing

\* A prefetch that does not claim the caller's slot is safe.
LEMMA SafePrefetch ==
    ASSUME NEW b \in Int
    PROVE  SafeInv /\ PrefetchClaim(b) /\ (held = None \/ hslot # ring) => SafeInv'
<1> SUFFICES ASSUME SafeInv, PrefetchClaim(b), held = None \/ hslot # ring
             PROVE  SafeInv'
  OBVIOUS
<1> USE DEF bufVars, callVars, ptrVars
<1>1. (TypeOK /\ ReaderInv)'
  BY TypeStep, ReaderStep DEF SafeInv, StreamerNext
<1>2. /\ b \in Blocks /\ ~Pinned(b) /\ Claim(ring) /\ slot_of[b] = None
      /\ pc \in {"idle", "have", "null"}
      /\ io_block' = b /\ io_slot' = ring /\ ~done'
      /\ UNCHANGED <<arena, slot_pad, pin, clash, pc, arg, lslot, held, hslot, hpad>>
      /\ TypeOK /\ IndexTruth
  BY DEF PrefetchClaim, Callable, SafeInv
<1>3. IndexTruth' /\ block_of'[ring] = None /\ slot_of'[b] = None
  BY Zenon, <1>2, ClaimIsTrue
<1> QED
  BY <1>1, <1>2, <1>3
     DEF SafeInv, PointerValid, PromisedSlot, LoadingSlot, LoadingRing

\* The first read of a pinned block marks it loaded when it succeeds.
LEMMA SafePinnedLoaded ==
    ASSUME NEW ok \in BOOLEAN
    PROVE  SafeInv /\ PinnedLoaded(ok) => SafeInv'
<1> SUFFICES ASSUME SafeInv, PinnedLoaded(ok) PROVE SafeInv'
  OBVIOUS
<1> USE DEF ioVars, readerVars
<1>1. (TypeOK /\ ReaderInv)'
  BY TypeStep, ReaderStep DEF SafeInv, StreamerNext, CallReturns
<1>2. /\ Pinned(arg) /\ arg \in Blocks /\ arg # None
      /\ slot_of \in [Blocks -> Int] /\ block_of \in [Slots -> Blocks \cup {None}]
      /\ pc' \in {"have", "null"}
      /\ UNCHANGED <<block_of, arena, slot_pad, clash, busy, done, io_block,
                     io_slot, result, held, hslot, hpad>>
  <2>1. None \notin Blocks
    BY DEF Blocks, None
  <2> QED
    BY Zenon, <2>1 DEF SafeInv, TypeOK, PinnedLoaded, ReturnNull, ptrVars
<1>3. CASE ok
  <2>1. pin' = pin \cup {arg} /\ slot_of' = [slot_of EXCEPT ![arg] = arg]
    BY <1>3 DEF PinnedLoaded
  <2>2. slot_of[arg] = None
    BY DEF SafeInv, LoadingSlot, PinnedLoaded
  <2>3. \A s \in Slots : block_of[s] # None => block_of[s] # arg
    BY <1>2, <2>2 DEF SafeInv, IndexTruth, Slots, None
  <2>4. \A s \in Slots : block_of[s] # None => slot_of'[block_of[s]] = slot_of[block_of[s]]
    BY <1>2, <2>1, <2>3
  <2>5. IndexTruth'
    BY <1>2, <2>1, <2>4 DEF SafeInv, IndexTruth
  <2>6. PromisedSlot'
    BY <1>2, <2>1 DEF SafeInv, PromisedSlot, LoadingRing, TypeOK
  <2> QED
    BY Zenon, <1>1, <1>2, <2>5, <2>6 DEF SafeInv, PointerValid, LoadingSlot, LoadingRing
<1>4. CASE ~ok
  <2>1. pin' = pin /\ slot_of' = slot_of
    BY <1>4 DEF PinnedLoaded
  <2> QED
    BY <1>1, <1>2, <2>1 DEF SafeInv, PointerValid, LoadingSlot, LoadingRing,
                            PromisedSlot, IndexTruth
<1> QED
  BY <1>3, <1>4

\* The other steps of a get, and a destroy, write no buffer.
LEMMA SafeOthers ==
    ASSUME NEW b \in Int
    PROVE  SafeInv /\ (\/ GetOutOfRange(b) \/ GetPinnedHit(b) \/ GetPinnedLoad(b)
                      \/ GetCollect(b) \/ GetHit(b) \/ Destroy \/ Join
                      \/ ReaderExit \/ UNCHANGED vars)
           => SafeInv'
<1> USE DEF indexVars, bufVars, ioVars, readerVars, callVars, ptrVars, countVars
<1> SUFFICES ASSUME SafeInv,
                    \/ GetOutOfRange(b) \/ GetPinnedHit(b) \/ GetPinnedLoad(b)
                    \/ GetCollect(b) \/ GetHit(b) \/ Destroy \/ Join
                    \/ ReaderExit \/ UNCHANGED vars
             PROVE  SafeInv'
  OBVIOUS
<1>1. (TypeOK /\ ReaderInv)'
  BY TypeStep, ReaderStep DEF SafeInv, StreamerNext, Get, CallReturns, Reader
<1>2. UNCHANGED <<block_of, slot_of, arena, slot_pad, pin, clash, busy, done,
                  io_block, io_slot, result>>
  BY Zenon DEF GetOutOfRange, GetPinnedHit, GetPinnedLoad, GetCollect, GetHit, Destroy,
         Join, ReaderExit, vars
<1>3. IndexTruth' /\ clash' = {}
  BY Zenon, <1>2 DEF SafeInv, IndexTruth
<1>4. CASE GetHit(b)
  <2>1. PICK s \in Slots : block_of[s] = b /\ ReturnSlot(b, s, slot_pad[s])
    BY <1>4 DEF GetHit
  <2>2. b \in Blocks /\ b # None /\ pc' = "have" /\ held' = b /\ hslot' = s /\ hpad' = slot_pad[s]
    BY <1>4, <2>1 DEF GetHit, ReturnSlot, Blocks, None
  <2>3. PointerValid'
    BY <1>2, <2>1, <2>2 DEF SafeInv, IndexTruth, PointerValid
  <2> QED
    BY Zenon, <1>1, <1>2, <1>3, <2>1, <2>2, <2>3
       DEF SafeInv, PromisedSlot, LoadingSlot, LoadingRing
<1>5. CASE GetPinnedLoad(b)
  <2>1. /\ Pinned(b) /\ slot_of[b] = None /\ pc' = "load" /\ arg' = b /\ lslot' = None
        /\ UNCHANGED <<held, hslot, hpad>>
    BY <1>5 DEF GetPinnedLoad
  <2>2. ~LoadingRing'
    BY <2>1 DEF LoadingRing, Pinned
  <2>3. PointerValid'
    BY Zenon, <1>2, <2>1 DEF SafeInv, PointerValid
  <2>4. PromisedSlot'
    BY Zenon, <1>2, <2>1, <2>2 DEF SafeInv, PromisedSlot, Pinned
  <2>5. LoadingSlot'
    BY Zenon, <1>2, <2>1, <2>2 DEF LoadingSlot
  <2> QED
    BY <1>1, <1>3, <2>3, <2>4, <2>5 DEF SafeInv
<1>6. CASE GetCollect(b) \/ Destroy
  BY Zenon, <1>1, <1>2, <1>3, <1>6
     DEF SafeInv, PromisedSlot, LoadingSlot, LoadingRing, PointerValid, GetCollect, Destroy
<1>7. CASE GetOutOfRange(b) \/ GetPinnedHit(b) \/ Join \/ ReaderExit \/ UNCHANGED vars
  BY Zenon, <1>1, <1>2, <1>3, <1>7
     DEF SafeInv, PromisedSlot, LoadingSlot, LoadingRing, PointerValid,
         GetOutOfRange, GetPinnedHit, Join, ReaderExit, vars, ReturnNull
<1> QED
  BY <1>4, <1>5, <1>6, <1>7

\* Every disciplined step is safe.
LEMMA SafeStep == SafeInv /\ StreamerNext /\ Discipline => SafeInv'
<1> SUFFICES ASSUME SafeInv, StreamerNext, Discipline PROVE SafeInv'
  OBVIOUS
<1>1. CASE Reader \/ CallReturns \/ Destroy \/ UNCHANGED vars
  BY <1>1, SafeReaderTake, SafeReaderDone, SafeCollect, SafePinnedLoaded,
     SafeLoaded, SafeOthers DEF Reader, CallReturns
<1>2. ASSUME NEW b \in Int, Get(b) PROVE SafeInv'
  BY <1>2, SafeGetMiss, SafeOthers DEF Get, Discipline
<1>3. ASSUME NEW b \in Int, PrefetchClaim(b) PROVE SafeInv'
  BY <1>3, SafePrefetch DEF Discipline
<1> QED
  BY <1>1, <1>2, <1>3 DEF StreamerNext

\* Whatever the geometry and whatever fails: a caller that keeps the
\* discipline reads the block it asked for through every pointer
\* eng_streamer_get returned and not yet given up.
THEOREM DisciplineSuffices ==
    Spec /\ [][Discipline]_vars => [](PointerValid /\ IndexTruth /\ SlotExclusive)
<1>1. SafeInv /\ [Next]_vars /\ [Discipline]_vars => SafeInv'
  BY SafeStep, SafeOthers, NextIsStreamerNext
<1> QED
  BY <1>1, InitSafe, SafeImplies, PTL DEF Spec

\* Without a reader thread no discipline is needed: the synchronous
\* streamer is right for every order of calls.
THEOREM SyncNeedsNone ==
    Spec => [](~has_io => PointerValid /\ IndexTruth)
<1> DEFINE SyncInv == TypeOK /\ ReaderInv /\ (~has_io => SafeInv)
<1>1. Init => SyncInv
  BY InitSafe DEF SafeInv
<1>2. SyncInv /\ [Next]_vars => SyncInv'
  <2> SUFFICES ASSUME SyncInv, [Next]_vars PROVE SyncInv'
    OBVIOUS
  <2>1. StreamerNext
    BY NextIsStreamerNext
  <2>2. (TypeOK /\ ReaderInv)'
    BY <2>1, TypeStep, ReaderStep
  <2>3. has_io' = has_io
    BY Zenon, <2>1 DEF StreamerNext, Reader, ReaderTake, ReaderDone, ReaderExit,
         CallReturns, Collect, PinnedLoaded, Loaded, Join, Destroy, Get,
         GetOutOfRange, GetPinnedHit, GetPinnedLoad, GetCollect, GetHit,
         GetMiss, PrefetchClaim, vars
  <2>4. ~has_io => Discipline
    BY DEF Discipline, ReaderInv, PrefetchClaim
  <2> QED
    BY <2>1, <2>2, <2>3, <2>4, SafeStep
<1>3. SyncInv => (~has_io => PointerValid /\ IndexTruth)
  BY SafeImplies
<1> QED
  BY <1>1, <1>2, <1>3, PTL DEF Spec

-----------------------------------------------------------------------------
(* The walk: its state.                                                    *)

NStream == NBlocks - NPin
Out == busy \/ done

\* A block is outstanding only if it is the next one the loop asks for.
OutInv ==
    Out => /\ wpc = "get" => pc = "collect"
           /\ wpc = "compute" => io_block = Hint(L)
           /\ wpc \in {"head", "out"} => io_block = 0

\* The loop computes on a block that get returned.
HeldInv == pc = "have" /\ wpc \in {"get", "compute"} =>
               IF Pinned(L) THEN L \in pin ELSE held = L

\* No get has failed and destroy was not called.
Live == wpc # "failed" /\ pc \notin {"null", "join", "freed"}

Wrap(r) == IF r = NSlot THEN 0 ELSE r
Prev(r) == IF r = 0 THEN NSlot - 1 ELSE r - 1

\* How many claims ago slot s was claimed.
Age(s) == IF s < ring THEN ring - 1 - s ELSE ring - 1 - s + NSlot

\* The streamed block a places before c in the walk, and the one after c.
Back(c, a) == IF c - a >= NPin THEN c - a ELSE c - a + NStream
Succ(c) == IF c = NBlocks - 1 THEN NPin ELSE c + 1

\* The streamed block last claimed.
Cur  == IF L >= NPin THEN L ELSE NBlocks - 1
Last == IF Out THEN io_block ELSE Cur

\* More streamed blocks than slots: a slot claimed a claims ago holds the
\* block a places back, and the newest slot is the one in use.
CyclingInv ==
    /\ \A s \in Slots : block_of[s] # None => block_of[s] = Back(Last, Age(s))
    /\ held # None /\ ~Out => hslot = Prev(ring)
    /\ Out => io_slot = Prev(ring)
    /\ LoadingRing => lslot = Prev(ring)

\* k blocks are in the ring, in their final slots.
Filled(k) ==
    /\ \A s \in Slots : block_of[s] = IF s < k THEN NPin + s ELSE None
    /\ held # None => hslot < k
    /\ Out \/ LoadingRing => k < NStream /\ ring = Wrap(k + 1)
    /\ Out => /\ io_block = NPin + k /\ io_slot = k
              /\ wpc = "get" \/ (wpc = "compute" /\ L + 1 = NPin + k)
    /\ LoadingRing => arg = NPin + k /\ lslot = k
    /\ k < NStream /\ ~Out /\ ~LoadingRing =>
         /\ ring = k
         /\ wpc \in {"out", "get", "compute"}
         /\ wpc = "out" => k = 0
         /\ wpc # "out" => IF L < NPin THEN k = 0 ELSE L = NPin + k - 1

FillingInv == \E k \in 0..NStream : Filled(k)

\* The layers got so far in this pass.
Got == IF wpc = "out" THEN 0
       ELSE IF wpc = "get" /\ pc # "have" THEN L ELSE L + 1

\* After p whole passes: the first missed every block and left the pinned
\* ones loaded, and each later one hits the pinned blocks, which come first.
Passes(p) ==
    /\ hits + misses = NBlocks * p + Got
    /\ p = 0 => hits = 0
    /\ p > 0 => hits = NPin * (p - 1) + (IF Got < NPin THEN Got ELSE NPin)
    /\ \A b \in Blocks : Pinned(b) => (slot_of[b] # None <=> p > 0 \/ b < Got)

CountInv ==
    /\ wpc # "failed" /\ pc # "null" => \E p \in Nat : Passes(p)
    /\ pc = "load" /\ Pinned(arg) => slot_of[arg] = None

\* The inductive invariant of the walk.
WalkInv ==
    /\ WalkTypeOK /\ SafeInv
    /\ OutInv /\ HeldInv
    /\ Live => IF NStream > NSlot THEN CyclingInv ELSE FillingInv

\* The loop covers every packed layer and failures are not retried.
Covers == NBound = NBlocks /\ ~Retry

-----------------------------------------------------------------------------
(* Arithmetic of the ring and of the walk.                                 *)

\* A claim makes every other slot one claim older.
LEMMA ClaimAges ==
    ASSUME ring \in Slots, ring' = (ring + 1) % NSlot
    PROVE  /\ \A s \in Slots : Age(s) \in 0..NSlot-1
           /\ \A s \in Slots : s # ring => Age(s)' = Age(s) + 1 /\ Age(s) + 1 < NSlot
           /\ Prev(ring)' = ring
           /\ ring' = Wrap(ring + 1)
<1>1. ring' = Wrap(ring + 1)
  BY RingNext DEF Wrap
<1>2. ring \in Int /\ NSlot \in Nat \ {0} /\ 0 <= ring /\ ring < NSlot
  BY StreamerAssumption DEF Slots
<1>3. ASSUME NEW s \in Slots
      PROVE  /\ Age(s) \in 0..NSlot-1
             /\ s # ring => Age(s)' = Age(s) + 1 /\ Age(s) + 1 < NSlot
  BY <1>1, <1>2 DEF Age, Wrap, Slots
<1>4. Prev(ring)' = ring
  BY <1>1, <1>2 DEF Prev, Wrap
<1> QED
  BY <1>1, <1>3, <1>4

\* The newest slot is the one before the ring.
LEMMA NewestAge ==
    ASSUME ring \in Slots
    PROVE  Prev(ring) \in Slots /\ Age(Prev(ring)) = 0
  BY StreamerAssumption DEF Age, Prev, Slots

\* Going one block on and one block back more is the same block.
LEMMA BackSucc ==
    ASSUME NEW c \in NPin..NBlocks-1, NEW a \in Nat, a + 1 < NStream
    PROVE  /\ Back(Succ(c), a + 1) = Back(c, a)
           /\ Back(c, a) # Succ(c)
           /\ Succ(c) \in NPin..NBlocks-1
  BY StreamerAssumption DEF Back, Succ, NStream

\* A streamed block the loop asks for, or hints, next is the successor of
\* the one it is at.
LEMMA NextInWalk ==
    ASSUME NEW b \in Blocks, ~Pinned(b), L \in 0..NBlocks-1,
           (b = 0 /\ L = NBlocks - 1) \/ b = L + 1
    PROVE  b = Succ(Cur) /\ Cur \in NPin..NBlocks-1
  BY StreamerAssumption DEF Blocks, Pinned, Succ, Cur

\* A hint that is acted on is such a block.
LEMMA HintInWalk ==
    ASSUME Covers, L \in 0..NBound-1, Hint(L) \in Blocks
    PROVE  (Hint(L) = 0 /\ L = NBlocks - 1) \/ Hint(L) = L + 1
  BY StreamerAssumption DEF Hint, Covers, Blocks

-----------------------------------------------------------------------------
(* Types.                                                                  *)

\* Each step of the walk is a step of the streamer.
LEMMA WalkIsStreamer ==
    ASSUME WalkTypeOK, [WalkNext]_allVars
    PROVE  StreamerNext
<1>1. L \in Int /\ L + 1 \in Int /\ Hint(L) \in Int /\ 0 \in Int
  BY WalkAssumption, StreamerAssumption DEF WalkTypeOK, Hint
<1> QED
  BY <1>1 DEF WalkNext, WalkStep, StartToken, EmbeddingFails, LayerFails,
       HintNext, NextLayer, LastLayer, Head, DestroyModel, StreamerStep,
       ComputeFails, allVars, StreamerNext

\* A get leaves the caller at the block it asked for, or inside the call.
LEMMA GetResult ==
    ASSUME NEW b \in Blocks, Get(b)
    PROVE  arg' = b /\ pc' \in {"collect", "load", "have"}
  BY DEF Get, GetOutOfRange, GetPinnedHit, GetPinnedLoad, GetCollect, GetHit,
         GetMiss, ReturnSlot

\* The walk's own types are kept.
LEMMA WalkTypeStep ==
    ASSUME Covers, WalkTypeOK, [WalkNext]_allVars
    PROVE  WalkTypeOK'
<1>1. TypeOK'
  BY WalkIsStreamer, TypeStep DEF WalkTypeOK
<1>2. 0 \in Blocks /\ 0 \in 0..NBound-1 /\ NBound \in Nat /\ 0..NBound-1 = Blocks
  BY WalkAssumption, StreamerAssumption DEF Blocks, Covers
<1>3. CASE StartToken
  BY <1>1, <1>2, <1>3, GetResult DEF StartToken, WalkTypeOK
<1>4. CASE NextLayer
  <2>1. L + 1 \in Blocks /\ L' = L + 1 /\ Get(L + 1) /\ wpc' = "get"
    BY <1>2, <1>4 DEF NextLayer, WalkTypeOK
  <2> QED
    BY <1>1, <1>2, <2>1, GetResult DEF WalkTypeOK
<1>5. CASE HintNext
  BY <1>1, <1>5 DEF HintNext, PrefetchClaim, WalkTypeOK, vars, callVars
<1>6. CASE LayerFails \/ LastLayer \/ Head
  <2>1. pc' = pc /\ arg' = arg /\ L' = L
    BY <1>6 DEF LayerFails, LastLayer, Head, vars, callVars
  <2>2. CASE LayerFails
    BY <1>1, <2>1, <2>2 DEF LayerFails, WalkTypeOK
  <2>3. CASE LastLayer
    BY <1>1, <1>2, <2>1, <2>3 DEF LastLayer, WalkTypeOK
  <2>4. CASE Head
    BY <1>1, <1>2, <2>1, <2>4 DEF Head, WalkTypeOK
  <2> QED
    BY <1>6, <2>2, <2>3, <2>4
<1>7. CASE EmbeddingFails
  BY <1>1, <1>7 DEF EmbeddingFails, WalkTypeOK, vars, callVars, Callable
<1>8. CASE DestroyModel
  BY <1>1, <1>8 DEF DestroyModel, Destroy, walkVars, WalkTypeOK
<1>9. CASE StreamerStep
  <2>1. wpc' = wpc /\ L' = L
    BY <1>9 DEF StreamerStep, walkVars
  <2>2. CASE Reader
    BY <1>1, <2>1, <2>2 DEF Reader, ReaderTake, ReaderDone, ReaderExit, callVars,
         WalkTypeOK
  <2>3. CASE Join
    BY <1>1, <2>1, <2>3 DEF Join, WalkTypeOK
  <2>4. CASE Collect \/ \E ok \in BOOLEAN : PinnedLoaded(ok) \/ Loaded(ok)
    <3>1. pc \in {"collect", "load"} /\ arg' = arg /\ pc' \in {"have", "null"}
      BY <2>4 DEF Collect, PinnedLoaded, Loaded, ReturnSlot, ReturnNull
    <3> QED
      BY <1>1, <2>1, <3>1 DEF WalkTypeOK
  <2> QED
    BY <1>9, <2>2, <2>3, <2>4 DEF StreamerStep, CallReturns
<1>10. CASE ComputeFails \/ UNCHANGED allVars
  BY <1>1, <1>10 DEF ComputeFails, allVars, walkVars, vars, callVars, WalkTypeOK
<1> QED
  BY <1>3, <1>4, <1>5, <1>6, <1>7, <1>8, <1>9, <1>10 DEF WalkNext, WalkStep

-----------------------------------------------------------------------------
(* The discipline.                                                         *)

\* The block the loop asks for: what StartToken and NextLayer have in common.
Asks(b) == /\ b \in Blocks
           /\ \/ wpc = "out" /\ b = 0 /\ L = NBlocks - 1
              \/ wpc = "compute" /\ b = L + 1
           /\ Get(b) /\ wpc' = "get" /\ L' = b

\* Both ask for the next block.
LEMMA WalkAsks ==
    ASSUME Covers, WalkTypeOK, StartToken \/ NextLayer
    PROVE  \E b \in Blocks : Asks(b)
<1>1. CASE StartToken
  BY <1>1, StreamerAssumption DEF StartToken, Asks, Covers, WalkTypeOK, Blocks
<1>2. CASE NextLayer
  <2>1. L + 1 \in Blocks
    BY <1>2, StreamerAssumption DEF NextLayer, Covers, WalkTypeOK, Blocks
  <2> QED
    BY <1>2, <2>1 DEF NextLayer, Asks
<1> QED
  BY <1>1, <1>2

\* An outstanding block is the one that is asked for.
LEMMA AsksOutstanding ==
    ASSUME Covers, WalkInv, NEW b \in Blocks, Asks(b), Out
    PROVE  io_block = b /\ ~Pinned(b) /\ Outstanding(b)
<1>1. io_block = b
  BY StreamerAssumption DEF WalkInv, OutInv, Asks, Hint, Covers, Blocks, WalkTypeOK
<1> QED
  BY <1>1 DEF WalkInv, SafeInv, PromisedSlot, Out, Outstanding, ReaderInv, TypeOK

\* So asking for a block is safe.
LEMMA AsksSafe ==
    ASSUME Covers, WalkInv, NEW b \in Blocks, Asks(b)
    PROVE  SafeInv'
<1>1. b \in Int /\ SafeInv /\ Get(b)
  BY DEF WalkInv, Asks, Blocks
<1>2. CASE GetMiss(b)
  <2>1. ~busy /\ ~done
    BY <1>2, AsksOutstanding DEF GetMiss, Out
  <2> QED
    BY <1>1, <1>2, <2>1, SafeGetMiss
<1> QED
  BY <1>1, <1>2, SafeOthers DEF Get

\* A hint that is acted on, when the loop is at layer L.
Hints == /\ wpc = "get" /\ pc = "have" /\ wpc' = "compute" /\ L' = L
         /\ PrefetchClaim(Hint(L))

\* With k blocks in the ring, the next block goes to slot k.
LEMMA FillNext ==
    ASSUME WalkTypeOK, NStream <= NSlot, NEW k \in 0..NStream, Filled(k),
           ~Out, ~LoadingRing, NEW b \in Blocks, ~Pinned(b),
           \/ wpc = "out" /\ b = 0 /\ L = NBlocks - 1
           \/ wpc \in {"get", "compute"} /\ b = 0 /\ L = NBlocks - 1
           \/ wpc \in {"get", "compute"} /\ b = L + 1
    PROVE  /\ k < NStream => b = NPin + k /\ ring = k /\ (wpc # "out" => b = L + 1)
           /\ k = NStream => Resident(b)
           /\ Resident(b) => k = NStream
<1>1. /\ NPin \in Nat /\ NBlocks \in Nat /\ NSlot \in Nat /\ b \in Int
      /\ NPin <= b /\ b < NBlocks /\ L \in Int /\ 0 <= L
      /\ NStream = NBlocks - NPin
  BY StreamerAssumption, WalkAssumption DEF Blocks, Pinned, NStream, WalkTypeOK
<1>2. k < NStream => b = NPin + k /\ ring = k /\ (wpc # "out" => b = L + 1)
  BY <1>1 DEF Filled
<1>3. k = NStream => Resident(b)
  <2> HAVE k = NStream
  <2>1. b - NPin \in Slots /\ b - NPin < k /\ NPin + (b - NPin) = b
    BY <1>1 DEF Slots
  <2> QED
    BY <2>1 DEF Resident, Filled
<1>4. Resident(b) => k = NStream
  <2> SUFFICES ASSUME NEW s \in Slots, block_of[s] = b, k < NStream PROVE FALSE
    BY <1>1 DEF Resident
  <2>1. block_of[s] = IF s < k THEN NPin + s ELSE None
    BY DEF Filled
  <2>2. s < k /\ b = NPin + s
    BY <1>1, <2>1 DEF None
  <2> QED
    BY <1>1, <1>2, <2>2 DEF Slots
<1> QED
  BY <1>2, <1>3, <1>4

\* The slot a hint claims is not the one in use.
LEMMA HintSafe ==
    ASSUME Covers, WalkInv, Hints
    PROVE  held = None \/ hslot # ring
<1>1. /\ ~Out /\ ~LoadingRing /\ Live /\ WalkTypeOK /\ NSlot >= 2 /\ ring \in Slots
      /\ Hint(L) \in Blocks /\ ~Pinned(Hint(L)) /\ ~Resident(Hint(L))
      /\ (Hint(L) = 0 /\ L = NBlocks - 1) \/ Hint(L) = L + 1
  BY Zenon, HintInWalk DEF Hints, PrefetchClaim, WalkInv, OutInv, Out, LoadingRing, Live,
     SafeInv, ReaderInv, WalkTypeOK, TypeOK
<1>2. CASE NStream > NSlot
  BY <1>1, <1>2, StreamerAssumption DEF WalkInv, CyclingInv, Prev, Slots
<1>3. CASE ~(NStream > NSlot)
  <2>1. PICK k \in 0..NStream : Filled(k)
    BY <1>1, <1>3 DEF WalkInv, FillingInv
  <2>2. NStream <= NSlot
    BY <1>3, StreamerAssumption DEF NStream
  <2>3. k # NStream
    BY <1>1, <2>1, <2>2, FillNext DEF Hints
  <2>4. k < NStream
    BY <2>3, StreamerAssumption DEF NStream
  <2>5. ring = k
    BY <1>1, <2>1, <2>2, <2>4, FillNext DEF Hints
  <2> QED
    BY <2>1, <2>5 DEF Filled
<1> QED
  BY <1>2, <1>3

\* Every step of the walk is safe.
LEMMA WalkSafeStep ==
    ASSUME Covers, WalkInv, [WalkNext]_allVars
    PROVE  SafeInv'
<1>1. SafeInv /\ WalkTypeOK
  BY DEF WalkInv
<1>2. CASE StartToken \/ NextLayer
  BY <1>1, <1>2, WalkAsks, AsksSafe
<1>3. CASE HintNext
  <2>1. CASE PrefetchClaim(Hint(L))
    <3>1. Hints /\ Hint(L) \in Int
      BY <1>3, <2>1 DEF HintNext, Hints, PrefetchClaim, Blocks
    <3> QED
      BY <1>1, <2>1, <3>1, HintSafe, SafePrefetch
  <2>2. CASE UNCHANGED vars
    BY <1>1, <2>2, SafeOthers
  <2> QED
    BY <1>3, <2>1, <2>2 DEF HintNext
<1>4. CASE StreamerStep
  BY <1>1, <1>4, SafeReaderTake, SafeReaderDone, SafeCollect, SafePinnedLoaded,
     SafeLoaded, SafeOthers DEF StreamerStep, Reader, CallReturns
<1>5. CASE DestroyModel
  BY <1>1, <1>5, SafeOthers DEF DestroyModel
<1>6. CASE EmbeddingFails \/ LayerFails \/ LastLayer \/ Head \/ ComputeFails \/ UNCHANGED allVars
  <2>1. UNCHANGED vars
    BY <1>6 DEF EmbeddingFails, LayerFails, LastLayer, Head, ComputeFails, allVars
  <2> QED
    BY <1>1, <2>1, SafeOthers
<1> QED
  BY <1>2, <1>3, <1>4, <1>5, <1>6 DEF WalkNext, WalkStep

\* The outstanding block is still the next one the loop asks for.
LEMMA OutStep ==
    ASSUME Covers, WalkInv, [WalkNext]_allVars
    PROVE  OutInv'
<1>1. WalkTypeOK /\ OutInv /\ ReaderInv /\ TypeOK
  BY DEF WalkInv, SafeInv
<1> USE DEF indexVars, bufVars, ioVars, readerVars, callVars, ptrVars, countVars
<1>2. ASSUME NEW b \in Blocks, Asks(b) PROVE OutInv'
  <2>1. UNCHANGED <<busy, done, io_block>>
    BY Zenon, <1>2 DEF Asks, Get, GetOutOfRange, GetPinnedHit, GetPinnedLoad, GetCollect,
         GetHit, GetMiss
  <2>2. CASE Out
    <3>1. Outstanding(b) /\ ~Pinned(b)
      BY <1>2, <2>2, AsksOutstanding
    <3>2. pc' = "collect"
      BY Zenon, <1>2, <3>1 DEF Asks, Get, GetOutOfRange, GetPinnedHit, GetPinnedLoad,
           GetCollect, GetHit, GetMiss
    <3> QED
      BY <1>2, <3>2 DEF OutInv, Asks
  <2>3. CASE ~Out
    BY <2>1, <2>3 DEF OutInv, Out
  <2> QED
    BY <2>2, <2>3
<1>3. CASE HintNext
  <2>1. CASE PrefetchClaim(Hint(L))
    BY <1>3, <2>1 DEF HintNext, PrefetchClaim, OutInv
  <2>2. CASE UNCHANGED vars
    BY <1>1, <1>3, <2>2 DEF HintNext, OutInv, Out, vars
  <2> QED
    BY <1>3, <2>1, <2>2 DEF HintNext
<1>4. CASE LastLayer
  <2>1. Hint(L) = 0 \/ Hint(L) \notin Blocks
    BY <1>4, StreamerAssumption DEF LastLayer, Hint, Covers, Blocks
  <2> QED
    BY <1>1, <1>4, <2>1 DEF LastLayer, OutInv, Out, vars, TypeOK
<1>5. CASE LayerFails \/ Head \/ EmbeddingFails
  BY <1>1, <1>5 DEF LayerFails, Head, EmbeddingFails, OutInv, Out, vars
<1>6. CASE DestroyModel
  BY <1>1, <1>6 DEF DestroyModel, Destroy, OutInv, Out, walkVars
<1>7. CASE StreamerStep
  <2>1. CASE Reader
    BY Zenon, <1>1, <1>7, <2>1 DEF StreamerStep, Reader, ReaderTake, ReaderDone,
         ReaderExit, OutInv, Out, walkVars, ReaderInv, Hint
  <2>2. CASE Collect
    BY Zenon, <1>1, <1>7, <2>2 DEF StreamerStep, Collect, OutInv, Out, walkVars, ReaderInv
  <2>3. ASSUME NEW ok \in BOOLEAN, PinnedLoaded(ok) \/ Loaded(ok) PROVE OutInv'
    <3>1. wpc = "get" /\ pc = "load" /\ UNCHANGED <<busy, done>>
      BY <1>1, <2>3 DEF PinnedLoaded, Loaded, WalkTypeOK
    <3> QED
      BY <1>1, <3>1 DEF OutInv, Out
  <2>4. CASE Join
    BY <1>1, <1>7, <2>4 DEF StreamerStep, Join, OutInv, Out, walkVars, WalkTypeOK
  <2> QED
    BY <1>7, <2>1, <2>2, <2>3, <2>4 DEF StreamerStep, CallReturns
<1>8. CASE ComputeFails \/ UNCHANGED allVars
  BY <1>1, <1>8 DEF ComputeFails, allVars, walkVars, vars, OutInv, Out, Hint
<1> QED
  BY <1>1, <1>2, <1>3, <1>4, <1>5, <1>6, <1>7, <1>8, WalkAsks
     DEF WalkNext, WalkStep

\* What get returned is what the loop asked for.
LEMMA HeldStep ==
    ASSUME Covers, WalkInv, [WalkNext]_allVars
    PROVE  HeldInv'
<1>1. WalkTypeOK /\ HeldInv /\ IndexTruth /\ TypeOK
  BY DEF WalkInv, SafeInv
<1> USE DEF indexVars, bufVars, ioVars, readerVars, callVars, ptrVars, countVars
<1>2. ASSUME NEW b \in Blocks, Asks(b) PROVE HeldInv'
  <2>1. pc' # "have" \/ (GetPinnedHit(b) /\ Pinned(b)) \/ (GetHit(b) /\ ~Pinned(b))
    BY Zenon, <1>2 DEF Asks, Get, GetOutOfRange, GetPinnedHit, GetPinnedLoad, GetCollect,
         GetHit, GetMiss
  <2>2. L' = b
    BY <1>2 DEF Asks
  <2>3. CASE pc' # "have"
    BY <2>3 DEF HeldInv
  <2>4. CASE GetPinnedHit(b) /\ Pinned(b)
    <3>1. b \in pin /\ pin' = pin
      BY Zenon, <1>1, <2>4 DEF GetPinnedHit, IndexTruth
    <3> QED
      BY <2>2, <2>4, <3>1 DEF HeldInv, Pinned
  <2>5. CASE GetHit(b) /\ ~Pinned(b)
    BY <2>2, <2>5 DEF HeldInv, GetHit, ReturnSlot, Pinned
  <2> QED
    BY <2>1, <2>3, <2>4, <2>5
<1>3. CASE HintNext
  BY <1>1, <1>3 DEF HintNext, PrefetchClaim, HeldInv, vars, Pinned
<1>4. CASE LastLayer \/ LayerFails \/ Head \/ EmbeddingFails \/ DestroyModel
  BY <1>4 DEF LastLayer, LayerFails, Head, EmbeddingFails, DestroyModel, Destroy,
       HeldInv
<1>5. CASE StreamerStep
  <2>1. wpc' = wpc /\ L' = L
    BY <1>5 DEF StreamerStep, walkVars
  <2>2. CASE Reader \/ Join
    BY <1>1, <2>1, <2>2 DEF Reader, ReaderTake, ReaderDone, ReaderExit, Join,
         HeldInv, Pinned
  <2>3. CASE Collect
    <3>1. arg = L /\ ~Pinned(arg)
      BY <1>1, <2>3 DEF WalkInv, WalkTypeOK, Collect, SafeInv, PromisedSlot, ReaderInv
    <3> QED
      BY Zenon, <2>1, <2>3, <3>1 DEF Collect, HeldInv, Pinned, ReturnSlot, ReturnNull
  <2>4. ASSUME NEW ok \in BOOLEAN, PinnedLoaded(ok) \/ Loaded(ok) PROVE HeldInv'
    <3>1. arg = L
      BY <1>1, <2>4 DEF WalkTypeOK, PinnedLoaded, Loaded
    <3>2. CASE ok
      BY Zenon, <2>1, <2>4, <3>1, <3>2 DEF PinnedLoaded, Loaded, HeldInv, Pinned, ReturnSlot
    <3>3. CASE ~ok
      BY <2>4, <3>3 DEF PinnedLoaded, Loaded, HeldInv, ReturnNull
    <3> QED
      BY <3>2, <3>3
  <2> QED
    BY <1>5, <2>2, <2>3, <2>4 DEF StreamerStep, CallReturns
<1>6. CASE ComputeFails \/ UNCHANGED allVars
  BY <1>1, <1>6 DEF ComputeFails, allVars, walkVars, vars, HeldInv, Pinned
<1> QED
  BY <1>1, <1>2, <1>3, <1>4, <1>5, <1>6, WalkAsks DEF WalkNext, WalkStep

-----------------------------------------------------------------------------
(* Cycling: more streamed blocks than slots.                               *)

\* Claiming a slot for the next block keeps every age right.
LEMMA CyclingClaim ==
    ASSUME TypeOK, NStream > NSlot, Claim(ring), NEW c \in NPin..NBlocks-1,
           \A s \in Slots : block_of[s] # None => block_of[s] = Back(c, Age(s))
    PROVE  /\ \A s \in Slots : block_of'[s] # None => block_of'[s] = Back(Succ(c), Age(s)')
           /\ Prev(ring)' = ring
<1>1. /\ ring \in Slots /\ ring' = (ring + 1) % NSlot
      /\ block_of \in [Slots -> Blocks \cup {None}]
      /\ block_of' = [block_of EXCEPT ![ring] = None]
      /\ NSlot \in Nat \ {0} /\ NStream \in Int
  BY StreamerAssumption DEF TypeOK, Claim, NStream
<1>2. ASSUME NEW s \in Slots, block_of'[s] # None
      PROVE  block_of'[s] = Back(Succ(c), Age(s)')
  <2>1. s # ring /\ block_of'[s] = block_of[s]
    BY <1>1, <1>2
  <2>2. Age(s)' = Age(s) + 1 /\ Age(s) + 1 < NSlot /\ Age(s) \in Nat
    BY <1>1, <2>1, ClaimAges
  <2>3. Age(s) + 1 < NStream
    BY <1>1, <2>2
  <2>4. Back(Succ(c), Age(s) + 1) = Back(c, Age(s))
    BY <2>2, <2>3, BackSucc
  <2> QED
    BY <1>2, <2>1, <2>2, <2>4
<1> QED
  BY <1>1, <1>2, ClaimAges

\* A walk that is live was live before.
LEMMA StillLive ==
    ASSUME Covers, WalkInv, [WalkNext]_allVars, Live'
    PROVE  Live
<1>1. WalkTypeOK
  BY DEF WalkInv
<1>2. CASE WalkStep
  <2>1. CASE StartToken
    BY <1>1, <2>1 DEF Live, Covers, WalkTypeOK, StartToken, Get, GetOutOfRange,
         GetPinnedHit, GetPinnedLoad, GetCollect, GetHit, GetMiss, Callable
  <2>2. CASE LayerFails \/ HintNext \/ NextLayer \/ LastLayer \/ Head
    BY <1>1, <2>2 DEF Live, WalkTypeOK, NextLayer, HintNext, LayerFails,
         LastLayer, Head
  <2> QED
    BY <1>2, <2>1, <2>2 DEF WalkStep
<1>3. CASE EmbeddingFails \/ DestroyModel \/ ComputeFails \/ UNCHANGED allVars
  BY <1>3 DEF Live, EmbeddingFails, DestroyModel, Destroy, ComputeFails, allVars,
       walkVars, vars, callVars
<1>4. CASE StreamerStep
  <2>1. wpc' = wpc
    BY <1>4 DEF StreamerStep, walkVars
  <2>2. CASE Reader
    BY <2>1, <2>2 DEF Live, Reader, ReaderTake, ReaderDone, ReaderExit, callVars
  <2>3. CASE CallReturns
    BY Zenon, <2>1, <2>3 DEF Live, CallReturns, Collect, PinnedLoaded, Loaded, Join
  <2> QED
    BY <1>4, <2>2, <2>3 DEF StreamerStep
<1> QED
  BY <1>2, <1>3, <1>4 DEF WalkNext

\* A streamed block that is asked for and was not hinted is not in the ring:
\* a ring smaller than the streamed set never hits.
LEMMA AsksMisses ==
    ASSUME Covers, WalkInv, NStream > NSlot, CyclingInv, NEW b \in Blocks, Asks(b),
           ~Pinned(b), ~Outstanding(b)
    PROVE  GetMiss(b)
<1>1. /\ ring \in Slots /\ L \in 0..NBlocks-1 /\ Get(b)
      /\ ((b = 0 /\ L = NBlocks - 1) \/ b = L + 1)
      /\ NSlot \in Nat \ {0} /\ NStream \in Int
  <2>1. ring \in Slots /\ L \in 0..NBlocks-1
    BY Zenon DEF WalkInv, WalkTypeOK, Covers, TypeOK
  <2>2. Get(b) /\ ((b = 0 /\ L = NBlocks - 1) \/ b = L + 1)
    BY DEF Asks
  <2>3. NSlot \in Nat \ {0} /\ NStream \in Int
    BY StreamerAssumption DEF NStream
  <2> QED
    BY <2>1, <2>2, <2>3
<1>2. ~Out
  BY AsksOutstanding
<1>3. b = Succ(Cur) /\ Cur \in NPin..NBlocks-1
  BY <1>1, NextInWalk
<1>4. \A s \in Slots : block_of[s] # None => block_of[s] = Back(Cur, Age(s))
  BY <1>2 DEF CyclingInv, Last
<1>5. ~Resident(b)
  <2> SUFFICES ASSUME NEW s \in Slots, block_of[s] = b PROVE FALSE
    BY DEF Resident
  <2>1. Age(s) \in 0..NSlot-1
    BY <1>1 DEF Age, Slots
  <2>2. Age(s) \in Nat /\ Age(s) + 1 < NStream
    BY <1>1, <2>1
  <2>3. Back(Cur, Age(s)) # Succ(Cur)
    BY <1>3, <2>2, BackSucc
  <2> QED
    BY <1>3, <1>4, <2>3 DEF Blocks, None
<1> QED
  BY Zenon, <1>1, <1>5 DEF Get, GetOutOfRange, GetPinnedHit, GetPinnedLoad,
       GetCollect, GetHit, Resident

\* Asking for a block: the ring moves on only for a streamed one.
LEMMA CyclingAsks ==
    ASSUME Covers, WalkInv, NStream > NSlot, CyclingInv, NEW b \in Blocks, Asks(b)
    PROVE  CyclingInv'
<1>1. /\ TypeOK /\ WalkTypeOK /\ ring \in Slots /\ b \in Int /\ L' = b /\ Get(b)
      /\ L \in 0..NBlocks-1 /\ ((b = 0 /\ L = NBlocks - 1) \/ b = L + 1)
      /\ NSlot \in Nat \ {0} /\ NStream \in Int
  <2>1. TypeOK /\ WalkTypeOK /\ ring \in Slots /\ L \in 0..NBlocks-1
    BY Zenon DEF WalkInv, WalkTypeOK, Covers, TypeOK
  <2>2. L' = b /\ Get(b) /\ ((b = 0 /\ L = NBlocks - 1) \/ b = L + 1)
    BY DEF Asks
  <2>3. b \in Int /\ NSlot \in Nat \ {0} /\ NStream \in Int
    BY StreamerAssumption DEF Blocks, NStream
  <2> QED
    BY <2>1, <2>2, <2>3
<1>2. CASE Pinned(b)
  <2>1. ~Out
    BY <1>2, AsksOutstanding
  <2>2. UNCHANGED <<block_of, ring, busy, done, io_block, io_slot, held, hslot>>
    BY Zenon, <1>1, <1>2 DEF Get, GetOutOfRange, GetPinnedHit, GetPinnedLoad, GetCollect,
         GetHit, GetMiss, indexVars, ioVars, ptrVars
  <2>3. Cur' = Cur
    BY <1>1, <1>2, StreamerAssumption DEF Cur, Pinned
  <2>4. Last' = Last /\ ~Out' /\ ~LoadingRing'
    BY <1>1, <1>2, <2>1, <2>2, <2>3, GetResult DEF Last, Out, LoadingRing, Pinned
  <2> QED
    BY <2>1, <2>2, <2>4 DEF CyclingInv, Age, Prev
<1>3. CASE GetCollect(b)
  <2>1. UNCHANGED <<block_of, ring, busy, done, io_block, io_slot>> /\ held' = None
        /\ pc' = "collect" /\ Out
    BY <1>3 DEF GetCollect, Outstanding, Out, indexVars, ioVars
  <2> QED
    BY <2>1 DEF CyclingInv, Age, Prev, Last, Out, LoadingRing
<1>4. CASE ~Pinned(b) /\ ~Outstanding(b)
  <2>1. ~Out
    BY <1>4, AsksOutstanding
  <2>2. b = Succ(Cur) /\ Cur \in NPin..NBlocks-1
    BY <1>1, <1>4, NextInWalk
  <2>3. \A s \in Slots : block_of[s] # None => block_of[s] = Back(Cur, Age(s))
    BY <2>1 DEF CyclingInv, Last
  <2>5. GetMiss(b)
    BY Zenon, <1>4, AsksMisses
  <2>6. /\ Claim(ring) /\ held' = None /\ lslot' = ring
        /\ UNCHANGED <<busy, done, io_block, io_slot>>
    BY <2>5 DEF GetMiss, ioVars
  <2>7. Last' = Succ(Cur)
    BY <1>1, <1>4, <2>1, <2>2, <2>6, StreamerAssumption DEF Last, Out, Cur, Pinned
  <2>8. /\ \A s \in Slots : block_of'[s] # None => block_of'[s] = Back(Succ(Cur), Age(s)')
        /\ Prev(ring)' = ring
    BY Zenon, <1>1, <2>2, <2>3, <2>6, CyclingClaim
  <2>9. ~Out'
    BY <2>1, <2>6 DEF Out
  <2> QED
    BY Zenon, <2>6, <2>7, <2>8, <2>9 DEF CyclingInv
<1> QED
  BY <1>1, <1>2, <1>3, <1>4 DEF Get, GetOutOfRange, GetPinnedHit, GetPinnedLoad,
       GetHit, GetMiss

\* Hinting a block.
LEMMA CyclingHints ==
    ASSUME Covers, WalkInv, NStream > NSlot, CyclingInv, Hints
    PROVE  CyclingInv'
<1>1. /\ ~Out /\ TypeOK /\ L \in 0..NBound-1 /\ Hint(L) \in Blocks /\ ~Pinned(Hint(L))
      /\ Claim(ring) /\ pc' = "have" /\ io_block' = Hint(L) /\ io_slot' = ring
  BY DEF Hints, WalkInv, WalkTypeOK, OutInv, PrefetchClaim, callVars
<1>2. Out'
  BY DEF Hints, PrefetchClaim, Out
<1>3. Hint(L) = Succ(Cur) /\ Cur \in NPin..NBlocks-1
  BY <1>1, HintInWalk, NextInWalk DEF Covers
<1>4. \A s \in Slots : block_of[s] # None => block_of[s] = Back(Cur, Age(s))
  BY <1>1 DEF CyclingInv, Last
<1>5. /\ \A s \in Slots : block_of'[s] # None => block_of'[s] = Back(Succ(Cur), Age(s)')
      /\ Prev(ring)' = ring
  BY Zenon, <1>1, <1>3, <1>4, CyclingClaim
<1>6. Last' = Succ(Cur)
  BY <1>1, <1>2, <1>3 DEF Last
<1> QED
  BY Zenon, <1>1, <1>2, <1>5, <1>6 DEF CyclingInv, LoadingRing

\* The newest slot receives the newest block.
LEMMA CyclingPublish ==
    ASSUME TypeOK, CyclingInv, ~Pinned(L), L \in Blocks,
           block_of' = [block_of EXCEPT ![Prev(ring)] = L],
           ring' = ring, L' = L, Last = L, ~Out',
           held' = L, hslot' = Prev(ring), pc' = "have"
    PROVE  CyclingInv'
<1>1. /\ ring \in Slots /\ block_of \in [Slots -> Blocks \cup {None}]
      /\ Prev(ring) \in Slots /\ Age(Prev(ring)) = 0
  BY NewestAge DEF TypeOK
<1>2. Last' = L /\ Back(L, 0) = L
  BY StreamerAssumption DEF Last, Cur, Back, Pinned, Blocks
<1>3. ASSUME NEW s \in Slots, block_of'[s] # None
      PROVE  block_of'[s] = Back(Last, Age(s))'
  <2>1. Age(s)' = Age(s)
    BY DEF Age
  <2>2. CASE s = Prev(ring)
    BY <1>1, <1>2, <2>1, <2>2
  <2>3. CASE s # Prev(ring)
    BY <1>1, <1>2, <1>3, <2>1, <2>3 DEF CyclingInv
  <2> QED
    BY <2>2, <2>3
<1> QED
  BY <1>3 DEF CyclingInv, LoadingRing, Prev

\* What collecting a prefetch does to a live walk.
LEMMA CollectFacts ==
    ASSUME WalkInv, Collect, Live'
    PROVE  /\ Out /\ ~Out' /\ io_block = L /\ ~Pinned(L) /\ L \in Blocks
           /\ pc' = "have" /\ ring' = ring /\ wpc = "get"
           /\ block_of' = [block_of EXCEPT ![io_slot] = L]
           /\ held' = L /\ hslot' = io_slot
<1>1. TypeOK /\ WalkTypeOK /\ ReaderInv /\ PromisedSlot
  BY DEF WalkInv, SafeInv
<1>2. pc = "collect" /\ done /\ ~done' /\ busy' = busy /\ ring' = ring
  BY DEF Collect
<1>3. wpc = "get" /\ arg = L /\ L \in Blocks
  BY Zenon, <1>1, <1>2 DEF WalkTypeOK, TypeOK
<1>4. io_block = arg /\ ~busy
  BY <1>1, <1>2 DEF ReaderInv
<1>5. ~Pinned(io_block)
  BY Zenon, <1>1, <1>2 DEF PromisedSlot
<1>6. result
  BY Zenon DEF Collect, ReturnNull, Live
<1>7. /\ block_of' = [block_of EXCEPT ![io_slot] = arg]
      /\ pc' = "have" /\ held' = arg /\ hslot' = io_slot
  BY Zenon, <1>6 DEF Collect, ReturnSlot
<1> QED
  BY <1>2, <1>3, <1>4, <1>5, <1>7 DEF Out

\* What the end of the caller's own read does to a live walk.
LEMMA LoadedFacts ==
    ASSUME WalkInv, NEW ok \in BOOLEAN, Loaded(ok), Live'
    PROVE  /\ LoadingRing /\ ~Out /\ ~Out' /\ arg = L /\ ~Pinned(L) /\ L \in Blocks
           /\ pc' = "have" /\ ring' = ring /\ wpc = "get"
           /\ block_of' = [block_of EXCEPT ![lslot] = L]
           /\ held' = L /\ hslot' = lslot
<1>1. TypeOK /\ WalkTypeOK /\ PromisedSlot
  BY DEF WalkInv, SafeInv
<1>2. pc = "load" /\ ~Pinned(arg) /\ ring' = ring /\ UNCHANGED <<busy, done>>
  BY DEF Loaded, ioVars
<1>3. wpc = "get" /\ arg = L /\ L \in Blocks /\ LoadingRing
  BY Zenon, <1>1, <1>2 DEF WalkTypeOK, TypeOK, LoadingRing
<1>4. ~busy /\ ~done
  BY <1>1, <1>3 DEF PromisedSlot
<1>5. ok
  BY DEF Loaded, ReturnNull, Live
<1>6. /\ block_of' = [block_of EXCEPT ![lslot] = arg]
      /\ pc' = "have" /\ held' = arg /\ hslot' = lslot
  BY <1>5 DEF Loaded, ReturnSlot
<1> QED
  BY <1>2, <1>3, <1>4, <1>6 DEF Out

\* Every step of a live walk keeps the slots' ages right.
LEMMA CyclingStep ==
    ASSUME Covers, WalkInv, [WalkNext]_allVars, Live', NStream > NSlot
    PROVE  CyclingInv'
<1>1. Live /\ CyclingInv /\ WalkTypeOK /\ SafeInv /\ TypeOK
  BY StillLive DEF WalkInv, SafeInv
<1> USE DEF indexVars, bufVars, ioVars, readerVars, callVars, ptrVars, countVars
<1>2. CASE StartToken \/ NextLayer
  BY <1>1, <1>2, WalkAsks, CyclingAsks
<1>3. CASE HintNext
  <2>1. CASE PrefetchClaim(Hint(L))
    BY <1>1, <1>3, <2>1, CyclingHints DEF HintNext, Hints
  <2>2. CASE UNCHANGED vars
    BY Zenon, <1>1, <1>3, <2>2 DEF HintNext, vars, CyclingInv, Age, Prev, Last, Cur, Out,
         LoadingRing, Pinned
  <2> QED
    BY <1>3, <2>1, <2>2 DEF HintNext
<1>4. CASE LayerFails \/ EmbeddingFails \/ DestroyModel \/ ComputeFails
  BY <1>1, <1>4 DEF LayerFails, EmbeddingFails, DestroyModel, Destroy, ComputeFails, Live
<1>5. CASE LastLayer \/ Head \/ UNCHANGED allVars
  <2> USE DEF allVars, walkVars, vars, CyclingInv, Age, Prev, Last, Cur, Out,
       LoadingRing, Pinned
  <2>1. CASE LastLayer
    BY Zenon, <1>1, <2>1 DEF LastLayer
  <2>2. CASE Head
    BY Zenon, <1>1, <2>2 DEF Head
  <2>3. CASE UNCHANGED allVars
    BY Zenon, <1>1, <2>3
  <2> QED
    BY Zenon, <1>5, <2>1, <2>2, <2>3
<1>6. CASE StreamerStep
  <2>1. L' = L /\ wpc' = wpc
    BY <1>6 DEF StreamerStep, walkVars
  <2>2. CASE Reader
    <3>1. UNCHANGED <<block_of, ring, io_block, io_slot, held, hslot, pc, arg, lslot>>
      BY <2>2 DEF Reader, ReaderTake, ReaderDone, ReaderExit
    <3>2. Out' = Out
      BY Zenon, <1>1, <2>2 DEF Reader, ReaderTake, ReaderDone, ReaderExit, Out, SafeInv,
           ReaderInv, TypeOK
    <3> QED
      BY <1>1, <2>1, <3>1, <3>2 DEF CyclingInv, Age, Prev, Last, Cur, LoadingRing, Pinned
  <2>3. CASE Collect
    <3>1. Last = L /\ io_slot = Prev(ring)
      BY <1>1, <2>3, CollectFacts DEF Last, CyclingInv
    <3> QED
      BY <1>1, <2>1, <2>3, <3>1, CollectFacts, CyclingPublish
  <2>4. ASSUME NEW ok \in BOOLEAN, Loaded(ok) PROVE CyclingInv'
    <3>1. Last = L /\ lslot = Prev(ring)
      <4>1. LoadingRing /\ ~Out /\ arg = L /\ ~Pinned(L) /\ wpc = "get"
        BY Zenon, <1>1, <2>4, LoadedFacts
      <4>2. lslot = Prev(ring) /\ Last = Cur
        BY Zenon, <1>1, <4>1 DEF CyclingInv, Last
      <4>3. L >= NPin
        <5>1. L \in Blocks
          BY Zenon, <1>1, <2>4, LoadedFacts
        <5>2. NPin \in Int /\ L \in Int
          BY <5>1, StreamerAssumption DEF Blocks
        <5> QED
          BY <4>1, <5>2 DEF Pinned
      <4> QED
        BY Zenon, <4>2, <4>3 DEF Cur
    <3> QED
      BY <1>1, <2>1, <2>4, <3>1, LoadedFacts, CyclingPublish
  <2>5. ASSUME NEW ok \in BOOLEAN, PinnedLoaded(ok) PROVE CyclingInv'
    <3>1. UNCHANGED <<block_of, ring, busy, done, io_block, io_slot, held, hslot>>
          /\ pc' # "load"
      BY <2>5 DEF PinnedLoaded, ReturnNull
    <3> QED
      BY Zenon, <1>1, <2>1, <3>1 DEF CyclingInv, Age, Prev, Last, Cur, Out, LoadingRing
  <2>6. CASE Join
    BY <1>1, <2>6 DEF Join, Live
  <2> QED
    BY <1>6, <2>2, <2>3, <2>4, <2>5, <2>6 DEF StreamerStep, CallReturns
<1> QED
  BY <1>2, <1>3, <1>4, <1>5, <1>6 DEF WalkNext, WalkStep

-----------------------------------------------------------------------------
(* Filling: the ring has a slot for every streamed block.                  *)

\* The arithmetic facts the steps below use.
LEMMA FillTypes ==
    ASSUME WalkTypeOK, Covers
    PROVE  /\ NPin \in Nat /\ NBlocks \in Nat /\ NSlot \in Nat \ {0}
           /\ NPin <= NBlocks /\ NStream = NBlocks - NPin /\ NStream \in Nat
           /\ L \in Int /\ 0 <= L /\ L < NBlocks /\ ring \in Slots
           /\ NBound = NBlocks
<1>1. NBound = NBlocks /\ L \in 0..NBound-1 /\ ring \in Slots
  BY Zenon DEF Covers, WalkTypeOK, TypeOK
<1>2. NPin \in 0..NBlocks /\ NBlocks \in Nat /\ NSlot \in Nat \ {0}
  BY StreamerAssumption
<1>3. NStream = NBlocks - NPin
  BY DEF NStream
<1> QED
  BY <1>1, <1>2, <1>3

\* Claiming the next slot of a partly filled ring evicts nothing.
LEMMA FillClaim ==
    ASSUME TypeOK, NEW k \in Nat, Filled(k), ring = k, Claim(ring)
    PROVE  block_of' = block_of /\ ring' = Wrap(k + 1)
<1>1. ring \in Slots /\ block_of \in [Slots -> Blocks \cup {None}]
  BY DEF TypeOK
<1>2. block_of[ring] = None
  BY <1>1 DEF Filled, Slots
<1> QED
  BY <1>1, <1>2, RingNext DEF Claim, Wrap

\* Asking for a block.
LEMMA FillingAsks ==
    ASSUME Covers, WalkInv, NStream <= NSlot, NEW k \in 0..NStream, Filled(k),
           NEW b \in Blocks, Asks(b)
    PROVE  Filled(k)'
<1>1. /\ TypeOK /\ WalkTypeOK /\ L' = b /\ Get(b) /\ wpc' = "get"
      /\ \/ wpc = "out" /\ b = 0 /\ L = NBlocks - 1
         \/ wpc = "compute" /\ b = L + 1
      /\ ~LoadingRing /\ k \in Nat
  <2>1. TypeOK /\ WalkTypeOK
    BY DEF WalkInv, WalkTypeOK
  <2>2. k \in Nat
    BY <2>1, FillTypes
  <2> QED
    BY <2>1, <2>2 DEF WalkTypeOK, Asks, LoadingRing
<1>2. CASE Pinned(b)
  <2>1. ~Out
    BY <1>2, AsksOutstanding
  <2>2. UNCHANGED <<block_of, ring, busy, done, io_block, io_slot, held, hslot>>
    BY Zenon, <1>1, <1>2 DEF Get, GetOutOfRange, GetPinnedHit, GetPinnedLoad, GetCollect,
         GetHit, GetMiss, indexVars, ioVars, ptrVars
  <2>3. ~Out' /\ ~LoadingRing'
    BY <1>1, <1>2, <2>1, <2>2, GetResult DEF Out, LoadingRing, Pinned
  <2>4. k < NStream => k = 0 /\ ring = k
    BY <1>1, <1>2, <2>1, FillTypes DEF Filled, Pinned
  <2> QED
    BY Zenon, <1>1, <1>2, <2>2, <2>3, <2>4 DEF Filled, Pinned
<1>3. CASE GetCollect(b)
  <2>1. UNCHANGED <<block_of, ring, busy, done, io_block, io_slot>> /\ held' = None
        /\ pc' = "collect" /\ Out
    BY <1>3 DEF GetCollect, Outstanding, Out, indexVars, ioVars
  <2> QED
    BY Zenon, <1>1, <2>1 DEF Filled, Out, LoadingRing
<1>4. CASE GetHit(b)
  <2>1. ~Out /\ ~Pinned(b)
    BY <1>4, AsksOutstanding DEF GetHit
  <2>2. Resident(b)
    BY <1>4 DEF GetHit, Resident
  <2>3. k = NStream
    BY <1>1, <2>1, <2>2, FillNext
  <2>4. PICK s \in Slots : block_of[s] = b /\ hslot' = s /\ held' = b
    BY <1>4 DEF GetHit, ReturnSlot
  <2>5. s < k
    BY <2>4 DEF Filled, Blocks, None
  <2>6. UNCHANGED <<block_of, ring, busy, done, io_block, io_slot>> /\ pc' = "have"
    BY <1>4 DEF GetHit, ReturnSlot, indexVars, ioVars
  <2> QED
    <3>1. ~Out' /\ ~LoadingRing'
      BY <2>1, <2>6 DEF Out, LoadingRing
    <3>2. ~(k < NStream)
      BY <2>3, FillTypes, <1>1
    <3>3. \A r \in Slots : block_of'[r] = IF r < k THEN NPin + r ELSE None
      BY <2>6 DEF Filled
    <3> QED
      BY Zenon, <2>4, <2>5, <3>1, <3>2, <3>3 DEF Filled
<1>5. CASE GetMiss(b)
  <2>1. ~Out /\ ~Pinned(b) /\ ~Resident(b)
    BY <1>5, AsksOutstanding DEF GetMiss
  <2>2. k # NStream
    BY <1>1, <2>1, FillNext
  <2>3. k < NStream
    BY <1>1, <2>2, FillTypes
  <2>4. b = NPin + k /\ ring = k
    BY <1>1, <2>1, <2>3, FillNext
  <2>5. block_of' = block_of /\ ring' = Wrap(k + 1)
    BY <1>1, <1>5, <2>4, FillClaim DEF GetMiss
  <2>6. /\ held' = None /\ lslot' = k /\ arg' = b /\ pc' = "load"
        /\ UNCHANGED <<busy, done>>
    BY <1>5, <2>4 DEF GetMiss, ioVars
  <2>7. ~Out' /\ LoadingRing'
    BY <2>1, <2>6 DEF Out, LoadingRing, Pinned
  <2> QED
    BY Zenon, <2>3, <2>4, <2>5, <2>6, <2>7 DEF Filled
<1> QED
  BY Zenon, <1>1, <1>2, <1>3, <1>4, <1>5 DEF Get, GetOutOfRange, GetPinnedHit, GetPinnedLoad

\* Hinting a block.
LEMMA FillingHints ==
    ASSUME Covers, WalkInv, NStream <= NSlot, NEW k \in 0..NStream, Filled(k), Hints
    PROVE  Filled(k)'
<1>1. /\ ~Out /\ ~LoadingRing /\ TypeOK /\ WalkTypeOK /\ pc = "have" /\ wpc = "get"
      /\ L \in 0..NBound-1 /\ Hint(L) \in Blocks /\ ~Pinned(Hint(L)) /\ ~Resident(Hint(L))
  BY Zenon DEF Hints, WalkInv, WalkTypeOK, OutInv, PrefetchClaim, LoadingRing
<1>2. (Hint(L) = 0 /\ L = NBlocks - 1) \/ Hint(L) = L + 1
  BY <1>1, HintInWalk
<1>3. k # NStream
  BY <1>1, <1>2, FillNext
<1>4. k < NStream /\ k \in Nat
  BY <1>1, <1>3, FillTypes
<1>5. Hint(L) = NPin + k /\ ring = k /\ Hint(L) = L + 1
  BY <1>1, <1>2, <1>4, FillNext
<1>6. /\ Claim(ring) /\ io_block' = Hint(L) /\ io_slot' = ring /\ wpc' = "compute"
      /\ L' = L /\ UNCHANGED <<pc, arg, held, hslot>>
  BY DEF Hints, PrefetchClaim, callVars, ptrVars
<1>7. block_of' = block_of /\ ring' = Wrap(k + 1)
  BY <1>1, <1>4, <1>5, <1>6, FillClaim
<1>8. Out' /\ ~LoadingRing'
  BY <1>1, <1>6 DEF Hints, PrefetchClaim, Out, LoadingRing
<1> QED
  BY Zenon, <1>4, <1>5, <1>6, <1>7, <1>8 DEF Filled

\* Publishing the block that goes to slot k.
LEMMA FillingPublish ==
    ASSUME Covers, WalkTypeOK, NStream <= NSlot, NEW k \in 0..NStream, Filled(k),
           k < NStream, L = NPin + k, ring = Wrap(k + 1),
           block_of' = [block_of EXCEPT ![k] = L],
           ring' = ring, L' = L, wpc' = "get", ~Out', held' = L, hslot' = k,
           pc' = "have"
    PROVE  Filled(k + 1)' /\ k + 1 \in 0..NStream
<1>a. block_of \in [Slots -> Blocks \cup {None}]
  BY Zenon DEF WalkTypeOK, TypeOK
<1>b. NPin \in Nat /\ NStream \in Nat /\ NSlot \in Nat
  BY FillTypes
<1>1. /\ k \in Nat /\ k \in Slots /\ k + 1 \in 0..NStream
      /\ block_of \in [Slots -> Blocks \cup {None}] /\ NPin \in Nat
  BY <1>a, <1>b DEF Slots
<1>2. \A s \in Slots : block_of'[s] = IF s < k + 1 THEN NPin + s ELSE None
  <2>1. \A s \in Slots : s # k => (s < k + 1 <=> s < k)
    BY <1>1 DEF Slots
  <2>2. k < k + 1
    BY <1>1
  <2>3. \A s \in Slots : block_of[s] = IF s < k THEN NPin + s ELSE None
    BY Zenon DEF Filled
  <2> QED
    BY Zenon, <1>1, <2>1, <2>2, <2>3
<1>3. ~LoadingRing'
  BY DEF LoadingRing
<1>4. k + 1 < NStream => ring = k + 1
  BY <1>1, FillTypes DEF Wrap
<1>5. L = NPin + (k + 1) - 1 /\ ~(L < NPin)
  BY <1>1
<1> QED
  BY Zenon, <1>1, <1>2, <1>3, <1>4, <1>5 DEF Filled

\* Every step of a live walk keeps the blocks in their slots.
LEMMA FillingStep ==
    ASSUME Covers, WalkInv, [WalkNext]_allVars, Live', NStream <= NSlot
    PROVE  FillingInv'
<1>1. Live /\ WalkTypeOK /\ SafeInv /\ TypeOK /\ ~(NStream > NSlot)
  BY StillLive, FillTypes DEF WalkInv, SafeInv
<1>2. PICK k \in 0..NStream : Filled(k)
  BY <1>1 DEF WalkInv, FillingInv
<1>3. SUFFICES (\E j \in 0..NStream : Filled(j)')
  BY DEF FillingInv
<1> USE DEF indexVars, bufVars, ioVars, readerVars, callVars, ptrVars, countVars
<1>4. CASE StartToken \/ NextLayer
  BY <1>1, <1>2, <1>4, WalkAsks, FillingAsks
<1>5. CASE HintNext
  <2>1. CASE PrefetchClaim(Hint(L))
    BY <1>1, <1>2, <1>5, <2>1, FillingHints DEF HintNext, Hints
  <2>2. CASE UNCHANGED vars
    <3>1. ~Out /\ wpc = "get" /\ pc = "have" /\ wpc' = "compute" /\ L' = L
      BY <1>5 DEF HintNext, WalkInv, OutInv
    <3> QED
      BY Zenon, <1>2, <2>2, <3>1 DEF vars, Filled, Out, LoadingRing, Pinned
  <2> QED
    BY <1>5, <2>1, <2>2 DEF HintNext
<1>6. CASE LayerFails \/ EmbeddingFails \/ DestroyModel \/ ComputeFails
  BY Zenon, <1>1, <1>6 DEF LayerFails, EmbeddingFails, DestroyModel, Destroy, ComputeFails, Live
<1>7. CASE LastLayer
  <2>1. /\ L + 1 = NBlocks /\ wpc = "compute" /\ UNCHANGED vars /\ L' = L
        /\ pc = "have" /\ ~LoadingRing
    BY <1>1, <1>7 DEF LastLayer, Covers, WalkTypeOK, LoadingRing
  <2>2. /\ NPin \in Nat /\ NBlocks \in Nat /\ NStream = NBlocks - NPin /\ k \in 0..NStream
        /\ L \in Int
    BY Zenon, <1>1, FillTypes
  <2>3. ~(k < NStream)
    <3>1. SUFFICES ASSUME k < NStream PROVE FALSE
      BY Zenon
    <3>2. L + 1 = NPin + k \/ (L < NPin /\ k = 0) \/ L = NPin + k - 1
      BY Zenon, <1>2, <2>1, <3>1 DEF Filled
    <3> QED
      BY <2>1, <2>2, <3>1, <3>2
  <2>4. ~Out' /\ ~LoadingRing'
    <3>1. ~Out
      BY Zenon, <1>2, <2>3 DEF Filled
    <3>2. UNCHANGED <<busy, done, pc, arg>>
      BY Zenon, <2>1 DEF vars
    <3> QED
      BY Zenon, <2>1, <3>1, <3>2 DEF Out, LoadingRing, Pinned
  <2> QED
    BY Zenon, <1>2, <2>1, <2>3, <2>4 DEF Filled, vars
<1>8. CASE Head
  <2>1. wpc = "head" /\ UNCHANGED vars /\ pc = "have" /\ ~LoadingRing
    BY <1>1, <1>8 DEF Head, WalkTypeOK, LoadingRing
  <2>2. ~Out /\ ~(k < NStream)
    BY <1>2, <2>1 DEF Filled
  <2>3. ~Out' /\ ~LoadingRing'
    BY <2>1, <2>2 DEF Out, LoadingRing, vars, Pinned
  <2> QED
    BY Zenon, <1>2, <2>1, <2>2, <2>3 DEF Filled, vars
<1>9. CASE UNCHANGED allVars
  BY Zenon, <1>2, <1>9 DEF allVars, walkVars, vars, Filled, Out, LoadingRing, Pinned
<1>10. CASE StreamerStep
  <2>1. L' = L /\ wpc' = wpc
    BY <1>10 DEF StreamerStep, walkVars
  <2>2. CASE Reader
    <3>1. UNCHANGED <<block_of, ring, io_block, io_slot, held, hslot, pc, arg, lslot>>
      BY Zenon, <2>2 DEF Reader, ReaderTake, ReaderDone, ReaderExit
    <3>2. Out' = Out
      BY Zenon, <1>1, <2>2 DEF Reader, ReaderTake, ReaderDone, ReaderExit, Out, SafeInv,
           ReaderInv, TypeOK
    <3> QED
      BY Zenon, <1>2, <2>1, <3>1, <3>2 DEF Filled, LoadingRing, Pinned
  <2>3. CASE Collect
    <3>1. k < NStream /\ L = NPin + k /\ io_slot = k /\ ring = Wrap(k + 1)
      BY <1>2, <2>3, CollectFacts DEF Filled
    <3>2. Filled(k + 1)' /\ k + 1 \in 0..NStream
      BY <1>1, <1>2, <2>1, <2>3, <3>1, CollectFacts, FillingPublish
    <3> QED
      BY <3>2
  <2>4. ASSUME NEW ok \in BOOLEAN, Loaded(ok) PROVE \E j \in 0..NStream : Filled(j)'
    <3>1. k < NStream /\ L = NPin + k /\ lslot = k /\ ring = Wrap(k + 1)
      BY <1>2, <2>4, LoadedFacts DEF Filled
    <3>2. Filled(k + 1)' /\ k + 1 \in 0..NStream
      BY <1>1, <1>2, <2>1, <2>4, <3>1, LoadedFacts, FillingPublish
    <3> QED
      BY <3>2
  <2>5. ASSUME NEW ok \in BOOLEAN, PinnedLoaded(ok) PROVE Filled(k)'
    <3>1. UNCHANGED <<block_of, ring, busy, done, io_block, io_slot, held, hslot>>
          /\ pc' # "load" /\ ~LoadingRing
      BY Zenon, <2>5 DEF PinnedLoaded, ReturnNull, LoadingRing
    <3> QED
      BY Zenon, <1>2, <2>1, <3>1 DEF Filled, Out, LoadingRing
  <2>6. CASE Join
    BY <1>1, <2>6 DEF Join, Live
  <2> QED
    BY <1>2, <1>10, <2>2, <2>3, <2>4, <2>5, <2>6 DEF StreamerStep, CallReturns
<1> QED
  BY <1>4, <1>5, <1>6, <1>7, <1>8, <1>9, <1>10 DEF WalkNext, WalkStep

-----------------------------------------------------------------------------
(* The counters of a cycling walk.                                         *)

\* What one more pass is to the counters.
LEMMA OneMore ==
    ASSUME NEW a \in Int, NEW p \in Int
    PROVE  a * (p + 1) = a * p + a /\ a * p \in Int
  OBVIOUS

\* The number of whole passes behind a count.
LEMMA WholePasses ==
    ASSUME NEW p \in Nat
    PROVE  (NBlocks * p) \div NBlocks = p
<1> DEFINE x == NBlocks * p
           q == x \div NBlocks
<1>1. x \in Nat /\ NBlocks \in Nat /\ NBlocks > 0
  BY StreamerAssumption
<1>2. q \in Int /\ NBlocks * q <= x /\ x < NBlocks * q + NBlocks
  BY <1>1
<1>3. ~(q < p)
  <2>1. ASSUME q + 1 <= p PROVE NBlocks * (q + 1) <= NBlocks * p
    BY <1>1, <1>2, <2>1
  <2> QED
    BY <1>1, <1>2, <2>1, OneMore
<1>4. ~(p < q)
  <2>1. ASSUME p + 1 <= q PROVE NBlocks * (p + 1) <= NBlocks * q
    BY <1>1, <1>2, <2>1
  <2> QED
    BY <1>1, <1>2, <2>1, OneMore
<1> QED
  BY <1>2, <1>3, <1>4

\* A step that counts nothing and leaves the pinned blocks alone.
LEMMA PassGoesOn ==
    ASSUME NEW p \in Nat, Passes(p), Got' = Got, hits' = hits, misses' = misses,
           \A b \in Blocks : Pinned(b) => slot_of'[b] = slot_of[b]
    PROVE  Passes(p)'
  BY DEF Passes, Pinned

\* A pinned block that is loaded: no longer the first pass.
LEMMA PassHits ==
    ASSUME NEW p \in Nat, Passes(p), Got \in Nat, Got < NPin, slot_of[Got] # None,
           Got' = Got + 1, hits' = hits + 1, misses' = misses, slot_of' = slot_of,
           hits \in Nat, misses \in Nat
    PROVE  Passes(p)'
<1>1. Got \in Blocks /\ Pinned(Got) /\ NPin \in Nat /\ NBlocks \in Nat
  BY StreamerAssumption DEF Blocks, Pinned
<1>2. p > 0
  BY <1>1 DEF Passes
<1>3. NPin * (p - 1) \in Int /\ NBlocks * p \in Int
  BY <1>1, OneMore
<1>4. hits' + misses' = NBlocks * p + Got'
  BY <1>3 DEF Passes
<1>5. hits' = NPin * (p - 1) + (IF Got' < NPin THEN Got' ELSE NPin)
  BY <1>1, <1>2, <1>3 DEF Passes
<1>6. \A b \in Blocks : Pinned(b) => slot_of'[b] # None
  BY <1>2 DEF Passes
<1> QED
  BY <1>2, <1>4, <1>5, <1>6 DEF Passes, Pinned

\* A block that is read: a streamed one, or a pinned one on the first pass.
LEMMA PassMisses ==
    ASSUME NEW p \in Nat, Passes(p), Got \in Blocks,
           Got' = Got + 1, hits' = hits, misses' = misses + 1,
           hits \in Nat, misses \in Nat, slot_of \in [Blocks -> Int],
           \/ /\ ~Pinned(Got)
              /\ \A b \in Blocks : Pinned(b) => slot_of'[b] = slot_of[b]
           \/ /\ Pinned(Got) /\ slot_of[Got] = None
              /\ slot_of' = [slot_of EXCEPT ![Got] = Got]
    PROVE  Passes(p)'
<1>1. Got \in Nat /\ NPin \in Nat /\ NBlocks \in Nat
  BY StreamerAssumption DEF Blocks
<1>2. NPin * (p - 1) \in Int /\ NBlocks * p \in Int
  BY <1>1, OneMore
<1>3. hits' + misses' = NBlocks * p + Got'
  BY <1>1, <1>2 DEF Passes
<1>4. CASE ~Pinned(Got)
  <2>1. p > 0 => hits' = NPin * (p - 1) + (IF Got' < NPin THEN Got' ELSE NPin)
    BY <1>1, <1>2, <1>4 DEF Passes, Pinned
  <2>2. \A b \in Blocks : Pinned(b) => (slot_of'[b] # None <=> p > 0 \/ b < Got')
    BY <1>1, <1>4 DEF Passes, Pinned, Blocks
  <2> QED
    BY <1>3, <2>1, <2>2 DEF Passes, Pinned
<1>5. CASE Pinned(Got)
  <2>1. p = 0 /\ slot_of' = [slot_of EXCEPT ![Got] = Got] /\ Got # None
    BY <1>1, <1>5 DEF Passes, None
  <2>2. ASSUME NEW b \in Blocks, Pinned(b)
        PROVE  slot_of'[b] # None <=> b < Got'
    <3>1. slot_of[b] # None <=> b < Got
      BY <2>1, <2>2 DEF Passes
    <3> QED
      BY <1>1, <2>1, <3>1 DEF Blocks
  <2> QED
    BY <1>3, <2>1, <2>2 DEF Passes, Pinned
<1> QED
  BY <1>4, <1>5

\* The ring of a cycling walk holds streamed blocks only, so a claim takes
\* no pinned block's mark.
LEMMA ClaimSparesPinned ==
    ASSUME Covers, WalkInv, Live, NStream > NSlot, Claim(ring)
    PROVE  \A b \in Blocks : Pinned(b) => slot_of'[b] = slot_of[b]
<1>1. /\ CyclingInv /\ TypeOK /\ PromisedSlot /\ ring \in Slots
      /\ L \in Blocks /\ slot_of \in [Blocks -> Int]
  BY StreamerAssumption DEF WalkInv, WalkTypeOK, SafeInv, TypeOK, Covers, Blocks
<1>2. NStream \in Int /\ NSlot \in Nat \ {0} /\ NPin \in Nat /\ NBlocks \in Nat
  BY StreamerAssumption DEF NStream
<1>3. Last \in NPin..NBlocks-1
  <2>1. CASE Out
    <3>1. ~Pinned(io_block) /\ io_block \in Blocks
      BY Zenon, <1>1, <2>1 DEF PromisedSlot, Out, TypeOK
    <3> QED
      BY <1>2, <2>1, <3>1 DEF Last, Pinned, Blocks
  <2>2. CASE ~Out
    BY <1>1, <1>2, <2>2 DEF Last, Cur, Blocks, NStream
  <2> QED
    BY <2>1, <2>2
<1>4. ASSUME block_of[ring] # None PROVE ~Pinned(block_of[ring])
  <2>1. block_of[ring] = Back(Last, Age(ring))
    BY <1>1, <1>4 DEF CyclingInv
  <2>2. Age(ring) \in 0..NSlot-1
    BY <1>1, <1>2 DEF Age, Slots
  <2> QED
    BY <1>2, <1>3, <2>1, <2>2 DEF Back, Pinned, NStream
<1> QED
  BY <1>1, <1>4 DEF Claim

\* Asking for a block counts a hit if it is a loaded pinned block, and
\* nothing yet otherwise.
LEMMA CountAsks ==
    ASSUME Covers, WalkInv, Live, NStream > NSlot, NEW b \in Blocks, Asks(b),
           NEW p \in Nat, Passes(p)
    PROVE  Passes(p)' /\ (pc' = "load" /\ Pinned(arg') => slot_of'[arg'] = None)
<1>1. CyclingInv /\ TypeOK /\ hits \in Nat /\ misses \in Nat
  BY DEF WalkInv, WalkTypeOK, TypeOK
<1>2. Got = b /\ b \in Nat /\ wpc' = "get" /\ L' = b
  BY DEF Asks, Got, Blocks
<1> USE DEF indexVars, countVars
<1>3. CASE GetPinnedHit(b)
  <2>1. Got' = b + 1
    BY <1>2, <1>3 DEF GetPinnedHit, Got
  <2>2. /\ Got < NPin /\ slot_of[Got] # None /\ hits' = hits + 1
        /\ misses' = misses /\ slot_of' = slot_of /\ pc' = "have"
    BY <1>2, <1>3 DEF GetPinnedHit, Pinned
  <2> QED
    BY <1>1, <1>2, <2>1, <2>2, PassHits
<1>4. CASE GetPinnedLoad(b) \/ GetCollect(b)
  <2>1. /\ hits' = hits /\ misses' = misses /\ slot_of' = slot_of /\ pc' # "have"
        /\ pc' = "load" => slot_of[b] = None /\ arg' = b
    BY <1>4 DEF GetPinnedLoad, GetCollect
  <2>2. Got' = Got
    BY <1>2, <2>1 DEF Got
  <2> QED
    BY <2>1, <2>2, PassGoesOn
<1>5. CASE ~Pinned(b) /\ ~Outstanding(b)
  <2>1. GetMiss(b)
    BY Zenon, <1>1, <1>5, AsksMisses
  <2>2. /\ hits' = hits /\ misses' = misses /\ Claim(ring) /\ pc' = "load" /\ arg' = b
    BY <2>1 DEF GetMiss
  <2>3. Got' = Got
    BY <1>2, <2>2 DEF Got
  <2> QED
    BY <1>5, <2>2, <2>3, PassGoesOn, ClaimSparesPinned DEF Pinned
<1>6. GetPinnedHit(b) \/ GetPinnedLoad(b) \/ GetCollect(b) \/ (~Pinned(b) /\ ~Outstanding(b))
  BY DEF Asks, Get, GetOutOfRange, GetHit, GetMiss
<1> QED
  BY <1>3, <1>4, <1>5, <1>6

\* The end of a read, or of the wait for the reader, counts a miss.
LEMMA CountReturns ==
    ASSUME Covers, WalkInv, CountInv, wpc' = wpc, L' = L, pc' # "null", wpc # "failed",
           Collect \/ \E ok \in BOOLEAN : PinnedLoaded(ok) \/ Loaded(ok)
    PROVE  CountInv'
<1>1. /\ TypeOK /\ hits \in Nat /\ misses \in Nat /\ slot_of \in [Blocks -> Int]
      /\ pc \in {"collect", "load"} /\ wpc = "get" /\ arg = L /\ L \in Blocks
  <2>1. TypeOK /\ WalkTypeOK
    BY DEF WalkInv, WalkTypeOK
  <2>2. pc \in {"collect", "load"}
    BY DEF Collect, PinnedLoaded, Loaded
  <2> QED
    BY Zenon, <2>1, <2>2 DEF WalkTypeOK, TypeOK
<1>2. /\ pc' = "have" /\ hits' = hits /\ misses' = misses + 1
      /\ \/ ~Pinned(L) /\ \E s \in Int : slot_of' = [slot_of EXCEPT ![L] = s]
         \/ Pinned(L) /\ pc = "load" /\ slot_of' = [slot_of EXCEPT ![L] = L]
  <2>1. CASE Collect
    <3>1. done /\ ~Pinned(io_block) /\ io_block = arg
      BY Zenon, <2>1 DEF Collect, WalkInv, SafeInv, ReaderInv, PromisedSlot
    <3>3. io_slot \in Int
      <4>1. io_slot \in Slots
        BY Zenon, <1>1 DEF TypeOK
      <4> QED
        BY <4>1 DEF Slots
    <3>2. result
      BY Zenon, <2>1 DEF Collect, ReturnNull
    <3> QED
      BY Zenon, <1>1, <2>1, <3>1, <3>2, <3>3 DEF Collect, ReturnSlot
  <2>2. ASSUME NEW ok \in BOOLEAN, PinnedLoaded(ok)
        PROVE  /\ pc' = "have" /\ hits' = hits /\ misses' = misses + 1
               /\ Pinned(L) /\ pc = "load" /\ slot_of' = [slot_of EXCEPT ![L] = L]
    BY <1>1, <2>2 DEF PinnedLoaded, ReturnNull
  <2>3. ASSUME NEW ok \in BOOLEAN, Loaded(ok)
        PROVE  /\ pc' = "have" /\ hits' = hits /\ misses' = misses + 1
               /\ ~Pinned(L) /\ slot_of' = [slot_of EXCEPT ![L] = lslot] /\ lslot \in Int
    <3>1. ok
      BY Zenon, <2>3 DEF Loaded, ReturnNull
    <3>2. lslot \in Slots
      BY Zenon, <1>1, <2>3 DEF Loaded, TypeOK
    <3>3. lslot \in Int
      BY <3>2 DEF Slots
    <3> QED
      BY Zenon, <1>1, <2>3, <3>1, <3>3 DEF Loaded, ReturnSlot
  <2> QED
    BY <2>1, <2>2, <2>3
<1>3. Got = L /\ Got' = L + 1
  BY <1>1, <1>2 DEF Got
<1>4. PICK p \in Nat : Passes(p)
  BY <1>1 DEF CountInv
<1>5. CASE ~Pinned(L)
  <2>1. \A b \in Blocks : Pinned(b) => slot_of'[b] = slot_of[b]
    BY <1>1, <1>2, <1>5
  <2> QED
    BY <1>1, <1>2, <1>3, <1>4, <1>5, <2>1, PassMisses DEF CountInv
<1>6. CASE Pinned(L)
  <2>1. slot_of[L] = None
    BY <1>1, <1>2, <1>6 DEF CountInv
  <2> QED
    BY <1>1, <1>2, <1>3, <1>4, <1>6, <2>1, PassMisses DEF CountInv
<1> QED
  BY <1>5, <1>6

\* The head ends a pass.
LEMMA CountHead ==
    ASSUME Covers, WalkInv, Head, wpc' = "out", NEW p \in Nat, Passes(p)
    PROVE  Passes(p + 1)'
<1>1. /\ NPin \in 0..NBlocks /\ NBlocks \in Nat \ {0}
      /\ hits' = hits /\ misses' = misses /\ slot_of' = slot_of
      /\ hits \in Nat /\ misses \in Nat
  BY StreamerAssumption DEF Head, vars, indexVars, countVars, WalkInv, WalkTypeOK, TypeOK
<1>2. Got = NBlocks /\ Got' = 0
  BY StreamerAssumption DEF Head, Got, WalkInv, WalkTypeOK, Covers
<1>3. NBlocks * (p + 1) = NBlocks * p + NBlocks /\ NBlocks * p \in Int
  BY <1>1, OneMore
<1>4. hits' + misses' = NBlocks * (p + 1) + Got'
  BY <1>1, <1>2, <1>3 DEF Passes
<1>5. hits' = NPin * ((p + 1) - 1) + (IF Got' < NPin THEN Got' ELSE NPin)
  <2>1. NPin * ((p - 1) + 1) = NPin * (p - 1) + NPin /\ NPin * (p - 1) \in Int
    BY <1>1, OneMore
  <2>2. (p - 1) + 1 = p /\ (p + 1) - 1 = p
    OBVIOUS
  <2>3. NPin * p = NPin * (p - 1) + NPin
    BY <2>1, <2>2
  <2>4. hits = NPin * p
    <3>1. CASE p = 0
      BY <1>1, <3>1 DEF Passes
    <3>2. CASE p > 0
      BY <1>1, <1>2, <2>1, <2>3, <3>2 DEF Passes
    <3> QED
      BY <3>1, <3>2
  <2>5. (IF Got' < NPin THEN Got' ELSE NPin) = 0
    BY <1>1, <1>2
  <2> QED
    BY <1>1, <2>2, <2>3, <2>4, <2>5
<1>6. \A b \in Blocks : Pinned(b) => slot_of'[b] # None
  BY <1>1, <1>2 DEF Passes, Pinned, Blocks
<1> QED
  BY <1>4, <1>5, <1>6 DEF Passes, Pinned

\* Every step of a cycling walk keeps its account.
LEMMA CountStep ==
    ASSUME Covers, WalkInv, CountInv, NStream > NSlot, [WalkNext]_allVars
    PROVE  CountInv'
<1>1. WalkTypeOK /\ WalkTypeOK'
  BY WalkTypeStep DEF WalkInv
<1> USE DEF indexVars, ioVars, callVars, countVars
<1>2. ASSUME UNCHANGED <<slot_of, hits, misses, pc, arg>>, Got' = Got, wpc # "failed"
      PROVE  CountInv'
  <2>1. CASE pc # "null"
    <3>1. PICK p \in Nat : Passes(p)
      BY <1>2, <2>1 DEF CountInv
    <3>2. Passes(p)'
      BY <1>2, <3>1, PassGoesOn
    <3> QED
      BY <1>2, <3>2 DEF CountInv, Pinned
  <2>2. CASE pc = "null"
    BY <1>2, <2>2 DEF CountInv
  <2> QED
    BY <2>1, <2>2
<1>3. ASSUME wpc' = "failed", wpc # "failed", pc' # "load" PROVE CountInv'
  BY <1>3 DEF CountInv
<1>4. CASE StartToken \/ NextLayer
  <2>1. PICK b \in Blocks : Asks(b)
    BY <1>1, <1>4, WalkAsks
  <2>2. Live
    BY <1>1, <1>4 DEF StartToken, NextLayer, Live, WalkTypeOK, Covers, Get, GetOutOfRange,
         GetPinnedHit, GetPinnedLoad, GetCollect, GetHit, GetMiss, Callable
  <2>3. PICK p \in Nat : Passes(p)
    BY <2>2 DEF CountInv, Live
  <2> QED
    BY <2>1, <2>2, <2>3, CountAsks DEF CountInv, Pinned
<1>5. CASE HintNext
  <2>1. /\ wpc = "get" /\ pc = "have" /\ wpc' = "compute" /\ L' = L
        /\ hits' = hits /\ misses' = misses /\ pc' = pc
    BY <1>5 DEF HintNext, PrefetchClaim, vars
  <2>2. Got' = Got /\ Live
    BY <2>1 DEF Got, Live
  <2>3. \A b \in Blocks : Pinned(b) => slot_of'[b] = slot_of[b]
    BY <1>5, <2>2, ClaimSparesPinned DEF HintNext, PrefetchClaim, vars
  <2>4. PICK p \in Nat : Passes(p)
    BY <2>1 DEF CountInv
  <2>5. Passes(p)'
    BY <2>1, <2>2, <2>3, <2>4, PassGoesOn
  <2> QED
    BY <2>1, <2>5 DEF CountInv
<1>6. CASE LastLayer
  BY <1>2, <1>6 DEF LastLayer, Got, vars
<1>7. CASE Head
  <2>1. pc' = "have" /\ pc = "have" /\ wpc = "head"
    BY <1>1, <1>7 DEF Head, WalkTypeOK, vars
  <2>2. CASE wpc' = "out"
    <3>1. PICK p \in Nat : Passes(p)
      BY <2>1 DEF CountInv
    <3>2. Passes(p + 1)' /\ p + 1 \in Nat
      BY <1>7, <2>2, <3>1, CountHead
    <3> QED
      BY <2>1, <3>2 DEF CountInv
  <2>3. CASE wpc' = "failed"
    BY <1>3, <2>1, <2>3
  <2> QED
    BY <1>7, <2>2, <2>3 DEF Head
<1>8. CASE LayerFails \/ ComputeFails \/ EmbeddingFails
  <2>1. wpc' = "failed" /\ wpc # "failed" /\ pc' = pc /\ pc # "load"
    BY <1>8 DEF LayerFails, ComputeFails, EmbeddingFails, Covers, Callable, vars
  <2> QED
    BY <1>3, <2>1
<1>9. CASE DestroyModel
  <2>1. /\ UNCHANGED <<slot_of, hits, misses, arg, wpc, L>>
        /\ wpc \in {"out", "failed"} /\ pc' = "join"
    BY <1>9 DEF DestroyModel, Destroy, walkVars
  <2>2. CASE wpc = "out"
    <3>1. pc # "null"
      BY <1>1, <2>2 DEF WalkTypeOK
    <3>2. PICK p \in Nat : Passes(p)
      BY <2>2, <3>1 DEF CountInv
    <3>3. Got' = Got
      BY <2>1, <2>2 DEF Got
    <3> QED
      BY <2>1, <3>2, <3>3, PassGoesOn DEF CountInv
  <2>3. CASE wpc = "failed"
    BY <2>1, <2>3 DEF CountInv
  <2> QED
    BY <2>1, <2>2, <2>3
<1>10. CASE StreamerStep
  <2>1. wpc' = wpc /\ L' = L
    BY <1>10 DEF StreamerStep, walkVars
  <2>2. CASE wpc = "failed"
    <3>1. pc' # "load"
      BY <1>1, <2>1, <2>2 DEF WalkTypeOK
    <3> QED
      BY <2>1, <2>2, <3>1 DEF CountInv
  <2>3. CASE Reader /\ wpc # "failed"
    <3>1. UNCHANGED <<slot_of, hits, misses, pc, arg>>
      BY <2>3 DEF Reader, ReaderTake, ReaderDone, ReaderExit
    <3>2. Got' = Got
      BY <2>1, <3>1 DEF Got
    <3> QED
      BY <1>2, <2>3, <3>1, <3>2
  <2>4. CASE Join /\ wpc # "failed"
    <3>1. /\ UNCHANGED <<slot_of, hits, misses, arg>> /\ pc = "join" /\ pc' = "freed"
          /\ wpc = "out"
      BY <1>1, <2>4 DEF Join, WalkTypeOK
    <3>2. Got' = Got
      BY <2>1, <3>1 DEF Got
    <3>3. PICK p \in Nat : Passes(p)
      BY <3>1 DEF CountInv
    <3> QED
      BY <3>1, <3>2, <3>3, PassGoesOn DEF CountInv
  <2>5. CASE wpc # "failed" /\ (Collect \/ \E ok \in BOOLEAN : PinnedLoaded(ok) \/ Loaded(ok))
    <3>1. CASE pc' # "null"
      BY Zenon, <2>1, <2>5, <3>1, CountReturns
    <3>2. CASE pc' = "null"
      BY <3>2 DEF CountInv
    <3> QED
      BY <3>1, <3>2
  <2> QED
    BY <1>10, <2>2, <2>3, <2>4, <2>5 DEF StreamerStep, CallReturns
<1>11. CASE UNCHANGED allVars
  <2>1. UNCHANGED <<slot_of, hits, misses, pc, arg, wpc, L>>
    BY <1>11 DEF allVars, vars, walkVars
  <2>2. Got' = Got
    BY <2>1 DEF Got
  <2>3. CASE wpc = "failed"
    BY <2>1, <2>3 DEF CountInv, Pinned
  <2> QED
    BY <1>2, <2>1, <2>2, <2>3
<1> QED
  BY <1>4, <1>5, <1>6, <1>7, <1>8, <1>9, <1>10, <1>11 DEF WalkNext, WalkStep

-----------------------------------------------------------------------------
(* The theorems.                                                           *)

\* The walk starts in the invariant.
LEMMA WalkInvInit == ASSUME Covers, WalkInit PROVE WalkInv
<1>1. SafeInv /\ Init /\ wpc = "out" /\ L = NBlocks - 1 /\ TypeOK
  BY InitSafe DEF WalkInit, Covers, SafeInv
<1>2. /\ ~busy /\ ~done /\ pc = "idle" /\ ring = 0 /\ held = None
      /\ \A s \in Slots : block_of[s] = None
  BY <1>1 DEF Init
<1>3. WalkTypeOK
  BY <1>1, <1>2, StreamerAssumption DEF WalkTypeOK, Covers
<1>4. OutInv /\ HeldInv
  BY <1>2 DEF OutInv, Out, HeldInv
<1>5. CyclingInv
  BY <1>2 DEF CyclingInv, Out, LoadingRing
<1>6. FillingInv
  <2>1. 0 \in 0..NStream
    BY StreamerAssumption DEF NStream
  <2>2. Filled(0)
    BY <1>1, <1>2 DEF Filled, Out, LoadingRing, Slots
  <2> QED
    BY <2>1, <2>2 DEF FillingInv
<1> QED
  BY <1>1, <1>3, <1>4, <1>5, <1>6 DEF WalkInv

\* Every step of the walk keeps it.
LEMMA WalkInvStep ==
    ASSUME Covers, WalkInv, [WalkNext]_allVars
    PROVE  WalkInv'
<1>1. WalkTypeOK' /\ SafeInv' /\ OutInv' /\ HeldInv'
  BY WalkTypeStep, WalkSafeStep, OutStep, HeldStep DEF WalkInv
<1>2. ASSUME Live' PROVE IF NStream > NSlot THEN CyclingInv' ELSE FillingInv'
  <2>1. CASE NStream > NSlot
    BY <1>2, <2>1, CyclingStep
  <2>2. CASE ~(NStream > NSlot)
    <3>1. NStream <= NSlot
      BY <2>2, StreamerAssumption DEF NStream
    <3> QED
      BY <1>2, <2>2, <3>1, FillingStep
  <2> QED
    BY <2>1, <2>2
<1> QED
  BY <1>1, <1>2 DEF WalkInv

\* For every number of layers, pinned layers and ring slots, with or without
\* the reader thread and whichever reads fail: a decode loop that covers
\* every packed layer and is not retried after a failure computes every
\* layer on that layer's weights, never has the reader and itself write one
\* slot, and never reads one block while the reader reads another.
THEOREM WalkIsSafe ==
    ASSUME Covers
    PROVE  WalkSpec => [](/\ PointerValid /\ IndexTruth /\ SlotExclusive
                          /\ ComputesOnItsLayer /\ ReadsNeverOverlap)
<1>1. WalkInit => WalkInv
  BY WalkInvInit
<1>2. WalkInv /\ [WalkNext]_allVars => WalkInv'
  BY WalkInvStep
<1>3. WalkInv => /\ PointerValid /\ IndexTruth /\ SlotExclusive
                 /\ ComputesOnItsLayer /\ ReadsNeverOverlap
  <2> SUFFICES ASSUME WalkInv
               PROVE  /\ PointerValid /\ IndexTruth /\ SlotExclusive
                      /\ ComputesOnItsLayer /\ ReadsNeverOverlap
    OBVIOUS
  <2>1. PointerValid /\ IndexTruth /\ SlotExclusive
    BY SafeImplies DEF WalkInv
  <2>2. ComputesOnItsLayer
    <3> SUFFICES ASSUME wpc = "compute"
                 PROVE  IF Pinned(L) THEN L \in pin
                        ELSE held = L /\ arena[hslot] = L /\ hpad = L
      BY DEF ComputesOnItsLayer
    <3>1. pc = "have" /\ L \in Blocks
      BY StreamerAssumption DEF WalkInv, WalkTypeOK, Covers, Blocks
    <3>2. IF Pinned(L) THEN L \in pin ELSE held = L
      BY <3>1 DEF WalkInv, HeldInv
    <3> QED
      BY <2>1, <3>1, <3>2 DEF PointerValid, Blocks, None
  <2>3. ReadsNeverOverlap
    BY DEF ReadsNeverOverlap, WalkInv, WalkTypeOK, SafeInv, ReaderInv, OutInv, Out
  <2> QED
    BY <2>1, <2>2, <2>3
<1> QED
  BY <1>1, <1>2, <1>3, PTL DEF WalkSpec

\* For every number of layers, pinned layers and ring slots with more
\* streamed layers than slots, with or without the reader thread: between
\* the tokens of a decode loop that covers every packed layer and is not
\* retried, the hit rate is exactly the pinned share.  The first pass misses
\* every layer; every later pass hits the pinned ones and no other, however
\* many slots the ring has.
THEOREM HitRateIsPinnedShare ==
    ASSUME Covers
    PROVE  WalkSpec => []HitRateExact
<1>1. CASE NStream > NSlot
  <2>1. WalkInit => WalkInv /\ CountInv
    <3> SUFFICES ASSUME WalkInit PROVE WalkInv /\ CountInv
      OBVIOUS
    <3>1. /\ wpc = "out" /\ pc = "idle" /\ hits = 0 /\ misses = 0
          /\ slot_of = [b \in Blocks |-> None]
      BY DEF WalkInit, Init
    <3>2. Got = 0 /\ NBlocks * 0 = 0
      BY <3>1, StreamerAssumption DEF Got
    <3>3. Passes(0)
      BY <3>1, <3>2 DEF Passes, Blocks
    <3> QED
      BY <3>1, <3>3, WalkInvInit DEF CountInv
  <2>2. WalkInv /\ CountInv /\ [WalkNext]_allVars => WalkInv' /\ CountInv'
    BY <1>1, WalkInvStep, CountStep
  <2>3. WalkInv /\ CountInv => HitRateExact
    <3> SUFFICES ASSUME WalkInv, CountInv, wpc = "out", misses > 0
                 PROVE  hits = NPin * (((hits + misses) \div NBlocks) - 1)
      BY DEF HitRateExact
    <3>1. pc # "null" /\ hits \in Nat /\ misses \in Nat
      BY DEF WalkInv, WalkTypeOK, TypeOK
    <3>2. PICK p \in Nat : Passes(p)
      BY <3>1 DEF CountInv
    <3>3. Got = 0 /\ NBlocks * p \in Int /\ NPin * (p - 1) \in Int /\ NPin \in Nat
      BY StreamerAssumption, OneMore DEF Got
    <3>4. hits + misses = NBlocks * p
      BY <3>2, <3>3 DEF Passes
    <3>5. p # 0
      BY <3>1, <3>4, StreamerAssumption
    <3>6. hits = NPin * (p - 1)
      BY <3>2, <3>3, <3>5 DEF Passes
    <3> QED
      BY <3>4, <3>6, WholePasses
  <2> QED
    BY <2>1, <2>2, <2>3, PTL DEF WalkSpec
<1>2. CASE ~(NStream > NSlot)
  <2>1. HitRateExact
    BY <1>2, StreamerAssumption DEF HitRateExact, NStream
  <2> QED
    BY <2>1, PTL
<1> QED
  BY <1>1, <1>2
=============================================================================
