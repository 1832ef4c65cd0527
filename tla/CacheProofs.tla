----------------------------- MODULE CacheProofs ----------------------------
(***************************************************************************)
(* The weight cache never serves a slot that does not hold its key, and    *)
(* never gives one slot to two reads, for every number of keys and slots.  *)
(***************************************************************************)
EXTENDS ExpertStep, TLAPS

\* What a finished read of the batch left in its slot.
ReadTruth == \A w \in work : w.read = "whole" => bytes[w.slot] = w.key

\* The inductive invariant.  IndexTruth alone is not inductive: publishing a
\* key needs that its slot is not another key's and that its bytes arrived.
CacheInv == TypeOK /\ IndexTruth /\ ReadsDisjoint /\ ReadTruth

LEMMA Counts == NKeys \in Nat /\ NSlot \in Nat /\ NSlot >= 1
PROOF BY CacheAssumption

\* A key and a slot are never mistaken for a mark (EMPTY, INFLIGHT, None).
LEMMA Marks ==
    /\ \A k \in Keys : k >= 0 /\ k # None /\ k # EMPTY /\ k # INFLIGHT
    /\ \A s \in Slots : s \in Int /\ s # None
    /\ EMPTY # INFLIGHT
PROOF BY CacheAssumption DEF Keys, Slots, None, EMPTY, INFLIGHT

\* A slot without a mark holds a key.
LEMMA KeyHeld ==
    ASSUME TypeOK, NEW t \in Slots, key_of[t] >= 0
    PROVE  key_of[t] \in Keys
<1>1. key_of[t] \in Keys \union {EMPTY, INFLIGHT}
  BY DEF TypeOK
<1>2. QED
  BY <1>1 DEF EMPTY, INFLIGHT

\* pick_victim returns an empty slot or one that holds an unpinned key.
LEMMA VictimKind ==
    ASSUME TypeOK, NEW s \in Slots, Victim(s)
    PROVE  key_of[s] = EMPTY \/ (key_of[s] \in Keys /\ s \notin pinned)
PROOF BY Marks DEF TypeOK, Victim, Empty, Evictable, INFLIGHT, EMPTY, Keys

\* Stamping a slot keeps the ages in range.
LEMMA TouchedType ==
    ASSUME age \in [Slots -> Slots], NEW s \in Slots
    PROVE  Touched(s) \in [Slots -> Slots]
<1>1. ASSUME NEW t \in Slots
      PROVE  (IF t = s THEN 0 ELSE IF age[t] < age[s] THEN age[t] + 1 ELSE age[t]) \in Slots
  <2>1. age[t] \in 0..NSlot-1 /\ age[s] \in 0..NSlot-1
    BY <1>1 DEF Slots
  <2>2. 0 \in 0..NSlot-1
    BY Counts
  <2>3. age[t] < age[s] => age[t] + 1 \in 0..NSlot-1
    BY <2>1, Counts
  <2>4. QED
    BY <2>1, <2>2, <2>3 DEF Slots
<1>2. QED
  BY <1>1 DEF Touched

\* Evicting keeps slot_of's type and takes only the victim's key out.
LEMMA EvictedFacts ==
    ASSUME TypeOK, IndexTruth, NEW s \in Slots,
           key_of[s] = EMPTY \/ key_of[s] \in Keys
    PROVE  /\ Evicted(s) \in [Keys -> Slots \union {None}]
           /\ \A k \in Keys : Evicted(s)[k] = IF slot_of[k] = s THEN None ELSE slot_of[k]
<1>1. CASE key_of[s] = EMPTY
  BY <1>1, Marks DEF Evicted, TypeOK, IndexTruth, EMPTY
<1>2. CASE key_of[s] \in Keys
  <2>1. Evicted(s) = [slot_of EXCEPT ![key_of[s]] = None]
    BY <1>2, Marks DEF Evicted
  <2>2. slot_of[key_of[s]] = s
    BY <1>2, Marks DEF IndexTruth
  <2>3. \A k \in Keys : slot_of[k] = s => k = key_of[s]
    BY Marks DEF IndexTruth
  <2>4. QED
    BY <2>1, <2>2, <2>3, <1>2 DEF TypeOK
<1>3. QED
  BY <1>1, <1>2

LEMMA CacheInit == Init => CacheInv
<1> SUFFICES ASSUME Init PROVE CacheInv
  OBVIOUS
<1>2. TypeOK
  <2>1. age \in [Slots -> Slots]
    BY DEF Init
  <2>2. QED
    BY <2>1 DEF Init, TypeOK
<1>3. IndexTruth
  BY DEF Init, IndexTruth, EMPTY
<1>4. ReadsDisjoint
  BY Marks DEF Init, ReadsDisjoint
<1>5. ReadTruth
  BY DEF Init, ReadTruth
<1>6. QED
  BY <1>2, <1>3, <1>4, <1>5 DEF CacheInv

\* A hit, a refusal, a skip, the start and the end of the reserve phase, a pin
\* and a reset leave the index and the slots alone.
LEMMA QuietStep ==
    ASSUME CacheInv, TypeOK',
           UNCHANGED <<slot_of, key_of, bytes, pad, work>>,
           pc' = "idle" => work = {}
    PROVE  CacheInv'
PROOF BY DEF CacheInv, IndexTruth, ReadsDisjoint, ReadTruth

\* Taking the victim's key out of the index, whatever becomes of its bytes,
\* keeps the index true.
LEMMA EmptiedTruth ==
    ASSUME TypeOK, IndexTruth, NEW s \in Slots, NEW mark \in {EMPTY, INFLIGHT},
           NEW b,
           \A j \in Keys : Evicted(s)[j] = IF slot_of[j] = s THEN None ELSE slot_of[j],
           slot_of' = Evicted(s),
           key_of' = [key_of EXCEPT ![s] = mark],
           pad' = pad,
           bytes' = [bytes EXCEPT ![s] = b]
    PROVE  IndexTruth'
<1>1. ASSUME NEW j \in Keys, slot_of'[j] # None PROVE key_of'[slot_of'[j]] = j
  <2>1. slot_of'[j] = slot_of[j] /\ slot_of[j] # s /\ slot_of[j] # None
    BY <1>1
  <2>2. slot_of[j] \in Slots
    BY <2>1 DEF TypeOK
  <2>3. QED
    BY <2>1, <2>2 DEF TypeOK, IndexTruth
<1>2. ASSUME NEW t \in Slots, key_of'[t] >= 0
      PROVE  slot_of'[key_of'[t]] = t /\ bytes'[t] = key_of'[t] /\ pad'[t] = key_of'[t]
  <2>1. t # s
    BY <1>2 DEF TypeOK, EMPTY, INFLIGHT
  <2>2. key_of'[t] = key_of[t] /\ bytes'[t] = bytes[t]
    BY <2>1 DEF TypeOK
  <2>3. key_of[t] \in Keys
    BY <1>2, <2>2, KeyHeld
  <2>4. slot_of[key_of[t]] = t /\ bytes[t] = key_of[t] /\ pad[t] = key_of[t]
    BY <1>2, <2>2 DEF IndexTruth
  <2>5. QED
    BY <2>1, <2>2, <2>3, <2>4
<1>3. QED
  BY <1>1, <1>2 DEF IndexTruth

\* admit on a miss.
LEMMA LoadStep ==
    ASSUME CacheInv, NEW k \in Keys, NEW ok \in BOOLEAN, GetLoad(k, ok)
    PROVE  CacheInv'
<1>1. PICK s \in Slots :
        /\ Victim(s)
        /\ meta' = [meta EXCEPT ![s] = k]
        /\ bytes' = [bytes EXCEPT ![s] = IF ok THEN k ELSE None]
        /\ IF ok
           THEN /\ slot_of' = [Evicted(s) EXCEPT ![k] = s]
                /\ key_of' = [key_of EXCEPT ![s] = k]
                /\ pad' = [pad EXCEPT ![s] = k]
                /\ age' = Touched(s)
           ELSE /\ slot_of' = Evicted(s)
                /\ key_of' = [key_of EXCEPT ![s] = EMPTY]
                /\ UNCHANGED <<pad, age>>
  BY Zenon DEF GetLoad
<1>2. TypeOK /\ IndexTruth /\ ReadsDisjoint
  BY DEF CacheInv
<1>3. /\ slot_of[k] = None /\ misses' = misses + 1 /\ work = {}
      /\ UNCHANGED <<pinned, hits, prefetch_reads, pc, todo, work>>
  BY <1>2 DEF GetLoad, batchVars, ReadsDisjoint
<1>4. key_of[s] = EMPTY \/ (key_of[s] \in Keys /\ s \notin pinned)
  BY <1>1, <1>2, VictimKind
<1>5. /\ Evicted(s) \in [Keys -> Slots \union {None}]
      /\ \A j \in Keys : Evicted(s)[j] = IF slot_of[j] = s THEN None ELSE slot_of[j]
  BY <1>2, <1>4, EvictedFacts
<1>6. Touched(s) \in [Slots -> Slots]
  BY <1>2, TouchedType DEF TypeOK
<1>7. TypeOK'
  <2>1. slot_of' \in [Keys -> Slots \union {None}] /\ age' \in [Slots -> Slots]
    BY <1>1, <1>2, <1>5, <1>6 DEF TypeOK
  <2>2. /\ key_of' \in [Slots -> Keys \union {EMPTY, INFLIGHT}]
        /\ bytes' \in [Slots -> Keys \union {None}]
        /\ pad' \in [Slots -> Keys \union {None}]
        /\ meta' \in [Slots -> Keys \union {None}]
    BY <1>1, <1>2 DEF TypeOK
  <2>3. QED
    BY <2>1, <2>2, <1>2, <1>3 DEF TypeOK
<1>8. IndexTruth'
  <2>1. CASE ok
    <3>1. /\ slot_of' = [Evicted(s) EXCEPT ![k] = s]
          /\ key_of' = [key_of EXCEPT ![s] = k]
          /\ pad' = [pad EXCEPT ![s] = k]
          /\ bytes' = [bytes EXCEPT ![s] = k]
      BY <1>1, <2>1
    <3>2. ASSUME NEW j \in Keys, slot_of'[j] # None PROVE key_of'[slot_of'[j]] = j
      BY <3>1, <3>2, <1>2, <1>5, Marks DEF TypeOK, IndexTruth
    <3>3. ASSUME NEW t \in Slots, key_of'[t] >= 0
          PROVE  slot_of'[key_of'[t]] = t /\ bytes'[t] = key_of'[t] /\ pad'[t] = key_of'[t]
      <4>1. CASE t = s
        BY <3>1, <4>1, <1>2, <1>5 DEF TypeOK
      <4>2. CASE t # s
        <5>0. key_of'[t] = key_of[t]
          BY <3>1, <4>2, <1>2 DEF TypeOK
        <5>1. key_of'[t] = key_of[t] /\ key_of[t] \in Keys /\ slot_of[key_of[t]] = t
          BY <5>0, <3>3, <1>2, KeyHeld DEF IndexTruth
        <5>2. key_of[t] # k
          BY <5>1, <1>3, Marks
        <5>3. QED
          BY <3>1, <3>3, <5>1, <5>2, <4>2, <1>2, <1>5 DEF TypeOK, IndexTruth
      <4>3. QED
        BY <4>1, <4>2
    <3>4. QED
      BY <3>2, <3>3 DEF IndexTruth
  <2>2. CASE ~ok
    <3>1. /\ slot_of' = Evicted(s)
          /\ key_of' = [key_of EXCEPT ![s] = EMPTY]
          /\ pad' = pad
          /\ bytes' = [bytes EXCEPT ![s] = None]
      BY <1>1, <2>2
    <3>2. QED
      BY Zenon, <3>1, <1>2, <1>5, EmptiedTruth
  <2>3. QED
    BY <2>1, <2>2
<1>9. ReadsDisjoint'
  <2>1. \A t \in Slots : key_of'[t] # INFLIGHT
    BY <1>1, <1>2, <1>3, Marks DEF TypeOK, ReadsDisjoint
  <2>2. QED
    BY <2>1, <1>3 DEF ReadsDisjoint
<1>10. ReadTruth'
  BY <1>3 DEF ReadTruth
<1>11. QED
  BY <1>7, <1>8, <1>9, <1>10 DEF CacheInv

\* A key of a batch gets a slot.
LEMMA ReserveStep ==
    ASSUME CacheInv, Reserve
    PROVE  CacheInv'
<1> DEFINE k == Head(todo)
<1> DEFINE item(s) == [slot |-> s, key |-> k, read |-> "issued"]
<1>1. PICK s \in Slots :
        /\ Victim(s)
        /\ meta' = [meta EXCEPT ![s] = k]
        /\ slot_of' = Evicted(s)
        /\ key_of' = [key_of EXCEPT ![s] = INFLIGHT]
        /\ age' = Touched(s)
        /\ work' = work \union {item(s)}
  BY Zenon DEF Reserve
<1>2. TypeOK /\ IndexTruth /\ ReadsDisjoint /\ ReadTruth
  BY DEF CacheInv
<1>3. /\ k \in Keys /\ slot_of[k] = None /\ k \notin Reserved
      /\ pc = "reserve" /\ todo # <<>> /\ todo' = Tail(todo)
      /\ UNCHANGED <<pinned, bytes, pad, hits, misses, prefetch_reads, pc>>
  BY DEF Reserve, Wanted, Reserving, Absent, countVars
<1>4. key_of[s] = EMPTY \/ (key_of[s] \in Keys /\ s \notin pinned)
  BY <1>1, <1>2, VictimKind
<1>5. /\ Evicted(s) \in [Keys -> Slots \union {None}]
      /\ \A j \in Keys : Evicted(s)[j] = IF slot_of[j] = s THEN None ELSE slot_of[j]
  BY <1>2, <1>4, EvictedFacts
<1>6. Touched(s) \in [Slots -> Slots]
  BY <1>2, TouchedType DEF TypeOK
<1>7. item(s) \in Work
  BY Zenon, <1>3 DEF Work
<1> HIDE DEF k
<1>8. TypeOK'
  <2>1. todo' \in Seq(Nat)
    BY <1>2, <1>3 DEF TypeOK
  <2>2. work' \in SUBSET Work
    BY <1>1, <1>2, <1>7 DEF TypeOK
  <2>3. /\ key_of' \in [Slots -> Keys \union {EMPTY, INFLIGHT}]
        /\ meta' \in [Slots -> Keys \union {None}]
    BY <1>1, <1>2, <1>3 DEF TypeOK
  <2>4. QED
    BY Zenon, <2>1, <2>2, <2>3, <1>1, <1>2, <1>3, <1>5, <1>6 DEF TypeOK
<1>9. IndexTruth'
  <2>1. bytes' = [bytes EXCEPT ![s] = bytes[s]]
    BY <1>2, <1>3 DEF TypeOK
  <2>2. QED
    BY Zenon, <2>1, <1>1, <1>2, <1>3, <1>5, EmptiedTruth
<1>10. ReadsDisjoint'
  <2>1. \A w \in work : w.slot \in Slots /\ w.slot # s /\ w.key # k
    BY <1>2, <1>3, <1>4, Marks DEF TypeOK, ReadsDisjoint, Reserved, Work
  <2>2. item(s).slot = s /\ item(s).key = k
    OBVIOUS
  <2>3. \A v, w \in work' : v.slot = w.slot \/ v.key = w.key => v = w
    BY <2>1, <2>2, <1>1, <1>2 DEF ReadsDisjoint
  <2>4. \A t \in Slots : key_of'[t] = INFLIGHT <=> \E w \in work' : w.slot = t
    <3>1. ASSUME NEW t \in Slots, t # s
          PROVE  key_of'[t] = INFLIGHT <=> \E w \in work' : w.slot = t
      BY <3>1, <2>2, <1>1, <1>2 DEF TypeOK, ReadsDisjoint
    <3>2. key_of'[s] = INFLIGHT /\ \E w \in work' : w.slot = s
      BY Zenon, <2>2, <1>1, <1>2 DEF TypeOK
    <3>3. QED
      BY <3>1, <3>2
  <2>5. \A w \in work' : slot_of'[w.key] = None
    <3>1. slot_of'[k] = None
      BY <1>1, <1>3, <1>5
    <3>2. \A w \in work : w.key \in Keys /\ slot_of[w.key] = None
      BY <1>2 DEF TypeOK, ReadsDisjoint, Work
    <3>3. QED
      BY Zenon, <3>1, <3>2, <2>2, <1>1, <1>5
  <2>6. pc' # "idle"
    BY <1>3
  <2>7. QED
    BY <2>3, <2>4, <2>5, <2>6 DEF ReadsDisjoint
<1>11. ReadTruth'
  BY <1>1, <1>2, <1>3 DEF ReadTruth
<1>12. QED
  BY <1>8, <1>9, <1>10, <1>11 DEF CacheInv

\* One of the parallel reads ends.
LEMMA ReadStep ==
    ASSUME CacheInv, NEW w \in work, NEW ok \in BOOLEAN, Read(w, ok)
    PROVE  CacheInv'
<1> DEFINE done == [w EXCEPT !.read = IF ok THEN "whole" ELSE "short"]
<1>1. TypeOK /\ IndexTruth /\ ReadsDisjoint /\ ReadTruth
  BY DEF CacheInv
<1>2. w \in Work /\ w.slot \in Slots /\ w.key \in Keys
  BY <1>1 DEF TypeOK, Work
<1>3. /\ done \in Work /\ done.slot = w.slot /\ done.key = w.key
      /\ done.read = IF ok THEN "whole" ELSE "short"
  BY <1>2 DEF Work
<1>4. /\ work' = (work \ {w}) \union {done}
      /\ bytes' = [bytes EXCEPT ![w.slot] = IF ok THEN w.key ELSE None]
      /\ pc' \in {"publish", "read"}
      /\ UNCHANGED <<slot_of, key_of, age, pinned, pad, meta, hits, misses,
                     prefetch_reads, todo>>
  BY DEF Read, indexVars, countVars
<1> HIDE DEF done
<1>5. TypeOK'
  <2>1. work' \in SUBSET Work
    BY <1>1, <1>3, <1>4 DEF TypeOK
  <2>2. bytes' \in [Slots -> Keys \union {None}]
    BY <1>1, <1>2, <1>4 DEF TypeOK
  <2>3. QED
    BY <2>1, <2>2, <1>1, <1>4 DEF TypeOK
<1>6. \A v \in work : v.slot \in Slots /\ (v # w => v.slot # w.slot)
  BY <1>1 DEF TypeOK, ReadsDisjoint, Work
<1>7. IndexTruth'
  <2>1. key_of[w.slot] = INFLIGHT
    BY <1>1, <1>2 DEF ReadsDisjoint
  <2>2. \A t \in Slots : key_of[t] >= 0 => bytes'[t] = bytes[t]
    BY <2>1, <1>1, <1>2, <1>4 DEF TypeOK, INFLIGHT
  <2>3. QED
    BY <2>2, <1>1, <1>4 DEF IndexTruth
<1>8. ReadsDisjoint'
  BY <1>1, <1>3, <1>4 DEF ReadsDisjoint
<1>9. ReadTruth'
  <2>1. ASSUME NEW v \in work', v.read = "whole" PROVE bytes'[v.slot] = v.key
    <3>1. CASE v = done
      BY <2>1, <3>1, <1>1, <1>2, <1>3, <1>4 DEF TypeOK
    <3>2. CASE v # done
      BY <2>1, <3>2, <1>1, <1>2, <1>4, <1>6 DEF TypeOK, ReadTruth
    <3>3. QED
      BY <3>1, <3>2
  <2>2. QED
    BY <2>1 DEF ReadTruth
<1>10. QED
  BY <1>5, <1>7, <1>8, <1>9 DEF CacheInv

\* A key of the batch is published, or its slot is given up.
LEMMA PublishStep ==
    ASSUME CacheInv, NEW w \in work, Publish(w)
    PROVE  CacheInv'
<1>1. TypeOK /\ IndexTruth /\ ReadsDisjoint /\ ReadTruth
  BY DEF CacheInv
<1>2. w \in Work /\ w.slot \in Slots /\ w.key \in Keys
  BY <1>1 DEF TypeOK, Work
<1>3. /\ work' = work \ {w}
      /\ pc' = IF work = {w} THEN "idle" ELSE "publish"
      /\ UNCHANGED <<pinned, bytes, meta, hits, misses, todo>>
  BY DEF Publish
<1>4. key_of[w.slot] = INFLIGHT /\ slot_of[w.key] = None
  BY <1>1, <1>2 DEF ReadsDisjoint
<1>5. \A v \in work' : /\ v \in work /\ v.slot \in Slots /\ v.key \in Keys
                       /\ v.slot # w.slot /\ v.key # w.key
  BY <1>1, <1>3 DEF TypeOK, ReadsDisjoint, Work
<1>6. ReadTruth'
  BY <1>1, <1>3 DEF ReadTruth
<1>7. CASE w.read = "whole"
  <2>1. /\ key_of' = [key_of EXCEPT ![w.slot] = w.key]
        /\ slot_of' = [slot_of EXCEPT ![w.key] = w.slot]
        /\ pad' = [pad EXCEPT ![w.slot] = w.key]
        /\ age' = Touched(w.slot)
        /\ prefetch_reads' = prefetch_reads + 1
    BY <1>7 DEF Publish
  <2>2. bytes[w.slot] = w.key
    BY <1>1, <1>7 DEF ReadTruth
  <2>3. TypeOK'
    <3>1. age' \in [Slots -> Slots]
      BY Zenon, <2>1, <1>1, <1>2, TouchedType DEF TypeOK
    <3>2. /\ key_of' \in [Slots -> Keys \union {EMPTY, INFLIGHT}]
          /\ slot_of' \in [Keys -> Slots \union {None}]
          /\ pad' \in [Slots -> Keys \union {None}]
      BY Zenon, <2>1, <1>1, <1>2 DEF TypeOK
    <3>3. QED
      BY <3>1, <3>2, <2>1, <1>1, <1>3 DEF TypeOK
  <2>4. IndexTruth'
    <3>1. ASSUME NEW j \in Keys, slot_of'[j] # None PROVE key_of'[slot_of'[j]] = j
      <4>1. CASE j = w.key
        BY Zenon, <4>1, <2>1, <1>1, <1>2 DEF TypeOK
      <4>2. CASE j # w.key
        <5>0. slot_of'[j] = slot_of[j]
          BY Zenon, <4>2, <2>1, <1>1 DEF TypeOK
        <5>1. slot_of'[j] = slot_of[j] /\ slot_of[j] \in Slots /\ key_of[slot_of[j]] = j
          BY <3>1, <5>0, <1>1 DEF TypeOK, IndexTruth
        <5>2. slot_of[j] # w.slot
          BY <5>1, <1>4, Marks
        <5>3. QED
          BY Zenon, <5>1, <5>2, <2>1, <1>1 DEF TypeOK
      <4>3. QED
        BY <4>1, <4>2
    <3>2. ASSUME NEW t \in Slots, key_of'[t] >= 0
          PROVE  slot_of'[key_of'[t]] = t /\ bytes'[t] = key_of'[t] /\ pad'[t] = key_of'[t]
      <4>1. CASE t = w.slot
        BY Zenon, <4>1, <2>1, <2>2, <1>1, <1>2, <1>3 DEF TypeOK
      <4>2. CASE t # w.slot
        <5>1. key_of'[t] = key_of[t] /\ bytes'[t] = bytes[t] /\ pad'[t] = pad[t]
          BY Zenon, <4>2, <2>1, <1>1, <1>3 DEF TypeOK
        <5>2. key_of[t] \in Keys
          BY <3>2, <5>1, <1>1, KeyHeld
        <5>3. slot_of[key_of[t]] = t /\ bytes[t] = key_of[t] /\ pad[t] = key_of[t]
          BY <3>2, <5>1, <1>1 DEF IndexTruth
        <5>4. key_of[t] # w.key
          BY <5>3, <1>4, Marks
        <5>5. QED
          BY Zenon, <5>1, <5>2, <5>3, <5>4, <2>1, <1>1 DEF TypeOK
      <4>3. QED
        BY <4>1, <4>2
    <3>3. QED
      BY Zenon, <3>1, <3>2 DEF IndexTruth
  <2>5. ReadsDisjoint'
    <3>1. \A u, v \in work' : u.slot = v.slot \/ u.key = v.key => u = v
      BY <1>1, <1>3 DEF ReadsDisjoint
    <3>2. \A t \in Slots : key_of'[t] = INFLIGHT <=> \E v \in work' : v.slot = t
      <4>1. key_of'[w.slot] # INFLIGHT
        BY <2>1, <1>1, <1>2, Marks DEF TypeOK
      <4>2. \A t \in Slots \ {w.slot} : key_of'[t] = key_of[t]
        BY Zenon, <2>1, <1>1 DEF TypeOK
      <4>3. QED
        BY Zenon, <4>1, <4>2, <1>1, <1>3, <1>5 DEF ReadsDisjoint
    <3>3. \A v \in work' : slot_of'[v.key] = None
      BY Zenon, <2>1, <1>1, <1>5 DEF TypeOK, ReadsDisjoint
    <3>4. pc' = "idle" => work' = {}
      BY <1>3
    <3>5. QED
      BY <3>1, <3>2, <3>3, <3>4 DEF ReadsDisjoint
  <2>6. QED
    BY <1>6, <2>3, <2>4, <2>5 DEF CacheInv
<1>8. CASE w.read # "whole"
  <2>1. /\ key_of' = [key_of EXCEPT ![w.slot] = EMPTY]
        /\ UNCHANGED <<slot_of, pad, age, prefetch_reads>>
    BY <1>8 DEF Publish
  <2>2. TypeOK'
    BY Zenon, <2>1, <1>1, <1>3, Marks DEF TypeOK
  <2>3. \A t \in Slots \ {w.slot} : key_of'[t] = key_of[t]
    BY <2>1, <1>1 DEF TypeOK
  <2>4. key_of'[w.slot] = EMPTY
    BY Zenon, <2>1, <1>1, <1>2 DEF TypeOK
  <2>5. IndexTruth'
    <3>1. \A j \in Keys : slot_of[j] # w.slot
      BY <1>1, <1>2, <1>4, Marks DEF IndexTruth
    <3>2. \A j \in Keys : slot_of[j] # None => slot_of[j] \in Slots
      BY <1>1 DEF TypeOK
    <3>3. \A j \in Keys : slot_of'[j] # None => key_of'[slot_of'[j]] = j
      BY <3>1, <3>2, <2>1, <2>3, <1>1 DEF IndexTruth
    <3>4. ASSUME NEW t \in Slots, key_of'[t] >= 0
          PROVE  slot_of'[key_of'[t]] = t /\ bytes'[t] = key_of'[t] /\ pad'[t] = key_of'[t]
      <4>1. t # w.slot
        BY <3>4, <2>4 DEF EMPTY
      <4>2. QED
        BY Zenon, <3>4, <4>1, <2>1, <2>3, <1>1, <1>3 DEF IndexTruth
    <3>5. QED
      BY <3>3, <3>4 DEF IndexTruth
  <2>6. ReadsDisjoint'
    <3>1. \A t \in Slots : key_of'[t] = INFLIGHT <=> \E v \in work' : v.slot = t
      BY <2>3, <2>4, <1>1, <1>3, <1>5, Marks DEF ReadsDisjoint
    <3>2. QED
      BY <3>1, <2>1, <1>1, <1>3 DEF ReadsDisjoint
  <2>7. QED
    BY <1>6, <2>2, <2>5, <2>6 DEF CacheInv
<1>9. QED
  BY <1>7, <1>8

\* A get keeps the invariant.
LEMMA GetStep ==
    ASSUME CacheInv, NEW k \in Keys, Get(k)
    PROVE  CacheInv'
<1>1. TypeOK /\ IndexTruth /\ ReadsDisjoint /\ ReadTruth
  BY DEF CacheInv
<1>2. CASE GetHit(k)
  <2>1. slot_of[k] \in Slots
    BY <1>2, <1>1 DEF GetHit, TypeOK
  <2>2. age' \in [Slots -> Slots]
    BY <2>1, <1>2, <1>1, TouchedType DEF GetHit, TypeOK
  <2>3. TypeOK'
    BY <2>2, <1>2, <1>1 DEF GetHit, TypeOK, slotVars, batchVars
  <2>4. QED
    BY Zenon, <2>3, <1>2, <1>1, QuietStep DEF GetHit, slotVars, batchVars, ReadsDisjoint
<1>3. CASE GetRefused(k)
  <2>1. TypeOK'
    BY <1>3, <1>1 DEF GetRefused, TypeOK, indexVars, slotVars, batchVars
  <2>2. QED
    BY Zenon, <2>1, <1>3, <1>1, QuietStep DEF GetRefused, indexVars, slotVars, batchVars, ReadsDisjoint
<1>4. QED
  BY <1>2, <1>3, LoadStep DEF Get

\* So does the start of a batch.
LEMMA GetManyStep ==
    ASSUME CacheInv, NEW ks \in Seq(Nat), GetMany(ks)
    PROVE  CacheInv'
<1>1. TypeOK /\ ReadsDisjoint
  BY DEF CacheInv
<1>2. TypeOK'
  BY <1>1 DEF GetMany, TypeOK, indexVars, slotVars, countVars
<1>3. QED
  BY <1>1, <1>2, QuietStep DEF GetMany, indexVars, slotVars

\* And every step of a batch.
LEMMA BatchKeeps ==
    ASSUME CacheInv, BatchStep
    PROVE  CacheInv'
<1>1. TypeOK /\ IndexTruth /\ ReadsDisjoint /\ ReadTruth
  BY DEF CacheInv
<1>2. CASE Skip
  <2>1. TypeOK'
    BY <1>2, <1>1 DEF Skip, Reserving, TypeOK, indexVars, slotVars, countVars
  <2>2. QED
    BY <2>1, <1>2, <1>1, QuietStep DEF Skip, Reserving, indexVars, slotVars
<1>3. CASE ReserveRefused
  <2>1. PICK s \in Slots : meta' = [meta EXCEPT ![s] = Head(todo)]
    BY Zenon, <1>3 DEF ReserveRefused
  <2>2. Head(todo) \in Keys /\ pc = "reserve" /\ todo # <<>>
    BY <1>3 DEF ReserveRefused, Wanted, Reserving, Absent
  <2>3. meta' \in [Slots -> Keys \union {None}]
    BY <2>1, <2>2, <1>1 DEF TypeOK
  <2>4. TypeOK'
    BY <2>2, <2>3, <1>3, <1>1 DEF ReserveRefused, TypeOK, indexVars, countVars
  <2>5. QED
    BY <2>2, <2>4, <1>3, <1>1, QuietStep DEF ReserveRefused, indexVars
<1>4. CASE Reserve
  BY <1>4, ReserveStep
<1>5. CASE ReserveEnds
  <2>1. TypeOK'
    BY <1>5, <1>1 DEF ReserveEnds, TypeOK, indexVars, slotVars, countVars
  <2>2. QED
    BY <2>1, <1>5, <1>1, QuietStep DEF ReserveEnds, indexVars, slotVars
<1>6. QED
  BY <1>2, <1>3, <1>4, <1>5, ReadStep, PublishStep DEF BatchStep

\* And a reset of the counters.
LEMMA ResetKeeps ==
    ASSUME CacheInv, ResetStats
    PROVE  CacheInv'
<1>1. TypeOK /\ ReadsDisjoint
  BY DEF CacheInv
<1>2. TypeOK'
  BY <1>1 DEF ResetStats, TypeOK, indexVars, slotVars, batchVars
<1>3. QED
  BY Zenon, <1>1, <1>2, QuietStep DEF ResetStats, indexVars, slotVars, batchVars, ReadsDisjoint

LEMMA CacheStep == CacheInv /\ [Next]_vars => CacheInv'
<1> SUFFICES ASSUME CacheInv, [Next]_vars PROVE CacheInv'
  OBVIOUS
<1>1. TypeOK /\ ReadsDisjoint
  BY DEF CacheInv
<1>2. ASSUME NEW ks \in Batches, GetMany(ks) PROVE CacheInv'
  BY <1>2, GetManyStep, CacheAssumption
<1>3. ASSUME NEW k \in Keys, NEW on \in BOOLEAN, Pin(k, on) PROVE CacheInv'
  <2>1. pinned' \in SUBSET Slots
    BY <1>3, <1>1 DEF Pin, TypeOK
  <2>2. TypeOK'
    BY Zenon, <2>1, <1>3, <1>1 DEF Pin, TypeOK, slotVars, countVars, batchVars
  <2>3. QED
    BY Zenon, <2>2, <1>3, <1>1, QuietStep DEF Pin, slotVars, batchVars, ReadsDisjoint
<1>4. CASE UNCHANGED vars
  <2>1. TypeOK'
    BY Zenon, <1>4, <1>1 DEF vars, TypeOK, indexVars, slotVars, countVars, batchVars
  <2>2. QED
    BY Zenon, <2>1, <1>4, <1>1, QuietStep DEF vars, indexVars, slotVars, batchVars, ReadsDisjoint
<1>5. QED
  BY <1>2, <1>3, <1>4, GetStep, BatchKeeps, ResetKeeps DEF Next, Call

\* CacheInv holds in every state.
THEOREM CacheInvariant == Spec => []CacheInv
PROOF BY CacheInit, CacheStep, PTL DEF Spec

\* A slot that claims a key holds that key's bytes, whatever reads of gets
\* and batches fall short (fixes 1 and 2 of cache.h).
THEOREM HitsAreTrue == Spec => []IndexTruth
<1>1. CacheInv => IndexTruth
  BY DEF CacheInv
<1>2. QED
  BY <1>1, CacheInvariant, PTL

\* The parallel reads of a batch go to distinct slots that serve no key, and
\* none stays in flight after it (eng_cache_get_many's phases).
THEOREM NoTwoReadsShare == Spec => []ReadsDisjoint
<1>1. CacheInv => ReadsDisjoint
  BY DEF CacheInv
<1>2. QED
  BY <1>1, CacheInvariant, PTL

\* The slot of a pinned key keeps it (pick_victim skips it, and only reserved
\* slots are published to).
THEOREM PinsHold == Spec => PinnedStay
<1>1. ASSUME CacheInv, [Next]_vars, NEW s \in pinned, key_of[s] >= 0
      PROVE  key_of'[s] = key_of[s]
  <2>1. TypeOK /\ ReadsDisjoint /\ s \in Slots
    BY <1>1 DEF CacheInv, TypeOK
  <2>2. ASSUME NEW v \in Slots, Victim(v) PROVE v # s
    BY <2>2, <2>1, <1>1, VictimKind DEF EMPTY
  <2>3. ASSUME NEW k \in Keys, Get(k) PROVE key_of'[s] = key_of[s]
    <3>1. ASSUME NEW ok \in BOOLEAN, GetLoad(k, ok) PROVE key_of'[s] = key_of[s]
      <4>1. PICK v \in Slots : /\ Victim(v)
                               /\ key_of' = [key_of EXCEPT ![v] = IF ok THEN k ELSE EMPTY]
        BY Zenon, <3>1 DEF GetLoad
      <4>2. QED
        BY <4>1, <2>1, <2>2 DEF TypeOK
    <3>2. CASE GetHit(k) \/ GetRefused(k)
      BY <3>2 DEF GetHit, GetRefused, indexVars
    <3>3. QED
      BY <2>3, <3>1, <3>2 DEF Get
  <2>4. CASE Reserve
    BY Zenon, <2>4, <2>1, <2>2 DEF Reserve, TypeOK
  <2>5. ASSUME NEW w \in work, Publish(w) PROVE key_of'[s] = key_of[s]
    <3>1. w.slot \in Slots /\ w.slot # s
      BY <2>1, <1>1 DEF TypeOK, Work, ReadsDisjoint, INFLIGHT
    <3>2. \E x : key_of' = [key_of EXCEPT ![w.slot] = x]
      BY <2>5 DEF Publish
    <3>3. QED
      BY <3>1, <3>2, <2>1 DEF TypeOK
  <2>6. CASE \/ Skip \/ ReserveRefused \/ ReserveEnds \/ ResetStats \/ UNCHANGED vars
             \/ \E ks \in Batches : GetMany(ks)
             \/ \E w \in work, ok \in BOOLEAN : Read(w, ok)
             \/ \E k \in Keys, on \in BOOLEAN : Pin(k, on)
    BY <2>6 DEF Skip, ReserveRefused, ReserveEnds, ResetStats, GetMany, Read, Pin,
                vars, indexVars
  <2>7. QED
    BY Zenon, <2>3, <2>4, <2>5, <2>6, <1>1 DEF Next, Call, BatchStep
<1>2. CacheInv /\ [Next]_vars => [\A s \in pinned : key_of[s] >= 0 => key_of'[s] = key_of[s]]_vars
  BY <1>1
<1>3. QED
  BY <1>2, CacheInvariant, PTL DEF Spec, PinnedStay

\* The slots in use carry the description of their key, reserved ones too.
MetaInv == MetaTruth /\ \A w \in work : meta[w.slot] = w.key

\* An entry's meta is what its key was described with, unless a batch
\* described a refused key over it (EngCacheEntry.meta).  When the source
\* refuses no key it is always the former.
THEOREM MetaInvariant == Spec => []MetaTruth
<1>1. Init => MetaInv
  BY DEF Init, MetaInv, MetaTruth, EMPTY
<1>2. ASSUME CacheInv, MetaInv, [Next]_vars PROVE MetaInv'
  <2>1. TypeOK /\ ReadsDisjoint /\ MetaTruth
    BY <1>2 DEF CacheInv, MetaInv
  <2>2. \A w \in work : w.slot \in Slots /\ w.key \in Keys /\ key_of[w.slot] = INFLIGHT
    BY <2>1 DEF TypeOK, Work, ReadsDisjoint
  <2>3. ASSUME NEW k \in Keys, NEW ok \in BOOLEAN, GetLoad(k, ok) PROVE MetaInv'
    <3>1. PICK v \in Slots : /\ meta' = [meta EXCEPT ![v] = k]
                             /\ key_of' = [key_of EXCEPT ![v] = IF ok THEN k ELSE EMPTY]
      BY Zenon, <2>3 DEF GetLoad
    <3>2. work' = {}
      BY Zenon, <2>3, <2>1 DEF GetLoad, batchVars, ReadsDisjoint
    <3>3. QED
      BY <3>1, <3>2, <2>1 DEF MetaInv, MetaTruth, TypeOK, EMPTY
  <2>4. CASE Reserve
    <3>1. PICK v \in Slots :
            /\ Victim(v)
            /\ meta' = [meta EXCEPT ![v] = Head(todo)]
            /\ key_of' = [key_of EXCEPT ![v] = INFLIGHT]
            /\ work' = work \union {[slot |-> v, key |-> Head(todo), read |-> "issued"]}
      BY Zenon, <2>4 DEF Reserve
    <3>2. key_of[v] # INFLIGHT
      BY Zenon, <3>1, <2>1, VictimKind, Marks
    <3>3. MetaTruth'
      BY <3>1, <2>1 DEF MetaTruth, TypeOK, INFLIGHT
    <3>4. \A w \in work : meta'[w.slot] = w.key
      BY Zenon, <3>1, <3>2, <2>1, <2>2, <1>2 DEF MetaInv, TypeOK
    <3>5. meta'[v] = Head(todo)
      BY Zenon, <3>1, <2>1 DEF TypeOK
    <3>6. QED
      BY <3>1, <3>3, <3>4, <3>5 DEF MetaInv
  <2>5. ASSUME NEW w \in work, NEW ok \in BOOLEAN, Read(w, ok) PROVE MetaInv'
    <3>1. /\ meta' = meta /\ key_of' = key_of
          /\ work' = (work \ {w}) \union {[w EXCEPT !.read = IF ok THEN "whole" ELSE "short"]}
      BY <2>5 DEF Read, indexVars
    <3>2. w \in Work
      BY <2>1 DEF TypeOK
    <3>3. \A r : [w EXCEPT !.read = r].slot = w.slot /\ [w EXCEPT !.read = r].key = w.key
      BY <3>2 DEF Work
    <3>4. \A v \in work' : v \in work \/ (v.slot = w.slot /\ v.key = w.key)
      BY Zenon, <3>1, <3>3
    <3>5. \A v \in work : meta[v.slot] = v.key
      BY <1>2 DEF MetaInv
    <3>6. \A v \in work' : meta'[v.slot] = v.key
      BY <3>1, <3>4, <3>5
    <3>7. QED
      BY <3>1, <3>6, <2>1 DEF MetaInv, MetaTruth
  <2>6. ASSUME NEW w \in work, Publish(w) PROVE MetaInv'
    <3>1. PICK x \in {w.key, EMPTY} : key_of' = [key_of EXCEPT ![w.slot] = x]
      BY Zenon, <2>6 DEF Publish
    <3>2. meta' = meta /\ work' = work \ {w}
      BY <2>6 DEF Publish
    <3>3. \A t \in Slots \ {w.slot} : key_of'[t] = key_of[t]
      BY Zenon, <3>1, <2>1 DEF TypeOK
    <3>4. key_of'[w.slot] = x /\ meta[w.slot] = w.key
      BY Zenon, <3>1, <2>1, <2>2, <1>2 DEF MetaInv, TypeOK
    <3>5. MetaTruth'
      BY <3>1, <3>2, <3>3, <3>4, <2>1 DEF MetaTruth, EMPTY
    <3>6. QED
      BY <3>2, <3>5, <1>2 DEF MetaInv
  <2>7. CASE \/ Skip \/ ReserveEnds \/ ResetStats \/ UNCHANGED vars
             \/ \E ks \in Batches : GetMany(ks)
             \/ \E k \in Keys : GetHit(k) \/ GetRefused(k)
             \/ \E k \in Keys, on \in BOOLEAN : Pin(k, on)
    <3>1. UNCHANGED <<meta, key_of, work>>
      BY Zenon, <2>7 DEF Skip, ReserveEnds, ResetStats, GetMany, GetHit, GetRefused, Pin,
                  vars, indexVars, slotVars, batchVars
    <3>2. QED
      BY <3>1, <1>2 DEF MetaInv, MetaTruth
  <2>8. CASE ReserveRefused
    <3>1. PICK v \in Slots : Victim(v) /\ meta' = [meta EXCEPT ![v] = Head(todo)]
      BY Zenon, <2>8 DEF ReserveRefused
    <3>2. Head(todo) \in Refused /\ key_of' = key_of /\ work' = work
      BY <2>8 DEF ReserveRefused, indexVars
    <3>3. key_of[v] # INFLIGHT
      BY <3>1, <2>1, VictimKind, Marks
    <3>4. MetaTruth'
      BY Zenon, <3>1, <3>2, <2>1 DEF MetaTruth, TypeOK
    <3>5. \A w \in work : meta'[w.slot] = w.key
      BY Zenon, <3>1, <3>3, <2>1, <2>2, <1>2 DEF MetaInv, TypeOK
    <3>6. QED
      BY <3>2, <3>4, <3>5 DEF MetaInv
  <2>9. QED
    BY <2>3, <2>4, <2>5, <2>6, <2>7, <2>8, <1>2 DEF Next, Call, BatchStep, Get
<1>3. MetaInv => MetaTruth
  BY DEF MetaInv
<1>4. QED
  BY <1>1, <1>2, <1>3, CacheInvariant, PTL DEF Spec

-----------------------------------------------------------------------------
(* The cache under k3_moe and moe_prefill_chunk (ExpertStep).              *)

Listed(q) == {q[i] : i \in 1..Len(q)}

\* The variables of the step, and its phases.
StepTypeOK ==
    /\ epc \in {"out", "batch", "use"}
    /\ want \in Seq(Keys)
    /\ exact \in BOOLEAN /\ drops \in BOOLEAN /\ roomy \in BOOLEAN
    /\ reads \in [Keys -> Nat]
    /\ epc = "out" => want = <<>>
    /\ epc = "batch" => want # <<>>
    /\ epc = "use" => want # <<>>
    /\ epc # "batch" => pc = "idle"
    /\ pc # "idle" => Listed(todo) \subseteq Listed(want)

\* A refused key is never resident or reserved.
RefusedAway ==
    /\ \A k \in Refused : slot_of[k] = None
    /\ \A w \in work : w.key \notin Refused

Described ==
    /\ \A w \in work : meta[w.slot] = w.key

\* Everything computed was right and every description is its key's, or an
\* expert was dropped, or one is going to be.
Accounted ==
    \/ exact /\ \A s \in Slots : key_of[s] >= 0 => meta[s] = key_of[s]
    \/ drops
    \/ Listed(want) \intersect Refused # {}

\* A slot that this step filled or is filling.
Hot(s) == key_of[s] = INFLIGHT \/ (key_of[s] >= 0 /\ reads[key_of[s]] >= 1)

\* Only slots of the step with the keys L, or free ones, are younger than a
\* slot it filled.
InOrder(L) ==
    \A s, t \in Slots :
        Hot(s) /\ age[t] <= age[s] => key_of[t] \in L \union {EMPTY, INFLIGHT}

\* The step with the keys L: what it read is resident and was read once.
FreshFor(L) ==
    /\ Listed(want) \subseteq L
    /\ \A w \in work : w.key \in L
    /\ \A k \in Keys : reads[k] >= 1 => reads[k] = 1 /\ slot_of[k] # None
    /\ InOrder(L)

\* The keys L fit the cache: the slots cannot all hold different keys of L
\* and still leave one out.
Few(L) ==
    \A k \in L : \A g \in [Slots -> L \ {k}] : \E s, t \in Slots : s # t /\ g[s] = g[t]

Fresh ==
    \E L \in SUBSET Keys : Few(L) /\ FreshFor(L)

\* Ages are distinct.
Distinct == \A s, t \in Slots : age[s] = age[t] => s = t

\* The inductive invariant of the step.
StepInv ==
    /\ CacheInv /\ StepTypeOK /\ RefusedAway /\ Described /\ Accounted
    /\ pinned = {}
    /\ Distinct
    /\ roomy => Fresh

\* Stamping a slot makes it the youngest and keeps the order of the others.
LEMMA TouchedOrder ==
    ASSUME age \in [Slots -> Slots], Distinct, NEW s \in Slots
    PROVE  /\ \A t \in Slots \ {s} : Touched(s)[t] > Touched(s)[s]
           /\ \A t, u \in Slots \ {s} : Touched(s)[t] <= Touched(s)[u] => age[t] <= age[u]
           /\ \A t, u \in Slots : Touched(s)[t] = Touched(s)[u] => t = u
<1>1. \A t \in Slots : age[t] \in Nat
  BY Counts DEF Slots
<1>2. Touched(s)[s] = 0
  BY DEF Touched
<1>3. \A t \in Slots \ {s} :
        Touched(s)[t] = IF age[t] < age[s] THEN age[t] + 1 ELSE age[t]
  BY DEF Touched
<1>4. \A t \in Slots \ {s} : age[t] # age[s]
  BY DEF Distinct
<1>5. \A t \in Slots \ {s} : Touched(s)[t] > 0
  BY <1>1, <1>3, <1>4
<1>6. \A t, u \in Slots \ {s} : Touched(s)[t] <= Touched(s)[u] => age[t] <= age[u]
  BY <1>1, <1>3, <1>4
<1>7. \A t, u \in Slots \ {s} : Touched(s)[t] = Touched(s)[u] => age[t] = age[u]
  BY <1>1, <1>3, <1>4
<1>8. QED
  BY <1>2, <1>5, <1>6, <1>7 DEF Distinct

\* A slot that this step filled is not the victim for another key of the step:
\* there would be no slot left that the step has not got, so the step would
\* have more keys than the cache has slots.
LEMMA ColdVictim ==
    ASSUME CacheInv, pinned = {}, NEW L \in SUBSET Keys, Few(L),
           FreshFor(L), NEW k \in L, slot_of[k] = None, k \notin Reserved,
           NEW v \in Slots, Victim(v)
    PROVE  ~(key_of[v] >= 0 /\ reads[key_of[v]] >= 1)
<1> SUFFICES ASSUME key_of[v] >= 0, reads[key_of[v]] >= 1
             PROVE  FALSE
  OBVIOUS
<1>1. TypeOK /\ IndexTruth /\ ReadsDisjoint
  BY DEF CacheInv
<1>2. Empty = {} /\ \A t \in Evictable : age[t] <= age[v]
  BY DEF Victim, Empty, EMPTY
<1>3. Hot(v)
  BY DEF Hot
<1>4. \A t \in Slots : key_of[t] >= 0 => key_of[t] \in L
  <2> TAKE t \in Slots
  <2> HAVE key_of[t] >= 0
  <2>1. age[t] <= age[v]
    BY Zenon, <1>2 DEF Evictable
  <2>2. key_of[t] \in L \union {EMPTY, INFLIGHT}
    BY Zenon, <1>3, <2>1 DEF FreshFor, InOrder
  <2>3. QED
    BY <2>2 DEF EMPTY, INFLIGHT
<1>5. \A t \in Slots : key_of[t] >= 0 \/ \E w \in work : w.slot = t
  <2> TAKE t \in Slots
  <2>1. key_of[t] \in Keys \union {EMPTY, INFLIGHT} /\ key_of[t] # EMPTY
    BY Zenon, <1>1, <1>2 DEF TypeOK, Empty
  <2>2. key_of[t] >= 0 \/ key_of[t] = INFLIGHT
    BY <2>1, Marks
  <2>3. QED
    BY Zenon, <1>1, <2>2 DEF ReadsDisjoint
<1> DEFINE read(t) == CHOOSE w \in work : w.slot = t
           g == [t \in Slots |-> IF key_of[t] >= 0 THEN key_of[t] ELSE read(t).key]
<1>6. \A t \in Slots : ~(key_of[t] >= 0) => read(t) \in work /\ read(t).slot = t
  BY <1>5
<1>7. \A t \in Slots : key_of[t] >= 0 => slot_of[key_of[t]] = t
  BY Zenon, <1>1 DEF IndexTruth
<1>8. \A w \in work : slot_of[w.key] = None /\ w.key \in L /\ w.key # k
  BY <1>1 DEF ReadsDisjoint, FreshFor, Reserved
<1>9. \A t \in Slots : t # None
  BY Marks
<1> HIDE DEF read
<1>10. g \in [Slots -> L \ {k}]
  <2> SUFFICES ASSUME NEW t \in Slots
               PROVE  (IF key_of[t] >= 0 THEN key_of[t] ELSE read(t).key) \in L \ {k}
    OBVIOUS
  <2>1. CASE key_of[t] >= 0
    BY Zenon, <1>4, <1>7, <1>9, <2>1
  <2>2. CASE ~(key_of[t] >= 0)
    BY Zenon, <1>6, <1>8, <2>2
  <2>3. QED
    BY <2>1, <2>2
<1>11. \A s, t \in Slots : g[s] = g[t] => s = t
  <2> SUFFICES ASSUME NEW s \in Slots, NEW t \in Slots, g[s] = g[t]
               PROVE  s = t
    OBVIOUS
  <2>1. CASE key_of[s] >= 0 /\ key_of[t] >= 0
    BY Zenon, <1>7, <2>1
  <2>2. CASE ~(key_of[s] >= 0) /\ ~(key_of[t] >= 0)
    <3>1. read(s).key = read(t).key
      BY <2>2
    <3>2. read(s) = read(t)
      BY Zenon, <1>1, <1>6, <2>2, <3>1 DEF ReadsDisjoint
    <3>3. QED
      BY <1>6, <2>2, <3>2
  <2>3. CASE key_of[s] >= 0 /\ ~(key_of[t] >= 0)
    BY <1>6, <1>7, <1>8, <1>9, <2>3
  <2>4. CASE ~(key_of[s] >= 0) /\ key_of[t] >= 0
    BY <1>6, <1>7, <1>8, <1>9, <2>4
  <2>5. QED
    BY Zenon, <2>1, <2>2, <2>3, <2>4
<1> HIDE DEF g
<1>12. \E t, u \in Slots : t # u /\ g[t] = g[u]
  BY <1>10 DEF Few
<1>13. QED
  BY <1>11, <1>12

\* The elements of a list and of its tail.
LEMMA ListedFacts ==
    ASSUME NEW S, NEW q \in Seq(S), q # <<>>
    PROVE  /\ Tail(q) \in Seq(S) /\ Len(q) \in Nat /\ Len(q) >= 1
           /\ Head(q) \in Listed(q) /\ Head(q) \in S
           /\ Listed(Tail(q)) \subseteq Listed(q)
           /\ Listed(q) \subseteq {Head(q)} \union Listed(Tail(q))
<1>1. Tail(q) \in Seq(S) /\ Len(Tail(q)) = Len(q) - 1 /\ Len(q) \in Nat /\ Len(q) >= 1
  OBVIOUS
<1>2. Head(q) = q[1] /\ 1 \in 1..Len(q)
  BY <1>1
<1>3. \A i \in 1..Len(Tail(q)) : Tail(q)[i] = q[i + 1] /\ i + 1 \in 1..Len(q)
  BY <1>1
<1>4. \A i \in 1..Len(q) : i = 1 \/ (i - 1 \in 1..Len(Tail(q)) /\ Tail(q)[i - 1] = q[i])
  BY <1>1, <1>3
<1>5. Head(q) \in Listed(q) /\ Head(q) \in S
  BY <1>2 DEF Listed
<1>6. Listed(Tail(q)) \subseteq Listed(q)
  BY <1>3 DEF Listed
<1>7. Listed(q) \subseteq {Head(q)} \union Listed(Tail(q))
  BY Zenon, <1>2, <1>4 DEF Listed
<1>8. QED
  BY <1>1, <1>5, <1>6, <1>7

\* The order survives the stamping of a slot that then holds a key of the step.
LEMMA OrderTouched ==
    ASSUME age \in [Slots -> Slots], Distinct, NEW L, InOrder(L), NEW s \in Slots,
           age' = Touched(s), key_of'[s] \in L \union {EMPTY, INFLIGHT},
           \A t \in Slots \ {s} : key_of'[t] = key_of[t] /\ (Hot(t)' => Hot(t))
    PROVE  InOrder(L)'
<1> SUFFICES ASSUME NEW u \in Slots, NEW t \in Slots, Hot(u)', age'[t] <= age'[u]
             PROVE  key_of'[t] \in L \union {EMPTY, INFLIGHT}
  BY DEF InOrder
<1>1. CASE t = s
  BY Zenon, <1>1
<1>2. CASE t # s
  <2>1. u # s
    <3>1. \A x \in Slots : age'[x] \in Int
      <4>1. age' \in [Slots -> Slots]
        BY Zenon, TouchedType
      <4>2. \A x \in Slots : age'[x] \in Slots
        BY Zenon, <4>1
      <4>3. Slots \subseteq Int
        BY Counts DEF Slots
      <4>4. QED
        BY Zenon, <4>2, <4>3
    <3>2. age'[t] > age'[s]
      BY Zenon, <1>2, TouchedOrder
    <3>3. QED
      BY <3>1, <3>2
  <2>2. age[t] <= age[u]
    BY Zenon, <1>2, <2>1, TouchedOrder
  <2>3. QED
    BY Zenon, <1>2, <2>1, <2>2 DEF InOrder
<1>3. QED
  BY Zenon, <1>1, <1>2

\* And the emptying of a slot without a stamp.
LEMMA OrderEmptied ==
    ASSUME NEW L, InOrder(L), NEW s \in Slots, age' = age, key_of'[s] = EMPTY,
           \A t \in Slots \ {s} : key_of'[t] = key_of[t] /\ (Hot(t)' => Hot(t))
    PROVE  InOrder(L)'
<1> SUFFICES ASSUME NEW u \in Slots, NEW t \in Slots, Hot(u)', age'[t] <= age'[u]
             PROVE  key_of'[t] \in L \union {EMPTY, INFLIGHT}
  BY Zenon DEF InOrder
<1>1. CASE t = s
  BY Zenon, <1>1
<1>2. CASE t # s
  <2>1. u # s
    BY DEF Hot, EMPTY, INFLIGHT
  <2>2. QED
    BY Zenon, <1>2, <2>1 DEF InOrder
<1>3. QED
  BY Zenon, <1>1, <1>2

\* A slot whose key was not counted anew is hot after the step only if it was.
LEMMA StaysCold ==
    ASSUME IndexTruth, TypeOK, NEW k \in Keys, slot_of[k] = None,
           \A j \in Keys \ {k} : reads'[j] = reads[j],
           NEW t \in Slots, key_of'[t] = key_of[t], Hot(t)'
    PROVE  Hot(t)
<1>1. CASE key_of[t] = INFLIGHT
  BY <1>1 DEF Hot
<1>2. CASE key_of[t] # INFLIGHT
  <2>1. key_of[t] >= 0 /\ reads'[key_of[t]] >= 1
    BY <1>2 DEF Hot
  <2>2. key_of[t] \in Keys /\ slot_of[key_of[t]] = t
    BY Zenon, <2>1, KeyHeld DEF IndexTruth
  <2>3. key_of[t] # k
    BY Zenon, <2>2, Marks
  <2>4. QED
    BY Zenon, <2>1, <2>2, <2>3 DEF Hot
<1>3. QED
  BY <1>1, <1>2

\* Counting the reads: what is resident stays so, what comes in is counted.
LEMMA ReadOnce ==
    ASSUME reads \in [Keys -> Nat], reads' \in [Keys -> Nat],
           \A j \in Keys : reads[j] >= 1 => reads[j] = 1 /\ slot_of[j] # None,
           \A j \in Keys : reads[j] >= 1 => slot_of'[j] # None,
           \A j \in Keys : \/ reads'[j] = reads[j]
                           \/ slot_of[j] = None /\ slot_of'[j] # None /\ reads'[j] = reads[j] + 1
    PROVE  \A j \in Keys : reads'[j] >= 1 => reads'[j] = 1 /\ slot_of'[j] # None
<1> SUFFICES ASSUME NEW j \in Keys, reads'[j] >= 1
             PROVE  reads'[j] = 1 /\ slot_of'[j] # None
  OBVIOUS
<1>1. reads[j] \in Nat
  OBVIOUS
<1>2. CASE reads'[j] = reads[j]
  BY Zenon, <1>2
<1>3. CASE slot_of[j] = None /\ slot_of'[j] # None /\ reads'[j] = reads[j] + 1
  <2>1. ~(reads[j] >= 1)
    BY <1>3
  <2>2. reads[j] = 0
    BY <1>1, <2>1
  <2>3. QED
    BY <1>3, <2>2
<1>4. QED
  BY Zenon, <1>2, <1>3

\* What the step read survives the eviction of a victim for another of its keys.
LEMMA ReadsKept ==
    ASSUME CacheInv, pinned = {}, NEW L \in SUBSET Keys, Few(L),
           FreshFor(L), NEW k \in L, slot_of[k] = None, k \notin Reserved,
           NEW v \in Slots, Victim(v)
    PROVE  /\ \A j \in Keys : reads[j] >= 1 => Evicted(v)[j] # None
           /\ \A j \in Keys : slot_of[j] = None => Evicted(v)[j] = None
<1>1. TypeOK /\ IndexTruth
  BY DEF CacheInv
<1>2. key_of[v] = EMPTY \/ key_of[v] \in Keys
  BY <1>1, VictimKind
<1>3. \A j \in Keys : Evicted(v)[j] = IF slot_of[j] = v THEN None ELSE slot_of[j]
  BY Zenon, <1>1, <1>2, EvictedFacts
<1>4. ASSUME NEW j \in Keys, reads[j] >= 1 PROVE Evicted(v)[j] # None
  <2>1. slot_of[j] # None
    BY <1>4 DEF FreshFor
  <2>2. slot_of[j] # v
    <3>1. ASSUME slot_of[j] = v PROVE FALSE
      <4>1. key_of[v] = j /\ j >= 0
        BY <1>1, <2>1, <3>1, Marks DEF IndexTruth
      <4>2. QED
        BY <1>4, <4>1, ColdVictim
    <3>2. QED
      BY <3>1
  <2>3. QED
    BY Zenon, <1>3, <2>1, <2>2
<1>5. QED
  BY Zenon, <1>3, <1>4

\* The reads counted in a step of getmany.
CountReads == [k \in Keys |-> IF slot_of[k] = None /\ slot_of'[k] # None
                              THEN reads[k] + 1 ELSE reads[k]]

LEMMA CountFacts ==
    ASSUME reads \in [Keys -> Nat], reads' = CountReads
    PROVE  /\ reads' \in [Keys -> Nat]
           /\ \A j \in Keys : \/ reads'[j] = reads[j]
                              \/ slot_of[j] = None /\ slot_of'[j] # None /\ reads'[j] = reads[j] + 1
           /\ \A j \in Keys : slot_of'[j] = None \/ slot_of[j] # None => reads'[j] = reads[j]
  BY DEF CountReads

\* A step that moves no key and stamps no slot leaves a fresh step fresh.
LEMMA FreshQuiet ==
    ASSUME NEW L, FreshFor(L), slot_of' = slot_of, key_of' = key_of, age' = age,
           \A j \in Keys : reads'[j] = reads[j], TypeOK,
           Listed(want') \subseteq L, \A w \in work' : w.key \in L
    PROVE  FreshFor(L)'
<1>1. \A t \in Slots : Hot(t)' => Hot(t)
  BY KeyHeld DEF Hot
<1>2. InOrder(L)'
  BY Zenon, <1>1 DEF FreshFor, InOrder
<1>3. QED
  BY Zenon, <1>2 DEF FreshFor

\* A reservation.
LEMMA FreshReserve ==
    ASSUME CacheInv, StepTypeOK, pinned = {}, Distinct, NEW L \in SUBSET Keys,
           Few(L), FreshFor(L), Reserve, reads' = CountReads, want' = want
    PROVE  FreshFor(L)'
<1> DEFINE k == Head(todo)
<1>1. TypeOK /\ IndexTruth
  BY DEF CacheInv
<1>2. /\ pc = "reserve" /\ todo # <<>> /\ k \in Keys /\ slot_of[k] = None /\ k \notin Reserved
  BY Zenon DEF Reserve, Wanted, Reserving, Absent
<1>3. k \in L
  <2>1. todo \in Seq(Nat) /\ Listed(todo) \subseteq Listed(want)
    BY Zenon, <1>1, <1>2 DEF TypeOK, StepTypeOK
  <2>2. k \in Listed(todo)
    BY <1>2, <2>1, ListedFacts
  <2>3. QED
    BY Zenon, <2>1, <2>2 DEF FreshFor
<1> HIDE DEF k
<1>4. PICK v \in Slots :
        /\ Victim(v)
        /\ slot_of' = Evicted(v)
        /\ key_of' = [key_of EXCEPT ![v] = INFLIGHT]
        /\ age' = Touched(v)
        /\ work' = work \union {[slot |-> v, key |-> k, read |-> "issued"]}
  BY Zenon DEF Reserve, k
<1>5. /\ \A j \in Keys : reads[j] >= 1 => slot_of'[j] # None
      /\ \A j \in Keys : slot_of[j] = None => slot_of'[j] = None
  BY Zenon, <1>2, <1>3, <1>4, ReadsKept
<1>6. \A j \in Keys : reads'[j] = reads[j]
  BY Zenon, <1>5, CountFacts DEF StepTypeOK
<1>7. key_of'[v] = INFLIGHT /\ \A t \in Slots \ {v} : key_of'[t] = key_of[t]
  BY Zenon, <1>1, <1>4 DEF TypeOK
<1>8. \A t \in Slots \ {v} : Hot(t)' => Hot(t)
  BY Zenon, <1>1, <1>6, <1>7, KeyHeld DEF Hot
<1>9. InOrder(L)'
  BY Zenon, <1>1, <1>4, <1>7, <1>8, OrderTouched DEF TypeOK, FreshFor
<1>10. \A j \in Keys : reads'[j] >= 1 => reads'[j] = 1 /\ slot_of'[j] # None
  BY Zenon, <1>5, <1>6 DEF FreshFor
<1>11. \A w \in work' : w.key \in L
  <2>1. \A w \in work : w.key \in L
    BY Zenon DEF FreshFor
  <2>2. [slot |-> v, key |-> k, read |-> "issued"].key = k
    OBVIOUS
  <2>3. QED
    BY Zenon, <1>3, <1>4, <2>1, <2>2
<1>12. Listed(want') \subseteq L
  BY Zenon DEF FreshFor
<1>13. QED
  BY Zenon, <1>9, <1>10, <1>11, <1>12 DEF FreshFor

\* A publication.
LEMMA FreshPublish ==
    ASSUME CacheInv, StepTypeOK, Distinct, NEW L \in SUBSET Keys, FreshFor(L),
           NEW w \in work, Publish(w), reads' = CountReads, want' = want
    PROVE  FreshFor(L)'
<1> DEFINE k == w.key
           s == w.slot
<1>1. TypeOK /\ IndexTruth /\ ReadsDisjoint
  BY DEF CacheInv
<1>2. k \in Keys /\ s \in Slots /\ slot_of[k] = None /\ k \in L
  BY <1>1 DEF TypeOK, Work, ReadsDisjoint, FreshFor
<1>3. \A x \in work' : x.key \in L
  BY Zenon DEF Publish, FreshFor
<1> HIDE DEF k, s
<1>4. CASE w.read = "whole"
  <2>1. /\ key_of' = [key_of EXCEPT ![s] = k] /\ slot_of' = [slot_of EXCEPT ![k] = s]
        /\ age' = Touched(s)
    BY Zenon, <1>4 DEF Publish, k, s
  <2>2. key_of'[s] = k /\ \A t \in Slots \ {s} : key_of'[t] = key_of[t]
    BY <1>1, <1>2, <2>1 DEF TypeOK
  <2>3. slot_of'[k] = s /\ \A j \in Keys \ {k} : slot_of'[j] = slot_of[j]
    BY <1>1, <1>2, <2>1 DEF TypeOK
  <2>4. \A j \in Keys : reads[j] >= 1 => slot_of'[j] # None
    BY <1>2, <2>3, Marks DEF FreshFor
  <2>5. \A j \in Keys \ {k} : reads'[j] = reads[j]
    BY Zenon, <2>3, CountFacts DEF StepTypeOK
  <2>6. \A j \in Keys : reads'[j] >= 1 => reads'[j] = 1 /\ slot_of'[j] # None
    BY Zenon, <2>4, CountFacts, ReadOnce DEF StepTypeOK, FreshFor
  <2>7. \A t \in Slots \ {s} : Hot(t)' => Hot(t)
    BY Zenon, <1>1, <1>2, <2>2, <2>5, StaysCold
  <2>8. InOrder(L)'
    BY Zenon, <1>1, <1>2, <2>1, <2>2, <2>7, OrderTouched DEF TypeOK, FreshFor
  <2>9. QED
    BY Zenon, <1>3, <2>6, <2>8 DEF FreshFor
<1>5. CASE w.read # "whole"
  <2>1. key_of' = [key_of EXCEPT ![s] = EMPTY] /\ slot_of' = slot_of /\ age' = age
    BY Zenon, <1>5 DEF Publish, s
  <2>2. key_of'[s] = EMPTY /\ \A t \in Slots \ {s} : key_of'[t] = key_of[t]
    BY Zenon, <1>1, <1>2, <2>1 DEF TypeOK
  <2>3. \A j \in Keys : reads'[j] = reads[j]
    BY Zenon, <2>1, CountFacts DEF StepTypeOK
  <2>4. \A t \in Slots \ {s} : Hot(t)' => Hot(t)
    BY Zenon, <1>1, <2>2, <2>3, KeyHeld DEF Hot
  <2>5. InOrder(L)'
    BY Zenon, <1>2, <2>1, <2>2, <2>4, OrderEmptied DEF FreshFor
  <2>6. QED
    BY Zenon, <1>3, <2>1, <2>3, <2>5 DEF FreshFor
<1>6. QED
  BY <1>4, <1>5

\* The count of one get.
LEMMA CountOne ==
    ASSUME NEW k \in Keys, reads \in [Keys -> Nat],
           reads' = [reads EXCEPT ![k] = IF slot_of[k] = None /\ slot_of'[k] # None
                                         THEN @ + 1 ELSE @]
    PROVE  /\ reads' \in [Keys -> Nat]
           /\ \A j \in Keys \ {k} : reads'[j] = reads[j]
           /\ reads'[k] = IF slot_of[k] = None /\ slot_of'[k] # None THEN reads[k] + 1 ELSE reads[k]
  OBVIOUS

\* A get of the next expert of the list.
LEMMA FreshUse ==
    ASSUME CacheInv, StepTypeOK, pinned = {}, Distinct, NEW L \in SUBSET Keys,
           Few(L), FreshFor(L), NEW k \in L, Get(k),
           reads' = [reads EXCEPT ![k] = IF slot_of[k] = None /\ slot_of'[k] # None
                                         THEN @ + 1 ELSE @],
           Listed(want') \subseteq L
    PROVE  FreshFor(L)'
<1>1. TypeOK /\ IndexTruth /\ ReadsDisjoint
  BY Zenon DEF CacheInv
<1>2. k \in Keys /\ pc = "idle" /\ work = {}
  BY Zenon, <1>1 DEF Get, GetHit, GetRefused, GetLoad, ReadsDisjoint
<1>3. reads \in [Keys -> Nat]
  BY Zenon DEF StepTypeOK
<1>4. /\ reads' \in [Keys -> Nat]
      /\ \A j \in Keys \ {k} : reads'[j] = reads[j]
      /\ reads'[k] = IF slot_of[k] = None /\ slot_of'[k] # None THEN reads[k] + 1 ELSE reads[k]
  BY Zenon, <1>2, <1>3, CountOne
<1>5. CASE GetHit(k)
  <2>1. /\ slot_of' = slot_of /\ key_of' = key_of /\ work' = work /\ slot_of[k] # None
        /\ age' = Touched(slot_of[k])
    BY Zenon, <1>5 DEF GetHit, batchVars
  <2>2. slot_of[k] \in Slots /\ key_of[slot_of[k]] = k
    BY <1>1, <1>2, <2>1 DEF TypeOK, IndexTruth
  <2>3. \A j \in Keys : reads'[j] = reads[j]
    BY <1>4, <2>1
  <2>4. \A t \in Slots : Hot(t)' => Hot(t)
    BY <1>1, <2>1, <2>3, KeyHeld DEF Hot
  <2>5. InOrder(L)'
    BY Zenon, <1>1, <2>1, <2>2, <2>4, OrderTouched DEF TypeOK, FreshFor
  <2>6. QED
    BY Zenon, <1>2, <2>1, <2>3, <2>5 DEF FreshFor
<1>6. CASE GetRefused(k)
  <2>1. slot_of' = slot_of /\ key_of' = key_of /\ work' = work /\ age' = age
    BY Zenon, <1>6 DEF GetRefused, batchVars, indexVars
  <2>2. \A j \in Keys : reads'[j] = reads[j]
    BY <1>4, <2>1
  <2>3. QED
    BY Zenon, <1>1, <1>2, <2>1, <2>2, FreshQuiet
<1>7. ASSUME NEW ok \in BOOLEAN, GetLoad(k, ok) PROVE FreshFor(L)'
  <2>1. PICK v \in Slots :
          /\ Victim(v)
          /\ IF ok
             THEN /\ slot_of' = [Evicted(v) EXCEPT ![k] = v]
                  /\ key_of' = [key_of EXCEPT ![v] = k]
                  /\ age' = Touched(v)
             ELSE /\ slot_of' = Evicted(v)
                  /\ key_of' = [key_of EXCEPT ![v] = EMPTY]
                  /\ age' = age
    BY Zenon, <1>7 DEF GetLoad
  <2>2. slot_of[k] = None /\ work' = {} /\ k \notin Reserved
    BY Zenon, <1>2, <1>7 DEF GetLoad, batchVars, Reserved
  <2>3. /\ \A j \in Keys : reads[j] >= 1 => Evicted(v)[j] # None
        /\ \A j \in Keys : slot_of[j] = None => Evicted(v)[j] = None
    BY Zenon, <2>1, <2>2, ReadsKept
  <2>4. \A t \in Slots \ {v} : key_of'[t] = key_of[t]
    BY Zenon, <1>1, <2>1 DEF TypeOK
  <2>5. \A t \in Slots \ {v} : Hot(t)' => Hot(t)
    BY Zenon, <1>1, <1>2, <1>4, <2>2, <2>4, StaysCold
  <2>6. Evicted(v) \in [Keys -> Slots \union {None}]
    <3>1. key_of[v] = EMPTY \/ key_of[v] \in Keys
      BY Zenon, <1>1, <2>1, VictimKind
    <3>2. QED
      BY Zenon, <1>1, <3>1, EvictedFacts
  <2>7. CASE ok
    <3>1. key_of'[v] = k /\ age' = Touched(v)
      BY Zenon, <1>1, <2>1, <2>7 DEF TypeOK
    <3>2. slot_of'[k] = v /\ \A j \in Keys \ {k} : slot_of'[j] = Evicted(v)[j]
      BY <1>2, <2>1, <2>6, <2>7
    <3>3. \A j \in Keys : reads[j] >= 1 => slot_of'[j] # None
      BY Zenon, <2>3, <3>2, Marks
    <3>4. \A j \in Keys : \/ reads'[j] = reads[j]
                          \/ slot_of[j] = None /\ slot_of'[j] # None /\ reads'[j] = reads[j] + 1
      BY Zenon, <1>4
    <3>5. \A j \in Keys : reads'[j] >= 1 => reads'[j] = 1 /\ slot_of'[j] # None
      BY Zenon, <1>3, <1>4, <3>3, <3>4, ReadOnce DEF FreshFor
    <3>6. InOrder(L)'
      BY Zenon, <1>1, <2>4, <2>5, <3>1, OrderTouched DEF TypeOK, FreshFor
    <3>7. QED
      BY Zenon, <2>2, <3>5, <3>6 DEF FreshFor
  <2>8. CASE ~ok
    <3>1. key_of'[v] = EMPTY /\ age' = age /\ slot_of' = Evicted(v)
      BY Zenon, <1>1, <2>1, <2>8 DEF TypeOK
    <3>2. \A j \in Keys : reads'[j] = reads[j]
      BY Zenon, <1>4, <2>2, <2>3, <3>1
    <3>3. InOrder(L)'
      BY Zenon, <2>4, <2>5, <3>1, OrderEmptied DEF FreshFor
    <3>4. \A j \in Keys : reads'[j] >= 1 => reads'[j] = 1 /\ slot_of'[j] # None
      BY Zenon, <2>3, <3>1, <3>2 DEF FreshFor
    <3>5. QED
      BY Zenon, <2>2, <3>1, <3>3, <3>4 DEF FreshFor
  <2>9. QED
    BY Zenon, <2>7, <2>8
<1>8. QED
  BY Zenon, <1>5, <1>6, <1>7 DEF Get

\* Ages stay distinct: a step stamps one slot or none.
LEMMA DistinctKept ==
    ASSUME CacheInv, Distinct, BatchStep \/ \E k \in Keys : Get(k)
    PROVE  Distinct'
<1>1. TypeOK
  BY DEF CacheInv
<1>2. age' = age \/ \E s \in Slots : age' = Touched(s)
  <2>1. ASSUME NEW k \in Keys, GetHit(k) PROVE \E s \in Slots : age' = Touched(s)
    <3>1. slot_of[k] \in Slots /\ age' = Touched(slot_of[k])
      BY Zenon, <1>1, <2>1 DEF GetHit, TypeOK
    <3>2. QED
      BY <3>1
  <2>2. ASSUME NEW k \in Keys, NEW ok \in BOOLEAN, GetLoad(k, ok)
        PROVE  age' = age \/ \E s \in Slots : age' = Touched(s)
    BY Zenon, <2>2 DEF GetLoad
  <2>3. ASSUME NEW w \in work, Publish(w)
        PROVE  age' = age \/ \E s \in Slots : age' = Touched(s)
    <3>1. w.slot \in Slots
      BY <1>1 DEF TypeOK, Work
    <3>2. QED
      BY Zenon, <2>3, <3>1 DEF Publish
  <2>4. CASE Reserve
    BY Zenon, <2>4 DEF Reserve
  <2>5. CASE \/ Skip \/ ReserveRefused \/ ReserveEnds \/ \E k \in Keys : GetRefused(k)
             \/ \E w \in work, ok \in BOOLEAN : Read(w, ok)
    BY <2>5 DEF Skip, ReserveRefused, ReserveEnds, GetRefused, Read, indexVars
  <2>6. QED
    BY Zenon, <2>1, <2>2, <2>3, <2>4, <2>5 DEF BatchStep, Get
<1>3. QED
  BY Zenon, <1>1, <1>2, TouchedOrder DEF Distinct, TypeOK

\* The accounts of a get: what is computed wrong, or not at all, is a drop
\* now or when the refused key that caused it is asked for.
LEMMA UseAccounts ==
    ASSUME CacheInv, StepTypeOK, RefusedAway, Accounted, Use
    PROVE  RefusedAway' /\ Described' /\ Accounted'
<1> DEFINE k == Head(want)
<1>1. TypeOK /\ IndexTruth /\ ReadsDisjoint /\ want # <<>> /\ want \in Seq(Keys)
  BY Zenon DEF CacheInv, StepTypeOK, Use
<1>2. /\ Get(k) /\ want' = Tail(want)
      /\ exact' = (exact /\ slot_of'[k] # None /\ bytes'[slot_of'[k]] = k /\ meta'[slot_of'[k]] = k)
      /\ drops' = (drops \/ slot_of'[k] = None)
  BY Zenon DEF Use
<1>3. k \in Keys /\ Listed(want) \subseteq {k} \union Listed(want')
  BY Zenon, <1>1, <1>2, ListedFacts
<1> HIDE DEF k
<1>4. work' = {}
  BY Zenon, <1>1, <1>2 DEF Get, GetHit, GetRefused, GetLoad, ReadsDisjoint, batchVars
<1>5. ASSUME NEW ok \in BOOLEAN, GetLoad(k, ok)
      PROVE  /\ k \notin Refused
             /\ \A j \in Keys \ {k} : slot_of[j] = None => slot_of'[j] = None
             /\ \/ slot_of'[k] = None
                \/ \E v \in Slots :
                     /\ slot_of'[k] = v /\ bytes'[v] = k /\ meta'[v] = k /\ key_of'[v] = k
                     /\ \A t \in Slots \ {v} : meta'[t] = meta[t] /\ key_of'[t] = key_of[t]
  <2>1. PICK v \in Slots :
          /\ Victim(v)
          /\ meta' = [meta EXCEPT ![v] = k]
          /\ bytes' = [bytes EXCEPT ![v] = IF ok THEN k ELSE None]
          /\ IF ok THEN /\ slot_of' = [Evicted(v) EXCEPT ![k] = v]
                        /\ key_of' = [key_of EXCEPT ![v] = k]
                   ELSE slot_of' = Evicted(v)
    BY Zenon, <1>5 DEF GetLoad
  <2>2. k \notin Refused /\ slot_of[k] = None
    BY Zenon, <1>5 DEF GetLoad
  <2>3. key_of[v] = EMPTY \/ key_of[v] \in Keys
    BY Zenon, <1>1, <2>1, VictimKind
  <2>4. /\ Evicted(v) \in [Keys -> Slots \union {None}]
        /\ \A j \in Keys : slot_of[j] = None => Evicted(v)[j] = None
    BY Zenon, <1>1, <2>3, EvictedFacts
  <2>5. CASE ok
    <3>1. slot_of'[k] = v /\ \A j \in Keys \ {k} : slot_of'[j] = Evicted(v)[j]
      BY Zenon, <1>3, <2>1, <2>4, <2>5
    <3>2. bytes'[v] = k /\ meta'[v] = k /\ key_of'[v] = k
      BY Zenon, <1>1, <2>1, <2>5 DEF TypeOK
    <3>3. \A t \in Slots \ {v} : meta'[t] = meta[t] /\ key_of'[t] = key_of[t]
      BY Zenon, <1>1, <2>1, <2>5 DEF TypeOK
    <3>4. QED
      BY <2>2, <2>4, <3>1, <3>2, <3>3
  <2>6. CASE ~ok
    BY <1>3, <2>1, <2>2, <2>4, <2>6
  <2>7. QED
    BY Zenon, <2>5, <2>6
<1>6. RefusedAway'
  <2>1. \A j \in Refused : j \in Keys /\ slot_of[j] = None
    BY CacheAssumption DEF RefusedAway, Keys
  <2>2. CASE GetHit(k) \/ GetRefused(k)
    BY Zenon, <1>4, <2>1, <2>2 DEF RefusedAway, GetHit, GetRefused, indexVars
  <2>3. ASSUME NEW ok \in BOOLEAN, GetLoad(k, ok) PROVE RefusedAway'
    BY Zenon, <1>4, <1>5, <2>1, <2>3 DEF RefusedAway
  <2>4. QED
    BY Zenon, <1>2, <2>2, <2>3 DEF Get
<1>7. Accounted'
  <2>1. CASE k \in Refused
    <3>1. slot_of'[k] = None
      BY Zenon, <1>6, <2>1 DEF RefusedAway
    <3>2. QED
      BY Zenon, <1>2, <3>1 DEF Accounted
  <2>2. CASE drops
    BY Zenon, <1>2, <2>2 DEF Accounted
  <2>3. CASE k \notin Refused /\ Listed(want) \intersect Refused # {}
    BY Zenon, <1>3, <2>3 DEF Accounted
  <2>4. CASE exact /\ \A s \in Slots : key_of[s] >= 0 => meta[s] = key_of[s]
    <3>1. CASE GetHit(k)
      <4>1. /\ slot_of' = slot_of /\ key_of' = key_of /\ meta' = meta /\ bytes' = bytes
            /\ slot_of[k] # None
        BY Zenon, <3>1 DEF GetHit, slotVars
      <4>2. slot_of[k] \in Slots /\ key_of[slot_of[k]] = k /\ k >= 0
        BY <1>1, <1>3, <4>1, Marks DEF TypeOK, IndexTruth
      <4>3. bytes[slot_of[k]] = k /\ meta[slot_of[k]] = k
        BY Zenon, <1>1, <2>4, <4>2 DEF IndexTruth
      <4>4. exact'
        BY Zenon, <1>2, <2>4, <4>1, <4>3
      <4>5. QED
        BY Zenon, <2>4, <4>1, <4>4 DEF Accounted
    <3>2. CASE GetRefused(k)
      <4>1. slot_of'[k] = None
        BY <3>2 DEF GetRefused, indexVars
      <4>2. QED
        BY Zenon, <1>2, <4>1 DEF Accounted
    <3>3. ASSUME NEW ok \in BOOLEAN, GetLoad(k, ok) PROVE Accounted'
      <4>1. CASE slot_of'[k] = None
        BY Zenon, <1>2, <4>1 DEF Accounted
      <4>2. CASE slot_of'[k] # None
        <5>1. PICK v \in Slots :
                /\ slot_of'[k] = v /\ bytes'[v] = k /\ meta'[v] = k /\ key_of'[v] = k
                /\ \A t \in Slots \ {v} : meta'[t] = meta[t] /\ key_of'[t] = key_of[t]
          BY Zenon, <1>5, <3>3, <4>2
        <5>2. exact'
          BY Zenon, <1>2, <2>4, <4>2, <5>1
        <5>3. \A s \in Slots : key_of'[s] >= 0 => meta'[s] = key_of'[s]
          BY <2>4, <5>1
        <5>4. QED
          BY Zenon, <5>2, <5>3 DEF Accounted
      <4>3. QED
        BY <4>1, <4>2
    <3>4. QED
      BY Zenon, <1>2, <3>1, <3>2, <3>3 DEF Get
  <2>5. QED
    BY Zenon, <2>1, <2>2, <2>3, <2>4 DEF Accounted
<1>8. QED
  BY <1>4, <1>6, <1>7 DEF Described

\* The accounts of a batch: the description that a refused key wrote over its
\* victim's is accounted for by that key, which is still on the list.
LEMMA FetchAccounts ==
    ASSUME CacheInv, StepTypeOK, RefusedAway, Described, Accounted, BatchStep,
           UNCHANGED <<want, exact, drops>>
    PROVE  RefusedAway' /\ Described' /\ Accounted'
<1>1. TypeOK /\ IndexTruth /\ ReadsDisjoint
  BY DEF CacheInv
<1>2. \A w \in work : w \in Work /\ w.slot \in Slots /\ w.key \in Keys /\ key_of[w.slot] = INFLIGHT
  BY <1>1 DEF TypeOK, Work, ReadsDisjoint
<1>3. \A j \in Refused : j \in Keys /\ slot_of[j] = None
  BY CacheAssumption DEF RefusedAway, Keys
<1>4. \A v \in Slots : Victim(v) => key_of[v] # INFLIGHT
  BY <1>1, VictimKind, Marks
<1>5. ASSUME pc = "reserve", todo # <<>> PROVE Head(todo) \in Listed(want)
  <2>1. todo \in Seq(Nat) /\ Listed(todo) \subseteq Listed(want)
    BY Zenon, <1>1, <1>5 DEF TypeOK, StepTypeOK
  <2>2. QED
    BY <1>5, <2>1, ListedFacts
<1>6. CASE Skip \/ ReserveEnds
  <2>1. UNCHANGED <<slot_of, key_of, meta, work>>
    BY Zenon, <1>6 DEF Skip, ReserveEnds, indexVars, slotVars
  <2>2. QED
    BY Zenon, <2>1 DEF RefusedAway, Described, Accounted
<1>7. CASE ReserveRefused
  <2>1. PICK v \in Slots : Victim(v) /\ meta' = [meta EXCEPT ![v] = Head(todo)]
    BY Zenon, <1>7 DEF ReserveRefused
  <2>2. /\ Head(todo) \in Refused /\ pc = "reserve" /\ todo # <<>>
        /\ slot_of' = slot_of /\ work' = work
    BY Zenon, <1>7 DEF ReserveRefused, Wanted, Reserving, indexVars
  <2>3. RefusedAway'
    BY Zenon, <2>2 DEF RefusedAway
  <2>4. Described'
    BY Zenon, <1>1, <1>2, <1>4, <2>1, <2>2 DEF Described, TypeOK
  <2>5. Accounted'
    BY Zenon, <1>5, <2>2 DEF Accounted
  <2>6. QED
    BY <2>3, <2>4, <2>5
<1>8. CASE Reserve
  <2> DEFINE k == Head(todo)
  <2>1. PICK v \in Slots :
          /\ Victim(v)
          /\ meta' = [meta EXCEPT ![v] = k]
          /\ slot_of' = Evicted(v)
          /\ key_of' = [key_of EXCEPT ![v] = INFLIGHT]
          /\ work' = work \union {[slot |-> v, key |-> k, read |-> "issued"]}
    BY Zenon, <1>8 DEF Reserve
  <2>2. k \notin Refused
    BY Zenon, <1>8 DEF Reserve
  <2> HIDE DEF k
  <2>3. key_of[v] = EMPTY \/ key_of[v] \in Keys
    BY Zenon, <1>1, <2>1, VictimKind
  <2>4. \A j \in Keys : slot_of[j] = None => slot_of'[j] = None
    BY <1>1, <2>1, <2>3, EvictedFacts
  <2>5. RefusedAway'
    <3>1. \A j \in Refused : slot_of'[j] = None
      BY Zenon, <1>3, <2>4 DEF RefusedAway
    <3>2. [slot |-> v, key |-> k, read |-> "issued"].key = k
      OBVIOUS
    <3>3. \A w \in work' : w.key \notin Refused
      BY Zenon, <1>3, <2>1, <2>2, <3>2 DEF RefusedAway
    <3>4. QED
      BY Zenon, <3>1, <3>3 DEF RefusedAway
  <2>6. meta'[v] = k /\ \A t \in Slots \ {v} : meta'[t] = meta[t]
    BY Zenon, <1>1, <2>1 DEF TypeOK
  <2>7. key_of'[v] = INFLIGHT /\ \A t \in Slots \ {v} : key_of'[t] = key_of[t]
    BY Zenon, <1>1, <2>1 DEF TypeOK
  <2>8. Described'
    <3>1. \A w \in work : w.slot # v
      BY Zenon, <1>2, <1>4, <2>1
    <3>2. \A w \in work : meta'[w.slot] = w.key
      BY Zenon, <1>2, <2>6, <3>1 DEF Described
    <3>3. QED
      BY <2>1, <2>6, <3>2 DEF Described
  <2>9. Accounted'
    BY <2>6, <2>7 DEF Accounted, INFLIGHT
  <2>10. QED
    BY <2>5, <2>8, <2>9
<1>9. ASSUME NEW w \in work, NEW ok \in BOOLEAN, Read(w, ok)
      PROVE  RefusedAway' /\ Described' /\ Accounted'
  <2>1. /\ meta' = meta /\ key_of' = key_of /\ slot_of' = slot_of
        /\ work' = (work \ {w}) \union {[w EXCEPT !.read = IF ok THEN "whole" ELSE "short"]}
    BY <1>9 DEF Read, indexVars
  <2>2. \A r : [w EXCEPT !.read = r].slot = w.slot /\ [w EXCEPT !.read = r].key = w.key
    BY <1>2 DEF Work
  <2>3. \A v \in work' : \E u \in work : v.slot = u.slot /\ v.key = u.key
    BY Zenon, <2>1, <2>2
  <2>4. RefusedAway' /\ Described'
    BY <2>1, <2>3 DEF RefusedAway, Described
  <2>5. QED
    BY <2>1, <2>4 DEF Accounted
<1>10. ASSUME NEW w \in work, Publish(w) PROVE RefusedAway' /\ Described' /\ Accounted'
  <2>1. PICK x \in {w.key, EMPTY} : key_of' = [key_of EXCEPT ![w.slot] = x]
    BY Zenon, <1>10 DEF Publish
  <2>2. meta' = meta /\ work' = work \ {w}
    BY Zenon, <1>10 DEF Publish
  <2>3. slot_of' = slot_of \/ slot_of' = [slot_of EXCEPT ![w.key] = w.slot]
    BY Zenon, <1>10 DEF Publish
  <2>4. \A j \in Keys \ {w.key} : slot_of'[j] = slot_of[j]
    BY Zenon, <1>1, <1>2, <2>3 DEF TypeOK
  <2>5. RefusedAway'
    BY <1>3, <2>2, <2>4 DEF RefusedAway
  <2>6. Described'
    BY Zenon, <2>2 DEF Described
  <2>7. key_of'[w.slot] = x /\ \A t \in Slots \ {w.slot} : key_of'[t] = key_of[t]
    BY Zenon, <1>1, <1>2, <2>1 DEF TypeOK
  <2>8. meta[w.slot] = w.key
    BY DEF Described
  <2>9. ASSUME \A s \in Slots : key_of[s] >= 0 => meta[s] = key_of[s]
        PROVE  \A s \in Slots : key_of'[s] >= 0 => meta'[s] = key_of'[s]
    BY <1>2, <2>1, <2>2, <2>7, <2>8, <2>9 DEF EMPTY
  <2>10. Accounted'
    BY Zenon, <2>9 DEF Accounted
  <2>11. QED
    BY <2>5, <2>6, <2>10
<1>11. QED
  BY Zenon, <1>6, <1>7, <1>8, <1>9, <1>10 DEF BatchStep

\* A sequence over a set is one over any larger set.
LEMMA SeqWider ==
    ASSUME NEW S, NEW T, S \subseteq T, NEW q \in Seq(S)
    PROVE  q \in Seq(T)
  OBVIOUS

\* A list of one element is one whose tail is empty.
LEMMA LastOne ==
    ASSUME NEW S, NEW q \in Seq(S), q # <<>>
    PROVE  Len(q) = 1 <=> Tail(q) = <<>>
<1> DEFINE t == Tail(q)
           n == Len(q)
<1>1. \A u \in Seq(S) : Len(u) = 0 <=> u = <<>>
  OBVIOUS
<1>2. t \in Seq(S) /\ n \in Nat /\ Len(t) = n - 1
  OBVIOUS
<1> HIDE DEF t, n
<1>3. Len(t) = 0 <=> n = 1
  BY <1>2
<1>4. Len(t) = 0 <=> t = <<>>
  BY <1>1, <1>2
<1>5. QED
  BY Zenon, <1>3, <1>4 DEF t, n

\* A step of getmany.
LEMMA FetchKeeps ==
    ASSUME StepInv, Fetch
    PROVE  StepInv'
<1>1. TypeOK /\ ReadsDisjoint /\ StepTypeOK /\ CacheInv /\ RefusedAway /\ Described /\ Accounted
      /\ pinned = {} /\ Distinct
  BY DEF StepInv, CacheInv
<1>2. /\ epc = "batch" /\ BatchStep /\ epc' = (IF pc' = "idle" THEN "use" ELSE "batch")
      /\ reads' = CountReads /\ UNCHANGED <<want, exact, drops, roomy>>
  BY Zenon DEF Fetch, CountReads
<1>3. CacheInv'
  BY <1>1, <1>2, BatchKeeps
<1>4. RefusedAway' /\ Described' /\ Accounted'
  BY <1>1, <1>2, FetchAccounts
<1>5. Distinct'
  BY <1>1, <1>2, DistinctKept
<1>6. pinned' = {}
  BY <1>1, <1>2 DEF BatchStep, Skip, ReserveRefused, Reserve, ReserveEnds, Read, Publish, indexVars
<1>7. reads' \in [Keys -> Nat]
  BY Zenon, <1>1, <1>2, CountFacts DEF StepTypeOK
<1>8. pc' # "idle" => Listed(todo') \subseteq Listed(want)
  <2>1. CASE Skip \/ ReserveRefused \/ Reserve
    <3>1. todo # <<>> /\ pc = "reserve" /\ todo' = Tail(todo)
      BY Zenon, <2>1 DEF Skip, ReserveRefused, Reserve, Wanted, Reserving
    <3>2. todo \in Seq(Nat) /\ Listed(todo) \subseteq Listed(want)
      BY Zenon, <1>1, <3>1 DEF TypeOK, StepTypeOK
    <3>3. Listed(Tail(todo)) \subseteq Listed(todo)
      BY Zenon, <3>1, <3>2, ListedFacts
    <3>4. QED
      BY <3>1, <3>2, <3>3
  <2>2. CASE ReserveEnds
    BY <2>2 DEF ReserveEnds, Listed
  <2>3. CASE (\E w \in work, ok \in BOOLEAN : Read(w, ok)) \/ \E w \in work : Publish(w)
    <3>1. todo' = todo /\ pc # "idle"
      BY <2>3 DEF Read, Publish
    <3>2. QED
      BY <1>1, <3>1 DEF StepTypeOK
  <2>4. QED
    BY Zenon, <1>2, <2>1, <2>2, <2>3 DEF BatchStep
<1>9. StepTypeOK'
  <2>1. epc' \in {"batch", "use"} /\ (epc' # "batch" => pc' = "idle")
    BY <1>2
  <2>2. want' = want /\ want # <<>> /\ want \in Seq(Keys)
    BY Zenon, <1>1, <1>2 DEF StepTypeOK
  <2>3. exact' \in BOOLEAN /\ drops' \in BOOLEAN /\ roomy' \in BOOLEAN
    BY <1>1, <1>2 DEF StepTypeOK
  <2>4. QED
    BY <1>7, <1>8, <2>1, <2>2, <2>3 DEF StepTypeOK
<1>10. ASSUME roomy' PROVE Fresh'
  <2>1. PICK L \in SUBSET Keys : Few(L) /\ FreshFor(L)
    BY <1>2, <1>10 DEF StepInv, Fresh
  <2>2. CASE Reserve
    BY Zenon, <1>1, <1>2, <2>1, <2>2, FreshReserve DEF Fresh
  <2>3. ASSUME NEW w \in work, Publish(w) PROVE Fresh'
    BY Zenon, <1>1, <1>2, <2>1, <2>3, FreshPublish DEF Fresh
  <2>4. ASSUME UNCHANGED <<slot_of, key_of, age>>, \A w \in work' : w.key \in L PROVE Fresh'
    <3>1. \A j \in Keys : reads'[j] = reads[j]
      BY Zenon, <1>1, <1>2, <2>4, CountFacts DEF StepTypeOK
    <3>2. Listed(want') \subseteq L
      BY Zenon, <1>2, <2>1 DEF FreshFor
    <3>3. FreshFor(L)'
      BY Zenon, <1>1, <2>1, <2>4, <3>1, <3>2, FreshQuiet
    <3>4. QED
      BY <2>1, <3>3 DEF Fresh
  <2>5. CASE Skip \/ ReserveRefused \/ ReserveEnds
    <3>1. UNCHANGED <<slot_of, key_of, age, work>>
      BY Zenon, <2>5 DEF Skip, ReserveRefused, ReserveEnds, indexVars
    <3>2. QED
      BY Zenon, <2>1, <2>4, <3>1 DEF FreshFor
  <2>6. ASSUME NEW w \in work, NEW ok \in BOOLEAN, Read(w, ok) PROVE Fresh'
    <3>1. /\ UNCHANGED <<slot_of, key_of, age>>
          /\ work' = (work \ {w}) \union {[w EXCEPT !.read = IF ok THEN "whole" ELSE "short"]}
      BY <2>6 DEF Read, indexVars
    <3>2. \A r : [w EXCEPT !.read = r].key = w.key
      <4>1. w \in Work
        BY <1>1 DEF TypeOK
      <4>2. QED
        BY <4>1 DEF Work
    <3>3. \A v \in work' : \E u \in work : v.key = u.key
      BY Zenon, <3>1, <3>2
    <3>4. \A v \in work' : v.key \in L
      BY Zenon, <2>1, <3>3 DEF FreshFor
    <3>5. QED
      BY <2>4, <3>1, <3>4
  <2>7. QED
    BY <1>2, <2>2, <2>3, <2>5, <2>6 DEF BatchStep
<1>11. QED
  BY Zenon, <1>3, <1>4, <1>5, <1>6, <1>9, <1>10 DEF StepInv

\* The next expert of the list is fetched and computed.
LEMMA UseKeeps ==
    ASSUME StepInv, Use
    PROVE  StepInv'
<1> DEFINE k == Head(want)
<1>1. TypeOK /\ ReadsDisjoint /\ StepTypeOK /\ CacheInv /\ RefusedAway /\ Accounted
      /\ pinned = {} /\ Distinct
  BY DEF StepInv, CacheInv
<1>2. want # <<>> /\ want \in Seq(Keys) /\ epc = "use"
  BY Zenon, <1>1 DEF Use, StepTypeOK
<1>3. /\ Get(k) /\ want' = Tail(want) /\ roomy' = roomy
      /\ reads' = [reads EXCEPT ![k] = IF slot_of[k] = None /\ slot_of'[k] # None
                                       THEN @ + 1 ELSE @]
      /\ epc' = IF Len(want) = 1 THEN "out" ELSE "use"
  BY Zenon DEF Use
<1>4. /\ k \in Keys /\ k \in Listed(want) /\ want' \in Seq(Keys)
      /\ Listed(want') \subseteq Listed(want)
  BY Zenon, <1>2, <1>3, ListedFacts
<1>5. IF Len(want) = 1 THEN want' = <<>> ELSE want' # <<>>
  <2>1. Len(want) = 1 <=> Tail(want) = <<>>
    BY <1>2, LastOne
  <2>2. want' = Tail(want)
    BY Zenon, <1>3
  <2>3. QED
    BY <2>1, <2>2
<1>6. exact' \in BOOLEAN /\ drops' \in BOOLEAN
  BY Zenon DEF Use
<1> HIDE DEF k
<1>7. CacheInv'
  BY Zenon, <1>1, <1>3, <1>4, GetStep
<1>8. RefusedAway' /\ Described' /\ Accounted'
  BY <1>1, UseAccounts
<1>9. Distinct'
  BY Zenon, <1>1, <1>3, <1>4, DistinctKept
<1>10. pinned' = {} /\ pc' = "idle"
  BY Zenon, <1>1, <1>3 DEF Get, GetHit, GetRefused, GetLoad, indexVars, batchVars
<1>11. reads' \in [Keys -> Nat]
  <2>1. reads \in [Keys -> Nat]
    BY <1>1 DEF StepTypeOK
  <2>2. QED
    BY <1>3, <1>4, <2>1
<1>12. StepTypeOK'
  <2>1. /\ epc' \in {"out", "use"} /\ (epc' = "out" => want' = <<>>)
        /\ (epc' = "use" => want' # <<>>)
    BY Zenon, <1>3, <1>5
  <2>2. roomy' \in BOOLEAN
    BY Zenon, <1>1, <1>3 DEF StepTypeOK
  <2>3. QED
    BY <1>4, <1>6, <1>10, <1>11, <2>1, <2>2 DEF StepTypeOK
<1>13. ASSUME roomy' PROVE Fresh'
  <2>1. PICK L \in SUBSET Keys : Few(L) /\ FreshFor(L)
    BY Zenon, <1>3, <1>13 DEF StepInv, Fresh
  <2>2. k \in L /\ Listed(want') \subseteq L
    BY Zenon, <1>4, <2>1 DEF FreshFor
  <2>3. FreshFor(L)'
    BY Zenon, <1>1, <1>3, <2>1, <2>2, FreshUse
  <2>4. QED
    BY <2>1, <2>3 DEF Fresh
<1>14. QED
  BY Zenon, <1>7, <1>8, <1>9, <1>10, <1>12, <1>13 DEF StepInv

\* The counters are reset between steps, or nothing happens.
LEMMA IdleKeeps ==
    ASSUME StepInv, Reset \/ UNCHANGED allVars
    PROVE  StepInv'
<1>1. CacheInv'
  <2>1. CASE Reset
    BY <2>1, ResetKeeps DEF StepInv, Reset
  <2>2. CASE UNCHANGED allVars
    BY <2>2, CacheStep DEF StepInv, allVars
  <2>3. QED
    BY <2>1, <2>2
<1>2. /\ UNCHANGED <<slot_of, key_of, age, pinned, meta, pc, todo, work>>
      /\ UNCHANGED <<epc, want, exact, drops>>
  BY Zenon DEF Reset, ResetStats, allVars, vars, stepVars, indexVars, slotVars, batchVars
<1>3. \/ reads' = [k \in Keys |-> 0] /\ roomy' = TRUE
      \/ reads' = reads /\ roomy' = roomy
  <2>1. CASE Reset
    BY Zenon, <2>1 DEF Reset
  <2>2. CASE UNCHANGED allVars
    BY <2>2 DEF allVars, stepVars
  <2>3. QED
    BY Zenon, <2>1, <2>2
<1>4. StepTypeOK'
  <2>1. StepTypeOK
    BY DEF StepInv
  <2>2. reads' \in [Keys -> Nat]
    BY <1>3, <2>1 DEF StepTypeOK
  <2>3. roomy' \in BOOLEAN
    BY Zenon, <1>3, <2>1 DEF StepTypeOK
  <2>4. QED
    BY <1>2, <2>1, <2>2, <2>3 DEF StepTypeOK
<1>5. RefusedAway' /\ Described' /\ Accounted' /\ pinned' = {} /\ Distinct'
  BY Zenon, <1>2 DEF StepInv, RefusedAway, Described, Accounted, Distinct
<1>6. ASSUME roomy' PROVE Fresh'
  <2>1. CASE Reset
    <3>1. want = <<>> /\ work = {} /\ reads' = [k \in Keys |-> 0]
      BY Zenon, <2>1 DEF Reset, StepInv, StepTypeOK, CacheInv, ReadsDisjoint
    <3>2. \A s \in Slots : ~Hot(s)'
      <4> TAKE s \in Slots
      <4>1. TypeOK /\ ReadsDisjoint
        BY DEF StepInv, CacheInv
      <4>2. key_of'[s] # INFLIGHT
        BY Zenon, <1>2, <3>1, <4>1 DEF ReadsDisjoint
      <4>3. key_of'[s] >= 0 => reads'[key_of'[s]] = 0
        BY Zenon, <1>2, <3>1, <4>1, KeyHeld
      <4>4. QED
        BY <4>2, <4>3 DEF Hot
    <3>3. InOrder({})'
      BY Zenon, <3>2 DEF InOrder
    <3>4. Listed(want') = {}
      BY <1>2, <3>1 DEF Listed
    <3>5. FreshFor({})'
      BY <1>2, <3>1, <3>3, <3>4 DEF FreshFor
    <3>6. Few({})
      BY DEF Few
    <3>7. QED
      BY <3>5, <3>6 DEF Fresh
  <2>2. CASE UNCHANGED allVars
    <3>1. reads' = reads /\ roomy' = roomy
      BY <2>2 DEF allVars, stepVars
    <3>2. PICK L \in SUBSET Keys : Few(L) /\ FreshFor(L)
      BY <1>6, <3>1 DEF StepInv, Fresh
    <3>3. FreshFor(L)'
      BY Zenon, <1>2, <3>1, <3>2 DEF FreshFor, InOrder, Hot
    <3>4. QED
      BY <3>2, <3>3 DEF Fresh
  <2>3. QED
    BY <2>1, <2>2
<1>7. QED
  BY <1>1, <1>4, <1>5, <1>6 DEF StepInv

\* An empty cache before the first token.
LEMMA StepStart ==
    ASSUME StepInit
    PROVE  StepInv
<1>1. CacheInv
  BY CacheInit DEF StepInit
<1>2. /\ pc = "idle" /\ work = {} /\ pinned = {} /\ age = [s \in Slots |-> s]
      /\ slot_of = [k \in Keys |-> None] /\ key_of = [s \in Slots |-> EMPTY]
      /\ epc = "out" /\ want = <<>> /\ exact = TRUE /\ drops = FALSE
      /\ reads = [k \in Keys |-> 0] /\ roomy = TRUE
  BY Zenon DEF StepInit, Init
<1>3. Listed(want) = {}
  BY <1>2 DEF Listed
<1>4. StepTypeOK
  <2>1. want \in Seq(Keys) /\ reads \in [Keys -> Nat]
    BY <1>2
  <2>2. QED
    BY Zenon, <1>2, <2>1 DEF StepTypeOK
<1>5. RefusedAway /\ Described /\ Accounted /\ Distinct
  BY <1>2, CacheAssumption DEF RefusedAway, Described, Accounted, Distinct, Keys, EMPTY
<1>6. Fresh
  <2>1. \A s \in Slots : ~Hot(s)
    BY <1>2, Marks DEF Hot, EMPTY
  <2>2. FreshFor({})
    BY <1>2, <1>3, <2>1 DEF FreshFor, InOrder
  <2>3. Few({})
    BY DEF Few
  <2>4. QED
    BY <2>2, <2>3 DEF Fresh
<1>7. QED
  BY <1>1, <1>2, <1>4, <1>5, <1>6 DEF StepInv

-----------------------------------------------------------------------------
(* Counting: a list that is short enough fits.                             *)

INSTANCE FiniteSetTheorems

\* The slots are as many as NSlot says.
LEMMA SlotCount == IsFiniteSet(Slots) /\ Cardinality(Slots) = NSlot
<1>1. IsFiniteSet(0..NSlot-1) /\ Cardinality(0..NSlot-1) = IF 0 > NSlot-1 THEN 0 ELSE NSlot-1 - 0 + 1
  BY Counts, FS_Interval
<1>2. QED
  BY <1>1, Counts DEF Slots

\* A list has at most as many elements as it is long.
LEMMA ListedCount ==
    ASSUME NEW S, NEW q \in Seq(S)
    PROVE  Cardinality(Listed(q)) <= Len(q)
<1> DEFINE f == [i \in 1..Len(q) |-> q[i]]
<1>1. Len(q) \in Nat
  OBVIOUS
<1>2. IsFiniteSet(1..Len(q)) /\ Cardinality(1..Len(q)) = Len(q)
  <2>1. IsFiniteSet(1..Len(q)) /\ Cardinality(1..Len(q)) = IF 1 > Len(q) THEN 0 ELSE Len(q) - 1 + 1
    BY <1>1, FS_Interval
  <2>2. QED
    BY <1>1, <2>1
<1>3. f \in Surjection(1..Len(q), Listed(q))
  BY DEF Listed, Surjection
<1>4. Cardinality(Listed(q)) <= Cardinality(1..Len(q))
  BY Zenon, <1>2, <1>3, FS_Surjection
<1>5. QED
  BY <1>2, <1>4

\* A list no longer than the cache has slots fits it.
LEMMA ListedFew ==
    ASSUME NEW q \in Seq(Keys), Len(q) <= NSlot
    PROVE  Few(Listed(q))
<1> DEFINE L == Listed(q)
<1> SUFFICES ASSUME NEW k \in L, NEW g \in [Slots -> L \ {k}],
                    \A s, t \in Slots : g[s] = g[t] => s = t
             PROVE  FALSE
  BY DEF Few
<1>1. L \in SUBSET Keys
  BY DEF Listed
<1>2. IsFiniteSet(Keys)
  BY Counts, FS_Interval DEF Keys
<1>3. IsFiniteSet(L) /\ IsFiniteSet(L \ {k})
  BY Zenon, <1>1, <1>2, FS_Subset, FS_RemoveElement
<1>4. Cardinality(L \ {k}) = Cardinality(L) - 1 /\ Cardinality(L) \in Nat
  BY Zenon, <1>3, FS_RemoveElement, FS_CardinalityType
<1>5. Cardinality(L) <= Len(q) /\ Len(q) \in Nat
  BY ListedCount
<1>6. g \in Injection(Slots, L \ {k})
  BY DEF Injection, IsInjective
<1>7. Cardinality(Slots) <= Cardinality(L \ {k})
  BY Zenon, <1>3, <1>6, SlotCount, FS_Injection
<1>8. QED
  BY <1>4, <1>5, <1>7, SlotCount, Counts

\* The list of a token or of a chunk goes to getmany.
LEMMA StartKeeps ==
    ASSUME StepInv, NEW ids \in Steps, Start(ids)
    PROVE  StepInv'
<1> DEFINE n  == IF Len(ids) < MaxTopk THEN Len(ids) ELSE MaxTopk
           ks == SubSeq(ids, 1, n)
<1>1. TypeOK /\ ReadsDisjoint /\ StepTypeOK
  BY DEF StepInv, CacheInv
<1>2. ids \in Seq(Keys) /\ ids # <<>> /\ MaxTopk \in Nat
  BY StepAssumption
<1>3. /\ epc = "out" /\ GetMany(ks) /\ epc' = "batch" /\ want' = ids /\ exact' = TRUE
      /\ reads' = [k \in Keys |-> 0] /\ roomy' = (roomy /\ Len(ids) <= NSlot) /\ drops' = drops
  BY DEF Start
<1>4. n \in 0..Len(ids)
  BY <1>2
<1> HIDE DEF n
<1>5. ks \in Seq(Keys) /\ Len(ks) = n /\ \A i \in 1..n : ks[i] = ids[i]
  BY <1>2, <1>4
<1>6. ks \in Seq(Nat) /\ Listed(ks) \subseteq Listed(ids)
  <2>1. Keys \subseteq Nat
    BY DEF Keys
  <2>2. ks \in Seq(Nat)
    BY Zenon, <1>5, <2>1, SeqWider
  <2>3. Listed(ks) \subseteq Listed(ids)
    BY <1>2, <1>4, <1>5 DEF Listed
  <2>4. QED
    BY <2>2, <2>3
<1> HIDE DEF ks
<1>7. CacheInv'
  BY <1>3, <1>6, GetManyStep DEF StepInv
<1>8. /\ pc = "idle" /\ pc' = "reserve" /\ todo' = ks /\ work = {} /\ work' = {}
      /\ UNCHANGED <<slot_of, key_of, age, pinned, meta>>
  BY Zenon, <1>1, <1>3 DEF GetMany, ReadsDisjoint, indexVars, slotVars
<1>9. StepTypeOK'
  BY Zenon, <1>1, <1>2, <1>3, <1>6, <1>8 DEF StepTypeOK
<1>10. RefusedAway' /\ Described'
  BY <1>8 DEF StepInv, RefusedAway, Described
<1>11. Accounted'
  <2>1. want = <<>>
    BY <1>1, <1>3 DEF StepTypeOK
  <2>2. Listed(want) = {}
    BY <2>1 DEF Listed
  <2>3. drops \/ \A s \in Slots : key_of[s] >= 0 => meta[s] = key_of[s]
    BY <2>2 DEF StepInv, Accounted
  <2>4. QED
    BY Zenon, <1>3, <1>8, <2>3 DEF Accounted
<1>12. roomy' => Fresh'
  <2> SUFFICES ASSUME roomy'
               PROVE  Fresh'
    OBVIOUS
  <2> DEFINE L == Listed(ids)
  <2>1. L \in SUBSET Keys
    BY <1>2 DEF Listed
  <2>2. Few(L)
    <3>1. Len(ids) <= NSlot
      BY Zenon, <1>3
    <3>2. QED
      BY <1>2, <3>1, ListedFew
  <2>3. \A s \in Slots : ~Hot(s)'
    <3> TAKE s \in Slots
    <3>1. key_of'[s] # INFLIGHT
      BY Zenon, <1>1, <1>8 DEF ReadsDisjoint
    <3>2. key_of'[s] >= 0 => reads'[key_of'[s]] = 0
      BY Zenon, <1>1, <1>3, <1>8, KeyHeld
    <3>3. QED
      BY <3>1, <3>2 DEF Hot
  <2>4. InOrder(L)'
    BY Zenon, <2>3 DEF InOrder
  <2>5. FreshFor(L)'
    BY <1>3, <1>8, <2>4 DEF FreshFor
  <2> HIDE DEF L
  <2>6. QED
    BY Zenon, <2>1, <2>2, <2>5 DEF Fresh
<1>13. pinned' = {} /\ Distinct'
  BY Zenon, <1>8 DEF StepInv, Distinct
<1>14. QED
  BY Zenon, <1>7, <1>9, <1>10, <1>11, <1>12, <1>13 DEF StepInv

\* Every step keeps the invariant.
LEMMA StepInvariance ==
    StepSpec => []StepInv
<1>1. StepInit => StepInv
  BY StepStart
<1>2. StepInv /\ [StepNext]_allVars => StepInv'
  BY Zenon, StartKeeps, FetchKeeps, UseKeeps, IdleKeeps DEF StepNext
<1>3. QED
  BY <1>1, <1>2, PTL DEF StepSpec

\* k3_moe and moe_prefill_chunk read no expert twice for one list that fits
\* the cache, for every cache, set of refused experts and list: what getmany
\* brought in is still there when get asks for it.
THEOREM ExpertsFetchedOnce ==
    StepSpec => []FetchOnce
<1>1. StepInv => FetchOnce
  <2> SUFFICES ASSUME StepInv, roomy, NEW k \in Keys
               PROVE  reads[k] <= 1
    BY DEF FetchOnce
  <2>1. PICK L \in SUBSET Keys : FreshFor(L)
    BY Zenon DEF StepInv, Fresh
  <2>2. reads[k] \in Nat /\ (reads[k] >= 1 => reads[k] = 1)
    BY Zenon, <2>1 DEF StepInv, StepTypeOK, FreshFor
  <2>3. QED
    BY <2>2
<1>2. QED
  BY <1>1, StepInvariance, PTL

\* A sum that is not the exact one is never silent: every list that was
\* computed from other bytes or another description than its experts' own
\* left k3_expert_drops set, for every cache, list and pattern of failed reads.
THEOREM InexactIsCounted ==
    StepSpec => []ExactOrCounted
<1>1. StepInv => ExactOrCounted
  <2> SUFFICES ASSUME StepInv, epc = "out"
               PROVE  exact \/ drops
    BY Zenon DEF ExactOrCounted
  <2>1. Listed(want) = {}
    BY DEF StepInv, StepTypeOK, Listed
  <2>2. QED
    BY <2>1 DEF StepInv, Accounted
<1>2. QED
  BY <1>1, StepInvariance, PTL
=============================================================================
