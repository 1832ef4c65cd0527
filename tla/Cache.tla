-------------------------------- MODULE Cache -------------------------------
(***************************************************************************)
(* The keyed weight cache, src/storage/cache.c: uniform slots, LRU         *)
(* replacement, pinning, and a batch admit in three phases (reserve, read  *)
(* in parallel, publish).                                                  *)
(*                                                                         *)
(* Calls are serial, so a get is one step.  A batch is one step per key    *)
(* reserved, per read and per key published; the reads run in an OpenMP    *)
(* loop and end in any order.  The order in which the batch publishes is   *)
(* the storage order of the objects, which is unrelated to their keys, so  *)
(* it is any order here.                                                   *)
(*                                                                         *)
(* Bytes, metadata and payload offset are abstracted to the key they       *)
(* belong to.  LRU stamps are abstracted to their order: age[s] is the     *)
(* number of slots used more recently than s.                              *)
(***************************************************************************)
EXTENDS Integers, FiniteSets, Sequences

CONSTANTS NKeys,     \* cfg->nkeys
          NSlot,     \* c->nslot
          Refused,   \* keys that describe refuses, or that exceed slot_bytes
          MaxBatch,  \* ENG_CACHE_MAX_BATCH
          Batches,   \* the batches to consider, sequences of keys
          MaxCount   \* bound on the counters between two resets

ASSUME CacheAssumption ==
    /\ NKeys \in Nat \ {0} /\ NSlot \in Nat \ {0}
    /\ Refused \subseteq 0..NKeys-1
    /\ MaxBatch \in Nat \ {0} /\ MaxCount \in Nat
    /\ Batches \subseteq Seq(Nat)

Keys  == 0..NKeys-1
Slots == 0..NSlot-1
None     == -1
EMPTY    == -1
INFLIGHT == -2

VARIABLES slot_of,   \* [key] its slot, None if absent
          key_of,    \* [slot] its key, EMPTY or INFLIGHT
          age,       \* [slot] how many slots were used since
          pinned,    \* slots that are pinned
          bytes,     \* [slot] key whose bytes the slot holds
          pad,       \* [slot] key whose payload offset is recorded
          meta,      \* [slot] key whose description is recorded
          hits, misses, prefetch_reads,
          pc,        \* "idle", or the phase of a batch
          todo,      \* keys of the batch not looked at yet
          work       \* reserved items: slot, key, and how the read went

indexVars == <<slot_of, key_of, age, pinned>>
slotVars  == <<bytes, pad, meta>>
countVars == <<hits, misses, prefetch_reads>>
batchVars == <<pc, todo, work>>
vars == <<indexVars, slotVars, countVars, batchVars>>

\* eng_cache_create: every slot empty.
Init ==
    /\ slot_of = [k \in Keys |-> None]
    /\ key_of = [s \in Slots |-> EMPTY]
    /\ age = [s \in Slots |-> s]
    /\ pinned = {}
    /\ bytes = [s \in Slots |-> None]
    /\ pad = [s \in Slots |-> None]
    /\ meta = [s \in Slots |-> None]
    /\ hits = 0 /\ misses = 0 /\ prefetch_reads = 0
    /\ pc = "idle" /\ todo = <<>> /\ work = {}

-----------------------------------------------------------------------------
(* Bookkeeping.                                                            *)

\* used_at[s] = ++clock.
Touched(s) == [t \in Slots |-> IF t = s THEN 0
                               ELSE IF age[t] < age[s] THEN age[t] + 1 ELSE age[t]]

Empty     == {s \in Slots : key_of[s] = EMPTY}
Evictable == {s \in Slots : key_of[s] >= 0 /\ s \notin pinned}

\* Mutant: pinned slots are candidates too.
VictimIgnoresPins(s) ==
    IF Empty # {} THEN s \in Empty /\ \A t \in Empty : s <= t
    ELSE s \in Slots /\ key_of[s] >= 0 /\ \A t \in Slots : age[t] <= age[s]

\* Mutant: the most recently used slot goes.
VictimNewest(s) ==
    IF Empty # {} THEN s \in Empty /\ \A t \in Empty : s <= t
    ELSE s \in Evictable /\ \A t \in Evictable : age[s] <= age[t]

\* pick_victim: the first empty slot, else the least recently used of those
\* that are neither pinned nor being read into.
Victim(s) ==
    IF Empty # {} THEN s \in Empty /\ \A t \in Empty : s <= t
    ELSE s \in Evictable /\ \A t \in Evictable : age[t] <= age[s]

NoVictim == Empty = {} /\ Evictable = {}

\* slot_of once the key in slot s is evicted.
Evicted(s) == IF key_of[s] >= 0 THEN [slot_of EXCEPT ![key_of[s]] = None]
              ELSE slot_of

-----------------------------------------------------------------------------
(* eng_cache_get, through admit.                                           *)

GetHit(k) ==
    /\ pc = "idle" /\ k \in Keys /\ slot_of[k] # None
    /\ hits' = hits + 1
    /\ age' = Touched(slot_of[k])
    /\ UNCHANGED <<slot_of, key_of, pinned, slotVars, misses, prefetch_reads,
                   batchVars>>

\* The key is refused, or no slot can be freed: -1, nothing else changes.
GetRefused(k) ==
    /\ pc = "idle" /\ k \in Keys /\ slot_of[k] = None
    /\ k \in Refused \/ NoVictim
    /\ misses' = misses + 1
    /\ UNCHANGED <<indexVars, slotVars, hits, prefetch_reads, batchVars>>

\* A miss: the victim goes, the object is read into its slot.  A short load
\* leaves the slot empty.
GetLoad(k, ok) ==
    /\ pc = "idle" /\ k \in Keys /\ slot_of[k] = None /\ k \notin Refused
    /\ misses' = misses + 1
    /\ \E s \in Slots :
         /\ Victim(s)
         /\ meta' = [meta EXCEPT ![s] = k]
         /\ bytes' = [bytes EXCEPT ![s] = IF ok THEN k ELSE None]
         /\ IF ok
            THEN /\ slot_of' = [Evicted(s) EXCEPT ![k] = s]
                 /\ key_of' = [key_of EXCEPT ![s] = k]
                 /\ pad' = [pad EXCEPT ![s] = k]
                 /\ age' = Touched(s)
            ELSE /\ slot_of' = Evicted(s)
                 /\ key_of' = [key_of EXCEPT ![s] = EMPTY]
                 /\ UNCHANGED <<pad, age>>
    /\ UNCHANGED <<pinned, hits, prefetch_reads, batchVars>>

Get(k) == GetHit(k) \/ GetRefused(k) \/ \E ok \in BOOLEAN : GetLoad(k, ok)

\* eng_cache_peek: no bookkeeping.
Resident(k) == k \in Keys /\ slot_of[k] # None

\* eng_cache_pin: a resident key's slot is pinned or released.
Pin(k, on) ==
    /\ pc = "idle" /\ k \in Keys /\ slot_of[k] # None
    /\ pinned' = IF on THEN pinned \union {slot_of[k]} ELSE pinned \ {slot_of[k]}
    /\ UNCHANGED <<slot_of, key_of, age, slotVars, countVars, batchVars>>

\* eng_cache_reset_stats.
ResetStats ==
    /\ pc = "idle"
    /\ hits' = 0 /\ misses' = 0 /\ prefetch_reads' = 0
    /\ UNCHANGED <<indexVars, slotVars, batchVars>>

-----------------------------------------------------------------------------
(* eng_cache_get_many.                                                     *)

GetMany(ks) ==
    /\ pc = "idle" /\ ks # <<>>
    /\ pc' = "reserve" /\ todo' = ks
    /\ UNCHANGED <<indexVars, slotVars, countVars, work>>

\* The keys reserved so far.
Reserved == {w.key : w \in work}

Reserving == pc = "reserve" /\ todo # <<>> /\ Cardinality(work) < MaxBatch

Absent(k) == k \in Keys /\ slot_of[k] = None /\ k \notin Reserved

\* Out of range, resident already, or twice in this batch.
Skip ==
    /\ Reserving /\ ~Absent(Head(todo))
    /\ todo' = Tail(todo)
    /\ UNCHANGED <<indexVars, slotVars, countVars, pc, work>>

Wanted == Reserving /\ Absent(Head(todo))

\* describe wrote to the victim's meta before it refused the key; the victim
\* keeps its key.
ReserveRefused ==
    /\ Wanted /\ Head(todo) \in Refused
    /\ \E s \in Slots : Victim(s) /\ meta' = [meta EXCEPT ![s] = Head(todo)]
    /\ todo' = Tail(todo)
    /\ UNCHANGED <<indexVars, bytes, pad, countVars, pc, work>>

\* Mutant: the reserved slot is marked empty.
ReserveMarksEmpty ==
    /\ Wanted /\ Head(todo) \notin Refused
    /\ \E s \in Slots :
         /\ Victim(s)
         /\ meta' = [meta EXCEPT ![s] = Head(todo)]
         /\ slot_of' = Evicted(s)
         /\ key_of' = [key_of EXCEPT ![s] = EMPTY]
         /\ age' = Touched(s)
         /\ work' = work \union {[slot |-> s, key |-> Head(todo), read |-> "issued"]}
    /\ todo' = Tail(todo)
    /\ UNCHANGED <<pinned, bytes, pad, countVars, pc>>

\* The key gets a slot, which no one else can pick until it is published.
Reserve ==
    /\ Wanted /\ Head(todo) \notin Refused
    /\ \E s \in Slots :
         /\ Victim(s)
         /\ meta' = [meta EXCEPT ![s] = Head(todo)]
         /\ slot_of' = Evicted(s)
         /\ key_of' = [key_of EXCEPT ![s] = INFLIGHT]
         /\ age' = Touched(s)
         /\ work' = work \union {[slot |-> s, key |-> Head(todo), read |-> "issued"]}
    /\ todo' = Tail(todo)
    /\ UNCHANGED <<pinned, bytes, pad, countVars, pc>>

\* Every key was looked at, the batch is full, or no slot can be freed.
ReserveEnds ==
    /\ pc = "reserve"
    /\ todo = <<>> \/ Cardinality(work) >= MaxBatch \/ (Wanted /\ NoVictim)
    /\ pc' = IF work = {} THEN "idle" ELSE "read"
    /\ todo' = <<>>
    /\ UNCHANGED <<indexVars, slotVars, countVars, work>>

\* One of the concurrent reads ends, whole or short.  The loop's end is the
\* barrier.
Read(w, ok) ==
    /\ pc = "read" /\ w \in work /\ w.read = "issued"
    /\ bytes' = [bytes EXCEPT ![w.slot] = IF ok THEN w.key ELSE None]
    /\ work' = (work \ {w}) \union {[w EXCEPT !.read = IF ok THEN "whole" ELSE "short"]}
    /\ pc' = IF \A v \in work \ {w} : v.read # "issued" THEN "publish" ELSE "read"
    /\ UNCHANGED <<indexVars, pad, meta, countVars, todo>>

\* Mutant: what was asked for is published, arrived or not.
PublishAnyway(w) ==
    /\ pc = "publish" /\ w \in work
    /\ key_of' = [key_of EXCEPT ![w.slot] = w.key]
    /\ slot_of' = [slot_of EXCEPT ![w.key] = w.slot]
    /\ pad' = [pad EXCEPT ![w.slot] = w.key]
    /\ age' = Touched(w.slot)
    /\ prefetch_reads' = prefetch_reads + 1
    /\ work' = work \ {w}
    /\ pc' = IF work = {w} THEN "idle" ELSE "publish"
    /\ UNCHANGED <<pinned, bytes, meta, hits, misses, todo>>

\* A key is published if all of it arrived; otherwise its slot is empty.
Publish(w) ==
    /\ pc = "publish" /\ w \in work
    /\ IF w.read = "whole"
       THEN /\ key_of' = [key_of EXCEPT ![w.slot] = w.key]
            /\ slot_of' = [slot_of EXCEPT ![w.key] = w.slot]
            /\ pad' = [pad EXCEPT ![w.slot] = w.key]
            /\ age' = Touched(w.slot)
            /\ prefetch_reads' = prefetch_reads + 1
       ELSE /\ key_of' = [key_of EXCEPT ![w.slot] = EMPTY]
            /\ UNCHANGED <<slot_of, pad, age, prefetch_reads>>
    /\ work' = work \ {w}
    /\ pc' = IF work = {w} THEN "idle" ELSE "publish"
    /\ UNCHANGED <<pinned, bytes, meta, hits, misses, todo>>

BatchStep ==
    \/ Skip \/ ReserveRefused \/ Reserve \/ ReserveEnds
    \/ \E w \in work, ok \in BOOLEAN : Read(w, ok)
    \/ \E w \in work : Publish(w)

-----------------------------------------------------------------------------
\* A caller that does anything, between two resets at most MaxCount times.
Call ==
    /\ hits + misses < MaxCount /\ prefetch_reads < MaxCount
    /\ \/ \E k \in Keys : Get(k)
       \/ \E ks \in Batches : GetMany(ks)

Next ==
    \/ Call \/ BatchStep
    \/ \E k \in Keys, on \in BOOLEAN : Pin(k, on)
    \/ ResetStats

Spec == Init /\ [][Next]_vars

-----------------------------------------------------------------------------
(* Properties.                                                             *)

Work == [slot : Slots, key : Keys, read : {"issued", "whole", "short"}]

\* The variables stay in their domains.
TypeOK ==
    /\ slot_of \in [Keys -> Slots \union {None}]
    /\ key_of \in [Slots -> Keys \union {EMPTY, INFLIGHT}]
    /\ age \in [Slots -> Slots]
    /\ pinned \in SUBSET Slots
    /\ bytes \in [Slots -> Keys \union {None}]
    /\ pad \in [Slots -> Keys \union {None}]
    /\ meta \in [Slots -> Keys \union {None}]
    /\ hits \in Nat /\ misses \in Nat /\ prefetch_reads \in Nat
    /\ pc \in {"idle", "reserve", "read", "publish"}
    /\ todo \in Seq(Nat)
    /\ work \in SUBSET Work

\* slot_of and key_of are inverse to each other, and a slot that claims a
\* key holds all of that key's bytes at the offset recorded, whatever reads
\* fall short (fixes 1 and 2 of cache.h: admit and eng_cache_get_many
\* register a key only once its read succeeded).
IndexTruth ==
    /\ \A k \in Keys : slot_of[k] # None => key_of[slot_of[k]] = k
    /\ \A s \in Slots : key_of[s] >= 0 =>
            slot_of[key_of[s]] = s /\ bytes[s] = key_of[s] /\ pad[s] = key_of[s]

\* No two of a batch's concurrent reads share a slot or a key, each goes to a
\* slot no key is served from, and no slot stays INFLIGHT after the batch.
ReadsDisjoint ==
    /\ \A v, w \in work : v.slot = w.slot \/ v.key = w.key => v = w
    /\ \A s \in Slots : key_of[s] = INFLIGHT <=> \E w \in work : w.slot = s
    /\ \A w \in work : slot_of[w.key] = None
    /\ pc = "idle" => work = {}

\* The metadata beside a key's bytes is what that key was described with, or
\* what a key that the batch then refused was described with: nothing else can
\* take its place (EngCacheEntry.meta).
MetaTruth ==
    \A s \in Slots : key_of[s] >= 0 => meta[s] = key_of[s] \/ meta[s] \in Refused

\* A pinned key is never evicted, by a get or by a batch.
PinnedStay ==
    [][\A s \in pinned : key_of[s] >= 0 => key_of'[s] = key_of[s]]_vars
=============================================================================
