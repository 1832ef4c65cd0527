---------------------------- MODULE BudgetProofs ----------------------------
(***************************************************************************)
(* The two places that spend a budget of memory.  What the sizing loop of  *)
(* eng_streamer_create guarantees for every alignment, budget, ring and    *)
(* sequence of block sizes; and what eng_plan, whose share for the weights *)
(* the loader hands to it, promises for every machine, model and request:  *)
(* the context is as long as it can be, more memory never hurts, the       *)
(* loader stays inside the plan, the expert cache holds a token's experts. *)
(***************************************************************************)
EXTENDS Planner, StreamerSizing, WellFoundedInduction, TLAPS

-----------------------------------------------------------------------------
(* Rounding to the alignment.                                              *)

\* A quotient brackets what it divides.
LEMMA DivBrackets ==
    ASSUME NEW x \in Nat
    PROVE  /\ x \div Align \in Nat
           /\ (x \div Align) * Align <= x
           /\ x < (x \div Align) * Align + Align
  BY AlignAssumption

\* A larger quotient has a larger multiple.
LEMMA MulMonotone ==
    ASSUME NEW p \in Int, NEW q \in Int, p <= q
    PROVE  p * Align <= q * Align
  BY AlignAssumption

\* Multiples of the alignment less than one unit apart are ordered.
LEMMA MulCancels ==
    ASSUME NEW p \in Int, NEW q \in Int, p * Align < q * Align + Align
    PROVE  p <= q
  BY AlignAssumption

\* Rounding up reaches the number, by less than one unit.
LEMMA AlignUpBounds ==
    ASSUME NEW x \in Nat
    PROVE  AlignUp(x) \in Nat /\ x <= AlignUp(x) /\ AlignUp(x) < x + Align
<1>1. x + Align - 1 \in Nat /\ Align \in Nat
  BY AlignAssumption
<1> DEFINE q == (x + Align - 1) \div Align
<1>2. q \in Nat /\ q * Align <= x + Align - 1 /\ x + Align - 1 < q * Align + Align
  BY <1>1, DivBrackets
<1>3. q * Align \in Nat
  BY <1>1, <1>2
<1> QED
  BY <1>1, <1>2, <1>3 DEF AlignUp

\* Rounding up is monotone.
LEMMA AlignUpMonotone ==
    ASSUME NEW x \in Nat, NEW y \in Nat, x <= y
    PROVE  AlignUp(x) <= AlignUp(y)
<1> DEFINE p == (x + Align - 1) \div Align
           q == (y + Align - 1) \div Align
<1>1. x + Align - 1 \in Nat /\ y + Align - 1 \in Nat /\ Align \in Nat
  BY AlignAssumption
<1>2. /\ p \in Int /\ p * Align \in Int /\ p * Align <= x + Align - 1
      /\ q \in Int /\ q * Align \in Int /\ y + Align - 1 < q * Align + Align
  BY <1>1, DivBrackets
<1>3. p * Align < q * Align + Align
  BY <1>1, <1>2
<1>4. p <= q
  BY <1>2, <1>3, MulCancels
<1> QED
  BY <1>2, <1>4, MulMonotone DEF AlignUp

\* The window of a block is at most one unit longer than the block rounded
\* up, wherever the block starts: file_read_aligned never needs more.
LEMMA WindowBound ==
    ASSUME NEW off \in 0..Align-1, NEW nb \in Nat
    PROVE  WindowLen(off, nb) \in Int /\ WindowLen(off, nb) <= AlignUp(nb) + Align
<1>1. Align \in Nat \ {0} /\ off \in Nat /\ off < Align /\ off + nb \in Nat
  BY AlignAssumption
<1>2. AlignDown(off) = 0
  <2>1. off \div Align = 0
    BY <1>1, DivBrackets
  <2> QED
    BY <1>1, <2>1 DEF AlignDown
<1> DEFINE p == (off + nb + Align - 1) \div Align
           q == (nb + Align - 1) \div Align
<1>3. /\ p \in Int /\ p * Align \in Int /\ p * Align <= off + nb + Align - 1
      /\ q \in Int /\ q * Align \in Int /\ nb + Align - 1 < q * Align + Align
  BY <1>1, DivBrackets
<1>4. p * Align < (q + 1) * Align + Align
  BY <1>1, <1>3
<1>5. p * Align <= (q + 1) * Align
  BY <1>1, <1>3, <1>4, MulCancels, MulMonotone
<1> QED
  BY <1>1, <1>2, <1>3, <1>5 DEF WindowLen, WindowLo, AlignUp

-----------------------------------------------------------------------------
(* What the pinned prefix costs.                                           *)

\* A nonempty set of naturals has a least element.
LEMMA LeastNatural ==
    ASSUME NEW S \in SUBSET Nat, S # {}
    PROVE  \E z \in S : \A k \in S : z <= k
<1> DEFINE R == OpToRel(<, Nat)
<1>1. IsWellFoundedOn(R, Nat)
  BY Zenon, NatLessThanWellFounded
<1>2. \A a, b \in Nat : a < b => <<a, b>> \in R
  BY DEF OpToRel
<1> HIDE DEF R
<1>3. PICK z \in S : \A k \in S : ~(<<k, z>> \in R)
  BY Zenon, <1>1, WFMin
<1>4. \A k \in S : z <= k
  <2> TAKE k \in S
  <2>1. ~(<<k, z>> \in R)
    BY <1>3
  <2>2. k \in Nat /\ z \in Nat
    OBVIOUS
  <2>3. ~(k < z)
    BY <1>2, <2>1, <2>2, Zenon
  <2> QED
    BY <2>2, <2>3
<1> QED
  BY <1>4

\* g is the table of prefix costs that PinCost chooses.
Costs(nb, ex, n, g) ==
    g = [k \in 0..n |-> IF k = 0 THEN 0 ELSE g[k-1] + Need(nb, ex, k-1)]

\* What one buffer takes is a natural number.
LEMMA NeedNat ==
    ASSUME NEW nb \in [Blocks -> Nat], NEW ex \in Nat, NEW b \in Blocks
    PROVE  Need(nb, ex, b) \in Nat
<1>1. AlignUp(nb[b]) \in Nat
  BY AlignUpBounds
<1> QED
  BY <1>1, AlignAssumption DEF Need

\* A table holds natural numbers: the first entry that does not would follow
\* one that does.
LEMMA CostsNat ==
    ASSUME NEW nb \in [Blocks -> Nat], NEW ex \in Nat, NEW n \in 0..NBlocks,
           NEW g, Costs(nb, ex, n, g), NEW k \in 0..n
    PROVE  g[k] \in Nat
<1> DEFINE S == {j \in 0..n : g[j] \notin Nat}
<1>1. n \in Nat /\ NBlocks \in Nat
  BY SizingAssumption
<1> SUFFICES ASSUME S # {} PROVE FALSE
  OBVIOUS
<1>2. S \in SUBSET Nat
  BY <1>1
<1>3. PICK z \in S : \A j \in S : z <= j
  BY Zenon, <1>2, LeastNatural
<1>4. z \in 0..n /\ g[z] \notin Nat
  BY <1>3
<1>5. g[z] = IF z = 0 THEN 0 ELSE g[z-1] + Need(nb, ex, z-1)
  BY <1>4 DEF Costs
<1>6. z # 0 /\ z - 1 \in 0..n /\ z - 1 \in Blocks
  BY <1>1, <1>4, <1>5 DEF Blocks
<1>7. g[z-1] \in Nat
  BY <1>1, <1>3, <1>4, <1>6
<1>8. Need(nb, ex, z-1) \in Nat
  BY <1>6, NeedNat
<1> QED
  BY <1>4, <1>5, <1>6, <1>7, <1>8

\* Two tables agree where both are defined.
LEMMA CostsAgree ==
    ASSUME NEW nb \in [Blocks -> Nat], NEW ex \in Nat,
           NEW n \in 0..NBlocks, NEW z \in 0..n,
           NEW g, Costs(nb, ex, n, g), NEW h, Costs(nb, ex, z, h), NEW k \in 0..z
    PROVE  g[k] = h[k]
<1> DEFINE S == {j \in 0..z : g[j] # h[j]}
<1>1. n \in Nat /\ z \in Nat /\ z <= n /\ NBlocks \in Nat
  BY SizingAssumption
<1> SUFFICES ASSUME S # {} PROVE FALSE
  OBVIOUS
<1>2. S \in SUBSET Nat
  BY <1>1
<1>3. PICK i \in S : \A j \in S : i <= j
  BY Zenon, <1>2, LeastNatural
<1>4. i \in 0..z /\ i \in 0..n /\ g[i] # h[i]
  BY <1>1, <1>3
<1>5. g[i] = IF i = 0 THEN 0 ELSE g[i-1] + Need(nb, ex, i-1)
  BY <1>4 DEF Costs
<1>6. h[i] = IF i = 0 THEN 0 ELSE h[i-1] + Need(nb, ex, i-1)
  BY <1>4 DEF Costs
<1>7. i # 0 /\ g[i-1] # h[i-1]
  BY <1>4, <1>5, <1>6
<1>8. i - 1 \in 0..z
  BY <1>1, <1>4, <1>7
<1>9. i - 1 \in S
  BY <1>7, <1>8
<1> QED
  BY <1>3, <1>4, <1>9

\* There is a table for every prefix: the shortest prefix without one would
\* extend one that has it.
LEMMA CostsExist ==
    ASSUME NEW nb \in [Blocks -> Nat], NEW ex \in Nat, NEW n \in 0..NBlocks
    PROVE  \E g : Costs(nb, ex, n, g)
<1> DEFINE S == {j \in 0..NBlocks : ~\E g : Costs(nb, ex, j, g)}
<1>1. n \in Nat /\ NBlocks \in Nat
  BY SizingAssumption
<1> SUFFICES ASSUME S # {} PROVE FALSE
  OBVIOUS
<1>2. S \in SUBSET Nat
  BY <1>1
<1>3. PICK z \in S : \A j \in S : z <= j
  BY Zenon, <1>2, LeastNatural
<1>4. z \in 0..NBlocks /\ ~\E g : Costs(nb, ex, z, g)
  BY <1>3
<1>5. CASE z = 0
  <2> DEFINE g == [k \in 0..z |-> 0]
  <2>1. Costs(nb, ex, z, g)
    BY <1>5 DEF Costs
  <2> QED
    BY <1>4, <2>1
<1>6. CASE z # 0
  <2>1. z - 1 \in 0..NBlocks /\ z - 1 \notin S
    BY <1>1, <1>3, <1>4, <1>6
  <2>2. PICK h : Costs(nb, ex, z - 1, h)
    BY <2>1
  <2> DEFINE g == [k \in 0..z |-> IF k = z THEN h[z-1] + Need(nb, ex, z-1) ELSE h[k]]
  <2>3. \A k \in 0..z : g[k] = IF k = 0 THEN 0 ELSE g[k-1] + Need(nb, ex, k-1)
    <3> SUFFICES ASSUME NEW k \in 0..z
                 PROVE  g[k] = IF k = 0 THEN 0 ELSE g[k-1] + Need(nb, ex, k-1)
      OBVIOUS
    <3>1. CASE k = z
      <4>1. g[k] = h[z-1] + Need(nb, ex, z-1) /\ k # 0
        BY <1>6, <3>1
      <4>2. z - 1 \in 0..z /\ z - 1 # z
        BY <1>4, <1>6
      <4>3. g[z-1] = h[z-1]
        BY <4>2
      <4> QED
        BY <3>1, <4>1, <4>3
    <3>2. CASE k # z
      <4>1. k \in 0..z-1 /\ g[k] = h[k]
        BY <1>4, <3>2
      <4>2. h[k] = IF k = 0 THEN 0 ELSE h[k-1] + Need(nb, ex, k-1)
        BY <2>2, <4>1 DEF Costs
      <4>3. k # 0 => g[k-1] = h[k-1]
        BY <1>4, <4>1
      <4> QED
        BY <4>1, <4>2, <4>3
    <3> QED
      BY <3>1, <3>2
  <2>4. g = [k \in 0..z |-> g[k]]
    OBVIOUS
  <2> HIDE DEF g
  <2>5. g = [k \in 0..z |-> IF k = 0 THEN 0 ELSE g[k-1] + Need(nb, ex, k-1)]
    BY Zenon, <2>3, <2>4
  <2>6. Costs(nb, ex, z, g)
    BY <2>5 DEF Costs
  <2> QED
    BY <1>4, <2>6
<1> QED
  BY <1>5, <1>6

\* PinCost is the last entry of the table.
LEMMA PinCostTable ==
    ASSUME NEW nb \in [Blocks -> Nat], NEW ex \in Nat, NEW n \in 0..NBlocks
    PROVE  \E g : Costs(nb, ex, n, g) /\ PinCost(nb, ex, n) = g[n]
<1> DEFINE c == CHOOSE g : Costs(nb, ex, n, g)
<1>1. Costs(nb, ex, n, c)
  BY CostsExist
<1>2. PinCost(nb, ex, n) = IF n = 0 THEN 0 ELSE c[n]
  BY DEF PinCost, Costs
<1> HIDE DEF c
<1>3. n = 0 => c[n] = 0
  BY <1>1 DEF Costs
<1> QED
  BY <1>1, <1>2, <1>3

\* Each block adds its buffer to the cost.
LEMMA PinCostNext ==
    ASSUME NEW nb \in [Blocks -> Nat], NEW ex \in Nat, NEW n \in Blocks
    PROVE  /\ PinCost(nb, ex, n) \in Nat /\ PinCost(nb, ex, n + 1) \in Nat
           /\ PinCost(nb, ex, n + 1) = PinCost(nb, ex, n) + Need(nb, ex, n)
<1>1. /\ n \in Nat /\ n \in 0..NBlocks /\ n + 1 \in 0..NBlocks /\ n + 1 # 0
      /\ n \in 0..n+1 /\ n \in 0..n /\ n + 1 \in 0..n+1 /\ (n + 1) - 1 = n
  BY SizingAssumption DEF Blocks
<1>2. PICK h : Costs(nb, ex, n, h) /\ PinCost(nb, ex, n) = h[n]
  BY <1>1, PinCostTable
<1>3. PICK g : Costs(nb, ex, n + 1, g) /\ PinCost(nb, ex, n + 1) = g[n + 1]
  BY <1>1, PinCostTable
<1>4. g[n] = h[n]
  BY <1>1, <1>2, <1>3, CostsAgree
<1>5. g[n + 1] = g[n] + Need(nb, ex, n)
  <2>1. g[n + 1] = IF n + 1 = 0 THEN 0 ELSE g[(n + 1) - 1] + Need(nb, ex, (n + 1) - 1)
    BY <1>1, <1>3 DEF Costs
  <2> QED
    BY <1>1, <2>1
<1>6. h[n] \in Nat /\ g[n + 1] \in Nat
  BY <1>1, <1>2, <1>3, CostsNat
<1> QED
  BY <1>2, <1>3, <1>4, <1>5, <1>6

\* A longer prefix costs no less.
LEMMA PinCostGrows ==
    ASSUME NEW nb \in [Blocks -> Nat], NEW ex \in Nat,
           NEW n \in 0..NBlocks, NEW z \in 0..n
    PROVE  /\ PinCost(nb, ex, n) \in Nat /\ PinCost(nb, ex, z) \in Nat
           /\ PinCost(nb, ex, z) <= PinCost(nb, ex, n)
<1> DEFINE Less(j) == PinCost(nb, ex, z) <= PinCost(nb, ex, j)
           S == {j \in z..n : ~Less(j)}
<1>1. n \in Nat /\ z \in Nat /\ z <= n /\ z \in 0..NBlocks /\ NBlocks \in Nat
  BY SizingAssumption
<1>2. \A j \in 0..NBlocks : PinCost(nb, ex, j) \in Nat
  <2> SUFFICES ASSUME NEW j \in 0..NBlocks PROVE PinCost(nb, ex, j) \in Nat
    OBVIOUS
  <2>1. PICK g : Costs(nb, ex, j, g) /\ PinCost(nb, ex, j) = g[j]
    BY PinCostTable
  <2>2. j \in 0..j
    BY <1>1
  <2> QED
    BY <2>1, <2>2, CostsNat
<1>3. S = {}
  <2> SUFFICES ASSUME S # {} PROVE FALSE
    OBVIOUS
  <2>1. S \in SUBSET Nat
    BY <1>1
  <2>2. PICK i \in S : \A j \in S : i <= j
    BY Zenon, <2>1, LeastNatural
  <2>3. i \in z..n /\ ~Less(i)
    BY <2>2
  <2>4. i # z
    BY <1>1, <1>2, <2>3
  <2>5. i - 1 \in z..n /\ i - 1 \in Blocks /\ (i - 1) + 1 = i
    BY <1>1, <2>3, <2>4 DEF Blocks
  <2>6. Less(i - 1)
    BY <1>1, <2>2, <2>3, <2>5
  <2>7. /\ PinCost(nb, ex, i) = PinCost(nb, ex, i - 1) + Need(nb, ex, i - 1)
        /\ PinCost(nb, ex, i - 1) \in Nat
    BY <2>5, PinCostNext
  <2>8. Need(nb, ex, i - 1) \in Nat
    BY <2>5, NeedNat
  <2> QED
    BY <1>1, <1>2, <2>3, <2>6, <2>7, <2>8
<1>4. Less(n)
  BY <1>1, <1>3
<1> QED
  BY <1>1, <1>2, <1>4

\* A prefix costs at least the buffer of any of its blocks.
LEMMA PinCostHolds ==
    ASSUME NEW nb \in [Blocks -> Nat], NEW ex \in Nat,
           NEW n \in 0..NBlocks, NEW b \in Blocks, b < n
    PROVE  Need(nb, ex, b) <= PinCost(nb, ex, n)
<1>1. b + 1 \in 0..n /\ n \in Nat
  BY SizingAssumption DEF Blocks
<1>2. /\ PinCost(nb, ex, b + 1) = PinCost(nb, ex, b) + Need(nb, ex, b)
      /\ PinCost(nb, ex, b) \in Nat
  BY PinCostNext
<1>3. /\ PinCost(nb, ex, b + 1) <= PinCost(nb, ex, n)
      /\ PinCost(nb, ex, n) \in Nat
  BY <1>1, PinCostGrows
<1>4. Need(nb, ex, b) \in Nat
  BY NeedNat
<1> QED
  BY <1>2, <1>3, <1>4

-----------------------------------------------------------------------------
(* The loop.                                                               *)

SizeTypes ==
    /\ nbytes \in [Blocks -> Nat]
    /\ budget \in Nat /\ extra \in Nat /\ ring_want \in Nat
    /\ ring_slot \in Nat /\ ring \in Nat /\ npin \in 0..NBlocks
    /\ fixed \in BOOLEAN

\* Whatever pass the loop stopped at, what it pinned fits beside the ring;
\* at the fixed point the slot also fits every block that streams.
SizeInv ==
    /\ SizeTypes
    /\ npin > 0 => ring * ring_slot + PinCost(nbytes, extra, npin) <= budget
    /\ status = "created" => ring * ring_slot <= budget
    /\ fixed => \A b \in Blocks : b >= npin => Need(nbytes, extra, b) <= ring_slot

\* The slot for a block takes what any smaller block needs.
LEMMA SlotFits ==
    ASSUME SizeTypes, NEW b \in Blocks, NEW c \in Blocks, nbytes[c] <= nbytes[b]
    PROVE  SlotBytes(b) \in Nat /\ Need(nbytes, extra, c) <= SlotBytes(b)
<1>1. nbytes[b] \in Nat /\ nbytes[c] \in Nat /\ extra \in Nat /\ Align \in Nat
  BY AlignAssumption DEF SizeTypes
<1>2. /\ AlignUp(nbytes[b]) \in Nat /\ AlignUp(nbytes[c]) \in Nat
      /\ AlignUp(nbytes[c]) <= AlignUp(nbytes[b])
  BY <1>1, AlignUpBounds, AlignUpMonotone
<1>3. AlignUp(nbytes[b]) + Align + extra \in Nat
  BY <1>1, <1>2
<1>4. /\ SlotBytes(b) \in Nat
      /\ AlignUp(nbytes[b]) + Align + extra <= SlotBytes(b)
  BY <1>3, AlignUpBounds DEF SlotBytes
<1> QED
  BY <1>1, <1>2, <1>4 DEF Need

\* The loop starts with nothing pinned.
LEMMA SizeInit == Init => SizeInv
<1> SUFFICES ASSUME Init PROVE SizeInv
  OBVIOUS
<1>1. nbytes \in [Blocks -> Nat]
  BY Zenon, SizingAssumption DEF Init
<1>2. budget \in Nat /\ extra \in Nat /\ ring_want \in Nat /\ NBlocks \in Nat
  BY SizingAssumption DEF Init
<1>3. SizeTypes
  <2>1. ring_slot \in Nat /\ ring \in Nat /\ npin \in 0..NBlocks
    BY <1>2 DEF Init
  <2>2. fixed \in BOOLEAN
    BY Zenon DEF Init
  <2> QED
    BY <1>1, <1>2, <2>1, <2>2, Zenon DEF SizeTypes
<1> QED
  <2>1. ~(npin > 0)
    BY DEF Init
  <2>2. status # "created" /\ ~fixed
    BY DEF Init
  <2> QED
    BY <1>3, <2>1, <2>2, Zenon DEF SizeInv

\* A pass keeps the invariant.
LEMMA SizePass == SizeInv /\ Pass => SizeInv'
<1> SUFFICES ASSUME SizeInv, Pass PROVE SizeInv'
  OBVIOUS
<1> USE DEF cfgVars
<1>1. PICK b \in Blocks, rg \in 0..ring_want, np \in 0..NBlocks :
         /\ Biggest(npin, b) /\ Ring(rg, SlotBytes(b)) /\ Pins(np, rg * SlotBytes(b))
         /\ ring_slot' = SlotBytes(b) /\ ring' = rg /\ npin' = np
         /\ fixed' = (SlotBytes(b) = ring_slot /\ np = npin)
  BY DEF Pass
<1>2. UNCHANGED <<nbytes, budget, extra, ring_want>> /\ SizeTypes
  BY DEF Pass, SizeInv
<1>3. nbytes[b] <= nbytes[b] /\ NBlocks \in Nat
  BY <1>2, SizingAssumption DEF SizeTypes
<1>4. SlotBytes(b) \in Nat
  BY <1>2, <1>3, SlotFits
<1>5. rg \in Nat
  BY <1>2 DEF SizeTypes
<1>6. SizeTypes'
  BY <1>1, <1>2, <1>4, <1>5 DEF SizeTypes
<1>7. npin' > 0 => ring' * ring_slot' + PinCost(nbytes, extra, npin') <= budget
  BY <1>1 DEF Pins
<1>8. status' # "created"
  BY DEF Pass
<1>9. ASSUME fixed', NEW c \in Blocks, c >= npin'
      PROVE  Need(nbytes, extra, c) <= ring_slot'
  <2>1. npin' = npin /\ c >= npin
    BY Zenon, <1>1, <1>9
  <2>2. c \in Streaming(npin)
    BY <1>2, <1>3, <2>1 DEF Streaming, Blocks, SizeTypes
  <2>3. nbytes[c] <= nbytes[b]
    BY <1>1, <2>2 DEF Biggest
  <2> QED
    BY <1>1, <1>2, <2>3, SlotFits
<1> QED
  BY <1>2, <1>6, <1>7, <1>8, <1>9 DEF SizeInv

\* Every other step leaves what it speaks of alone.
LEMMA SizeStep == SizeInv /\ [Next]_vars => SizeInv'
<1> SUFFICES ASSUME SizeInv, [Next]_vars PROVE SizeInv'
  OBVIOUS
<1> USE DEF cfgVars, loopVars
<1>1. CASE Pass
  BY <1>1, SizePass
<1>2. CASE Refuse \/ Allocate \/ (\E b \in Blocks : Load(b)) \/ UNCHANGED vars
  <2>1. UNCHANGED <<nbytes, budget, extra, ring_want, ring_slot, npin, ring, fixed>>
    BY <1>2 DEF Refuse, Allocate, Load, vars
  <2>2. status' = "created" => ring * ring_slot <= budget
    BY <1>2 DEF Refuse, Allocate, Load, vars, SizeInv
  <2> QED
    BY <2>1, <2>2 DEF SizeInv, SizeTypes
<1> QED
  BY <1>1, <1>2 DEF Next

\* The invariant holds throughout.
LEMMA SizeInvariant == Spec => []SizeInv
  BY SizeInit, SizeStep, PTL DEF Spec

\* Whatever the sizes, the budget and the pass the loop stopped at, the ring
\* and the pinned buffers of a created streamer fit its budget.
THEOREM BudgetKept == Spec => []WithinBudget
<1>1. SizeInv => WithinBudget
  <2> SUFFICES ASSUME SizeInv, status = "created" PROVE
        ring * ring_slot + PinCost(nbytes, extra, npin) <= budget
    BY DEF WithinBudget
  <2>1. ring * ring_slot <= budget /\ ring * ring_slot \in Int /\ npin \in Nat
    BY SizingAssumption DEF SizeInv, SizeTypes
  <2>2. CASE npin > 0
    BY <2>2 DEF SizeInv
  <2>3. CASE npin = 0
    <3>1. PinCost(nbytes, extra, npin) = 0
      BY <2>3, Zenon DEF PinCost
    <3> QED
      BY <2>1, <3>1
  <2> QED
    BY <2>1, <2>2, <2>3
<1> QED
  BY <1>1, SizeInvariant, PTL

\* When the loop stopped at its fixed point, no load is refused for lack of
\* room: every buffer takes the window of every block that is read into it.
THEOREM FixedPointFits == Spec => [](fixed => BuffersFit)
<1>1. SizeInv => (fixed => BuffersFit)
  <2> SUFFICES ASSUME SizeInv, fixed, NEW b \in Blocks, NEW off \in 0..Align-1
               PROVE  WindowLen(off, nbytes[b]) <= Cap(b)
    BY DEF BuffersFit
  <2>1. nbytes[b] \in Nat /\ extra \in Nat /\ ring_slot \in Nat /\ npin \in Int /\ b \in Int
    BY SizingAssumption DEF SizeInv, SizeTypes, Blocks
  <2>2. AlignUp(nbytes[b]) \in Nat /\ Align \in Nat
    BY <2>1, AlignUpBounds, AlignAssumption
  <2>3. /\ WindowLen(off, nbytes[b]) \in Int
        /\ WindowLen(off, nbytes[b]) <= AlignUp(nbytes[b]) + Align
    BY <2>1, WindowBound
  <2>4. Need(nbytes, extra, b) \in Int /\ WindowLen(off, nbytes[b]) <= Need(nbytes, extra, b)
    BY <2>1, <2>2, <2>3 DEF Need
  <2>5. CASE b < npin
    BY <2>4, <2>5 DEF Cap
  <2>6. CASE b >= npin
    <3>1. Need(nbytes, extra, b) <= ring_slot
      BY <2>6 DEF SizeInv
    <3> QED
      BY <2>1, <2>3, <2>4, <2>6, <3>1 DEF Cap
  <2> QED
    BY <2>1, <2>5, <2>6
<1> QED
  BY <1>1, SizeInvariant, PTL

-----------------------------------------------------------------------------
(* The loop with extra bytes on the alignment: a slot is then exactly what *)
(* its block needs, and pinning that block pays for the ring.              *)

WholeExtras == \A e \in Extras : e % Align = 0

\* What every pass leaves: a ring and a prefix that are the largest for the
\* slot, and a slot that some block asked for and no block that still
\* streams exceeds.
Tight ==
    /\ SizeTypes
    /\ extra % Align = 0 /\ \A b \in Blocks : nbytes[b] > 0
    /\ pass \in Nat /\ (pass = 0 => npin = 0)
    /\ pass > 0 =>
         /\ ring <= ring_want /\ Ring(ring, ring_slot)
         /\ Pins(npin, ring * ring_slot)
         /\ \A b \in Streaming(npin) : SlotBytes(b) <= ring_slot
         /\ \E b \in Blocks : SlotBytes(b) = ring_slot
    /\ status \in {"sized", "created"} => pass > 0

\* Rounding up leaves a multiple of the alignment as it is.
LEMMA AlignUpExact ==
    ASSUME NEW z \in Nat
    PROVE  AlignUp(z * Align) = z * Align
<1> DEFINE x == z * Align
           q == (x + Align - 1) \div Align
<1>1. Align \in Nat \ {0} /\ x \in Nat /\ x + Align - 1 \in Nat
  BY AlignAssumption
<1>2. /\ q \in Nat /\ q * Align \in Nat /\ q * Align <= x + Align - 1
      /\ x + Align - 1 < q * Align + Align
  BY <1>1, DivBrackets
<1>3. q * Align < z * Align + Align /\ z * Align < q * Align + Align
  BY <1>1, <1>2
<1>4. q <= z /\ z <= q
  BY <1>2, <1>3, MulCancels
<1>5. q = z
  BY <1>2, <1>4
<1> QED
  BY <1>5 DEF AlignUp

\* With extra bytes on the alignment, a slot is what its block needs.
LEMMA SlotIsNeed ==
    ASSUME SizeTypes, extra % Align = 0, NEW b \in Blocks
    PROVE  SlotBytes(b) = Need(nbytes, extra, b)
<1>1. nbytes[b] \in Nat /\ extra \in Nat /\ Align \in Nat \ {0}
  BY AlignAssumption DEF SizeTypes
<1> DEFINE p == (nbytes[b] + Align - 1) \div Align
           e == extra \div Align
<1>2. p \in Nat /\ AlignUp(nbytes[b]) = p * Align
  BY <1>1, DivBrackets DEF AlignUp
<1>3. e \in Nat /\ extra = e * Align
  BY <1>1
<1> HIDE DEF p, e
<1>4. p + 1 + e \in Nat /\ p * Align + Align + e * Align = (p + 1 + e) * Align
  BY <1>1, <1>2, <1>3
<1>5. Need(nbytes, extra, b) = (p + 1 + e) * Align
  BY <1>2, <1>3, <1>4 DEF Need
<1>6. AlignUp((p + 1 + e) * Align) = (p + 1 + e) * Align
  BY <1>4, AlignUpExact
<1> QED
  BY <1>5, <1>6 DEF SlotBytes, Need

\* A block that is not streaming is pinned.
LEMMA StreamsOrPinned ==
    ASSUME SizeTypes, NEW b \in Blocks
    PROVE  b \in Streaming(npin) \/ b < npin
  BY SizingAssumption DEF SizeTypes, Streaming, Blocks

\* Pinning more leaves fewer blocks to stream.
LEMMA StreamingShrinks ==
    ASSUME NEW z \in 0..NBlocks, NEW n \in 0..NBlocks, z <= n
    PROVE  Streaming(n) \subseteq Streaming(z) /\ Streaming(z) \subseteq Blocks
  BY SizingAssumption DEF Streaming, Blocks

\* Products of naturals grow with their factors.
LEMMA TimesGrows ==
    ASSUME NEW a \in Nat, NEW b \in Nat, NEW c \in Nat, NEW d \in Nat, a <= b, c <= d
    PROVE  a * c <= b * d /\ a * c \in Nat /\ b * d \in Nat
<1>1. a * c \in Nat /\ b * c \in Nat /\ b * d \in Nat
  OBVIOUS
<1>2. a * c <= b * c
  OBVIOUS
<1>3. b * c <= b * d
  OBVIOUS
<1> QED
  BY <1>1, <1>2, <1>3

\* For one slot size there is one ring.
LEMMA RingUnique ==
    ASSUME SizeTypes, NEW rs \in Nat, NEW r \in Nat, NEW q \in Nat,
           Ring(r, rs), Ring(q, rs), q <= ring_want
    PROVE  q <= r
<1> SUFFICES ASSUME r < q PROVE FALSE
  OBVIOUS
<1>1. r < ring_want /\ q > 1 /\ r + 1 <= q /\ r + 1 \in Nat /\ budget \in Nat
  BY DEF SizeTypes, Ring
<1>2. (r + 1) * rs > budget /\ q * rs <= budget
  BY <1>1 DEF Ring
<1>3. (r + 1) * rs <= q * rs /\ (r + 1) * rs \in Nat /\ q * rs \in Nat
  BY <1>1, TimesGrows
<1> QED
  BY <1>1, <1>2, <1>3

\* A pass spends no more on the ring than the pass before.  If the slot
\* shrank, the block it was for is pinned beside a ring that is then whole.
LEMMA RingSpends ==
    ASSUME Tight, pass > 0, NEW b \in Blocks, Biggest(npin, b),
           NEW q \in Nat, q <= ring_want, Ring(q, SlotBytes(b))
    PROVE  /\ SlotBytes(b) \in Nat /\ SlotBytes(b) <= ring_slot
           /\ q * SlotBytes(b) \in Nat /\ ring * ring_slot \in Nat
           /\ q * SlotBytes(b) <= ring * ring_slot
<1>1. /\ SizeTypes /\ extra % Align = 0 /\ ring <= ring_want /\ Ring(ring, ring_slot)
      /\ Pins(npin, ring * ring_slot)
      /\ \A c \in Streaming(npin) : SlotBytes(c) <= ring_slot
      /\ \E c \in Blocks : SlotBytes(c) = ring_slot
  BY DEF Tight
<1>2. /\ nbytes \in [Blocks -> Nat] /\ budget \in Nat /\ extra \in Nat /\ ring_want \in Nat
      /\ ring_slot \in Nat /\ ring \in Nat /\ npin \in 0..NBlocks /\ NBlocks \in Nat
  BY <1>1, SizingAssumption DEF SizeTypes
<1>3. SlotBytes(b) = Need(nbytes, extra, b) /\ SlotBytes(b) \in Nat
  BY <1>1, <1>2, SlotIsNeed, NeedNat
<1>4. b \in Streaming(npin) /\ \A c \in Streaming(npin) : nbytes[c] <= nbytes[b]
  BY DEF Biggest
<1>5. SlotBytes(b) <= ring_slot
  BY <1>1, <1>4
<1>6. CASE SlotBytes(b) = ring_slot
  <2>1. Ring(q, ring_slot)
    BY <1>6
  <2>2. q <= ring
    BY <1>1, <1>2, <2>1, RingUnique
  <2>3. ring_slot <= ring_slot
    BY <1>2
  <2>4. /\ q * ring_slot <= ring * ring_slot
        /\ q * ring_slot \in Nat /\ ring * ring_slot \in Nat
    BY <1>2, <2>2, <2>3, TimesGrows
  <2> QED
    BY <1>3, <1>5, <1>6, <2>4
<1>7. CASE SlotBytes(b) # ring_slot
  <2>1. PICK c \in Blocks : SlotBytes(c) = ring_slot
    BY <1>1
  <2>2. SlotBytes(c) = Need(nbytes, extra, c)
    BY <1>1, SlotIsNeed
  <2>3. c \notin Streaming(npin)
    <3> SUFFICES ASSUME c \in Streaming(npin) PROVE FALSE
      OBVIOUS
    <3>1. nbytes[c] <= nbytes[b]
      BY <1>4
    <3>2. Need(nbytes, extra, c) <= SlotBytes(b)
      BY <1>1, <3>1, SlotFits
    <3> QED
      BY <1>2, <1>3, <1>5, <1>7, <2>1, <2>2, <3>2
  <2>4. c < npin
    BY <1>1, <2>3, StreamsOrPinned
  <2>5. ring_slot <= PinCost(nbytes, extra, npin)
    BY <1>2, <2>1, <2>2, <2>4, PinCostHolds
  <2>6. npin \in 0..npin /\ npin > 0
    BY <1>2, <2>4 DEF Blocks
  <2>7. PinCost(nbytes, extra, npin) \in Nat
    BY <1>2, <2>6, PinCostGrows
  <2>8. ring * ring_slot + PinCost(nbytes, extra, npin) <= budget
    BY <1>1, <2>6 DEF Pins
  <2>9. ring * ring_slot \in Nat /\ (ring + 1) * ring_slot = ring * ring_slot + ring_slot
    BY <1>2
  <2>10. ~((ring + 1) * ring_slot > budget)
    BY <1>2, <2>5, <2>7, <2>8, <2>9
  <2>11. ~(ring < ring_want)
    BY <1>1, <2>10 DEF Ring
  <2>12. q <= ring
    BY <1>2, <2>11
  <2>13. /\ q * SlotBytes(b) <= ring * ring_slot
         /\ q * SlotBytes(b) \in Nat
    BY <1>2, <1>3, <1>5, <2>12, TimesGrows
  <2> QED
    BY <1>3, <1>5, <2>9, <2>13
<1> QED
  BY <1>6, <1>7

\* Beside a ring that costs no more, no fewer blocks are pinned.
LEMMA PinsMore ==
    ASSUME SizeTypes, NEW sp \in Nat, NEW sq \in Nat, sq <= sp,
           Pins(npin, sp), NEW n \in 0..NBlocks, Pins(n, sq)
    PROVE  npin <= n
<1> SUFFICES ASSUME n < npin PROVE FALSE
  BY SizingAssumption DEF SizeTypes
<1>1. /\ nbytes \in [Blocks -> Nat] /\ extra \in Nat /\ budget \in Nat /\ NBlocks \in Nat
      /\ npin \in 0..NBlocks
  BY SizingAssumption DEF SizeTypes
<1>2. npin > 0 /\ n < NBlocks /\ n + 1 \in 0..npin
  BY <1>1
<1>3. sp + PinCost(nbytes, extra, npin) <= budget
  BY <1>2 DEF Pins
<1>4. sq + PinCost(nbytes, extra, n + 1) > budget
  BY <1>2 DEF Pins
<1>5. /\ PinCost(nbytes, extra, n + 1) <= PinCost(nbytes, extra, npin)
      /\ PinCost(nbytes, extra, n + 1) \in Nat /\ PinCost(nbytes, extra, npin) \in Nat
  BY <1>1, <1>2, PinCostGrows
<1> QED
  BY <1>1, <1>3, <1>4, <1>5

\* A pass is monotone and leaves the loop tight.
LEMMA TightPass ==
    Tight /\ Pass => Tight' /\ npin <= npin' /\ (pass > 0 => ring_slot' <= ring_slot)
<1> SUFFICES ASSUME Tight, Pass
             PROVE  Tight' /\ npin <= npin' /\ (pass > 0 => ring_slot' <= ring_slot)
  OBVIOUS
<1> USE DEF cfgVars
<1>1. PICK b \in Blocks, q \in 0..ring_want, n \in 0..NBlocks :
         /\ Biggest(npin, b) /\ Ring(q, SlotBytes(b)) /\ Pins(n, q * SlotBytes(b))
         /\ ring_slot' = SlotBytes(b) /\ ring' = q /\ npin' = n
         /\ fixed' = (SlotBytes(b) = ring_slot /\ n = npin)
  BY DEF Pass
<1>2. /\ nbytes' = nbytes /\ budget' = budget /\ extra' = extra /\ ring_want' = ring_want
      /\ pass' = pass + 1 /\ status' # "created"
  BY DEF Pass
<1>3. /\ SizeTypes /\ extra % Align = 0 /\ pass \in Nat /\ (pass = 0 => npin = 0)
      /\ \A c \in Blocks : nbytes[c] > 0
  BY DEF Tight
<1>4. /\ ring_want \in Nat /\ NBlocks \in Nat /\ npin \in 0..NBlocks /\ ring_slot \in Nat
      /\ nbytes \in [Blocks -> Nat] /\ extra \in Nat
  BY <1>3, SizingAssumption DEF SizeTypes
<1>5. q \in Nat /\ q <= ring_want
  BY <1>4
<1>6. SlotBytes(b) = Need(nbytes, extra, b) /\ SlotBytes(b) \in Nat
  BY <1>3, <1>4, SlotIsNeed, NeedNat
<1>7. npin <= n /\ (pass > 0 => SlotBytes(b) <= ring_slot)
  <2>1. CASE pass = 0
    BY <1>3, <1>4, <2>1
  <2>2. CASE pass > 0
    <3>1. /\ SlotBytes(b) <= ring_slot
          /\ q * SlotBytes(b) \in Nat /\ ring * ring_slot \in Nat
          /\ q * SlotBytes(b) <= ring * ring_slot
      BY <1>1, <1>5, <2>2, RingSpends
    <3>2. Pins(npin, ring * ring_slot)
      BY <2>2 DEF Tight
    <3>3. npin <= n
      BY <1>1, <1>3, <3>1, <3>2, PinsMore
    <3> QED
      BY <3>1, <3>3
  <2> QED
    BY <1>3, <2>1, <2>2
<1>8. SizeTypes'
  <2>1. fixed' \in BOOLEAN
    BY <1>1, Zenon
  <2> QED
    BY <1>1, <1>2, <1>3, <1>5, <1>6, <2>1 DEF SizeTypes
<1>9. \A c \in Streaming(n) : SlotBytes(c) <= SlotBytes(b)
  <2> SUFFICES ASSUME NEW c \in Streaming(n) PROVE SlotBytes(c) <= SlotBytes(b)
    OBVIOUS
  <2>1. c \in Streaming(npin) /\ c \in Blocks
    BY <1>4, <1>7, StreamingShrinks
  <2>2. nbytes[c] <= nbytes[b]
    BY <1>1, <2>1 DEF Biggest
  <2>3. Need(nbytes, extra, c) <= SlotBytes(b)
    BY <1>3, <2>1, <2>2, SlotFits
  <2> QED
    BY <1>3, <2>1, <2>3, SlotIsNeed
<1>10. \A c : SlotBytes(c)' = AlignUp(AlignUp(nbytes[c]) + Align + extra)
  BY <1>2 DEF SlotBytes
<1>11. /\ (\A c \in Streaming(npin) : SlotBytes(c) <= ring_slot)'
       /\ (\E c \in Blocks : SlotBytes(c) = ring_slot)'
  BY <1>1, <1>9, <1>10 DEF SlotBytes
<1>12. Ring(ring, ring_slot)' /\ ring' <= ring_want'
  BY <1>1, <1>2, <1>5 DEF Ring
<1>13. Pins(npin, ring * ring_slot)'
  BY <1>1, <1>2 DEF Pins
<1>14. pass' \in Nat /\ pass' > 0
  BY <1>2, <1>3
<1>15. extra' % Align = 0 /\ \A c \in Blocks : nbytes'[c] > 0
  BY <1>2, <1>3
<1>16. Tight'
  BY <1>8, <1>11, <1>12, <1>13, <1>14, <1>15 DEF Tight
<1> QED
  BY <1>1, <1>7, <1>16

\* The loop starts tight.
LEMMA TightInit == ASSUME WholeExtras PROVE Init => Tight
<1> SUFFICES ASSUME Init PROVE Tight
  OBVIOUS
<1>1. SizeTypes
  BY SizeInit DEF SizeInv
<1>2. extra % Align = 0
  BY DEF WholeExtras, Init
<1>3. \A b \in Blocks : nbytes[b] > 0
  <2> SUFFICES ASSUME NEW b \in Blocks PROVE nbytes[b] > 0
    OBVIOUS
  <2>1. nbytes[b] \in Sizes
    BY DEF Init
  <2>2. nbytes[b] \in Nat \ {0}
    BY Zenon, <2>1, SizingAssumption
  <2> QED
    BY <2>2
<1>4. pass = 0 /\ npin = 0 /\ status = "sizing"
  BY DEF Init
<1> QED
  BY <1>1, <1>2, <1>3, <1>4 DEF Tight

\* Every step of the loop keeps it tight and monotone.
LEMMA TightStep ==
    Tight /\ [Next]_vars => Tight' /\ npin <= npin' /\ (pass > 0 => ring_slot' <= ring_slot)
<1> SUFFICES ASSUME Tight, [Next]_vars
             PROVE  Tight' /\ npin <= npin' /\ (pass > 0 => ring_slot' <= ring_slot)
  OBVIOUS
<1> USE DEF cfgVars, loopVars
<1>1. CASE Pass
  BY <1>1, TightPass
<1>2. CASE Refuse \/ Allocate \/ (\E b \in Blocks : Load(b)) \/ UNCHANGED vars
  <2>1. /\ nbytes' = nbytes /\ budget' = budget /\ extra' = extra /\ ring_want' = ring_want
        /\ pass' = pass /\ ring_slot' = ring_slot /\ npin' = npin /\ ring' = ring
        /\ fixed' = fixed
    BY <1>2 DEF Refuse, Allocate, Load, vars
  <2>2. status' \in {"sized", "created"} => status \in {"sized", "created"}
    BY <1>2 DEF Refuse, Allocate, Load, vars
  <2>3. npin \in Int /\ ring_slot \in Int
    BY DEF Tight, SizeTypes
  <2>4. SizeTypes'
    BY <2>1 DEF SizeTypes, Tight
  <2>5. Tight'
    BY <2>1, <2>2, <2>4 DEF Tight, Ring, Pins, SlotBytes
  <2> QED
    BY <2>1, <2>3, <2>5
<1> QED
  BY <1>1, <1>2 DEF Next

\* The loop is tight throughout.
LEMMA TightInvariant == ASSUME WholeExtras PROVE Spec => []Tight
<1>1. Tight /\ [Next]_vars => Tight'
  BY TightStep
<1> QED
  BY TightInit, <1>1, PTL DEF Spec

\* With extra bytes on the alignment the sizing loop is monotone: no pass
\* takes a pinned block back or asks for a larger slot.
THEOREM SizingIsMonotone == ASSUME WholeExtras PROVE Spec => Monotone
<1>1. Tight /\ [Next]_vars => [npin <= npin' /\ (pass > 0 => ring_slot' <= ring_slot)]_vars
  BY TightStep
<1> QED
  BY <1>1, TightInvariant, PTL DEF Spec, Monotone

\* A tight, created streamer has room for every block.
LEMMA TightFits ==
    ASSUME Tight, status = "created", NEW b \in Blocks
    PROVE  Need(nbytes, extra, b) <= Cap(b)
<1>1. SizeTypes /\ extra % Align = 0 /\ \A c \in Streaming(npin) : SlotBytes(c) <= ring_slot
  BY DEF Tight
<1>2. Need(nbytes, extra, b) \in Nat
  BY <1>1, NeedNat DEF SizeTypes
<1>3. CASE b < npin
  BY <1>2, <1>3 DEF Cap
<1>4. CASE ~(b < npin)
  <2>1. SlotBytes(b) <= ring_slot
    BY <1>1, <1>4, StreamsOrPinned
  <2>2. SlotBytes(b) = Need(nbytes, extra, b)
    BY <1>1, SlotIsNeed
  <2> QED
    BY <1>4, <2>1, <2>2 DEF Cap
<1> QED
  BY <1>3, <1>4

\* With extra bytes on the alignment, every buffer takes the window of every
\* block that is read into it, at whatever pass the loop stopped.
THEOREM BuffersAlwaysFit == ASSUME WholeExtras PROVE Spec => []BuffersFit
<1>1. Tight => BuffersFit
  <2> SUFFICES ASSUME Tight, status = "created", NEW b \in Blocks, NEW off \in 0..Align-1
               PROVE  WindowLen(off, nbytes[b]) <= Cap(b)
    BY DEF BuffersFit
  <2>1. nbytes[b] \in Nat /\ extra \in Nat /\ ring_slot \in Nat /\ Align \in Nat
    BY AlignAssumption DEF Tight, SizeTypes
  <2>2. /\ WindowLen(off, nbytes[b]) \in Int
        /\ WindowLen(off, nbytes[b]) <= AlignUp(nbytes[b]) + Align
    BY <2>1, WindowBound
  <2>3. AlignUp(nbytes[b]) \in Nat
    BY <2>1, AlignUpBounds
  <2>4. Need(nbytes, extra, b) \in Int /\ Cap(b) \in Int
    BY <2>1, <2>3 DEF Need, Cap
  <2>5. Need(nbytes, extra, b) <= Cap(b)
    BY TightFits
  <2>6. WindowLen(off, nbytes[b]) <= Need(nbytes, extra, b)
    BY <2>1, <2>2, <2>3 DEF Need
  <2> QED
    BY <2>2, <2>4, <2>5, <2>6
<1> QED
  BY <1>1, TightInvariant, PTL

\* Where the payload of a read starts in its buffer.
PadOf(off, direct) == IF direct THEN PayloadOff(off) ELSE 0

\* The outcome r says truthfully whether the payload is whole, and where.
Reported(r, off, nb, direct) ==
    /\ r.ret = nb <=> r.got >= PadOf(off, direct) + nb
    /\ r.pad = PadOf(off, direct) /\ PadOf(off, direct) \in 0..Align-1

\* What read_aligned reports for a window that fits: the payload is whole
\* exactly when it returns its length.
LEMMA ReadTruthful ==
    ASSUME NEW off \in 0..Align-1, NEW nb \in Nat \ {0}, NEW cap \in Nat, NEW size \in Int,
           NEW direct \in BOOLEAN, AlignUp(nb) + Align <= cap,
           NEW r \in ReadAligned(off, nb, cap, size, direct)
    PROVE  Reported(r, off, nb, direct)
<1>1. Align \in Nat \ {0} /\ off \in Nat /\ off < Align
  BY AlignAssumption
<1>2. AlignDown(off) = 0
  <2>1. off \div Align = 0
    BY <1>1, DivBrackets
  <2> QED
    BY <1>1, <2>1 DEF AlignDown
<1>3. PayloadOff(off) = off /\ WindowLo(off) = 0
  BY <1>1, <1>2 DEF PayloadOff, WindowLo
<1>4. AlignUp(nb) \in Nat /\ nb <= AlignUp(nb)
  BY AlignUpBounds
<1>5. WindowLen(off, nb) \in Int /\ WindowLen(off, nb) <= AlignUp(nb) + Align
  BY WindowBound
<1>6. CASE direct
  <2>1. ~(WindowLen(off, nb) > cap)
    BY <1>1, <1>4, <1>5
  <2>2. PICK g \in Nat : r = [ret |-> Covered(nb, off, g), pad |-> off, got |-> g]
    BY <1>1, <1>3, <1>5, <1>6, <2>1 DEF ReadAligned
  <2>3. r.ret = Covered(nb, off, g) /\ r.pad = off /\ r.got = g
    BY <2>2
  <2>4. Covered(nb, off, g) = nb <=> g >= off + nb
    BY <1>1 DEF Covered
  <2>5. PadOf(off, direct) = off
    BY <1>3, <1>6 DEF PadOf
  <2> QED
    BY <1>1, <2>3, <2>4, <2>5 DEF Reported
<1>7. CASE ~direct
  <2>1. ~(nb > cap)
    BY <1>1, <1>4
  <2>2. PICK g \in 0..nb : r = [ret |-> g, pad |-> 0, got |-> g]
    BY <1>1, <1>7, <2>1 DEF ReadAligned
  <2>3. r.ret = g /\ r.pad = 0 /\ r.got = g
    BY <2>2
  <2>4. PadOf(off, direct) = 0
    BY <1>7 DEF PadOf
  <2> QED
    BY <1>1, <2>3, <2>4 DEF Reported
<1> QED
  BY <1>6, <1>7

\* Loads report what they did, into buffers that are there.
LoadInv == LoadTruthful /\ (last # NoLoad => status = "created" /\ last.block \in Blocks)

\* A load is truthful.
LEMMA LoadStep ==
    ASSUME Tight, NEW b \in Blocks, Load(b)
    PROVE  LoadInv'
<1> USE DEF cfgVars, loopVars
<1>1. PICK off \in Offsets, more \in {0, Align}, direct \in BOOLEAN :
        \E r \in ReadAligned(off, nbytes[b], Cap(b), off + nbytes[b] + more, direct) :
          last' = [block |-> b, start |-> IF direct THEN PayloadOff(off) ELSE 0,
                   pad |-> r.pad, got |-> r.got, ok |-> r.ret = nbytes[b]]
  BY Zenon DEF Load
<1>2. PICK r \in ReadAligned(off, nbytes[b], Cap(b), off + nbytes[b] + more, direct) :
        last' = [block |-> b, start |-> IF direct THEN PayloadOff(off) ELSE 0,
                 pad |-> r.pad, got |-> r.got, ok |-> r.ret = nbytes[b]]
  BY <1>1
<1> DEFINE start == PadOf(off, direct)
           nb == nbytes[b]
<1>3. /\ status = "created" /\ status' = status /\ nbytes' = nbytes /\ extra' = extra
      /\ npin' = npin /\ ring_slot' = ring_slot
  BY DEF Load
<1>4. /\ nb \in Nat \ {0} /\ extra \in Nat /\ ring_slot \in Nat /\ npin \in Int
      /\ Align \in Nat \ {0} /\ off \in 0..Align-1 /\ more \in Nat /\ b \in Int
  BY AlignAssumption, SizingAssumption DEF Tight, SizeTypes, Blocks
<1>5. AlignUp(nb) \in Nat
  BY <1>4, AlignUpBounds
<1>6. Need(nbytes, extra, b) <= Cap(b)
  BY <1>3, TightFits
<1>7. Cap(b) \in Nat /\ AlignUp(nb) + Align + extra <= Cap(b)
  BY <1>4, <1>5, <1>6 DEF Need, Cap
<1>8. AlignUp(nb) + Align <= Cap(b)
  BY <1>4, <1>5, <1>7
<1>9. /\ r.ret = nb <=> r.got >= start + nb
      /\ r.pad = start /\ start \in 0..Align-1
  <2>1. off \in 0..Align-1 /\ nbytes[b] \in Nat \ {0} /\ Cap(b) \in Nat
    BY <1>4, <1>7
  <2>2. off + nbytes[b] + more \in Int
    BY <1>4
  <2>3. Reported(r, off, nbytes[b], direct)
    BY <2>1, <2>2, <1>8, ReadTruthful
  <2> QED
    BY <2>3 DEF Reported
<1>10. Cap(b)' = Cap(b)
  BY <1>3 DEF Cap, Need
<1>11. /\ last'.block = b /\ last'.start = start /\ last'.pad = r.pad
       /\ last'.got = r.got /\ last'.ok = (r.ret = nb)
  BY <1>2 DEF PadOf
<1>12. start + AlignUp(nb) + extra <= Cap(b)
  BY <1>4, <1>5, <1>7, <1>9
<1> HIDE DEF start, nb
<1>13. last'.ok <=> last'.got >= last'.start + nb
  BY Zenon, <1>9, <1>11
<1>14. last'.pad = last'.start /\ last'.pad + AlignUp(nb) + extra <= Cap(b)'
  BY <1>9, <1>10, <1>11, <1>12
<1>15. nbytes'[last'.block] = nb
  BY <1>3, <1>11 DEF nb
<1>16. LoadTruthful'
  BY <1>3, <1>11, <1>13, <1>14, <1>15 DEF LoadTruthful
<1> QED
  BY <1>3, <1>11, <1>16 DEF LoadInv

\* With extra bytes on the alignment, a load reports success exactly when the
\* payload is in the buffer, at the offset it records and with the caller's
\* bytes behind it.
THEOREM LoadsAreTruthful == ASSUME WholeExtras PROVE Spec => []LoadTruthful
<1>1. Init => LoadInv
  BY DEF Init, LoadInv, LoadTruthful
<1>2. Tight /\ LoadInv /\ [Next]_vars => LoadInv'
  <2> SUFFICES ASSUME Tight, LoadInv, [Next]_vars PROVE LoadInv'
    OBVIOUS
  <2> USE DEF cfgVars, loopVars
  <2>1. CASE \E b \in Blocks : Load(b)
    BY <2>1, LoadStep
  <2>2. CASE Pass \/ Refuse \/ Allocate
    <3>1. last' = last /\ status # "created"
      BY <2>2 DEF Pass, Refuse, Allocate
    <3> QED
      BY <3>1 DEF LoadInv, LoadTruthful
  <2>3. CASE UNCHANGED vars
    BY <2>3 DEF vars, LoadInv, LoadTruthful, Cap
  <2> QED
    BY <2>1, <2>2, <2>3 DEF Next
<1>3. LoadInv => LoadTruthful
  BY DEF LoadInv
<1> QED
  BY <1>1, <1>2, <1>3, TightInvariant, PTL DEF Spec

-----------------------------------------------------------------------------
(* Arithmetic.                                                             *)

\* A quotient brackets what it divides.
LEMMA Quotient ==
    ASSUME NEW a \in Nat, NEW k \in Nat \ {0}
    PROVE  /\ a \div k \in Nat /\ (a \div k) * k \in Nat
           /\ (a \div k) * k <= a /\ a < (a \div k) * k + k
  OBVIOUS

\* Products of a count and a width grow with the count.
LEMMA TimesMonotone ==
    ASSUME NEW p \in Nat, NEW q \in Nat, NEW k \in Nat, p <= q
    PROVE  p * k <= q * k /\ p * k \in Nat /\ q * k \in Nat
  OBVIOUS

\* A count whose multiple is below the next one of q is at most q.
LEMMA TimesCancels ==
    ASSUME NEW p \in Nat, NEW q \in Nat, NEW k \in Nat \ {0}, p * k < q * k + k
    PROVE  p <= q
  OBVIOUS

\* A larger amount has a larger quotient.
LEMMA QuotientMonotone ==
    ASSUME NEW a \in Nat, NEW b \in Nat, NEW k \in Nat \ {0}, a <= b
    PROVE  a \div k <= b \div k
<1> DEFINE p == a \div k
           q == b \div k
<1>1. p \in Nat /\ p * k \in Nat /\ p * k <= a
  BY Quotient
<1>2. q \in Nat /\ q * k \in Nat /\ b < q * k + k
  BY Quotient
<1> HIDE DEF p, q
<1>3. p * k < q * k + k
  BY <1>1, <1>2
<1>4. p <= q
  BY <1>1, <1>2, <1>3, TimesCancels
<1> QED
  BY <1>4 DEF p, q

\* The reserve takes at most one unit of one more.
LEMMA ReserveFacts ==
    ASSUME NEW b \in Nat
    PROVE  /\ Reserve(b) \in Nat /\ ReserveFloor <= Reserve(b)
           /\ Reserve(b + 1) \in Nat /\ Reserve(b) <= Reserve(b + 1)
           /\ Reserve(b + 1) <= Reserve(b) + 1
  BY PlannerAssumption DEF Reserve, Larger

\* eng_mem_max_context: as many positions as fit, up to the cap.
LEMMA MaxContextFacts ==
    ASSUME NEW a \in Nat \ {0}, NEW k \in Nat \ {0}
    PROVE  /\ MaxContext(a, k) \in Nat /\ MaxContext(a, k) <= ContextCap
           /\ MaxContext(a, k) * k \in Nat /\ MaxContext(a, k) * k <= a
           /\ MaxContext(a, k) = ContextCap \/ a < MaxContext(a, k) * k + k
<1> DEFINE q == a \div k
<1>1. q \in Nat /\ q * k \in Nat /\ q * k <= a /\ a < q * k + k
  BY Quotient
<1>2. MaxContext(a, k) = IF q > ContextCap THEN ContextCap ELSE q
  BY DEF MaxContext
<1> HIDE DEF q
<1>3. ContextCap \in Nat
  BY DEF ContextCap
<1>4. CASE q > ContextCap
  <2>1. ContextCap * k <= q * k /\ ContextCap * k \in Nat
    BY <1>1, <1>3, <1>4, TimesMonotone
  <2> QED
    BY <1>1, <1>2, <1>3, <1>4, <2>1
<1>5. CASE ~(q > ContextCap)
  BY <1>1, <1>2, <1>3, <1>5
<1> QED
  BY <1>4, <1>5

LEMMA MaxContextMonotone ==
    ASSUME NEW a \in Nat \ {0}, NEW b \in Nat \ {0}, NEW k \in Nat \ {0}, a <= b
    PROVE  MaxContext(a, k) <= MaxContext(b, k)
<1>1. a \div k <= b \div k /\ a \div k \in Nat /\ b \div k \in Nat
  BY QuotientMonotone, Quotient
<1>2. ContextCap \in Nat
  BY DEF ContextCap
<1> QED
  BY <1>1, <1>2 DEF MaxContext

-----------------------------------------------------------------------------
(* One plan.                                                               *)

\* A model's sizes and a request, as eng_plan gets them.
ModelType == [total : Nat, resident : Nat, fixed : Nat, kv : Nat,
              context_max : Nat, n_layers : Nat, max_layer : Nat,
              avg_layer : Nat, lm : Nat, n_experts : Nat, topk : Nat, expert : Nat]

RequestType == [budget : Nat, context : Nat, force_stream : {-1, 0, 1}]

\* What is left when the reserve and the fixed parts are off.
Left(b, d) == b - Reserve(b) - d.resident - d.fixed

MinWeights(d) == IF d.max_layer > 0 THEN d.max_layer ELSE d.avg_layer

\* The context of a plan that has room for a bytes of KV rows of k.
Cut(a, k, want) == IF want * k > a THEN MaxContext(a, k) ELSE want

\* What a plan says.
LEMMA PlanFacts ==
    ASSUME NEW d \in ModelType, NEW r \in RequestType, NEW b \in Nat,
           NEW want \in Nat \ {0}, want = WantContext(b, d, r),
           NEW p, p = EngPlan(b, d, r), p.ok
    PROVE  /\ p.budget = b /\ Left(b, d) \in Nat
           /\ p.context = IF d.kv > 0 THEN Cut(Left(b, d) - MinWeights(d), d.kv, want) ELSE want
           /\ p.kv_cache = IF d.kv > 0 THEN p.context * d.kv ELSE 0
           /\ p.weights = Left(b, d) - p.kv_cache /\ p.weights >= MinWeights(d)
           /\ d.kv > 0 => Left(b, d) - MinWeights(d) > 0 /\ p.context > 0
           /\ Reserve(b) < b /\ d.resident <= b - Reserve(b)
           /\ p.stream = StreamShare(p.weights, d, p.streaming)
           /\ p.cache = p.weights - p.stream
           /\ p.streaming \in BOOLEAN
           /\ ~p.streaming => d.total - d.resident <= p.weights
<1> DEFINE nd  == Needs(b, d, r)
           mem == MemPlan(b, nd)
           st  == d.total - d.resident
           on  == r.force_stream = 1 \/ mem.weights < st
<1>1. /\ d.kv \in Nat /\ d.resident \in Nat /\ d.fixed \in Nat /\ d.total \in Nat
      /\ d.max_layer \in Nat /\ d.avg_layer \in Nat /\ Reserve(b) \in Nat
  BY ReserveFacts DEF ModelType
<1>2. /\ nd.resident = d.resident /\ nd.fixed = d.fixed /\ nd.kv = d.kv
      /\ nd.context = want /\ nd.min_weights = MinWeights(d)
  BY DEF Needs, MinWeights
<1>3. p = IF ~mem.ok THEN NoPlan
          ELSE IF r.force_stream = 0 /\ mem.weights < st THEN NoPlan
          ELSE [ok |-> TRUE, budget |-> b, context |-> mem.context,
                kv_cache |-> mem.kv_cache, weights |-> mem.weights,
                streaming |-> on,
                stream |-> StreamShare(mem.weights, d, on),
                cache |-> mem.weights - StreamShare(mem.weights, d, on)]
  BY DEF EngPlan
<1> HIDE DEF nd, mem, st, on
<1>4. NoPlan.ok = FALSE
  BY DEF NoPlan
<1>5. /\ mem.ok /\ p.budget = b /\ p.context = mem.context /\ p.kv_cache = mem.kv_cache
      /\ p.weights = mem.weights /\ p.streaming = on
      /\ p.stream = StreamShare(mem.weights, d, on)
      /\ p.cache = mem.weights - StreamShare(mem.weights, d, on)
  BY <1>3, <1>4
<1> DEFINE left == Left(b, d)
           mn   == MinWeights(d)
           ctx  == IF d.kv > 0 /\ want * d.kv > left - mn THEN MaxContext(left - mn, d.kv) ELSE want
           kvc  == IF d.kv > 0 THEN ctx * d.kv ELSE 0
<1>6. mem = IF /\ b > 0 /\ Reserve(b) < b
               /\ d.resident <= b - Reserve(b)
               /\ left >= 0
               /\ d.kv > 0 => left - mn > 0 /\ ctx > 0
               /\ left - kvc >= mn
            THEN [ok |-> TRUE, context |-> ctx, kv_cache |-> kvc, weights |-> left - kvc]
            ELSE NoPlan
  <2>1. (d.kv > 0 /\ want > 0) = (d.kv > 0)
    BY <1>1
  <2> QED
    BY Zenon, <1>2, <2>1 DEF mem, MemPlan, Left
<1>7. left \in Int
  BY <1>1 DEF Left
<1> HIDE DEF left, mn, ctx, kvc
<1>8. /\ mem.context = ctx /\ mem.kv_cache = kvc /\ mem.weights = left - kvc
      /\ Reserve(b) < b /\ d.resident <= b - Reserve(b) /\ left >= 0
      /\ d.kv > 0 => left - mn > 0 /\ ctx > 0
      /\ left - kvc >= mn
  BY <1>4, <1>5, <1>6
<1>9. ctx = IF d.kv > 0 THEN Cut(left - mn, d.kv, want) ELSE want
  BY DEF ctx, Cut
<1>10. kvc = IF d.kv > 0 THEN ctx * d.kv ELSE 0
  BY DEF kvc
<1>11. on \in BOOLEAN /\ (~on => st <= mem.weights)
  <2>1. mem.weights \in Int /\ st \in Int
    <3>1. ctx \in Nat
      <4>1. CASE d.kv > 0 /\ left - mn > 0
        <5>1. d.kv \in Nat \ {0} /\ left - mn \in Nat \ {0}
          BY <1>1, <1>7, <4>1 DEF mn, MinWeights
        <5>2. MaxContext(left - mn, d.kv) \in Nat
          BY <5>1, MaxContextFacts
        <5> QED
          BY <5>2 DEF ctx
      <4>2. CASE ~(d.kv > 0)
        BY <4>2 DEF ctx
      <4> QED
        BY <1>8, <4>1, <4>2
    <3>2. kvc \in Nat
      BY <1>1, <3>1 DEF kvc
    <3> QED
      BY <1>1, <1>7, <1>8, <3>2 DEF st
  <2> QED
    BY <2>1 DEF on
<1> QED
  BY <1>5, <1>7, <1>8, <1>9, <1>10, <1>11 DEF left, mn, st

\* eng_plan always asks for some context.
LEMMA WantPositive ==
    ASSUME NEW d \in ModelType, NEW r \in RequestType, NEW b \in Nat
    PROVE  WantContext(b, d, r) \in Nat \ {0}
<1> DEFINE ctx  == IF d.context_max > 0 /\ d.context_max < DefaultContext
                   THEN d.context_max ELSE DefaultContext
           a    == Larger(b - d.resident - d.fixed, 0) \div 4
           fits == MaxContext(a, d.kv)
<1>1. /\ d.context_max \in Nat /\ d.kv \in Nat /\ d.resident \in Nat /\ d.fixed \in Nat
      /\ r.context \in Nat /\ DefaultContext \in Nat \ {0}
  BY PlannerAssumption DEF ModelType, RequestType
<1>2. ctx \in Nat \ {0}
  BY <1>1
<1>3. a \in Nat
  BY <1>1 DEF Larger
<1>4. WantContext(b, d, r) = IF r.context > 0 THEN r.context
                             ELSE IF d.kv > 0 /\ fits > 0 /\ fits < ctx THEN fits ELSE ctx
  BY DEF WantContext
<1> HIDE DEF ctx, a
<1>5. d.kv > 0 => fits \in Nat
  <2>1. CASE d.kv > 0 /\ a > 0
    BY <1>1, <1>3, <2>1, MaxContextFacts
  <2>2. CASE d.kv > 0 /\ ~(a > 0)
    BY <1>1, <1>3, <2>2 DEF MaxContext
  <2> QED
    BY <2>1, <2>2
<1> HIDE DEF fits
<1> QED
  BY <1>1, <1>2, <1>4, <1>5

\* A KV position is small: four fit in the reserve's floor.
KvSmall == \A d \in Models : 4 * d.kv <= ReserveFloor

\* With one unit more, no less context is asked for.
LEMMA WantGrows ==
    ASSUME NEW d \in ModelType, NEW r \in RequestType, NEW b \in Nat,
           4 * d.kv <= ReserveFloor, Left(b, d) >= 0
    PROVE  \/ WantContext(b, d, r) = WantContext(b + 1, d, r)
           \/ /\ WantContext(b, d, r) <= WantContext(b + 1, d, r)
              /\ WantContext(b, d, r) <= ContextCap
<1> DEFINE ctx == IF d.context_max > 0 /\ d.context_max < DefaultContext
                  THEN d.context_max ELSE DefaultContext
           x   == b - d.resident - d.fixed
           a   == Larger(x, 0) \div 4
           c   == Larger(x + 1, 0) \div 4
           f   == MaxContext(a, d.kv)
           g   == MaxContext(c, d.kv)
<1>1. /\ d.context_max \in Nat /\ d.kv \in Nat /\ d.resident \in Nat /\ d.fixed \in Nat
      /\ r.context \in Nat /\ DefaultContext \in Nat \ {0} /\ ReserveFloor \in Nat
      /\ Reserve(b) \in Nat /\ ReserveFloor <= Reserve(b)
  BY PlannerAssumption, ReserveFacts DEF ModelType, RequestType
<1>2. ctx \in Nat
  BY <1>1
<1>3. x \in Nat /\ 4 * d.kv <= x
  BY <1>1 DEF Left
<1>4. (b + 1) - d.resident - d.fixed = x + 1
  BY <1>1
<1>5. /\ WantContext(b, d, r) = IF r.context > 0 THEN r.context
                                ELSE IF d.kv > 0 /\ f > 0 /\ f < ctx THEN f ELSE ctx
      /\ WantContext(b + 1, d, r) = IF r.context > 0 THEN r.context
                                    ELSE IF d.kv > 0 /\ g > 0 /\ g < ctx THEN g ELSE ctx
  BY <1>4 DEF WantContext
<1> HIDE DEF x
<1>6. a \in Nat /\ c \in Nat /\ a <= c /\ d.kv <= a
  BY <1>1, <1>3 DEF Larger
<1> HIDE DEF a, c, ctx
<1>7. CASE ~(d.kv > 0)
  BY <1>1, <1>2, <1>5, <1>7
<1>8. CASE d.kv > 0
  <2> DEFINE k == d.kv
  <2>1. k \in Nat \ {0} /\ a \in Nat \ {0} /\ c \in Nat \ {0} /\ a <= c /\ k <= a
    BY <1>1, <1>6, <1>8
  <2> HIDE DEF k
  <2>2. MaxContext(a, k) <= MaxContext(c, k)
    BY <2>1, MaxContextMonotone
  <2>3. /\ MaxContext(a, k) \in Nat /\ MaxContext(a, k) * k \in Nat /\ MaxContext(a, k) <= ContextCap
        /\ MaxContext(a, k) = ContextCap \/ a < MaxContext(a, k) * k + k
        /\ MaxContext(c, k) \in Nat
    BY <2>1, MaxContextFacts
  <2>4. MaxContext(a, k) > 0
    <3> DEFINE q == MaxContext(a, k)
    <3>1. q \in Nat /\ q * k \in Nat /\ (q = ContextCap \/ a < q * k + k)
      BY <2>3
    <3> HIDE DEF q
    <3>2. q # 0
      BY <2>1, <3>1 DEF ContextCap
    <3> QED
      BY <3>1, <3>2 DEF q
  <2>5. f \in Nat /\ g \in Nat /\ f > 0 /\ f <= g /\ f <= ContextCap
    BY <2>2, <2>3, <2>4 DEF k
  <2> HIDE DEF f, g
  <2> QED
    BY <1>1, <1>2, <1>5, <2>5
<1> QED
  BY <1>7, <1>8

\* The context of a plan: what is wanted, or all that fits.
LEMMA CutFacts ==
    ASSUME NEW a \in Nat \ {0}, NEW k \in Nat \ {0}, NEW want \in Nat \ {0}
    PROVE  /\ Cut(a, k, want) \in Nat /\ Cut(a, k, want) * k <= a /\ Cut(a, k, want) <= want
           /\ Cut(a, k, want) < want => \/ Cut(a, k, want) = ContextCap
                                        \/ a < Cut(a, k, want) * k + k
<1> DEFINE q == MaxContext(a, k)
<1>1. /\ q \in Nat /\ q * k \in Nat /\ q * k <= a
      /\ q = ContextCap \/ a < q * k + k
  BY MaxContextFacts
<1>2. want * k \in Nat
  OBVIOUS
<1> HIDE DEF q
<1>3. CASE want * k > a
  <2>1. Cut(a, k, want) = q
    BY <1>3 DEF Cut, q
  <2>2. q <= want
    <3>1. q * k < want * k + k
      BY <1>1, <1>2, <1>3
    <3> QED
      BY <1>1, <3>1, TimesCancels
  <2> QED
    BY <1>1, <2>1, <2>2
<1>4. CASE ~(want * k > a)
  BY <1>2, <1>4 DEF Cut
<1> QED
  BY <1>3, <1>4

\* More room, and no less wanted: no less context.
LEMMA CutGrows ==
    ASSUME NEW a \in Nat \ {0}, NEW b \in Nat \ {0}, NEW k \in Nat \ {0}, a <= b,
           NEW want \in Nat \ {0}, NEW more \in Nat \ {0},
           want = more \/ (want <= more /\ want <= ContextCap)
    PROVE  Cut(a, k, want) <= Cut(b, k, more)
<1> DEFINE q == MaxContext(a, k)
           s == MaxContext(b, k)
<1>1. q \in Nat /\ s \in Nat /\ q <= s /\ s * k \in Nat /\ (s = ContextCap \/ b < s * k + k)
  BY MaxContextFacts, MaxContextMonotone
<1>2. want * k \in Nat /\ more * k \in Nat /\ want * k <= more * k
  BY TimesMonotone
<1>3. Cut(a, k, want) \in Nat /\ Cut(a, k, want) <= want /\ Cut(a, k, want) * k <= a
  BY CutFacts
<1>4. Cut(b, k, more) = IF more * k > b THEN s ELSE more
  BY DEF Cut
<1> DEFINE t == Cut(a, k, want)
<1>5. t = IF want * k > a THEN q ELSE want
  BY DEF Cut
<1> HIDE DEF q, s, t
<1>6. CASE ~(more * k > b)
  BY <1>3, <1>4, <1>6 DEF t
<1>7. CASE more * k > b /\ want * k > a
  BY <1>1, <1>4, <1>5, <1>7 DEF t
<1>8. CASE more * k > b /\ ~(want * k > a)
  <2>1. want # more
    BY <1>2, <1>8
  <2>2. want <= ContextCap /\ ContextCap \in Nat
    BY <2>1 DEF ContextCap
  <2>3. want <= s
    <3>1. CASE s = ContextCap
      BY <2>2, <3>1
    <3>2. CASE b < s * k + k
      <4>1. want * k < s * k + k
        BY <1>1, <1>2, <1>8, <3>2
      <4> QED
        BY <1>1, <4>1, TimesCancels
    <3> QED
      BY <1>1, <3>1, <3>2
  <2> QED
    BY <1>4, <1>5, <1>8, <2>3 DEF t
<1> QED
  BY <1>6, <1>7, <1>8

\* When there is a plan.
LEMMA PlanMade ==
    ASSUME NEW d \in ModelType, NEW r \in RequestType, NEW b \in Nat, r.force_stream # 0,
           NEW want \in Nat \ {0}, want = WantContext(b, d, r),
           NEW ctx, ctx = IF d.kv > 0 THEN Cut(Left(b, d) - MinWeights(d), d.kv, want) ELSE want,
           b > 0, Reserve(b) < b, d.resident <= b - Reserve(b), Left(b, d) >= 0,
           d.kv > 0 => Left(b, d) - MinWeights(d) > 0 /\ ctx > 0,
           Left(b, d) - (IF d.kv > 0 THEN ctx * d.kv ELSE 0) >= MinWeights(d)
    PROVE  EngPlan(b, d, r).ok
<1> DEFINE nd  == Needs(b, d, r)
           mem == MemPlan(b, nd)
           kvc == IF d.kv > 0 THEN ctx * d.kv ELSE 0
<1>1. /\ nd.resident = d.resident /\ nd.fixed = d.fixed /\ nd.kv = d.kv
      /\ nd.context = want /\ nd.min_weights = MinWeights(d)
  BY DEF Needs, MinWeights
<1> HIDE DEF nd
<1>2. d.kv \in Nat
  BY DEF ModelType
<1>3. mem.ok
  <2>1. (d.kv > 0 /\ want > 0) = (d.kv > 0)
    BY <1>2
  <2>2. ctx = IF d.kv > 0 /\ want * d.kv > Left(b, d) - MinWeights(d)
              THEN MaxContext(Left(b, d) - MinWeights(d), d.kv) ELSE want
    BY DEF Cut
  <2>3. mem = [ok |-> TRUE, context |-> ctx, kv_cache |-> kvc, weights |-> Left(b, d) - kvc]
    BY Zenon, <1>1, <2>1, <2>2 DEF MemPlan, Left
  <2> QED
    BY <2>3
<1> HIDE DEF mem
<1> QED
  BY <1>3 DEF EngPlan, mem, nd

\* One unit more of memory.
LEMMA PlanGrows ==
    ASSUME NEW d \in ModelType, NEW r \in RequestType, NEW b \in Nat, r.force_stream # 0,
           4 * d.kv <= ReserveFloor, EngPlan(b, d, r).ok
    PROVE  /\ EngPlan(b + 1, d, r).ok
           /\ EngPlan(b + 1, d, r).context >= EngPlan(b, d, r).context
<1> DEFINE p  == EngPlan(b, d, r)
           q  == EngPlan(b + 1, d, r)
           w  == WantContext(b, d, r)
           v  == WantContext(b + 1, d, r)
           mn == MinWeights(d)
           x  == Left(b, d)
           y  == Left(b + 1, d)
           c  == IF d.kv > 0 THEN Cut(x - mn, d.kv, w) ELSE w
           e  == IF d.kv > 0 THEN Cut(y - mn, d.kv, v) ELSE v
<1>1. /\ d.kv \in Nat /\ d.resident \in Nat /\ d.fixed \in Nat /\ b + 1 \in Nat
      /\ Reserve(b) \in Nat /\ Reserve(b + 1) \in Nat /\ Reserve(b + 1) <= Reserve(b) + 1
      /\ mn \in Nat
  BY ReserveFacts DEF ModelType, MinWeights
<1>2. w \in Nat \ {0} /\ v \in Nat \ {0}
  BY <1>1, WantPositive
<1>3. /\ x \in Nat /\ p.context = c
      /\ p.kv_cache = (IF d.kv > 0 THEN p.context * d.kv ELSE 0)
      /\ p.weights = x - p.kv_cache /\ p.weights >= mn
      /\ d.kv > 0 => x - mn > 0 /\ p.context > 0
      /\ Reserve(b) < b /\ d.resident <= b - Reserve(b)
  BY <1>2, PlanFacts
<1>4. /\ x <= y /\ y \in Nat /\ b + 1 > 0 /\ Reserve(b + 1) < b + 1
      /\ d.resident <= (b + 1) - Reserve(b + 1)
  BY <1>1, <1>3 DEF Left
<1>5. w = v \/ (w <= v /\ w <= ContextCap)
  BY <1>3, WantGrows
<1> HIDE DEF p, q, w, v, mn, x, y
<1>6. /\ c <= e /\ e \in Nat
      /\ d.kv > 0 => y - mn > 0 /\ e > 0
      /\ y - (IF d.kv > 0 THEN e * d.kv ELSE 0) >= mn
  <2>1. CASE d.kv > 0
    <3> DEFINE k == d.kv
               r1 == x - mn
               r2 == y - mn
               c1 == Cut(r1, k, w)
               e1 == Cut(r2, k, v)
    <3>1. k \in Nat \ {0} /\ r1 \in Nat \ {0} /\ r2 \in Nat \ {0} /\ r1 <= r2
      BY <1>1, <1>3, <1>4, <2>1
    <3>2. c = c1 /\ e = e1 /\ c1 > 0
      BY <1>3, <2>1
    <3> HIDE DEF k, r1, r2
    <3>3. c1 <= e1
      BY <1>2, <1>5, <3>1, CutGrows
    <3>4. e1 \in Nat /\ e1 * k <= r2 /\ c1 \in Nat
      BY <1>2, <3>1, CutFacts
    <3> HIDE DEF c1, e1
    <3>5. e1 * k \in Nat
      BY <3>1, <3>4
    <3>6. y - e1 * k >= mn
      BY <1>1, <1>4, <3>4, <3>5 DEF r2
    <3>7. y - mn > 0 /\ e1 > 0
      BY <1>1, <1>4, <3>1, <3>2, <3>3, <3>4 DEF r2
    <3> QED
      BY <2>1, <3>2, <3>3, <3>4, <3>6, <3>7 DEF k
  <2>2. CASE ~(d.kv > 0)
    <3>1. w = c /\ v = e /\ p.weights = x /\ p.weights >= mn
      BY <1>1, <1>3, <2>2
    <3>2. x >= mn /\ w <= v
      BY <1>2, <1>5, <3>1
    <3> QED
      BY <1>1, <1>2, <1>3, <1>4, <2>2, <3>1, <3>2
  <2> QED
    BY <2>1, <2>2
<1>7. q.ok
  <2>1. /\ v = WantContext(b + 1, d, r)
        /\ e = IF d.kv > 0 THEN Cut(Left(b + 1, d) - MinWeights(d), d.kv, v) ELSE v
    BY DEF v, y, mn
  <2>2. /\ Left(b + 1, d) >= 0
        /\ d.kv > 0 => Left(b + 1, d) - MinWeights(d) > 0 /\ e > 0
        /\ Left(b + 1, d) - (IF d.kv > 0 THEN e * d.kv ELSE 0) >= MinWeights(d)
    BY <1>4, <1>6 DEF y, mn
  <2> HIDE DEF e
  <2> QED
    BY <1>1, <1>2, <1>4, <2>1, <2>2, PlanMade DEF q
<1>8. q.context = e
  <2>1. q.context = IF d.kv > 0 THEN Cut(Left(b + 1, d) - MinWeights(d), d.kv, v) ELSE v
    <3>1. v = WantContext(b + 1, d, r) /\ q = EngPlan(b + 1, d, r)
      BY DEF v, q
    <3> QED
      BY <1>1, <1>2, <1>7, <3>1, PlanFacts
  <2> QED
    BY <2>1 DEF y, mn
<1> HIDE DEF c, e
<1>9. c \in Nat
  <2>1. CASE d.kv > 0
    <3>1. d.kv \in Nat \ {0} /\ x - mn \in Nat \ {0}
      <4>1. x - mn > 0 /\ x \in Nat
        BY <1>3, <2>1
      <4> QED
        BY <1>1, <2>1, <4>1
    <3>2. Cut(x - mn, d.kv, w) \in Nat
      BY SMTT(30), <1>2, <3>1, CutFacts
    <3> QED
      BY <2>1, <3>2 DEF c
  <2> QED
    BY <1>2, <2>1 DEF c
<1> QED
  BY <1>3, <1>6, <1>7, <1>8, <1>9 DEF p, q

-----------------------------------------------------------------------------
(* The shares.                                                             *)

\* The streamer's share is no more than the weights.
LEMMA ShareBounds ==
    ASSUME NEW d \in ModelType, NEW w \in Nat, NEW s \in BOOLEAN,
           ~s => d.total - d.resident <= w
    PROVE  StreamShare(w, d, s) \in Int /\ StreamShare(w, d, s) <= w
<1> DEFINE least == (d.topk + 1) * d.expert
<1>1. d.topk \in Nat /\ d.expert \in Nat /\ d.total \in Nat /\ d.resident \in Nat
  BY DEF ModelType
<1>2. least \in Nat
  BY <1>1
<1>3. w \div 2 \in Nat /\ w \div 2 <= w
  OBVIOUS
<1> HIDE DEF least
<1>4. \/ StreamShare(w, d, s) = d.total - d.resident /\ ~s
      \/ StreamShare(w, d, s) = w - least
      \/ StreamShare(w, d, s) = w - w \div 2
      \/ StreamShare(w, d, s) = w
  BY DEF StreamShare, least
<1> QED
  BY <1>1, <1>2, <1>3, <1>4

\* A cache of the minimum share has a slot for each of the topk experts.
LEMMA SlotsForToken ==
    ASSUME NEW e \in Nat, NEW k \in Nat, e >= 3 * Align * k
    PROVE  CacheSlots((k + 1) * e, e) >= k
<1> DEFINE slot == AlignUp(e + 2 * Align)
           q    == ((k + 1) * e) \div slot
<1>1. Align \in Nat \ {0}
  BY AlignAssumption
<1>2. slot \in Nat /\ e + 2 * Align <= slot /\ slot < e + 2 * Align + Align
  BY <1>1, AlignUpBounds
<1>3. slot \in Nat \ {0} /\ slot <= e + 3 * Align
  BY <1>1, <1>2
<1> HIDE DEF slot
<1>4. k * slot <= k * (e + 3 * Align)
  <2>1. e + 3 * Align \in Nat
    BY <1>1
  <2> QED
    BY <1>3, <2>1, TimesMonotone
<1>5. k * (e + 3 * Align) = k * e + 3 * Align * k
  BY <1>1
<1>6. (k + 1) * e = k * e + e
  OBVIOUS
<1>7. k * slot <= (k + 1) * e
  BY <1>1, <1>3, <1>4, <1>5, <1>6
<1>8. (k + 1) * e \in Nat
  OBVIOUS
<1>9. q \in Nat /\ (k + 1) * e < q * slot + slot
  BY <1>3, <1>8, Quotient
<1>10. k * slot < q * slot + slot
  BY <1>3, <1>7, <1>8, <1>9
<1>11. k <= q
  BY <1>3, <1>9, <1>10, TimesCancels
<1> QED
  BY <1>9, <1>11 DEF CacheSlots, slot

-----------------------------------------------------------------------------
(* The invariant.                                                          *)

\* The plan is the one eng_plan makes of the inputs, and a loaded run holds
\* exactly the streamer's share of it.
PlanInv ==
    /\ hw \in Machines /\ m \in Models /\ req \in Requests
    /\ plan = NoPlan \/ (Budget \in Nat \ {0} /\ plan = EngPlan(Budget, m, req))
    /\ stage = "planned" => plan.ok
    /\ stage = "loaded" =>
         /\ plan.ok
         /\ run.lm \in Nat
         /\ run.streamer = plan.stream - run.lm

\* The budget is a natural number, chosen or measured.
LEMMA BudgetNat ==
    ASSUME hw \in Machines, req \in Requests
    PROVE  Budget \in Nat
<1>1. req.budget \in Nat /\ hw.avail \in Nat /\ hw.total \in Nat /\ KeepFloor \in Nat
  BY PlannerAssumption
<1> DEFINE base == IF hw.avail > 0 THEN hw.avail ELSE (hw.total * 3) \div 4
<1>2. base \in Nat
  BY <1>1
<1> HIDE DEF base
<1>3. AutoBudget(hw) = Larger(base - Larger(base \div 5, KeepFloor), 0)
  BY DEF AutoBudget, base
<1>4. AutoBudget(hw) \in Nat
  BY <1>1, <1>2, <1>3 DEF Larger
<1> QED
  BY <1>1, <1>4 DEF Budget

\* Planning and loading keep the invariant.
LEMMA PlanInvariance ==
    PlanSpec => []PlanInv
<1>1. PlanInit => PlanInv
  BY DEF PlanInit, PlanInv
<1>2. PlanInv /\ [PlanNext]_planVars => PlanInv'
  <2> SUFFICES ASSUME PlanInv, [PlanNext]_planVars
               PROVE  PlanInv'
    OBVIOUS
  <2> USE DEF PlanInv
  <2>1. CASE MakePlan
    <3>1. /\ hw' = hw /\ m' = m /\ req' = req
          /\ plan' = IF Budget <= 0 THEN NoPlan ELSE EngPlan(Budget, m, req)
          /\ stage' = IF plan'.ok THEN "planned" ELSE "refused"
      BY <2>1 DEF MakePlan
    <3>2. Budget' = Budget
      BY <3>1 DEF Budget
    <3>3. Budget \in Nat
      BY BudgetNat
    <3>4. Budget <= 0 \/ Budget \in Nat \ {0}
      BY <3>3
    <3>5. plan' = NoPlan \/ (Budget' \in Nat \ {0} /\ plan' = EngPlan(Budget', m', req'))
      BY <3>1, <3>2, <3>4
    <3>6. (stage' = "planned" => plan'.ok) /\ stage' # "loaded"
      BY <3>1
    <3> QED
      BY <3>1, <3>5, <3>6
  <2>2. CASE LoadModel
    <3>1. stage = "planned" /\ plan.ok
      BY <2>2 DEF LoadModel
    <3>2. hw' = hw /\ m' = m /\ req' = req /\ plan' = plan /\ stage' # "planned"
      BY <2>2 DEF LoadModel
    <3>3. m.lm \in Nat
      BY PlannerAssumption
    <3>4. PICK env \in {-1, 0, 1} :
              LET lm == IF LmResident(plan.stream, m, env) THEN m.lm ELSE 0
              IN  run' = [lm |-> lm, streamer |-> StreamerBudget(plan.stream, lm), env |-> env]
      BY <2>2 DEF LoadModel
    <3>5. run'.lm \in Nat /\ run'.streamer = plan.stream - run'.lm
      BY <3>3, <3>4 DEF StreamerBudget
    <3>6. Budget' = Budget
      BY <3>2 DEF Budget
    <3> QED
      BY <3>1, <3>2, <3>5, <3>6
  <2>3. CASE UNCHANGED planVars
    <3>1. hw' = hw /\ m' = m /\ req' = req /\ plan' = plan /\ stage' = stage /\ run' = run
      BY <2>3 DEF planVars
    <3>2. Budget' = Budget
      BY <3>1 DEF Budget
    <3> QED
      BY <3>1, <3>2
  <2> QED
    BY <2>1, <2>2, <2>3 DEF PlanNext
<1> QED
  BY <1>1, <1>2, PTL DEF PlanSpec

\* A plan that was made, with everything PlanFacts knows of it.
LEMMA PlanMadeFrom ==
    ASSUME PlanInv, plan.ok
    PROVE  /\ m \in ModelType /\ req \in RequestType
           /\ Budget \in Nat \ {0} /\ plan = EngPlan(Budget, m, req)
           /\ WantContext(Budget, m, req) \in Nat \ {0}
<1>1. m \in ModelType /\ req \in RequestType
  BY PlannerAssumption DEF PlanInv, ModelType, RequestType
<1>2. plan # NoPlan
  BY DEF NoPlan
<1>3. Budget \in Nat \ {0} /\ plan = EngPlan(Budget, m, req)
  BY <1>2 DEF PlanInv
<1> QED
  BY <1>1, <1>3, WantPositive

\* The KV cache and the weights of a plan are natural numbers.
LEMMA SharesNat ==
    ASSUME PlanInv, plan.ok
    PROVE  plan.kv_cache \in Nat /\ plan.weights \in Nat
<1> DEFINE w  == WantContext(Budget, m, req)
           x  == Left(Budget, m)
           kv == plan.kv_cache
<1>1. /\ m \in ModelType /\ req \in RequestType /\ Budget \in Nat \ {0}
      /\ plan = EngPlan(Budget, m, req) /\ w \in Nat \ {0}
  BY PlanMadeFrom
<1>2. /\ x \in Nat
      /\ plan.context = (IF m.kv > 0 THEN Cut(x - MinWeights(m), m.kv, w) ELSE w)
      /\ kv = (IF m.kv > 0 THEN plan.context * m.kv ELSE 0)
      /\ plan.weights = x - kv /\ plan.weights >= MinWeights(m)
      /\ m.kv > 0 => x - MinWeights(m) > 0
  BY <1>1, PlanFacts
<1>3. m.kv \in Nat /\ MinWeights(m) \in Nat
  BY <1>1 DEF ModelType, MinWeights
<1> HIDE DEF w, x, kv
<1>4. kv \in Nat
  <2>1. CASE m.kv > 0
    <3>1. x - MinWeights(m) > 0 /\ x \in Nat
      BY <1>2, <2>1
    <3>2. x - MinWeights(m) \in Nat \ {0} /\ m.kv \in Nat \ {0}
      BY <1>3, <2>1, <3>1
    <3>3. Cut(x - MinWeights(m), m.kv, w) \in Nat
      BY Zenon, <1>1, <3>2, CutFacts
    <3>4. plan.context \in Nat
      BY <1>2, <2>1, <3>3
    <3> QED
      BY <1>2, <1>3, <2>1, <3>4
  <2> QED
    BY <1>2, <2>1
<1>5. plan.weights \in Nat
  <2>1. plan.weights = x - kv /\ plan.weights >= MinWeights(m) /\ x \in Nat
    BY <1>2
  <2> QED
    BY <1>3, <1>4, <2>1
<1> QED
  BY <1>4, <1>5 DEF kv

-----------------------------------------------------------------------------
(* The theorems.                                                           *)

\* eng_mem_plan cuts the context only as far as the weights' minimum or the
\* cap of eng_mem_max_context makes it, for every machine, model and request.
THEOREM ContextIsMaximal ==
    PlanSpec => []ContextMaximal
<1>1. PlanInv => ContextMaximal
  <2> SUFFICES ASSUME PlanInv, plan.ok
               PROVE  plan.context < WantContext(plan.budget, m, req) =>
                          \/ plan.weights - m.kv < Needs(plan.budget, m, req).min_weights
                          \/ plan.context = ContextCap
    BY DEF ContextMaximal
  <2> DEFINE w  == WantContext(Budget, m, req)
             mn == MinWeights(m)
             x  == Left(Budget, m)
             c  == plan.context
  <2>1. /\ m \in ModelType /\ req \in RequestType /\ Budget \in Nat \ {0}
        /\ plan = EngPlan(Budget, m, req) /\ w \in Nat \ {0}
    BY PlanMadeFrom
  <2>2. /\ plan.budget = Budget /\ x \in Nat
        /\ c = (IF m.kv > 0 THEN Cut(x - mn, m.kv, w) ELSE w)
        /\ plan.kv_cache = (IF m.kv > 0 THEN c * m.kv ELSE 0)
        /\ plan.weights = x - plan.kv_cache /\ plan.weights >= mn
        /\ m.kv > 0 => x - mn > 0 /\ c > 0
    BY <2>1, PlanFacts
  <2>3. Needs(Budget, m, req).min_weights = mn
    BY DEF Needs, MinWeights
  <2>4. m.kv \in Nat /\ mn \in Nat
    BY <2>1 DEF ModelType, MinWeights
  <2> HIDE DEF w, mn, x, c
  <2>5. c < w => plan.weights - m.kv < mn \/ c = ContextCap
    <3> SUFFICES ASSUME c < w
                 PROVE  plan.weights - m.kv < mn \/ c = ContextCap
      OBVIOUS
    <3>1. m.kv > 0
      BY <2>1, <2>2
    <3>2. x - mn \in Nat \ {0} /\ m.kv \in Nat \ {0}
      <4>1. x - mn > 0 /\ x \in Nat
        BY <2>2, <3>1
      <4> QED
        BY <2>4, <3>1, <4>1
    <3>3. c = Cut(x - mn, m.kv, w)
      BY <2>2, <3>1
    <3>4. c \in Nat /\ (c = ContextCap \/ x - mn < c * m.kv + m.kv)
      BY Zenon, <2>1, <3>2, <3>3, CutFacts
    <3>5. c * m.kv \in Nat /\ plan.weights = x - c * m.kv
      BY <2>2, <2>4, <3>1, <3>4
    <3> QED
      BY <2>2, <2>4, <3>4, <3>5
  <2> QED
    BY <2>2, <2>3, <2>5 DEF w, c
<1> QED
  BY <1>1, PlanInvariance, PTL

\* One unit more of memory never turns a plan into a refusal and never
\* shortens its context, for every machine, model and request, when four
\* positions of the KV cache fit the reserve's floor.
THEOREM MoreMemoryAlwaysHelps ==
    ASSUME KvSmall
    PROVE  PlanSpec => []MoreMemoryHelps
<1>1. PlanInv => MoreMemoryHelps
  <2> SUFFICES ASSUME PlanInv, plan.ok, req.force_stream # 0
               PROVE  /\ EngPlan(plan.budget + 1, m, req).ok
                      /\ EngPlan(plan.budget + 1, m, req).context >= plan.context
    BY DEF MoreMemoryHelps
  <2>1. /\ m \in ModelType /\ req \in RequestType /\ Budget \in Nat \ {0}
        /\ plan = EngPlan(Budget, m, req) /\ WantContext(Budget, m, req) \in Nat \ {0}
    BY PlanMadeFrom
  <2>2. plan.budget = Budget
    BY <2>1, PlanFacts
  <2>3. 4 * m.kv <= ReserveFloor
    BY KvSmall DEF KvSmall, PlanInv
  <2>4. Budget \in Nat
    BY <2>1
  <2> QED
    BY <2>1, <2>2, <2>3, <2>4, PlanGrows
<1> QED
  BY <1>1, PlanInvariance, PTL

\* What qwen3_load allocates for the LM head and the streamer stays, with the
\* reserve, the resident weights, the buffers and the KV cache, inside the
\* budget, for every machine, model, request and setting of ENG_LM_RESIDENT.
THEOREM RunStaysWithinPlan ==
    PlanSpec => []RunWithinPlan
<1>1. PlanInv => RunWithinPlan
  <2> SUFFICES ASSUME PlanInv, stage = "loaded"
               PROVE  Reserve(plan.budget) + m.resident + m.fixed + plan.kv_cache
                          + run.lm + run.streamer <= plan.budget
    BY DEF RunWithinPlan
  <2> DEFINE w  == WantContext(Budget, m, req)
             sh == plan.stream
             kv == plan.kv_cache
             re == Reserve(Budget)
  <2>1. plan.ok /\ run.lm \in Nat /\ run.streamer = sh - run.lm
    BY DEF PlanInv
  <2>2. /\ m \in ModelType /\ req \in RequestType /\ Budget \in Nat \ {0}
        /\ plan = EngPlan(Budget, m, req) /\ w \in Nat \ {0}
    BY <2>1, PlanMadeFrom
  <2>3. /\ plan.budget = Budget
        /\ plan.weights = Left(Budget, m) - kv
        /\ sh = StreamShare(plan.weights, m, plan.streaming)
        /\ plan.streaming \in BOOLEAN
        /\ ~plan.streaming => m.total - m.resident <= plan.weights
    BY <2>1, <2>2, PlanFacts
  <2>4. m.resident \in Nat /\ m.fixed \in Nat /\ re \in Nat
    BY <2>2, ReserveFacts DEF ModelType
  <2>5. kv \in Nat /\ plan.weights \in Nat
    BY <2>1, SharesNat
  <2>6. sh \in Int /\ sh <= plan.weights
    BY <2>2, <2>3, <2>5, ShareBounds
  <2>7. Left(Budget, m) = Budget - re - m.resident - m.fixed
    BY DEF Left
  <2>8. plan.weights = Left(Budget, m) - kv /\ plan.budget = Budget /\ Reserve(plan.budget) = re
    BY <2>3
  <2> HIDE DEF w, sh, kv, re
  <2>9. re + m.resident + m.fixed + kv + run.lm + run.streamer <= Budget
    BY <2>1, <2>2, <2>4, <2>5, <2>6, <2>7, <2>8
  <2> QED
    BY <2>8, <2>9 DEF kv
<1> QED
  BY <1>1, PlanInvariance, PTL

\* A plan's weights are the streamer's share and the cache's.
LEMMA PlanDivides ==
    ASSUME PlanInv, plan.ok
    PROVE  /\ plan.stream = StreamShare(plan.weights, m, plan.streaming)
           /\ plan.cache = plan.weights - plan.stream
<1>1. /\ m \in ModelType /\ req \in RequestType /\ Budget \in Nat
      /\ plan = EngPlan(Budget, m, req) /\ WantContext(Budget, m, req) \in Nat \ {0}
  BY PlanMadeFrom
<1> QED
  BY SMTT(30), <1>1, PlanFacts

\* An expert cache cut to its minimum share has a slot for every expert of a
\* token, for every alignment, model and budget, when an expert is no smaller
\* than the padding of topk slots.
THEOREM CacheAlwaysHoldsToken ==
    PlanSpec => []CacheHoldsToken
<1>1. PlanInv => CacheHoldsToken
  <2> DEFINE least == (m.topk + 1) * m.expert
  <2> SUFFICES ASSUME PlanInv, plan.ok, plan.streaming, m.n_experts > 0,
                      m.expert >= 3 * Align * m.topk,
                      plan.weights > least + 2 * m.max_layer
               PROVE  CacheSlots(plan.cache, m.expert) >= m.topk
    BY DEF CacheHoldsToken
  <2>1. /\ m \in ModelType /\ req \in RequestType /\ Budget \in Nat \ {0}
        /\ plan = EngPlan(Budget, m, req) /\ WantContext(Budget, m, req) \in Nat \ {0}
    BY PlanMadeFrom
  <2>2. /\ plan.stream = StreamShare(plan.weights, m, plan.streaming)
        /\ plan.cache = plan.weights - plan.stream
    BY Zenon, PlanDivides
  <2>3. plan.cache = plan.weights - plan.stream
    BY <2>2
  <2>4. m.topk \in Nat /\ m.expert \in Nat /\ m.max_layer \in Nat /\ Align \in Nat \ {0}
    BY <2>1, AlignAssumption DEF ModelType
  <2>5. plan.weights \in Nat
    BY SharesNat
  <2>6. CASE m.expert > 0
    <3>1. plan.stream = plan.weights - least
      <4>1. plan.weights > least + m.max_layer * 2
        BY <2>4
      <4> QED
        BY <2>2, <2>6, <4>1 DEF StreamShare
    <3>2. least \in Nat
      BY <2>4
    <3> HIDE DEF least
    <3>3. plan.cache = least
      BY <2>3, <2>5, <3>1, <3>2
    <3>4. CacheSlots((m.topk + 1) * m.expert, m.expert) >= m.topk
      BY <2>4, SlotsForToken
    <3> QED
      BY <3>3, <3>4 DEF least
  <2>7. CASE ~(m.expert > 0)
    <3>1. m.expert = 0 /\ m.topk = 0
      <4>1. m.expert = 0 /\ ~(3 * Align * m.topk > 0)
        BY <2>4, <2>7
      <4>2. m.topk >= 1 => 3 * Align * m.topk >= 3 * Align
        BY <2>4
      <4> QED
        BY <2>4, <4>1, <4>2
    <3>2. plan.stream = plan.weights
      BY <2>2, <2>7 DEF StreamShare
    <3>3. plan.cache = 0
      BY <2>3, <2>5, <3>2
    <3>4. AlignUp(0 + 2 * Align) \in Nat /\ AlignUp(0 + 2 * Align) >= 2 * Align
      BY <2>4, AlignUpBounds
    <3>5. CacheSlots(0, 0) \in Nat
      BY <2>4, <3>4 DEF CacheSlots
    <3> QED
      BY <3>1, <3>3, <3>5
  <2> QED
    BY <2>6, <2>7
<1> QED
  BY <1>1, PlanInvariance, PTL
=============================================================================
