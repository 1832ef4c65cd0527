---------------------------- MODULE DecodeProofs ----------------------------
(***************************************************************************)
(* For every vocabulary, network, prompt, length and command line: what    *)
(* the generation loop carries from step to step and from process to       *)
(* process is the history of its text, and the text is the conversation    *)
(* Chat promises.                                                          *)
(***************************************************************************)
EXTENDS Decode, WellFoundedInduction, TLAPS

\* An argmax over the vocabulary is a token.
GreedyIsToken == \A f \in Nets : \A h \in Seq(Tok) : Greedy(f, h) \in Tok

-----------------------------------------------------------------------------
(* Sequences.                                                              *)

\* The facts about sequences that the proofs below cite.
LEMMA SeqDef ==
    ASSUME NEW S
    PROVE  \A n \in Nat : \A f \in [1..n -> S] : f \in Seq(S) /\ Len(f) = n
  OBVIOUS

LEMMA SeqMonotonic ==
    ASSUME NEW S, NEW Wider, S \subseteq Wider, NEW s \in Seq(S)
    PROVE  s \in Seq(Wider)
  OBVIOUS

LEMMA ElementOfSeq ==
    ASSUME NEW S, NEW s \in Seq(S), NEW i \in 1..Len(s)
    PROVE  s[i] \in S
  OBVIOUS

LEMMA EmptySeq ==
    ASSUME NEW S
    PROVE  /\ <<>> \in Seq(S) /\ Len(<<>>) = 0
           /\ \A s \in Seq(S) : s = <<>> \/ Len(s) \in Nat \ {0}
  OBVIOUS

LEMMA LenProperties ==
    ASSUME NEW S, NEW s \in Seq(S)
    PROVE  Len(s) \in Nat /\ s \in [1..Len(s) -> S] /\ DOMAIN s = 1..Len(s)
  OBVIOUS

LEMMA SeqEqual ==
    ASSUME NEW S, NEW s \in Seq(S), NEW t \in Seq(S), Len(s) = Len(t),
           \A i \in 1..Len(s) : s[i] = t[i]
    PROVE  s = t
  OBVIOUS

LEMMA ConcatProperties ==
    ASSUME NEW S, NEW s \in Seq(S), NEW t \in Seq(S)
    PROVE  /\ s \o t \in Seq(S) /\ Len(s \o t) = Len(s) + Len(t)
           /\ \A i \in 1..Len(s) + Len(t) :
                (s \o t)[i] = IF i <= Len(s) THEN s[i] ELSE t[i - Len(s)]
  OBVIOUS

LEMMA ConcatEmptySeq ==
    ASSUME NEW S, NEW s \in Seq(S)
    PROVE  s \o <<>> = s /\ <<>> \o s = s
  OBVIOUS

LEMMA ConcatAssociative ==
    ASSUME NEW S, NEW s \in Seq(S), NEW t \in Seq(S), NEW u \in Seq(S)
    PROVE  (s \o t) \o u = s \o (t \o u)
  OBVIOUS

LEMMA SubSeqProperties ==
    ASSUME NEW S, NEW s, NEW a \in Int, NEW b \in Int, \A i \in a..b : s[i] \in S
    PROVE  /\ SubSeq(s, a, b) \in Seq(S)
           /\ Len(SubSeq(s, a, b)) = IF a <= b THEN b - a + 1 ELSE 0
           /\ \A i \in 1..b - a + 1 : SubSeq(s, a, b)[i] = s[a + i - 1]
  OBVIOUS

LEMMA SubSeqEmpty ==
    ASSUME NEW s, NEW a \in Int, NEW b \in Int, b < a
    PROVE  SubSeq(s, a, b) = <<>>
  OBVIOUS

LEMMA SubSeqFull ==
    ASSUME NEW S, NEW s \in Seq(S)
    PROVE  SubSeq(s, 1, Len(s)) = s
  OBVIOUS

\* A prefix is a sequence of its length with the same elements.
LEMMA PrefixFacts ==
    ASSUME NEW S, NEW s \in Seq(S), NEW k \in 0..Len(s)
    PROVE  /\ SubSeq(s, 1, k) \in Seq(S) /\ Len(SubSeq(s, 1, k)) = k
           /\ \A i \in 1..k : SubSeq(s, 1, k)[i] = s[i]
  BY SubSeqProperties

\* A sequence is what its prefix and the rest make.
LEMMA Split ==
    ASSUME NEW S, NEW s \in Seq(S), NEW k \in 0..Len(s)
    PROVE  /\ SubSeq(s, k + 1, Len(s)) \in Seq(S)
           /\ Len(SubSeq(s, k + 1, Len(s))) = Len(s) - k
           /\ SubSeq(s, 1, k) \o SubSeq(s, k + 1, Len(s)) = s
<1> DEFINE a == SubSeq(s, 1, k)
           b == SubSeq(s, k + 1, Len(s))
<1>1. Len(s) \in Nat
  BY LenProperties
<1>2. a \in Seq(S) /\ Len(a) = k /\ \A i \in 1..k : a[i] = s[i]
  BY PrefixFacts
<1>3. b \in Seq(S) /\ Len(b) = Len(s) - k /\ \A i \in 1..(Len(s) - k) : b[i] = s[k + i]
  BY <1>1, SubSeqProperties
<1> HIDE DEF a, b
<1>4. /\ a \o b \in Seq(S) /\ Len(a \o b) = Len(s)
      /\ \A i \in 1..Len(s) : (a \o b)[i] = IF i <= k THEN a[i] ELSE b[i - k]
  BY <1>1, <1>2, <1>3, ConcatProperties
<1>5. \A i \in 1..Len(s) : (a \o b)[i] = s[i]
  BY <1>1, <1>2, <1>3, <1>4
<1>6. a \o b = s
  BY Zenon, <1>4, <1>5, SeqEqual
<1> QED
  BY Zenon, <1>3, <1>6 DEF a, b

\* A prefix that reaches into the second part.
LEMMA PrefixOfConcat ==
    ASSUME NEW S, NEW s \in Seq(S), NEW t \in Seq(S), NEW k \in 0..Len(t)
    PROVE  SubSeq(s \o t, 1, Len(s) + k) = s \o SubSeq(t, 1, k)
<1> DEFINE a == SubSeq(s \o t, 1, Len(s) + k)
           p == SubSeq(t, 1, k)
<1>1. Len(s) \in Nat /\ Len(t) \in Nat
  BY Zenon, LenProperties
<1>2. /\ s \o t \in Seq(S) /\ Len(s \o t) = Len(s) + Len(t)
      /\ \A i \in 1..(Len(s) + Len(t)) : (s \o t)[i] = IF i <= Len(s) THEN s[i] ELSE t[i - Len(s)]
  BY ConcatProperties
<1>3. p \in Seq(S) /\ Len(p) = k /\ \A i \in 1..k : p[i] = t[i]
  BY PrefixFacts
<1>4. Len(s) + k \in 0..Len(s \o t)
  BY <1>1, <1>2
<1>5. a \in Seq(S) /\ Len(a) = Len(s) + k /\ \A i \in 1..(Len(s) + k) : a[i] = (s \o t)[i]
  BY Zenon, <1>2, <1>4, PrefixFacts
<1> HIDE DEF a, p
<1>6. /\ s \o p \in Seq(S) /\ Len(s \o p) = Len(s) + k
      /\ \A i \in 1..(Len(s) + k) : (s \o p)[i] = IF i <= Len(s) THEN s[i] ELSE p[i - Len(s)]
  BY Zenon, <1>3, ConcatProperties
<1>7. \A i \in 1..Len(a) : a[i] = (s \o p)[i]
  <2> TAKE i \in 1..Len(a)
  <2>1. i \in 1..(Len(s) + k) /\ i \in 1..(Len(s) + Len(t))
    BY <1>1, <1>5
  <2>2. CASE i <= Len(s)
    BY Zenon, <1>2, <1>5, <1>6, <2>1, <2>2
  <2>3. CASE ~(i <= Len(s))
    <3>1. i - Len(s) \in 1..k
      BY <1>1, <2>1, <2>3
    <3> QED
      BY Zenon, <1>2, <1>3, <1>5, <1>6, <2>1, <2>3, <3>1
  <2> QED
    BY Zenon, <2>2, <2>3
<1>8. a = s \o p
  BY Zenon, <1>5, <1>6, <1>7, SeqEqual
<1> QED
  BY Zenon, <1>8 DEF a, p

\* A prefix within the first part.
LEMMA PrefixInConcat ==
    ASSUME NEW S, NEW s \in Seq(S), NEW t \in Seq(S), NEW k \in 0..Len(s)
    PROVE  SubSeq(s \o t, 1, k) = SubSeq(s, 1, k)
<1>1. Len(s) \in Nat /\ Len(t) \in Nat
  BY LenProperties
<1>2. /\ s \o t \in Seq(S) /\ Len(s \o t) = Len(s) + Len(t)
      /\ \A i \in 1..(Len(s) + Len(t)) : (s \o t)[i] = IF i <= Len(s) THEN s[i] ELSE t[i - Len(s)]
  BY ConcatProperties
<1>3. k \in 0..Len(s \o t)
  BY <1>1, <1>2
<1>4. /\ SubSeq(s \o t, 1, k) \in Seq(S) /\ Len(SubSeq(s \o t, 1, k)) = k
      /\ \A i \in 1..k : SubSeq(s \o t, 1, k)[i] = (s \o t)[i]
  BY Zenon, <1>2, <1>3, PrefixFacts
<1>5. /\ SubSeq(s, 1, k) \in Seq(S) /\ Len(SubSeq(s, 1, k)) = k
      /\ \A i \in 1..k : SubSeq(s, 1, k)[i] = s[i]
  BY PrefixFacts
<1>6. \A i \in 1..k : SubSeq(s \o t, 1, k)[i] = SubSeq(s, 1, k)[i]
  BY <1>1, <1>2, <1>4, <1>5
<1> QED
  BY <1>4, <1>5, <1>6, SeqEqual

\* A prefix of a prefix.
LEMMA PrefixOfPrefix ==
    ASSUME NEW S, NEW s \in Seq(S), NEW k \in 0..Len(s), NEW j \in 0..k
    PROVE  SubSeq(SubSeq(s, 1, k), 1, j) = SubSeq(s, 1, j)
<1> DEFINE a == SubSeq(s, 1, k)
           b == SubSeq(s, k + 1, Len(s))
<1>1. a \in Seq(S) /\ j \in 0..Len(a)
  BY PrefixFacts
<1>2. b \in Seq(S) /\ a \o b = s
  BY Zenon, Split
<1> HIDE DEF a, b
<1>3. SubSeq(a \o b, 1, j) = SubSeq(a, 1, j)
  BY <1>1, <1>2, PrefixInConcat
<1> QED
  BY <1>2, <1>3 DEF a

\* The least of some naturals.
LEMMA LeastNatural ==
    ASSUME NEW S \in SUBSET Nat, S # {}
    PROVE  \E m \in S : \A k \in S : m <= k
<1> DEFINE R == OpToRel(<, Nat)
<1>1. IsWellFoundedOn(R, Nat)
  BY Zenon, NatLessThanWellFounded
<1>2. \A a, b \in Nat : a < b => <<a, b>> \in R
  BY DEF OpToRel
<1> HIDE DEF R
<1>3. \E m \in S : \A k \in S : ~(<<k, m>> \in R)
  BY Zenon, <1>1, WFMin
<1>4. PICK m \in S : \A k \in S : ~(<<k, m>> \in R)
  BY <1>3
<1>5. \A k \in S : m <= k
  <2> TAKE k \in S
  <2>1. k \in Nat /\ m \in Nat
    OBVIOUS
  <2>2. ~(k < m)
    BY Zenon, <1>2, <1>4, <2>1
  <2> QED
    BY <2>1, <2>2
<1> QED
  BY <1>5

-----------------------------------------------------------------------------
(* A sweep.                                                                *)

\* The rows after a sweep.
LEMMA RowsFacts ==
    ASSUME NEW v \in Seq(Token), NEW base \in Nat, NEW ids \in Seq(Token)
    PROVE  /\ Rows(v, base, ids) \in Seq(Token)
           /\ Len(Rows(v, base, ids)) >= base + Len(ids)
           /\ Len(Rows(v, base, ids)) \in Nat
           /\ \A i \in 1..base : i <= Len(v) => Rows(v, base, ids)[i] = v[i]
           /\ \A i \in 1..Len(ids) : Rows(v, base, ids)[base + i] = ids[i]
<1> DEFINE ln == IF Len(v) > base + Len(ids) THEN Len(v) ELSE base + Len(ids)
           e(i) == IF i > base /\ i <= base + Len(ids) THEN ids[i - base]
                   ELSE IF i <= Len(v) THEN v[i] ELSE Garbage
           r == [i \in 1..ln |-> e(i)]
<1>1. Len(v) \in Nat /\ Len(ids) \in Nat
  BY LenProperties
<1>2. ln \in Nat /\ ln >= base + Len(ids) /\ ln >= base
  BY <1>1
<1> HIDE DEF ln
<1>3. \A i \in 1..ln : e(i) \in Token
  <2> TAKE i \in 1..ln
  <2>1. CASE i > base /\ i <= base + Len(ids)
    <3>1. i - base \in 1..Len(ids)
      BY <1>1, <1>2, <2>1
    <3> QED
      BY Zenon, <2>1, <3>1, ElementOfSeq
  <2>2. CASE ~(i > base /\ i <= base + Len(ids)) /\ i <= Len(v)
    <3>1. i \in 1..Len(v)
      BY <1>1, <1>2, <2>2
    <3> QED
      BY <2>2, <3>1, ElementOfSeq
  <2>3. CASE ~(i > base /\ i <= base + Len(ids)) /\ ~(i <= Len(v))
    BY <2>3 DEF Token
  <2> QED
    BY Zenon, <2>1, <2>2, <2>3
<1> HIDE DEF e
<1>4. r \in Seq(Token) /\ Len(r) = ln
  <2>1. r \in [1..ln -> Token]
    BY <1>3
  <2>2. r \in Seq(Token)
    BY <1>2, <2>1, SeqDef
  <2> QED
    BY <1>2, <2>2, LenProperties
<1>5. r = Rows(v, base, ids)
  BY DEF Rows, ln, e
<1>6. \A i \in 1..base : i <= Len(v) => r[i] = v[i]
  <2> TAKE i \in 1..base
  <2>1. i \in 1..ln /\ ~(i > base)
    BY <1>1, <1>2
  <2>2. r[i] = e(i)
    BY <2>1
  <2> QED
    BY <2>1, <2>2 DEF e
<1>7. \A i \in 1..Len(ids) : r[base + i] = ids[i]
  <2> TAKE i \in 1..Len(ids)
  <2>1. base + i \in 1..ln /\ base + i > base /\ base + i <= base + Len(ids) /\ (base + i) - base = i
    BY <1>1, <1>2
  <2>2. r[base + i] = e(base + i)
    BY <2>1
  <2> QED
    BY <2>1, <2>2 DEF e
<1> HIDE DEF r
<1> QED
  BY Zenon, <1>2, <1>4, <1>5, <1>6, <1>7

\* Where the rows held what the recurrent state held, they do in a sweep.
LEMMA SweepPrefix ==
    ASSUME NEW k \in Seq(Token), NEW v \in Seq(Token), NEW ids \in Seq(Token),
           Len(k) <= Len(v), SubSeq(v, 1, Len(k)) = k, NEW i \in 0..Len(ids)
    PROVE  SubSeq(Rows(v, Len(k), ids), 1, Len(k) + i) = k \o SubSeq(ids, 1, i)
<1> DEFINE r == Rows(v, Len(k), ids)
           p == SubSeq(ids, 1, i)
           a == SubSeq(r, 1, Len(k) + i)
<1>1. Len(k) \in Nat /\ Len(v) \in Nat /\ Len(ids) \in Nat /\ Len(k) \in 0..Len(v)
  BY LenProperties
<1>2. /\ r \in Seq(Token) /\ Len(r) >= Len(k) + Len(ids) /\ Len(r) \in Nat
      /\ \A j \in 1..Len(k) : j <= Len(v) => r[j] = v[j]
      /\ \A j \in 1..Len(ids) : r[Len(k) + j] = ids[j]
  BY <1>1, RowsFacts
<1>3. \A j \in 1..Len(k) : v[j] = k[j] /\ j <= Len(v)
  BY <1>1, PrefixFacts
<1> HIDE DEF r
<1>4. p \in Seq(Token) /\ Len(p) = i /\ \A j \in 1..i : p[j] = ids[j]
  BY PrefixFacts
<1>5. Len(k) + i \in 0..Len(r)
  BY <1>1, <1>2
<1>6. a \in Seq(Token) /\ Len(a) = Len(k) + i /\ \A j \in 1..(Len(k) + i) : a[j] = r[j]
  BY Zenon, <1>2, <1>5, PrefixFacts
<1> HIDE DEF a, p
<1>7. /\ k \o p \in Seq(Token) /\ Len(k \o p) = Len(k) + i
      /\ \A j \in 1..(Len(k) + i) : (k \o p)[j] = IF j <= Len(k) THEN k[j] ELSE p[j - Len(k)]
  BY Zenon, <1>4, ConcatProperties
<1>8. \A j \in 1..Len(a) : a[j] = (k \o p)[j]
  <2> TAKE j \in 1..Len(a)
  <2>1. j \in 1..(Len(k) + i)
    BY <1>6
  <2>2. CASE j <= Len(k)
    <3>1. j \in 1..Len(k)
      BY <1>1, <2>1, <2>2
    <3>2. r[j] = k[j]
      BY Zenon, <1>2, <1>3, <3>1
    <3> QED
      BY Zenon, <1>6, <1>7, <2>1, <2>2, <3>2
  <2>3. CASE ~(j <= Len(k))
    <3>1. j - Len(k) \in 1..i /\ j - Len(k) \in 1..Len(ids) /\ Len(k) + (j - Len(k)) = j
      BY <1>1, <2>1, <2>3
    <3>2. r[j] = ids[j - Len(k)]
      BY Zenon, <1>2, <3>1
    <3> QED
      BY Zenon, <1>4, <1>6, <1>7, <2>1, <2>3, <3>1, <3>2
  <2> QED
    BY Zenon, <2>2, <2>3
<1>9. a = k \o p
  BY Zenon, <1>6, <1>7, <1>8, SeqEqual
<1> QED
  BY Zenon, <1>9 DEF a, p, r

\* ... and after it.
LEMMA SweepExtends ==
    ASSUME NEW k \in Seq(Token), NEW v \in Seq(Token), NEW ids \in Seq(Token),
           Len(k) <= Len(v), SubSeq(v, 1, Len(k)) = k
    PROVE  /\ k \o ids \in Seq(Token) /\ Len(k \o ids) = Len(k) + Len(ids)
           /\ Rows(v, Len(k), ids) \in Seq(Token)
           /\ Len(k) + Len(ids) <= Len(Rows(v, Len(k), ids))
           /\ SubSeq(Rows(v, Len(k), ids), 1, Len(k) + Len(ids)) = k \o ids
           /\ Len(k) <= Len(Rows(v, Len(k), ids))
           /\ SubSeq(Rows(v, Len(k), ids), 1, Len(k)) = k
<1> DEFINE r == Rows(v, Len(k), ids)
<1>1. Len(k) \in Nat /\ Len(v) \in Nat /\ Len(ids) \in Nat /\ Len(k) \in 0..Len(v)
  BY LenProperties
<1>2. r \in Seq(Token) /\ Len(r) >= Len(k) + Len(ids) /\ Len(r) \in Nat
  BY Zenon, <1>1, RowsFacts
<1>3. k \o ids \in Seq(Token) /\ Len(k \o ids) = Len(k) + Len(ids)
  BY ConcatProperties
<1>4. SubSeq(r, 1, Len(k) + Len(ids)) = k \o SubSeq(ids, 1, Len(ids))
  <2>1. Len(ids) \in 0..Len(ids)
    BY <1>1
  <2> QED
    BY Zenon, <2>1, SweepPrefix
<1>5. SubSeq(ids, 1, Len(ids)) = ids
  BY SubSeqFull
<1>6. SubSeq(r, 1, Len(k) + 0) = k \o SubSeq(ids, 1, 0)
  <2>1. 0 \in 0..Len(ids)
    BY <1>1
  <2> QED
    BY Zenon, <2>1, SweepPrefix
<1> HIDE DEF r
<1>7. SubSeq(ids, 1, 0) = <<>>
  BY SubSeqEmpty
<1>8. SubSeq(r, 1, Len(k)) = k
  BY <1>1, <1>6, <1>7, ConcatEmptySeq
<1>9. Len(k) + Len(ids) <= Len(r) /\ Len(k) <= Len(r)
  BY <1>1, <1>2
<1> QED
  BY Zenon, <1>2, <1>3, <1>4, <1>5, <1>8, <1>9 DEF r

\* A history of tokens, as a history of what a sweep may leave.
LEMMA TokIsToken ==
    ASSUME NEW s \in Seq(Tok)
    PROVE  s \in Seq(Token)
<1>1. Tok \subseteq Token
  BY DEF Token
<1> QED
  BY <1>1, SeqMonotonic

\* What a sweep leaves behind is as long as what it took.
LEMMA AbsorbedFacts ==
    ASSUME NEW ids \in Seq(Token), NEW bad \in BOOLEAN
    PROVE  /\ Absorbed(ids, bad) \in Seq(Token) /\ Len(Absorbed(ids, bad)) = Len(ids)
           /\ ~bad => Absorbed(ids, bad) = ids
<1>1. CASE ~bad
  BY <1>1 DEF Absorbed
<1>2. CASE bad
  <2>1. Len(ids) \in Nat /\ DOMAIN ids = 1..Len(ids)
    BY LenProperties
  <2>2. Absorbed(ids, bad) = [i \in 1..Len(ids) |-> Garbage]
    BY <1>2, <2>1 DEF Absorbed
  <2>3. [i \in 1..Len(ids) |-> Garbage] \in [1..Len(ids) -> Token]
    BY DEF Token
  <2>4. Absorbed(ids, bad) \in Seq(Token)
    BY <2>1, <2>2, <2>3, SeqDef
  <2>5. Len([i \in 1..Len(ids) |-> Garbage]) = Len(ids)
    BY <2>1
  <2> QED
    BY Zenon, <1>2, <2>2, <2>4, <2>5
<1> QED
  BY <1>1, <1>2

\* An argmax is a token, or garbage.
LEMMA ArgType ==
    ASSUME GreedyIsToken, net \in Nets, NEW k \in Seq(Token), NEW v, NEW base,
           NEW ids \in Seq(Token), NEW i \in 0..Len(ids)
    PROVE  Arg(k, v, base, ids, i) \in Token
<1> DEFINE c == k \o SubSeq(ids, 1, i)
<1>1. c \in Seq(Token)
  BY Zenon, PrefixFacts, ConcatProperties
<1> HIDE DEF c
<1>2. ASSUME \A j \in DOMAIN c : c[j] \in Tok
      PROVE  Greedy(net, c) \in Tok
  <2>1. Len(c) \in Nat /\ DOMAIN c = 1..Len(c) /\ c \in [1..Len(c) -> Token]
    BY <1>1, LenProperties
  <2>2. c \in [1..Len(c) -> Tok]
    BY <1>2, <2>1
  <2>3. c \in Seq(Tok)
    BY Zenon, <2>1, <2>2, SeqDef
  <2> QED
    BY <2>3 DEF GreedyIsToken
<1>3. Arg(k, v, base, ids, i) \in {Greedy(net, c), Garbage}
      /\ (Arg(k, v, base, ids, i) # Garbage => \A j \in DOMAIN c : c[j] \in Tok)
  BY Zenon DEF Arg, c
<1> QED
  BY <1>2, <1>3 DEF Token

\* On state that holds one history the argmax is the network's.
LEMMA ArgExact ==
    ASSUME NEW k \in Seq(Tok), NEW v \in Seq(Token), NEW ids \in Seq(Tok),
           Len(k) <= Len(v), SubSeq(v, 1, Len(k)) = k, born = arch,
           NEW i \in 0..Len(ids)
    PROVE  Arg(k, v, Len(k), ids, i) = Greedy(net, k \o SubSeq(ids, 1, i))
<1> DEFINE c == k \o SubSeq(ids, 1, i)
<1>1. k \in Seq(Token) /\ ids \in Seq(Token)
  BY TokIsToken
<1>2. c \in Seq(Tok)
  BY PrefixFacts, ConcatProperties
<1>3. SubSeq(Rows(v, Len(k), ids), 1, Len(k) + i) = c
  BY Zenon, <1>1, SweepPrefix
<1> HIDE DEF c
<1>4. \A j \in DOMAIN c : c[j] \in Tok
  BY <1>2, LenProperties, ElementOfSeq
<1> QED
  BY Zenon, <1>3, <1>4 DEF Arg, c

\* The accepted drafts are a prefix the model agrees with.
LEMMA AcceptedFacts ==
    ASSUME NEW args, NEW d, Len(d) \in Nat
    PROVE  /\ AcceptedPrefix(args, d) \in 0..Len(d)
           /\ \A i \in 1..AcceptedPrefix(args, d) : args[i] = d[i]
<1> DEFINE S == {k \in 0..Len(d) : k = Len(d) \/ args[k + 1] # d[k + 1]}
           P(m) == /\ \A i \in 1..m : args[i] = d[i]
                   /\ m < Len(d) => args[m + 1] # d[m + 1]
<1>1. S \in SUBSET Nat /\ Len(d) \in S
  OBVIOUS
<1>2. PICK m \in S : \A k \in S : m <= k
  BY Zenon, <1>1, LeastNatural
<1>3. m \in 0..Len(d) /\ P(m)
  <2>1. m \in 0..Len(d) /\ (m < Len(d) => args[m + 1] # d[m + 1])
    BY <1>2
  <2>2. \A i \in 1..m : args[i] = d[i]
    <3> TAKE i \in 1..m
    <3>1. i - 1 \in 0..Len(d) /\ ~(m <= i - 1) /\ i - 1 # Len(d) /\ (i - 1) + 1 = i
      BY <2>1
    <3>2. i - 1 \notin S
      BY Zenon, <1>2, <3>1
    <3> QED
      BY <3>1, <3>2
  <2> QED
    BY Zenon, <2>1, <2>2
<1>4. AcceptedPrefix(args, d) = CHOOSE k \in 0..Len(d) : P(k)
  BY DEF AcceptedPrefix
<1> HIDE DEF P
<1>5. AcceptedPrefix(args, d) \in 0..Len(d) /\ P(AcceptedPrefix(args, d))
  BY Zenon, <1>3, <1>4
<1> QED
  BY Zenon, <1>5 DEF P

\* The n-gram search proposes ids of the text, no more than it may.
LEMMA SpecDraftFacts ==
    ASSUME NEW S, NEW s \in Seq(S), NEW cap \in Nat
    PROVE  SpecDraft(s, cap) \in Seq(S) /\ Len(SpecDraft(s, cap)) <= cap
<1> DEFINE len == Len(s)
           Matches(n) == {j \in 0..(len - n - 1) : \A i \in 1..n : s[j + i] = s[len - n + i]}
           Agreed(n, m1, i) ==
               LET older == Matches(n) \ {m1}
                   m2    == CHOOSE j \in older : \A k \in older : k <= j
               IN  older = {} \/ (m2 + n + i < m1 /\ s[m2 + n + i + 1] = s[m1 + n + i + 1])
           Last(n) == CHOOSE j \in Matches(n) : \A k \in Matches(n) : k <= j
           Long(n, m1) == CHOOSE k \in 0..cap :
                             /\ \A i \in 0..(k - 1) : m1 + n + i < len /\ Agreed(n, m1, i)
                             /\ k < cap => ~(m1 + n + k < len /\ Agreed(n, m1, k))
           Found(n) ==
               IF len < n + 1 \/ Matches(n) = {} THEN <<>>
               ELSE SubSeq(s, Last(n) + n + 1, Last(n) + n + Long(n, Last(n)))
<1>1. SpecDraft(s, cap) = IF Found(4) # <<>> THEN Found(4) ELSE Found(3)
  BY Zenon DEF SpecDraft
<1>2. len \in Nat
  BY LenProperties
<1>3. ASSUME NEW n \in {3, 4}
      PROVE  Found(n) \in Seq(S) /\ Len(Found(n)) <= cap
  <2>1. CASE len < n + 1 \/ Matches(n) = {}
    <3>1. Found(n) = <<>>
      BY Zenon, <2>1
    <3> HIDE DEF Found
    <3> QED
      BY <3>1, EmptySeq
  <2>2. CASE ~(len < n + 1 \/ Matches(n) = {})
    <3>1. Last(n) \in Matches(n)
      <4> DEFINE M == Matches(n)
                 Up == {j \in Nat : len - j \in M}
      <4>1. M # {} /\ M \subseteq 0..len
        BY SMTT(30), <1>2, <2>2
      <4> HIDE DEF M
      <4>2. Up \in SUBSET Nat /\ Up # {}
        <5>1. PICK j \in M : TRUE
          BY Zenon, <4>1
        <5>2. len - j \in Nat /\ len - (len - j) = j
          BY <1>2, <4>1, <5>1
        <5> QED
          BY <5>1, <5>2
      <4>3. PICK u \in Up : \A k \in Up : u <= k
        BY Zenon, <4>2, LeastNatural
      <4>4. len - u \in M /\ \A k \in M : k <= len - u
        <5>1. len - u \in M /\ u \in Nat
          BY <4>3
        <5>2. ASSUME NEW k \in M PROVE k <= len - u
          <6>1. k \in 0..len /\ len - k \in Nat /\ len - (len - k) = k
            BY <1>2, <4>1
          <6>2. u <= len - k
            BY Zenon, <4>3, <6>1
          <6> QED
            BY <1>2, <5>1, <6>1, <6>2
        <5> QED
          BY <5>1, <5>2
      <4>5. (CHOOSE j \in M : \A k \in M : k <= j) \in M
        BY Zenon, <4>4
      <4> QED
        BY Zenon, <4>5 DEF M
    <3> DEFINE m1 == Last(n)
               G(k) == m1 + n + k < len /\ Agreed(n, m1, k)
    <3>2. m1 \in 0..(len - n - 1) /\ Found(n) = SubSeq(s, m1 + n + 1, m1 + n + Long(n, m1))
      BY Zenon, <2>2, <3>1
    <3>3. Long(n, m1) = CHOOSE k \in 0..cap : (\A i \in 0..(k - 1) : G(i)) /\ (k < cap => ~G(k))
      BY Zenon
    <3>4. \A k : G(k) => m1 + n + k < len
      BY SMTT(30)
    <3> HIDE DEF m1, G, Last, Matches, Agreed
    <3>5. \E k \in 0..cap : (\A i \in 0..(k - 1) : G(i)) /\ (k < cap => ~G(k))
      <4> DEFINE U == {k \in 0..cap : k = cap \/ ~G(k)}
      <4>1. U \in SUBSET Nat /\ cap \in U
        OBVIOUS
      <4>2. PICK u \in U : \A k \in U : u <= k
        BY Zenon, <4>1, LeastNatural
      <4>3. u \in 0..cap /\ (u < cap => ~G(u))
        BY <4>2
      <4>4. \A i \in 0..(u - 1) : G(i)
        <5> TAKE i \in 0..(u - 1)
        <5>1. i \in 0..cap /\ i # cap /\ ~(u <= i)
          BY <4>3
        <5> QED
          BY <4>2, <5>1
      <4> QED
        BY <4>3, <4>4
    <3> DEFINE nd == Long(n, m1)
    <3>6. nd \in 0..cap /\ \A i \in 0..(nd - 1) : G(i)
      BY Zenon, <3>3, <3>5
    <3> HIDE DEF nd, Long
    <3>7. m1 + n + nd <= len
      <4>1. CASE nd = 0
        BY <1>2, <3>2, <4>1
      <4>2. CASE nd # 0
        <5>1. nd - 1 \in 0..(nd - 1)
          BY <3>6, <4>2
        <5>2. m1 + n + (nd - 1) < len
          BY Zenon, <3>4, <3>6, <5>1
        <5> QED
          BY <1>2, <3>2, <3>6, <5>2
      <4> QED
        BY <4>1, <4>2
    <3>8. m1 + n + 1 \in Int /\ m1 + n + nd \in Int
      BY <3>2, <3>6
    <3>9. \A i \in (m1 + n + 1)..(m1 + n + nd) : s[i] \in S
      <4> TAKE i \in (m1 + n + 1)..(m1 + n + nd)
      <4>1. i \in 1..Len(s)
        BY <1>2, <3>2, <3>6, <3>7
      <4> QED
        BY Zenon, <4>1, ElementOfSeq
    <3> DEFINE lo == m1 + n + 1
               hi == m1 + n + nd
    <3>10. Found(n) = SubSeq(s, lo, hi)
      BY Zenon, <3>2 DEF nd
    <3>11. (IF lo <= hi THEN hi - lo + 1 ELSE 0) <= cap
      BY <3>2, <3>6
    <3>12. lo \in Int /\ hi \in Int /\ \A i \in lo..hi : s[i] \in S
      BY Zenon, <3>8, <3>9
    <3> HIDE DEF lo, hi, Found
    <3>13. /\ SubSeq(s, lo, hi) \in Seq(S)
           /\ Len(SubSeq(s, lo, hi)) = IF lo <= hi THEN hi - lo + 1 ELSE 0
      BY <3>12, SubSeqProperties
    <3> QED
      BY Zenon, <3>10, <3>11, <3>13
  <2> QED
    BY Zenon, <2>1, <2>2
<1> HIDE DEF Found
<1> QED
  BY Zenon, <1>1, <1>3

-----------------------------------------------------------------------------
(* The inductive invariant.                                                *)

Types ==
    /\ net \in Nets
    /\ stage \in {"off", "run", "saving"}
    /\ seq \in Seq(Token) /\ nout \in Nat /\ gen \in Nat /\ nout <= gen
    /\ made \subseteq 1..T
    /\ cached \in Nat /\ cached <= T /\ cached <= Len(kv)
    /\ ks \in Seq(Token) /\ kv \in Seq(Token)
    /\ dcached \in Nat /\ dks \in Seq(Token) /\ dkv \in Seq(Token)
    /\ {drops, tainted, dfault, first, resumed} \subseteq BOOLEAN

\* In a run: before its first step it has something to feed, and the draft
\* model has seen nothing; after it exactly one token is pending.
Shape ==
    stage # "off" =>
        /\ opt \in Option
        /\ first => /\ cached < T /\ (~resumed => cached = 0)
                    /\ dcached = 0 /\ dks = <<>> /\ dkv = <<>>
        /\ Incremental /\ ~first => cached = T - 1

\* The text of a run is not empty.
Begun == stage # "off" => T >= 1

\* Without a drop: the text is tokens, and both kinds of state hold it up to
\* cached.
Holds ==
    (stage # "off" /\ ~tainted) =>
        /\ seq \in Seq(Tok) /\ born = arch
        /\ ks = SubSeq(seq, 1, cached) /\ SubSeq(kv, 1, cached) = ks

DraftHolds ==
    (Hybrid /\ stage # "off" /\ ~first /\ ~dfault) =>
        /\ dcached = cached /\ dks = SubSeq(seq, 1, cached)
        /\ dcached <= Len(dkv) /\ SubSeq(dkv, 1, dcached) = dks

\* The text is greedy unless an expert was dropped; in a fresh run drops tell,
\* and so does the exit code.
Honest ==
    /\ ~tainted => IsGreedy
    /\ ~resumed /\ tainted => drops
    /\ stage = "off" /\ exit = 0 => ~drops

\* A whole state file is an image of such a state.
FileHolds ==
    file.kind = "whole" =>
        /\ file.seq \in Seq(Token) /\ Len(file.seq) >= 1 /\ file.tainted \in BOOLEAN
        /\ file.made \subseteq 1..Len(file.seq)
        /\ file.cached \in Nat /\ file.cached <= Len(file.seq)
        /\ file.ks \in Seq(Token) /\ file.kv \in Seq(Token) /\ Len(file.kv) = file.cached
        /\ ~file.tainted =>
             /\ file.seq \in Seq(Tok)
             /\ file.ks = SubSeq(file.seq, 1, file.cached) /\ file.kv = file.ks
             /\ \A i \in file.made : file.seq[i] = Greedy(net, SubSeq(file.seq, 1, i - 1))

Inv == Types /\ Begun /\ Shape /\ Holds /\ DraftHolds /\ Honest /\ FileHolds

-----------------------------------------------------------------------------
(* What the steps of the loop have in common.                              *)

\* The tokens of e are the network's choices one after the other.
Continues(e) == \A i \in 1..Len(e) : e[i] = Greedy(net, seq \o SubSeq(e, 1, i - 1))

\* A step emits e, all of which gen allows, and leaves state of the longer text.
StepTo(e) ==
    /\ e \in Seq(Token) /\ Len(e) >= 1 /\ Len(e) <= gen - nout
    /\ Emit(e)
    /\ ks' \in Seq(Token) /\ kv' \in Seq(Token)
    /\ cached' \in Nat /\ cached' <= Len(kv')
    /\ IF Incremental THEN cached' = T + Len(e) - 1 ELSE cached' = cached
    /\ {drops', tainted'} \subseteq BOOLEAN
    /\ (tainted => tainted') /\ (drops => drops') /\ (tainted' => tainted \/ drops')
    /\ ~tainted' =>
         /\ e \in Seq(Tok) /\ Continues(e)
         /\ ks' = SubSeq(seq \o e, 1, cached') /\ SubSeq(kv', 1, cached') = ks'
    /\ dcached' \in Nat /\ dks' \in Seq(Token) /\ dkv' \in Seq(Token) /\ dfault' \in BOOLEAN
    /\ Hybrid /\ ~dfault' =>
         /\ dcached' = cached' /\ dks' = SubSeq(seq \o e, 1, cached')
         /\ dcached' <= Len(dkv') /\ SubSeq(dkv', 1, dcached') = dks'

\* A conversation goes on: the abstract Say, of the engine's variables.
Says ==
    /\ Len(seq') > T /\ SubSeq(seq', 1, T) = seq
    /\ ~tainted' => /\ ~tainted
                    /\ \A i \in (T + 1)..Len(seq') :
                           seq'[i] = Greedy(net, SubSeq(seq', 1, i - 1))

\* The text after a step.
LEMMA EmitText ==
    ASSUME Types, NEW e \in Seq(Token), Len(e) <= gen - nout, Emit(e)
    PROVE  /\ seq' = seq \o e /\ nout' = nout + Len(e) /\ first' = FALSE
           /\ made' = made \union ((T + 1)..(T + Len(e)))
           /\ UNCHANGED <<net, stage, exit, runs, arch, gen, opt, born, resumed, file>>
<1>1. Len(e) \in Nat /\ gen \in Nat /\ nout \in Nat /\ SubSeq(e, 1, Len(e)) = e
  BY Zenon, LenProperties, SubSeqFull DEF Types
<1>2. (IF Len(e) > gen - nout THEN gen - nout ELSE Len(e)) = Len(e)
  BY <1>1
<1> QED
  BY Zenon, <1>1, <1>2 DEF Emit

\* A token more is one text.
LEMMA SingleToken ==
    ASSUME NEW S, NEW s \in Seq(S), NEW t \in S
    PROVE  /\ <<t>> \in Seq(S) /\ Len(<<t>>) = 1 /\ <<t>>[1] = t
           /\ s \o SubSeq(<<t>>, 1, 0) = s
           /\ SubSeq(s \o <<t>>, 1, Len(s)) = s
<1>1. <<t>> \in Seq(S) /\ Len(<<t>>) = 1 /\ <<t>>[1] = t
  OBVIOUS
<1>2. SubSeq(<<t>>, 1, 0) = <<>>
  BY SubSeqEmpty
<1>3. s \o SubSeq(<<t>>, 1, 0) = s
  BY <1>2, ConcatEmptySeq
<1>4. Len(s) \in 0..Len(s) /\ SubSeq(s, 1, Len(s)) = s
  BY LenProperties, SubSeqFull
<1>5. SubSeq(s \o <<t>>, 1, Len(s)) = SubSeq(s, 1, Len(s))
  BY <1>1, <1>4, PrefixInConcat
<1> QED
  BY <1>1, <1>3, <1>4, <1>5

\* A step keeps the invariant, and is a step of the conversation.
LEMMA StepToKeeps ==
    ASSUME Inv, Stepping, NEW e, StepTo(e)
    PROVE  Inv' /\ Says
<1>1. e \in Seq(Token) /\ Len(e) >= 1 /\ Len(e) <= gen - nout /\ Emit(e) /\ Len(e) \in Nat
  BY Zenon, LenProperties DEF StepTo
<1>2. Types /\ Shape /\ Holds /\ FileHolds
  BY DEF Inv
<1>3. /\ seq' = seq \o e /\ nout' = nout + Len(e) /\ first' = FALSE
      /\ made' = made \union ((T + 1)..(T + Len(e)))
      /\ UNCHANGED <<net, stage, exit, runs, arch, gen, opt, born, resumed, file>>
  BY Zenon, <1>1, <1>2, EmitText
<1>4. seq \in Seq(Token) /\ T \in Nat
  BY <1>2, LenProperties DEF Types, T
<1>5. /\ seq' \in Seq(Token) /\ T' = T + Len(e)
      /\ \A i \in 1..T : seq'[i] = seq[i]
      /\ \A i \in (T + 1)..(T + Len(e)) : seq'[i] = e[i - T]
  <2>1. /\ seq \o e \in Seq(Token) /\ Len(seq \o e) = T + Len(e)
        /\ \A i \in 1..(T + Len(e)) : (seq \o e)[i] = IF i <= T THEN seq[i] ELSE e[i - T]
    BY <1>1, <1>4, ConcatProperties DEF T
  <2> QED
    BY <1>1, <1>3, <1>4, <2>1 DEF T
<1>6. \A k \in 0..T : SubSeq(seq', 1, k) = SubSeq(seq, 1, k)
  BY Zenon, <1>1, <1>3, <1>4, PrefixInConcat DEF T
<1>7. \A k \in 0..Len(e) : SubSeq(seq', 1, T + k) = seq \o SubSeq(e, 1, k)
  BY Zenon, <1>1, <1>3, <1>4, PrefixOfConcat DEF T
<1>8. stage = "run" /\ stage' = "run"
  BY <1>3 DEF Stepping
<1>9. cached' \in Nat /\ cached' <= T'
  <2>1. /\ cached' \in Nat /\ cached \in Nat /\ cached <= T
        /\ cached' = T + Len(e) - 1 \/ cached' = cached
    BY Zenon, <1>2 DEF StepTo, Types
  <2> QED
    BY <1>1, <1>4, <1>5, <2>1
<1>10. made' \subseteq 1..T'
  <2> SUFFICES ASSUME NEW i \in made' PROVE i \in 1..T'
    OBVIOUS
  <2>1. i \in made => i \in 1..T
    BY Zenon, <1>2 DEF Types
  <2>2. i \in 1..T \/ i \in (T + 1)..(T + Len(e))
    BY Zenon, <1>3, <2>1
  <2> QED
    BY <1>1, <1>4, <1>5, <2>2
<1>11. nout' \in Nat /\ nout' <= gen' /\ gen' \in Nat
  BY <1>1, <1>2, <1>3 DEF Types
<1>12. Types'
  <2>1. {drops', tainted', dfault', first', resumed'} \subseteq BOOLEAN
    BY Zenon, <1>2, <1>3 DEF StepTo, Types
  <2> QED
    BY Zenon, <1>2, <1>3, <1>5, <1>8, <1>9, <1>10, <1>11, <2>1 DEF StepTo, Types
<1>13. Shape'
  <2>1. opt' \in Option /\ Incremental' = Incremental
    BY Zenon, <1>2, <1>3, <1>8 DEF Shape, Incremental
  <2>2. Incremental => cached' = T' - 1
    BY <1>1, <1>4, <1>5 DEF StepTo
  <2> QED
    BY Zenon, <1>3, <2>1, <2>2 DEF Shape
<1>14. ~tainted' => ~tainted /\ seq \in Seq(Tok) /\ e \in Seq(Tok) /\ Continues(e) /\ born = arch
  BY Zenon, <1>2, <1>8 DEF StepTo, Holds
<1>15. Holds'
  <2> SUFFICES ASSUME ~tainted'
               PROVE  /\ seq' \in Seq(Tok) /\ born' = arch'
                      /\ ks' = SubSeq(seq', 1, cached') /\ SubSeq(kv', 1, cached') = ks'
    BY DEF Holds
  <2>1. seq' \in Seq(Tok)
    BY Zenon, <1>3, <1>14, ConcatProperties
  <2> QED
    BY Zenon, <1>3, <1>14, <2>1 DEF StepTo
<1>16. DraftHolds'
  BY Zenon, <1>3 DEF DraftHolds, Hybrid, StepTo
<1>17. ASSUME ~tainted', NEW i \in (T + 1)..T'
       PROVE  seq'[i] = Greedy(net, SubSeq(seq', 1, i - 1))
  <2>1. i - T \in 1..Len(e) /\ (i - T) - 1 \in 0..Len(e) /\ T + ((i - T) - 1) = i - 1
        /\ i \in (T + 1)..(T + Len(e))
    BY <1>1, <1>4, <1>5
  <2>2. e[i - T] = Greedy(net, seq \o SubSeq(e, 1, (i - T) - 1))
    BY Zenon, <1>14, <1>17, <2>1 DEF Continues
  <2>3. SubSeq(seq', 1, i - 1) = seq \o SubSeq(e, 1, (i - T) - 1)
    BY Zenon, <1>7, <2>1
  <2> QED
    BY Zenon, <1>5, <2>1, <2>2, <2>3
<1>18. Honest'
  <2>1. ~tainted' => IsGreedy'
    <3> SUFFICES ASSUME ~tainted', NEW i \in made'
                 PROVE  seq'[i] = Greedy(net, SubSeq(seq', 1, i - 1))
      BY Zenon, <1>3 DEF IsGreedy
    <3>1. CASE i \in made
      <4>1. i \in 1..T /\ i - 1 \in 0..T
        BY <1>2, <1>4, <3>1 DEF Types
      <4>2. seq[i] = Greedy(net, SubSeq(seq, 1, i - 1))
        BY <1>14, <3>1 DEF Inv, Honest, IsGreedy
      <4> QED
        BY Zenon, <1>5, <1>6, <4>1, <4>2
    <3>2. CASE i \in (T + 1)..(T + Len(e))
      BY Zenon, <1>5, <1>17, <3>2
    <3> QED
      BY Zenon, <1>3, <3>1, <3>2
  <2>2. ~resumed' /\ tainted' => drops'
    BY Zenon, <1>3 DEF Inv, Honest, StepTo
  <2> QED
    BY Zenon, <1>8, <2>1, <2>2 DEF Honest
<1>19. FileHolds'
  BY Zenon, <1>2, <1>3 DEF FileHolds
<1>20. Says
  <2>1. Len(seq') > T
    BY <1>1, <1>4, <1>5 DEF T
  <2>2. SubSeq(seq', 1, T) = seq
    <3>1. SubSeq(seq, 1, T) = seq /\ T \in 0..T
      BY <1>4, SubSeqFull DEF T
    <3> QED
      BY <1>6, <3>1
  <2>3. Len(seq') = T'
    BY DEF T
  <2> QED
    BY <1>14, <1>17, <2>1, <2>2, <2>3 DEF Says
<1>21. Begun'
  BY <1>1, <1>4, <1>5 DEF Begun
<1> QED
  BY Zenon, <1>12, <1>13, <1>15, <1>16, <1>18, <1>19, <1>20, <1>21 DEF Inv

-----------------------------------------------------------------------------
(* One token at a time.                                                    *)

\* The rest of the text is fed, or what a bad sweep makes of it: one token
\* comes out.
LEMMA FeedsRest ==
    ASSUME GreedyIsToken, Types, cached < T, NEW fed \in Seq(Token), Len(fed) = T - cached
    PROVE  /\ Arg(ks, kv, cached, fed, Len(fed)) \in Token
           /\ ks \o fed \in Seq(Token)
           /\ Rows(kv, cached, fed) \in Seq(Token) /\ T <= Len(Rows(kv, cached, fed))
<1>1. /\ net \in Nets /\ seq \in Seq(Token) /\ cached \in Nat /\ ks \in Seq(Token)
      /\ kv \in Seq(Token) /\ cached <= Len(kv)
  BY DEF Types
<1>2. T \in Nat /\ Len(fed) \in 0..Len(fed)
  BY <1>1, LenProperties DEF T
<1>3. Arg(ks, kv, cached, fed, Len(fed)) \in Token
  BY Zenon, <1>1, <1>2, ArgType
<1>4. ks \o fed \in Seq(Token)
  BY Zenon, <1>1, ConcatProperties
<1>5. Rows(kv, cached, fed) \in Seq(Token) /\ Len(Rows(kv, cached, fed)) >= cached + Len(fed)
      /\ Len(Rows(kv, cached, fed)) \in Nat
  BY Zenon, <1>1, RowsFacts
<1>6. T <= Len(Rows(kv, cached, fed))
  BY <1>1, <1>2, <1>5
<1> QED
  BY Zenon, <1>3, <1>4, <1>5, <1>6

\* A sweep that takes all its tokens.
LEMMA SweepWhole ==
    ASSUME NEW k \in Seq(Tok), NEW v \in Seq(Token), NEW j \in Seq(Tok),
           Len(k) <= Len(v), SubSeq(v, 1, Len(k)) = k, born = arch
    PROVE  /\ Arg(k, v, Len(k), j, Len(j)) = Greedy(net, k \o j)
           /\ SubSeq(Rows(v, Len(k), j), 1, Len(k) + Len(j)) = k \o j
<1>1. Len(j) \in 0..Len(j) /\ SubSeq(j, 1, Len(j)) = j
  BY LenProperties, SubSeqFull
<1>2. Arg(k, v, Len(k), j, Len(j)) = Greedy(net, k \o SubSeq(j, 1, Len(j)))
  BY SMTT(30), <1>1, ArgExact
<1>3. k \in Seq(Token) /\ j \in Seq(Token)
  BY Zenon, TokIsToken
<1>4. SubSeq(Rows(v, Len(k), j), 1, Len(k) + Len(j)) = k \o j
  BY SMTT(30), <1>3, SweepExtends
<1> QED
  BY Zenon, <1>1, <1>2, <1>4

\* On state of the text the token is the network's next.
LEMMA FeedsExactly ==
    ASSUME GreedyIsToken, Types, cached < T,
           seq \in Seq(Tok), born = arch, ks = SubSeq(seq, 1, cached), SubSeq(kv, 1, cached) = ks,
           NEW ids, ids = SubSeq(seq, cached + 1, T), NEW t, t = Arg(ks, kv, cached, ids, Len(ids))
    PROVE  /\ <<t>> \in Seq(Tok) /\ Continues(<<t>>)
           /\ ks \o ids = SubSeq(seq \o <<t>>, 1, T)
           /\ SubSeq(Rows(kv, cached, ids), 1, T) = ks \o ids
<1>1. /\ net \in Nets /\ cached \in Nat /\ kv \in Seq(Token) /\ cached <= Len(kv)
  BY Zenon DEF Types
<1>2. T \in Nat /\ T = Len(seq) /\ cached \in 0..Len(seq)
  BY <1>1, LenProperties DEF T
<1>3. /\ ks \in Seq(Tok) /\ Len(ks) = cached
      /\ ids \in Seq(Tok) /\ Len(ids) = T - cached /\ ks \o ids = seq
  <2>1. SubSeq(seq, 1, cached) \in Seq(Tok) /\ Len(SubSeq(seq, 1, cached)) = cached
    BY Zenon, <1>2, PrefixFacts
  <2>2. /\ SubSeq(seq, cached + 1, Len(seq)) \in Seq(Tok)
        /\ Len(SubSeq(seq, cached + 1, Len(seq))) = Len(seq) - cached
        /\ SubSeq(seq, 1, cached) \o SubSeq(seq, cached + 1, Len(seq)) = seq
    BY Zenon, <1>2, Split
  <2> QED
    BY Zenon, <1>2, <2>1, <2>2
<1>4. Len(ks) <= Len(kv) /\ SubSeq(kv, 1, Len(ks)) = ks
  BY Zenon, <1>1, <1>3
<1>5. t = Greedy(net, seq) /\ SubSeq(Rows(kv, cached, ids), 1, T) = ks \o ids
  <2>1. cached + Len(ids) = T
    BY <1>1, <1>2, <1>3
  <2>2. /\ Arg(ks, kv, Len(ks), ids, Len(ids)) = Greedy(net, ks \o ids)
        /\ SubSeq(Rows(kv, Len(ks), ids), 1, Len(ks) + Len(ids)) = ks \o ids
    BY Zenon, <1>1, <1>3, <1>4, SweepWhole
  <2> QED
    BY Zenon, <1>3, <2>1, <2>2
<1>6. t \in Tok
  BY Zenon, <1>1, <1>5 DEF GreedyIsToken
<1>7. /\ <<t>> \in Seq(Tok) /\ <<t>>[1] = t /\ seq \o SubSeq(<<t>>, 1, 0) = seq
      /\ SubSeq(seq \o <<t>>, 1, T) = seq /\ Len(<<t>>) = 1
  BY <1>2, <1>6, SingleToken
<1>8. Continues(<<t>>)
  <2> SUFFICES ASSUME NEW i \in 1..Len(<<t>>)
               PROVE  <<t>>[i] = Greedy(net, seq \o SubSeq(<<t>>, 1, i - 1))
    BY Zenon DEF Continues
  <2>1. i = 1 /\ i - 1 = 0
    BY <1>7
  <2> QED
    BY Zenon, <1>5, <1>7, <2>1
<1> QED
  BY Zenon, <1>3, <1>5, <1>7, <1>8

\* A single sweep over the rest of the text, whole or bad.
LEMMA SingleSweep ==
    ASSUME GreedyIsToken, Types, Holds, stage # "off", cached < T, NEW bad \in BOOLEAN
    PROVE  LET ids == SubSeq(seq, cached + 1, T)
               fed == Absorbed(ids, bad)
               t   == Arg(ks, kv, cached, fed, Len(ids))
           IN  /\ <<t>> \in Seq(Token) /\ Len(<<t>>) = 1
               /\ ks \o fed \in Seq(Token)
               /\ Rows(kv, cached, fed) \in Seq(Token) /\ T <= Len(Rows(kv, cached, fed))
               /\ ~tainted /\ ~bad =>
                    /\ <<t>> \in Seq(Tok) /\ Continues(<<t>>)
                    /\ ks \o fed = SubSeq(seq \o <<t>>, 1, T)
                    /\ SubSeq(Rows(kv, cached, fed), 1, T) = ks \o fed
<1> DEFINE ids == SubSeq(seq, cached + 1, T)
           fed == Absorbed(ids, bad)
           t   == Arg(ks, kv, cached, fed, Len(ids))
<1>1. ids \in Seq(Token) /\ Len(ids) = T - cached
  <2>1. seq \in Seq(Token) /\ cached \in 0..Len(seq) /\ T = Len(seq)
    BY LenProperties DEF Types, T
  <2> QED
    BY Zenon, <2>1, Split
<1> HIDE DEF ids
<1>2. fed \in Seq(Token) /\ Len(fed) = Len(ids) /\ (~bad => fed = ids)
  BY Zenon, <1>1, AbsorbedFacts
<1> HIDE DEF fed
<1>3. Len(fed) = T - cached
  BY <1>1, <1>2
<1>4. /\ Arg(ks, kv, cached, fed, Len(fed)) \in Token
      /\ ks \o fed \in Seq(Token)
      /\ Rows(kv, cached, fed) \in Seq(Token) /\ T <= Len(Rows(kv, cached, fed))
  BY Zenon, <1>2, <1>3, FeedsRest
<1>5. t \in Token
  BY Zenon, <1>2, <1>4
<1>6. <<t>> \in Seq(Token) /\ Len(<<t>>) = 1
  BY Zenon, <1>1, <1>5, SingleToken
<1>7. ASSUME ~tainted, ~bad
      PROVE  /\ <<t>> \in Seq(Tok) /\ Continues(<<t>>)
             /\ ks \o fed = SubSeq(seq \o <<t>>, 1, T)
             /\ SubSeq(Rows(kv, cached, fed), 1, T) = ks \o fed
  <2>1. /\ seq \in Seq(Tok) /\ born = arch /\ ks = SubSeq(seq, 1, cached)
        /\ SubSeq(kv, 1, cached) = ks
    BY Zenon, <1>7 DEF Holds
  <2>2. fed = ids
    BY <1>2, <1>7
  <2>3. ids = SubSeq(seq, cached + 1, T) /\ t = Arg(ks, kv, cached, ids, Len(ids))
    BY Zenon, <2>2 DEF ids
  <2> HIDE DEF t
  <2>4. /\ <<t>> \in Seq(Tok) /\ Continues(<<t>>)
        /\ ks \o ids = SubSeq(seq \o <<t>>, 1, T)
        /\ SubSeq(Rows(kv, cached, ids), 1, T) = ks \o ids
    BY Zenon, <2>1, <2>3, FeedsExactly
  <2> QED
    BY Zenon, <2>2, <2>4
<1> HIDE DEF t
<1>8. /\ <<t>> \in Seq(Token) /\ Len(<<t>>) = 1
      /\ ks \o fed \in Seq(Token)
      /\ Rows(kv, cached, fed) \in Seq(Token) /\ T <= Len(Rows(kv, cached, fed))
      /\ ~tainted /\ ~bad =>
           /\ <<t>> \in Seq(Tok) /\ Continues(<<t>>)
           /\ ks \o fed = SubSeq(seq \o <<t>>, 1, T)
           /\ SubSeq(Rows(kv, cached, fed), 1, T) = ks \o fed
  BY Zenon, <1>4, <1>6, <1>7
<1> QED
  BY Zenon, <1>8 DEF ids, fed, t

\* Whether an expert is dropped.
LEMMA DropFacts ==
    ASSUME Types, NEW bad \in BOOLEAN, Drop(bad)
    PROVE  /\ {drops', tainted'} \subseteq BOOLEAN
           /\ (tainted => tainted') /\ (drops => drops') /\ (tainted' => tainted \/ drops')
           /\ ~tainted' => ~tainted /\ ~bad
<1>1. drops \in BOOLEAN /\ tainted \in BOOLEAN
  BY Zenon DEF Types
<1>2. drops' = (drops \/ bad) /\ tainted' = (tainted \/ bad)
  BY DEF Drop
<1> QED
  BY Zenon, <1>1, <1>2

\* What the draft model must hold after a step that emits e.
DraftTo(e) ==
    /\ dcached' \in Nat /\ dks' \in Seq(Token) /\ dkv' \in Seq(Token) /\ dfault' \in BOOLEAN
    /\ Hybrid /\ ~dfault' =>
         /\ dcached' = cached' /\ dks' = SubSeq(seq \o e, 1, cached')
         /\ dcached' <= Len(dkv') /\ SubSeq(dkv', 1, dcached') = dks'

\* Without a draft model nothing is asked of it.
LEMMA NoDraft ==
    ASSUME Types, ~Hybrid, UNCHANGED draft, NEW e
    PROVE  DraftTo(e)
  BY Zenon DEF Types, DraftTo, draft

LEMMA FirstTo ==
    ASSUME GreedyIsToken, Inv, FirstStep
    PROVE  \E e : StepTo(e)
<1>1. Stepping /\ Incremental /\ first /\ Types
  BY Zenon DEF FirstStep, Inv
<1>2. /\ stage # "off" /\ cached < T /\ (~resumed => cached = 0)
      /\ dcached = 0 /\ dks = <<>> /\ dkv = <<>> /\ nout < gen
  BY Zenon, <1>1 DEF Inv, Shape, Stepping
<1>3. seq \in Seq(Token) /\ T \in Nat /\ T = Len(seq) /\ nout \in Nat /\ gen \in Nat
  BY Zenon, <1>1, LenProperties DEF Types, T
<1> DEFINE ids == SubSeq(seq, cached + 1, T)
<1>4. PICK bad \in BOOLEAN :
         /\ Drop(bad)
         /\ ks' = ks \o Absorbed(ids, bad)
         /\ kv' = Rows(kv, cached, Absorbed(ids, bad)) /\ cached' = T
         /\ Emit(<<Arg(ks, kv, cached, Absorbed(ids, bad), Len(ids))>>)
  BY Zenon DEF FirstStep
<1> DEFINE fed == Absorbed(ids, bad)
           t == Arg(ks, kv, cached, fed, Len(ids))
<1>5. /\ <<t>> \in Seq(Token) /\ Len(<<t>>) = 1
      /\ ks' \in Seq(Token) /\ kv' \in Seq(Token) /\ cached' <= Len(kv') /\ cached' = T
      /\ Emit(<<t>>)
      /\ ~tainted /\ ~bad =>
           /\ <<t>> \in Seq(Tok) /\ Continues(<<t>>)
           /\ ks' = SubSeq(seq \o <<t>>, 1, cached') /\ SubSeq(kv', 1, cached') = ks'
  BY Zenon, <1>1, <1>2, <1>4, SingleSweep DEF Inv
<1> HIDE DEF t, fed, ids
<1>6. /\ {drops', tainted'} \subseteq BOOLEAN
      /\ (tainted => tainted') /\ (drops => drops') /\ (tainted' => tainted \/ drops')
      /\ ~tainted' => ~tainted /\ ~bad
  BY Zenon, <1>1, <1>4, DropFacts
<1>7. DraftTo(<<t>>)
  <2>1. CASE ~Hybrid
    <3>1. UNCHANGED draft
      BY Zenon, <2>1 DEF FirstStep
    <3> QED
      BY <1>1, <2>1, <3>1, NoDraft
  <2>2. CASE Hybrid
    <3>1. /\ dks' = <<>> \o SubSeq(seq, 1, T) /\ dkv' = Rows(<<>>, 0, SubSeq(seq, 1, T))
          /\ dcached' = T /\ dfault' = dfault
      <4>1. (IF resumed THEN 0 ELSE cached) = 0 /\ 0 + 1 = 1
        BY <1>2
      <4> QED
        BY Zenon, <1>2, <2>2, <4>1 DEF FirstStep
    <3>2. SubSeq(seq, 1, T) = seq /\ <<>> \o seq = seq /\ <<>> \in Seq(Token) /\ Len(<<>>) = 0
      BY Zenon, <1>3, SubSeqFull, ConcatEmptySeq, EmptySeq
    <3>3. SubSeq(<<>>, 1, 0) = <<>>
      BY SubSeqEmpty
    <3>4. /\ Rows(<<>>, 0, seq) \in Seq(Token) /\ Len(seq) <= Len(Rows(<<>>, 0, seq))
          /\ SubSeq(Rows(<<>>, 0, seq), 1, Len(seq)) = seq
      <4> DEFINE nil == <<>>
      <4>1. nil \in Seq(Token) /\ Len(nil) = 0 /\ SubSeq(nil, 1, Len(nil)) = nil /\ nil \o seq = seq
        BY Zenon, <3>2, <3>3
      <4>2. nil \in Seq(Token) /\ Len(nil) <= Len(nil) /\ SubSeq(nil, 1, Len(nil)) = nil
        BY <4>1
      <4> HIDE DEF nil
      <4>3. /\ Rows(nil, Len(nil), seq) \in Seq(Token)
            /\ Len(nil) + Len(seq) <= Len(Rows(nil, Len(nil), seq))
            /\ SubSeq(Rows(nil, Len(nil), seq), 1, Len(nil) + Len(seq)) = nil \o seq
        BY Zenon, <1>3, <4>2, SweepExtends
      <4>4. Len(nil) + Len(seq) = Len(seq)
        BY <1>3, <4>1
      <4> QED
        BY Zenon, <4>1, <4>3, <4>4 DEF nil
    <3>5. SubSeq(seq \o <<t>>, 1, T) = seq
      <4>1. T \in 0..Len(seq)
        BY <1>3
      <4> QED
        BY <1>3, <1>5, <3>2, <4>1, PrefixInConcat
    <3>6. dfault' \in BOOLEAN
      BY Zenon, <1>1, <3>1 DEF Types
    <3> QED
      BY Zenon, <1>3, <1>5, <3>1, <3>2, <3>4, <3>5, <3>6 DEF DraftTo
  <2> QED
    BY <2>1, <2>2
<1>8. /\ Len(<<t>>) >= 1 /\ Len(<<t>>) <= gen - nout
      /\ cached' \in Nat /\ cached' = T + Len(<<t>>) - 1
  BY <1>2, <1>3, <1>5
<1>9. StepTo(<<t>>)
  BY Zenon, <1>1, <1>5, <1>6, <1>7, <1>8 DEF StepTo, DraftTo
<1> QED
  BY <1>9

\* After the first step one token of the text is pending.
LEMMA PendingFacts ==
    ASSUME Types, Shape, stage # "off", Incremental, ~first
    PROVE  /\ T \in Nat /\ T = Len(seq) /\ cached \in 0..Len(seq) /\ cached < T /\ cached + 1 = T
           /\ Pending = SubSeq(seq, cached + 1, T) /\ Len(Pending) = 1
           /\ Pending \in Seq(Token) /\ (seq \in Seq(Tok) => Pending \in Seq(Tok))
           /\ SubSeq(seq, 1, cached) \in Seq(Token) /\ Len(SubSeq(seq, 1, cached)) = cached
           /\ SubSeq(seq, 1, cached) \o Pending = seq
<1>1. seq \in Seq(Token) /\ cached \in Nat /\ cached = T - 1
  BY Zenon DEF Types, Shape
<1>2. T \in Nat /\ T = Len(seq)
  BY <1>1, LenProperties DEF T
<1>3. cached < T /\ cached + 1 = T /\ cached \in 0..Len(seq)
  BY <1>1, <1>2
<1>4. Pending = SubSeq(seq, cached + 1, Len(seq)) /\ Pending = SubSeq(seq, cached + 1, T)
  BY Zenon, <1>2, <1>3 DEF Pending
<1>5. /\ SubSeq(seq, cached + 1, Len(seq)) \in Seq(Token)
      /\ Len(SubSeq(seq, cached + 1, Len(seq))) = Len(seq) - cached
      /\ SubSeq(seq, 1, cached) \o SubSeq(seq, cached + 1, Len(seq)) = seq
  BY Zenon, <1>1, <1>3, Split
<1>6. seq \in Seq(Tok) => SubSeq(seq, cached + 1, Len(seq)) \in Seq(Tok)
  BY Zenon, <1>3, Split
<1>7. Len(seq) - cached = 1
  BY <1>1, <1>2
<1>8. SubSeq(seq, 1, cached) \in Seq(Token) /\ Len(SubSeq(seq, 1, cached)) = cached
  BY Zenon, <1>1, <1>3, PrefixFacts
<1> QED
  BY Zenon, <1>2, <1>3, <1>4, <1>5, <1>6, <1>7, <1>8

\* The draft model's state while it drafts.
LEMMA DraftRanTypes ==
    ASSUME Types, Pending \in Seq(Token), Len(Pending) = 1, NEW d \in Seq(Token)
    PROVE  /\ DraftRan(d).ks \in Seq(Token) /\ DraftRan(d).kv \in Seq(Token)
           /\ DraftRan(d).cached \in Nat
<1> DEFINE w == Pending \o d
           fed == SubSeq(w, 1, Len(d))
           half == IF Len(d) < SpecN THEN <<Garbage>> ELSE <<>>
<1>1. dks \in Seq(Token) /\ dkv \in Seq(Token) /\ dcached \in Nat /\ Len(d) \in Nat
  BY Zenon, LenProperties DEF Types
<1>2. w \in Seq(Token) /\ Len(w) = 1 + Len(d)
  BY SMTT(30), ConcatProperties
<1> HIDE DEF w
<1>3. Len(d) \in 0..Len(w)
  BY <1>1, <1>2
<1>4. fed \in Seq(Token)
  BY <1>2, <1>3, PrefixFacts
<1>5. half \in Seq(Token)
  <2>1. <<Garbage>> \in Seq(Token)
    BY DEF Token
  <2> QED
    BY <2>1, EmptySeq
<1> HIDE DEF fed, half
<1>6. fed \o half \in Seq(Token) /\ dks \o fed \in Seq(Token)
  BY <1>1, <1>4, <1>5, ConcatProperties
<1>7. (dks \o fed) \o half \in Seq(Token)
  BY <1>5, <1>6, ConcatProperties
<1>8. Rows(dkv, dcached, fed \o half) \in Seq(Token)
  BY Zenon, <1>1, <1>6, RowsFacts
<1>9. DraftRan(d) = [ks |-> (dks \o fed) \o half, kv |-> Rows(dkv, dcached, fed \o half),
                     cached |-> dcached + Len(d)]
  BY Zenon DEF DraftRan, fed, half, w
<1>10. dcached + Len(d) \in Nat
  BY <1>1
<1> QED
  BY <1>7, <1>8, <1>9, <1>10

LEMMA PlainTo ==
    ASSUME GreedyIsToken, Inv, PlainStep
    PROVE  \E e : StepTo(e)
<1>1. Stepping /\ Incremental /\ ~first /\ Types /\ Shape /\ Holds /\ stage # "off"
  BY Zenon DEF PlainStep, Inv, Stepping
<1>2. /\ T \in Nat /\ T = Len(seq) /\ cached \in 0..Len(seq) /\ cached < T /\ cached + 1 = T
      /\ Pending = SubSeq(seq, cached + 1, T) /\ Len(Pending) = 1 /\ Pending \in Seq(Token)
      /\ SubSeq(seq, 1, cached) \in Seq(Token) /\ Len(SubSeq(seq, 1, cached)) = cached
      /\ SubSeq(seq, 1, cached) \o Pending = seq
  BY Zenon, <1>1, PendingFacts
<1>3. nout \in Nat /\ gen \in Nat /\ nout < gen /\ seq \in Seq(Token)
  BY Zenon, <1>1 DEF Types, Stepping
<1>4. PICK bad \in BOOLEAN :
         /\ Drop(bad)
         /\ ks' = ks \o Absorbed(Pending, bad)
         /\ kv' = Rows(kv, cached, Absorbed(Pending, bad)) /\ cached' = cached + 1
         /\ Emit(<<Arg(ks, kv, cached, Absorbed(Pending, bad), 1)>>)
         /\ IF ~Hybrid THEN UNCHANGED draft
            ELSE LET k == IF CanDraft THEN DraftRan(<<>>).ks ELSE dks
                 IN  /\ dks' = k \o Pending /\ dkv' = Rows(dkv, dcached, Pending)
                     /\ dcached' = cached + 1 /\ dfault' = (dfault \/ CanDraft)
  BY Zenon DEF PlainStep
<1> DEFINE t == Arg(ks, kv, cached, Absorbed(Pending, bad), 1)
<1>5. /\ <<t>> \in Seq(Token) /\ Len(<<t>>) = 1
      /\ ks' \in Seq(Token) /\ kv' \in Seq(Token) /\ cached' <= Len(kv') /\ cached' = T
      /\ Emit(<<t>>)
      /\ ~tainted /\ ~bad =>
           /\ <<t>> \in Seq(Tok) /\ Continues(<<t>>)
           /\ ks' = SubSeq(seq \o <<t>>, 1, cached') /\ SubSeq(kv', 1, cached') = ks'
  BY Zenon, <1>1, <1>2, <1>4, SingleSweep
<1> HIDE DEF t
<1>6. /\ {drops', tainted'} \subseteq BOOLEAN
      /\ (tainted => tainted') /\ (drops => drops') /\ (tainted' => tainted \/ drops')
      /\ ~tainted' => ~tainted /\ ~bad
  BY Zenon, <1>1, <1>4, DropFacts
<1>7. DraftTo(<<t>>)
  <2>1. CASE ~Hybrid
    BY Zenon, <1>1, <1>4, <2>1, NoDraft
  <2>2. CASE Hybrid
    <3> DEFINE k == IF CanDraft THEN DraftRan(<<>>).ks ELSE dks
    <3>1. /\ dks' = k \o Pending /\ dkv' = Rows(dkv, dcached, Pending)
          /\ dcached' = cached + 1 /\ dfault' = (dfault \/ CanDraft)
      BY Zenon, <1>4, <2>2
    <3>2. k \in Seq(Token)
      <4>1. <<>> \in Seq(Token)
        BY EmptySeq
      <4> QED
        BY Zenon, <1>1, <1>2, <4>1, DraftRanTypes DEF Types
    <3>3. ~dfault' => ~dfault /\ k = dks
      BY Zenon, <3>1
    <3>4. dfault' \in BOOLEAN
      BY Zenon, <3>1
    <3> HIDE DEF k
    <3>5. dks' \in Seq(Token) /\ dkv' \in Seq(Token) /\ dcached' \in Nat /\ dcached' = T
      <4>1. dkv \in Seq(Token) /\ dcached \in Nat
        BY Zenon, <1>1 DEF Types
      <4> QED
        BY Zenon, <1>2, <3>1, <3>2, <4>1, ConcatProperties, RowsFacts
    <3>6. ASSUME ~dfault'
          PROVE  dks' = seq /\ T <= Len(dkv') /\ SubSeq(dkv', 1, T) = seq
      <4>1. /\ dcached = cached /\ dks = SubSeq(seq, 1, cached)
            /\ dcached <= Len(dkv) /\ SubSeq(dkv, 1, dcached) = dks
        BY <1>1, <2>2, <3>3, <3>6 DEF Inv, DraftHolds
      <4>2. /\ dks \in Seq(Token) /\ dkv \in Seq(Token) /\ Len(dks) = dcached
            /\ Len(dks) <= Len(dkv) /\ SubSeq(dkv, 1, Len(dks)) = dks
        BY Zenon, <1>1, <1>2, <4>1 DEF Types
      <4>3. /\ Len(dks) + Len(Pending) <= Len(Rows(dkv, Len(dks), Pending))
            /\ SubSeq(Rows(dkv, Len(dks), Pending), 1, Len(dks) + Len(Pending)) = dks \o Pending
        <5>1. /\ dks \in Seq(Token) /\ dkv \in Seq(Token) /\ Pending \in Seq(Token)
              /\ Len(dks) <= Len(dkv) /\ SubSeq(dkv, 1, Len(dks)) = dks
          BY Zenon, <1>2, <4>2
        <5> QED
          BY SMTT(30), <5>1, SweepExtends
      <4>4. Len(dks) + Len(Pending) = T /\ dks \o Pending = seq
        BY Zenon, <1>2, <4>1, <4>2
      <4> QED
        BY Zenon, <3>1, <3>3, <3>6, <4>2, <4>3, <4>4
    <3>7. SubSeq(seq \o <<t>>, 1, T) = seq
      <4>1. T \in 0..Len(seq) /\ SubSeq(seq, 1, T) = seq
        BY <1>2, <1>3, SubSeqFull
      <4> QED
        BY <1>3, <1>5, <4>1, PrefixInConcat
    <3> QED
      BY Zenon, <1>5, <3>4, <3>5, <3>6, <3>7 DEF DraftTo
  <2> QED
    BY <2>1, <2>2
<1>8. /\ Len(<<t>>) >= 1 /\ Len(<<t>>) <= gen - nout
      /\ cached' \in Nat /\ cached' = T + Len(<<t>>) - 1
  BY <1>2, <1>3, <1>5
<1>9. StepTo(<<t>>)
  BY Zenon, <1>1, <1>5, <1>6, <1>7, <1>8 DEF StepTo, DraftTo
<1> QED
  BY <1>9

LEMMA FullTo ==
    ASSUME GreedyIsToken, Inv, FullStep
    PROVE  \E e : StepTo(e)
<1>1. Stepping /\ ~Incremental /\ Types /\ Shape /\ Holds /\ stage # "off"
  BY DEF FullStep, Inv, Stepping
<1>2. /\ nout \in Nat /\ gen \in Nat /\ nout < gen /\ seq \in Seq(Token) /\ net \in Nets
      /\ T \in Nat /\ T = Len(seq) /\ cached \in 0..Len(seq)
  BY <1>1, LenProperties DEF Types, Stepping, T
<1>3. UNCHANGED <<cached, ks, kv, dcached, dks, dkv, dfault>> /\ ~Hybrid
  BY <1>1 DEF FullStep, draft, Shape, Option, Hybrid, Incremental
<1> DEFINE nil == <<>>
<1>4. PICK bad \in BOOLEAN : Drop(bad) /\ Emit(<<Arg(nil, nil, 0, Absorbed(seq, bad), T)>>)
  BY DEF FullStep
<1> DEFINE fed == Absorbed(seq, bad)
           t == Arg(nil, nil, 0, fed, T)
<1>5. nil \in Seq(Token) /\ nil \in Seq(Tok) /\ Len(nil) = 0 /\ nil \o seq = seq
  BY <1>2, EmptySeq, ConcatEmptySeq
<1>6. SubSeq(nil, 1, Len(nil)) = nil
  BY <1>5, SubSeqFull
<1> HIDE DEF nil
<1>7. fed \in Seq(Token) /\ Len(fed) = Len(seq) /\ (~bad => fed = seq)
  BY <1>2, AbsorbedFacts
<1> HIDE DEF fed
<1>8. T \in 0..Len(fed)
  BY SMTT(30), <1>2, <1>7
<1>9. t \in Token
  BY Zenon, <1>2, <1>5, <1>7, <1>8, ArgType
<1>10. /\ {drops', tainted'} \subseteq BOOLEAN
       /\ (tainted => tainted') /\ (drops => drops') /\ (tainted' => tainted \/ drops')
       /\ ~tainted' => ~tainted /\ ~bad
  BY Zenon, <1>1, <1>4, DropFacts
<1>11. <<t>> \in Seq(Token) /\ Len(<<t>>) = 1
  BY <1>2, <1>9, SingleToken
<1>12. ASSUME ~tainted'
       PROVE  /\ <<t>> \in Seq(Tok) /\ Continues(<<t>>)
              /\ ks = SubSeq(seq \o <<t>>, 1, cached) /\ SubSeq(kv, 1, cached) = ks
  <2>1. /\ seq \in Seq(Tok) /\ born = arch /\ ks = SubSeq(seq, 1, cached)
        /\ SubSeq(kv, 1, cached) = ks
    BY <1>1, <1>10, <1>12 DEF Holds
  <2>2. Arg(nil, nil, Len(nil), seq, T) = Greedy(net, nil \o SubSeq(seq, 1, T))
    <3>1. Len(nil) <= Len(nil) /\ T \in 0..Len(seq)
      BY <1>2, <1>5
    <3>2. seq \in Seq(Tok) /\ born = arch /\ nil \in Seq(Tok) /\ nil \in Seq(Token)
      BY <1>5, <2>1
    <3> QED
      BY <1>6, <3>1, <3>2, ArgExact
  <2>3. SubSeq(seq, 1, T) = seq
    BY <1>2, SubSeqFull
  <2>4. t = Greedy(net, seq)
    BY Zenon, <1>5, <1>7, <1>10, <1>12, <2>2, <2>3
  <2>5. t \in Tok
    BY Zenon, <1>2, <2>1, <2>4 DEF GreedyIsToken
  <2> HIDE DEF t
  <2>6. /\ <<t>> \in Seq(Tok) /\ <<t>>[1] = t /\ seq \o SubSeq(<<t>>, 1, 0) = seq
    BY <2>1, <2>5, SingleToken
  <2>7. Continues(<<t>>)
    <3> SUFFICES ASSUME NEW i \in 1..Len(<<t>>)
                 PROVE  <<t>>[i] = Greedy(net, seq \o SubSeq(<<t>>, 1, i - 1))
      BY DEF Continues
    <3>1. i = 1 /\ i - 1 = 0
      BY <1>11
    <3> QED
      BY Zenon, <2>4, <2>6, <3>1
  <2>8. SubSeq(seq \o <<t>>, 1, cached) = SubSeq(seq, 1, cached)
    BY Zenon, <1>2, <1>11, PrefixInConcat
  <2> QED
    BY Zenon, <2>1, <2>6, <2>7, <2>8
<1>13. Len(<<t>>) >= 1 /\ Len(<<t>>) <= gen - nout
  BY <1>2, <1>11
<1>14. Emit(<<t>>)
  BY Zenon, <1>4 DEF fed
<1> HIDE DEF t
<1>15. /\ ks' \in Seq(Token) /\ kv' \in Seq(Token) /\ cached' \in Nat /\ cached' <= Len(kv')
       /\ dcached' \in Nat /\ dks' \in Seq(Token) /\ dkv' \in Seq(Token) /\ dfault' \in BOOLEAN
  BY Zenon, <1>1, <1>3 DEF Types
<1>16. StepTo(<<t>>)
  BY Zenon, <1>1, <1>3, <1>10, <1>11, <1>12, <1>13, <1>14, <1>15 DEF StepTo
<1> QED
  BY <1>16

-----------------------------------------------------------------------------
(* Speculation.                                                            *)

\* Two texts make a text.
LEMMA ConcatToken ==
    ASSUME NEW s \in Seq(Token), NEW t \in Seq(Token)
    PROVE  s \o t \in Seq(Token) /\ Len(s \o t) = Len(s) + Len(t)
  BY ConcatProperties

LEMMA Assoc ==
    ASSUME NEW S, NEW a \in Seq(S), NEW b \in Seq(S), NEW c \in Seq(S)
    PROVE  a \o (b \o c) = (a \o b) \o c
  BY SMTT(30), ConcatAssociative

\* The state, the pending token and some drafts are the text and the drafts.
LEMMA FedText ==
    ASSUME NEW S, NEW k \in Seq(S), NEW p \in Seq(S), Len(p) = 1, NEW d \in Seq(S),
           NEW j \in 0..Len(d)
    PROVE  /\ p \o SubSeq(d, 1, j) \in Seq(S) /\ Len(p \o SubSeq(d, 1, j)) = j + 1
           /\ k \o (p \o SubSeq(d, 1, j)) = (k \o p) \o SubSeq(d, 1, j)
           /\ SubSeq(p \o d, 1, j + 1) = p \o SubSeq(d, 1, j)
<1> DEFINE x == SubSeq(d, 1, j)
<1>1. x \in Seq(S) /\ Len(x) = j
  BY PrefixFacts
<1>2. SubSeq(p \o d, 1, Len(p) + j) = p \o x
  BY Zenon, PrefixOfConcat
<1> HIDE DEF x
<1>3. k \o (p \o x) = (k \o p) \o x
  <2>1. x \in Seq(S)
    BY <1>1
  <2> QED
    BY SMTT(30), <2>1, Assoc
<1>4. p \o x \in Seq(S) /\ Len(p \o x) = Len(p) + Len(x)
  BY Zenon, <1>1, ConcatProperties
<1>5. Len(p) + j = j + 1 /\ Len(p) + Len(x) = j + 1
  BY <1>1
<1> QED
  BY Zenon, <1>2, <1>3, <1>4, <1>5 DEF x

\* What a step emits: the accepted drafts and one more.
LEMMA EmittedFacts ==
    ASSUME NEW S, NEW d \in Seq(S), NEW m \in 0..Len(d), NEW a \in S,
           NEW e, e = SubSeq(d, 1, m) \o <<a>>
    PROVE  /\ e \in Seq(S) /\ Len(e) = m + 1
           /\ \A i \in 1..m : e[i] = d[i]
           /\ e[m + 1] = a
           /\ \A i \in 0..m : SubSeq(e, 1, i) = SubSeq(d, 1, i)
<1> DEFINE x == SubSeq(d, 1, m)
<1>1. x \in Seq(S) /\ Len(x) = m /\ \A i \in 1..m : x[i] = d[i]
  BY PrefixFacts
<1>2. \A i \in 0..m : SubSeq(x, 1, i) = SubSeq(d, 1, i)
  BY PrefixOfPrefix
<1>3. e = x \o <<a>>
  OBVIOUS
<1> HIDE DEF x
<1>4. <<a>> \in Seq(S) /\ Len(<<a>>) = 1 /\ <<a>>[1] = a
  OBVIOUS
<1>5. /\ x \o <<a>> \in Seq(S) /\ Len(x \o <<a>>) = m + 1
      /\ \A i \in 1..(m + 1) : (x \o <<a>>)[i] = IF i <= m THEN x[i] ELSE <<a>>[i - m]
  BY <1>1, <1>4, ConcatProperties
<1>6. \A i \in 0..m : SubSeq(x \o <<a>>, 1, i) = SubSeq(x, 1, i)
  BY Zenon, <1>1, <1>4, PrefixInConcat
<1>7. \A i \in 1..m : (x \o <<a>>)[i] = d[i]
  BY <1>1, <1>5
<1>8. (x \o <<a>>)[m + 1] = a
  <2>1. m + 1 \in 1..(m + 1) /\ ~(m + 1 <= m) /\ (m + 1) - m = 1
    OBVIOUS
  <2> QED
    BY Zenon, <1>4, <1>5, <2>1
<1> QED
  BY Zenon, <1>2, <1>3, <1>5, <1>6, <1>7, <1>8

\* A draft to verify: there is room for it and one more.
LEMMA ProposalFacts ==
    ASSUME Types, Shape, stage # "off", NEW d \in Proposals \ {<<>>}
    PROVE  /\ d \in Seq(Token) /\ (seq \in Seq(Tok) => d \in Seq(Tok))
           /\ Len(d) \in Nat /\ 1 <= Len(d) /\ Len(d) <= SpecN /\ SpecN \in Nat
           /\ SpecN + 1 <= gen - nout
<1>1. opt.spec \in 0..8 /\ SpecN = opt.spec /\ seq \in Seq(Token) /\ T \in Nat
      /\ gen \in Nat /\ nout \in Nat
  BY Zenon, LenProperties DEF Types, Shape, Option, SpecMax, SpecN, T
<1>2. SpecN \in Nat
  BY <1>1
<1>3. CanDraft /\ d # <<>>
  BY DEF Proposals
<1>4. SpecN + 1 <= gen - nout
  BY <1>1, <1>2, <1>3 DEF CanDraft, Tmax
<1>5. CASE ~Hybrid
  <2>1. d = SpecDraft(seq, SpecN)
    BY Zenon, <1>3, <1>5 DEF Proposals
  <2>2. d \in Seq(Token) /\ Len(d) <= SpecN
    BY Zenon, <1>1, <1>2, <2>1, SpecDraftFacts
  <2>3. seq \in Seq(Tok) => d \in Seq(Tok)
    BY Zenon, <1>2, <2>1, SpecDraftFacts
  <2>4. Len(d) \in Nat \ {0}
    BY Zenon, <1>3, <2>2, EmptySeq
  <2> QED
    BY <1>2, <1>4, <2>2, <2>3, <2>4
<1>6. CASE Hybrid
  <2>1. PICK q \in 0..SpecN : d \in [1..q -> Tok]
    BY Zenon, <1>3, <1>6 DEF Proposals
  <2>2. q \in Nat /\ q <= SpecN
    BY <1>2, <2>1
  <2>3. d \in Seq(Tok)
    BY <2>1, <2>2, SeqDef
  <2>4. Len(d) = q
    BY <2>1, <2>2, <2>3, LenProperties
  <2>5. d \in Seq(Token)
    BY Zenon, <2>3, TokIsToken
  <2>6. Len(d) \in Nat \ {0}
    BY Zenon, <1>3, <2>3, EmptySeq
  <2> QED
    BY <1>2, <1>4, <2>2, <2>3, <2>4, <2>5, <2>6
<1> QED
  BY Zenon, <1>5, <1>6

\* The rows hold the history k from the start.
RowsHold(v, k) == Len(k) <= Len(v) /\ SubSeq(v, 1, Len(k)) = k

LEMMA ArgOn ==
    ASSUME NEW k \in Seq(Tok), NEW v \in Seq(Token), NEW ids \in Seq(Tok),
           RowsHold(v, k), born = arch, NEW i \in 0..Len(ids)
    PROVE  Arg(k, v, Len(k), ids, i) = Greedy(net, k \o SubSeq(ids, 1, i))
<1>1. Len(k) <= Len(v) /\ SubSeq(v, 1, Len(k)) = k
  BY Zenon DEF RowsHold
<1> QED
  BY Zenon, <1>1, ArgExact

LEMMA SweepOn ==
    ASSUME NEW k \in Seq(Token), NEW v \in Seq(Token), NEW ids \in Seq(Token), RowsHold(v, k)
    PROVE  /\ Rows(v, Len(k), ids) \in Seq(Token)
           /\ RowsHold(Rows(v, Len(k), ids), k \o ids)
           /\ RowsHold(Rows(v, Len(k), ids), k)
<1>1. Len(k) <= Len(v) /\ SubSeq(v, 1, Len(k)) = k
  BY DEF RowsHold
<1> DEFINE r == Rows(v, Len(k), ids)
           c == k \o ids
           l == Len(k) + Len(ids)
<1>2. /\ Len(c) = l /\ r \in Seq(Token)
      /\ l <= Len(r) /\ SubSeq(r, 1, l) = c
      /\ Len(k) <= Len(r) /\ SubSeq(r, 1, Len(k)) = k
  BY SMTT(30), <1>1, SweepExtends
<1> HIDE DEF r, c, l
<1>3. RowsHold(r, c) /\ RowsHold(r, k)
  BY Zenon, <1>2 DEF RowsHold
<1> QED
  BY Zenon, <1>2, <1>3 DEF r, c

\* The argmax in a verifying sweep.
LEMMA VerifyArg ==
    ASSUME NEW k \in Seq(Tok), NEW v \in Seq(Token), NEW p \in Seq(Tok), NEW d \in Seq(Tok),
           RowsHold(v, k), Len(p) = 1, born = arch,
           NEW i \in 1..(Len(d) + 1)
    PROVE  Arg(k, v, Len(k), p \o d, i) = Greedy(net, (k \o p) \o SubSeq(d, 1, i - 1))
<1>1. p \o d \in Seq(Tok) /\ Len(p \o d) = Len(p) + Len(d) /\ Len(d) \in Nat
  BY Zenon, ConcatProperties, LenProperties
<1>2. i \in 0..Len(p \o d) /\ i - 1 \in 0..Len(d) /\ (i - 1) + 1 = i
  BY <1>1
<1>3. k \o SubSeq(p \o d, 1, (i - 1) + 1) = (k \o p) \o SubSeq(d, 1, i - 1)
  <2> DEFINE j == i - 1
             x == SubSeq(d, 1, j)
  <2>1. j \in 0..Len(d)
    BY <1>2
  <2> HIDE DEF j
  <2>2. x \in Seq(Tok)
    BY Zenon, <2>1, PrefixFacts
  <2>3. SubSeq(p \o d, 1, j + 1) = p \o x
    BY SMTT(30), <2>1, FedText
  <2> HIDE DEF x
  <2>4. k \o (p \o x) = (k \o p) \o x
    BY SMTT(30), <2>2, Assoc
  <2> QED
    BY Zenon, <2>3, <2>4 DEF j, x
<1> DEFINE w == p \o d
<1>4. w \in Seq(Tok) /\ i \in 0..Len(w)
  BY Zenon, <1>1, <1>2
<1> HIDE DEF w
<1>5. Arg(k, v, Len(k), w, i) = Greedy(net, k \o SubSeq(w, 1, i))
  BY Zenon, <1>4, ArgOn
<1> QED
  BY Zenon, <1>2, <1>3, <1>5 DEF w

\* What a verifying step emits is what the network says one at a time.
LEMMA VerifySays ==
    ASSUME GreedyIsToken, net \in Nets, born = arch,
           NEW k \in Seq(Tok), NEW v \in Seq(Token), NEW p \in Seq(Tok), NEW d \in Seq(Tok),
           RowsHold(v, k), Len(p) = 1, seq = k \o p,
           NEW args, \A i \in 1..(Len(d) + 1) : args[i] = Arg(k, v, Len(k), p \o d, i),
           NEW m \in 0..Len(d), \A i \in 1..m : args[i] = d[i]
    PROVE  /\ SubSeq(d, 1, m) \o <<args[m + 1]>> \in Seq(Tok)
           /\ Continues(SubSeq(d, 1, m) \o <<args[m + 1]>>)
<1> DEFINE e == SubSeq(d, 1, m) \o <<args[m + 1]>>
<1>1. Len(d) \in Nat
  BY Zenon, LenProperties
<1>2. ASSUME NEW i \in 1..(m + 1)
      PROVE  args[i] = Greedy(net, seq \o SubSeq(d, 1, i - 1))
  <2>1. i \in 1..(Len(d) + 1)
    BY <1>1
  <2>2. Arg(k, v, Len(k), p \o d, i) = Greedy(net, (k \o p) \o SubSeq(d, 1, i - 1))
    BY Zenon, <2>1, VerifyArg
  <2> QED
    BY Zenon, <2>1, <2>2
<1>3. args[m + 1] \in Tok
  <2>1. m + 1 \in 1..(m + 1) /\ (m + 1) - 1 = m
    OBVIOUS
  <2>2. args[m + 1] = Greedy(net, seq \o SubSeq(d, 1, m))
    BY Zenon, <1>2, <2>1
  <2>3. SubSeq(d, 1, m) \in Seq(Tok)
    BY Zenon, PrefixFacts
  <2>4. k \o p \in Seq(Tok)
    BY Zenon, ConcatProperties
  <2>5. seq \o SubSeq(d, 1, m) \in Seq(Tok)
    BY Zenon, <2>3, <2>4, ConcatProperties
  <2> QED
    BY Zenon, <2>2, <2>5 DEF GreedyIsToken
<1>4. /\ e \in Seq(Tok) /\ Len(e) = m + 1
      /\ \A i \in 1..m : e[i] = d[i]
      /\ e[m + 1] = args[m + 1]
      /\ \A i \in 0..m : SubSeq(e, 1, i) = SubSeq(d, 1, i)
  BY <1>3, EmittedFacts
<1> HIDE DEF e
<1>5. ASSUME NEW i \in 1..(m + 1)
      PROVE  e[i] = Greedy(net, seq \o SubSeq(e, 1, i - 1))
  <2>1. i - 1 \in 0..m /\ (i \in 1..m \/ i = m + 1)
    OBVIOUS
  <2>2. SubSeq(e, 1, i - 1) = SubSeq(d, 1, i - 1)
    BY Zenon, <1>4, <2>1
  <2>3. e[i] = args[i]
    BY Zenon, <1>4, <2>1
  <2> QED
    BY Zenon, <1>2, <2>2, <2>3
<1> QED
  BY Zenon, <1>4, <1>5 DEF Continues, e

\* State that holds the text and the accepted drafts, in terms of the new text.
LEMMA HoldsEmitted ==
    ASSUME seq \in Seq(Token), NEW d \in Seq(Token), NEW m \in 0..Len(d), NEW a \in Token,
           NEW v, RowsHold(v, seq \o SubSeq(d, 1, m))
    PROVE  /\ SubSeq(seq \o (SubSeq(d, 1, m) \o <<a>>), 1, Len(seq) + m) = seq \o SubSeq(d, 1, m)
           /\ Len(seq) + m <= Len(v)
           /\ SubSeq(v, 1, Len(seq) + m) = seq \o SubSeq(d, 1, m)
<1> DEFINE x == SubSeq(d, 1, m)
           e == x \o <<a>>
<1>1. x \in Seq(Token) /\ Len(x) = m
  BY Zenon, PrefixFacts
<1>2. e \in Seq(Token) /\ Len(e) = m + 1 /\ \A i \in 0..m : SubSeq(e, 1, i) = SubSeq(d, 1, i)
  BY EmittedFacts
<1> HIDE DEF e
<1>3. m \in 0..Len(e) /\ SubSeq(e, 1, m) = x
  BY <1>2
<1>4. SubSeq(seq \o e, 1, Len(seq) + m) = seq \o SubSeq(e, 1, m)
  BY Zenon, <1>2, <1>3, PrefixOfConcat
<1>5. Len(seq \o x) = Len(seq) + Len(x)
  BY Zenon, <1>1, ConcatProperties
<1> HIDE DEF x
<1>6. Len(seq) + m <= Len(v) /\ SubSeq(v, 1, Len(seq) + m) = seq \o x
  BY Zenon, <1>1, <1>5 DEF RowsHold, x
<1> QED
  BY Zenon, <1>3, <1>4, <1>6 DEF e, x

\* Rows written by a sweep that is undone do not show: the replay overwrites them.
LEMMA ReplayHolds ==
    ASSUME NEW k \in Seq(Token), NEW v \in Seq(Token), NEW p \in Seq(Token), NEW x \in Seq(Token),
           NEW swept \in Seq(Token), RowsHold(v, k)
    PROVE  /\ k \o (p \o x) = (k \o p) \o x
           /\ RowsHold(Rows(Rows(v, Len(k), swept), Len(k), p \o x), (k \o p) \o x)
<1> DEFINE r == Rows(v, Len(k), swept)
           f == p \o x
<1>1. f \in Seq(Token)
  BY Zenon, ConcatProperties
<1>2. k \o f = (k \o p) \o x
  BY SMTT(30), Assoc
<1>3. r \in Seq(Token) /\ RowsHold(r, k)
  BY Zenon, SweepOn
<1> HIDE DEF r, f
<1>4. RowsHold(Rows(r, Len(k), f), k \o f)
  BY Zenon, <1>1, <1>3, SweepOn
<1> QED
  BY Zenon, <1>2, <1>4 DEF r, f

\* All drafts are accepted: the sweep stands.
LEMMA AllHolds ==
    ASSUME NEW k \in Seq(Token), NEW v \in Seq(Token), NEW p \in Seq(Token), NEW d \in Seq(Token),
           RowsHold(v, k)
    PROVE  /\ k \o (p \o d) = (k \o p) \o d
           /\ RowsHold(Rows(v, Len(k), p \o d), (k \o p) \o d)
<1> DEFINE w == p \o d
<1>1. w \in Seq(Token)
  BY Zenon, ConcatProperties
<1>2. k \o w = (k \o p) \o d
  BY SMTT(30), Assoc
<1> HIDE DEF w
<1>3. RowsHold(Rows(v, Len(k), w), k \o w)
  BY Zenon, <1>1, SweepOn
<1> QED
  BY Zenon, <1>2, <1>3 DEF w

\* The draft model took the pending token and its drafts but the last; one
\* more step and it holds them all.
LEMMA GapCloses ==
    ASSUME NEW k \in Seq(Token), NEW v \in Seq(Token), NEW p \in Seq(Token), NEW d \in Seq(Token),
           RowsHold(v, k), Len(p) = 1, Len(d) >= 1
    PROVE  /\ (k \o SubSeq(p \o d, 1, Len(d))) \o <<d[Len(d)]>> = (k \o p) \o d
           /\ RowsHold(Rows(Rows(v, Len(k), SubSeq(p \o d, 1, Len(d))), Len(k) + Len(d), <<d[Len(d)]>>),
                       (k \o p) \o d)
<1> DEFINE w == p \o d
           l == Len(d)
           f == SubSeq(w, 1, l)
           z == <<d[l]>>
<1>1. /\ l \in Nat /\ w \in Seq(Token) /\ Len(w) = l + 1
      /\ \A i \in 1..(l + 1) : w[i] = IF i <= 1 THEN p[i] ELSE d[i - 1]
  <2>1. Len(d) \in Nat
    BY Zenon, LenProperties
  <2>2. /\ w \in Seq(Token) /\ Len(w) = Len(p) + Len(d)
        /\ \A i \in 1..(Len(p) + Len(d)) : w[i] = IF i <= Len(p) THEN p[i] ELSE d[i - Len(p)]
    BY Zenon, ConcatProperties
  <2> QED
    BY <2>1, <2>2
<1>2. k \o w = (k \o p) \o d
  BY SMTT(30), Assoc
<1>3. d[l] \in Token
  <2>1. l \in 1..Len(d)
    BY <1>1
  <2> QED
    BY Zenon, <2>1, ElementOfSeq
<1>4. f = SubSeq(w, 1, l) /\ l >= 1
  OBVIOUS
<1> HIDE DEF w
<1>5. l \in 0..Len(w)
  BY <1>1
<1>6. w[l + 1] = d[l]
  <2>1. l + 1 \in 1..(l + 1) /\ ~(l + 1 <= 1) /\ (l + 1) - 1 = l
    BY <1>1, <1>4
  <2> QED
    BY Zenon, <1>1, <2>1
<1>7. z = <<d[l]>>
  OBVIOUS
<1> HIDE DEF l, f, z
<1>8. f \in Seq(Token) /\ Len(f) = l
  BY Zenon, <1>1, <1>4, <1>5, PrefixFacts
<1>9. z \in Seq(Token) /\ Len(z) = 1 /\ z[1] = d[l]
  BY <1>3, <1>7
<1>10. SubSeq(w, l + 1, Len(w)) = z
  <2> DEFINE q == SubSeq(w, l + 1, Len(w))
  <2>1. /\ l + 1 \in Int /\ Len(w) \in Int /\ l + 1 <= Len(w) /\ Len(w) - (l + 1) + 1 = 1
        /\ l + 1 + 1 - 1 = l + 1
    BY <1>1
  <2>2. q \in Seq(Token) /\ Len(q) = Len(w) - l
    BY Zenon, <1>1, <1>5, Split
  <2>3. Len(q) = 1
    BY <1>1, <2>2
  <2>4. q[1] = w[l + 1]
    BY <1>1, <2>1 DEF SubSeq
  <2> HIDE DEF q
  <2>5. \A i \in 1..Len(q) : q[i] = z[i]
    BY <1>6, <1>9, <2>3, <2>4
  <2> QED
    BY Zenon, <1>9, <2>2, <2>3, <2>5, SeqEqual DEF q
<1>11. f \o z = w
  <2>1. SubSeq(w, 1, l) \o SubSeq(w, l + 1, Len(w)) = w
    BY Zenon, <1>1, <1>5, Split
  <2> QED
    BY Zenon, <1>4, <1>10, <2>1
<1>12. (k \o f) \o z = (k \o p) \o d
  <2>1. f \in Seq(Token) /\ z \in Seq(Token)
    BY Zenon, <1>8, <1>9
  <2>2. k \o (f \o z) = (k \o f) \o z
    BY SMTT(30), <2>1, Assoc
  <2> QED
    BY Zenon, <1>2, <1>11, <2>2
<1> DEFINE r == Rows(v, Len(k), f)
           c == k \o f
<1>13. r \in Seq(Token) /\ RowsHold(r, c)
  <2>1. f \in Seq(Token)
    BY Zenon, <1>8
  <2> QED
    BY Zenon, <2>1, SweepOn
<1>14. c \in Seq(Token) /\ Len(c) = Len(k) + l
  <2>1. f \in Seq(Token) /\ Len(f) = l
    BY <1>8
  <2>2. c \in Seq(Token) /\ Len(c) = Len(k) + Len(f)
    BY Zenon, <2>1, ConcatToken
  <2> QED
    BY Zenon, <2>1, <2>2
<1> HIDE DEF r, c
<1>15. RowsHold(Rows(r, Len(c), z), c \o z)
  <2>1. z \in Seq(Token) /\ c \in Seq(Token)
    BY Zenon, <1>9, <1>14
  <2> QED
    BY Zenon, <1>13, <2>1, SweepOn
<1> QED
  BY Zenon, <1>12, <1>14, <1>15 DEF r, c, l, f, z, w

\* The draft model after a verifying step.
LEMMA ResyncTo ==
    ASSUME Inv, Stepping, Incremental, ~first, Hybrid,
           NEW d \in Proposals \ {<<>>}, NEW m \in 0..Len(d), NEW a \in Token,
           NEW e, e = SubSeq(d, 1, m) \o <<a>>,
           cached' = cached + m + 1, DraftResync(d, m)
    PROVE  DraftTo(e)
<1>1. Types /\ Shape /\ stage # "off"
  BY Zenon DEF Inv, Stepping
<1>2. /\ T = Len(seq) /\ cached + 1 = T /\ Len(Pending) = 1 /\ Pending \in Seq(Token)
      /\ SubSeq(seq, 1, cached) \in Seq(Token) /\ Len(SubSeq(seq, 1, cached)) = cached
      /\ SubSeq(seq, 1, cached) \o Pending = seq /\ T \in Nat /\ cached \in 0..Len(seq)
  BY Zenon, <1>1, PendingFacts
<1>3. d \in Seq(Token) /\ Len(d) \in Nat /\ 1 <= Len(d) /\ Len(d) <= SpecN /\ SpecN \in Nat
  BY Zenon, <1>1, ProposalFacts
<1>4. dks \in Seq(Token) /\ dkv \in Seq(Token) /\ dcached \in Nat /\ seq \in Seq(Token)
  BY Zenon, <1>1 DEF Types
<1>5. /\ DraftRan(d).ks \in Seq(Token) /\ DraftRan(d).kv \in Seq(Token)
      /\ DraftRan(d).cached \in Nat
  BY Zenon, <1>1, <1>2, <1>3, DraftRanTypes
<1> DEFINE p == Pending
           x == SubSeq(d, 1, m)
           z == <<d[Len(d)]>>
           f == SubSeq(p \o d, 1, Len(d))
<1>6. x \in Seq(Token) /\ Len(x) = m
  BY Zenon, <1>3, PrefixFacts
<1>7. z \in Seq(Token)
  <2>1. Len(d) \in 1..Len(d)
    BY <1>3
  <2>2. d[Len(d)] \in Token
    BY Zenon, <1>3, <2>1, ElementOfSeq
  <2> QED
    BY <2>2
<1>8. p \o x \in Seq(Token)
  BY Zenon, <1>2, <1>6, ConcatProperties
<1>9. dfault' = (dfault \/ (m = Len(d) /\ m < SpecN))
  BY Zenon DEF DraftResync
<1>10. dfault' \in BOOLEAN
  BY Zenon, <1>9
<1>11. m = Len(d) =>
         /\ dks' = DraftRan(d).ks \o z /\ dkv' = Rows(DraftRan(d).kv, DraftRan(d).cached, z)
         /\ dcached' = DraftRan(d).cached + 1
  BY Zenon DEF DraftResync
<1>12. m # Len(d) =>
         /\ dks' = dks \o (p \o x) /\ dkv' = Rows(DraftRan(d).kv, cached, p \o x)
         /\ dcached' = cached + m + 1
  BY Zenon DEF DraftResync
<1>13. ~dfault' => ~dfault /\ (m = Len(d) => Len(d) = SpecN)
  <2>1. ~dfault' => ~dfault /\ ~(m = Len(d) /\ m < SpecN)
    BY Zenon, <1>9
  <2>2. m = Len(d) /\ ~(m < SpecN) => Len(d) = SpecN
    BY <1>3
  <2> QED
    BY Zenon, <2>1, <2>2
<1> DEFINE half == IF Len(d) < SpecN THEN <<Garbage>> ELSE <<>>
<1>14. DraftRan(d) = [ks |-> (dks \o f) \o half, kv |-> Rows(dkv, dcached, f \o half),
                      cached |-> dcached + Len(d)]
  BY Zenon DEF DraftRan
<1>15. f \in Seq(Token) /\ half \in Seq(Token)
  <2> DEFINE w == p \o d
  <2>1. w \in Seq(Token) /\ Len(w) = 1 + Len(d)
    BY SMTT(30), <1>2, <1>3, ConcatProperties
  <2> HIDE DEF w
  <2>2. Len(d) \in 0..Len(w)
    BY <1>3, <2>1
  <2>3. SubSeq(w, 1, Len(d)) \in Seq(Token)
    BY Zenon, <2>1, <2>2, PrefixFacts
  <2>4. <<Garbage>> \in Seq(Token)
    BY DEF Token
  <2> QED
    BY Zenon, <2>3, <2>4, EmptySeq DEF w
<1>16. Len(d) = SpecN => half = <<>>
  BY <1>3
<1>17. DraftRan(d).kv = Rows(dkv, dcached, f \o half)
  BY <1>14
<1>18. f \o half \in Seq(Token)
  BY Zenon, <1>15, ConcatProperties
<1>19. Len(d) = SpecN =>
         /\ DraftRan(d).ks = dks \o f /\ DraftRan(d).kv = Rows(dkv, dcached, f)
         /\ DraftRan(d).cached = dcached + Len(d)
  <2>1. dks \o f \in Seq(Token)
    BY Zenon, <1>4, <1>15, ConcatProperties
  <2> HIDE DEF f
  <2>2. f \o <<>> = f /\ (dks \o f) \o <<>> = dks \o f
    BY Zenon, <1>15, <2>1, ConcatEmptySeq
  <2> HIDE DEF half
  <2>3. /\ DraftRan(d).ks = (dks \o f) \o half /\ DraftRan(d).kv = Rows(dkv, dcached, f \o half)
        /\ DraftRan(d).cached = dcached + Len(d)
    BY <1>14
  <2> QED
    BY Zenon, <1>16, <2>2, <2>3
<1>20. f = SubSeq(p \o d, 1, Len(d)) /\ z = <<d[Len(d)]>>
  OBVIOUS
<1>21. dcached' \in Nat /\ dks' \in Seq(Token) /\ dkv' \in Seq(Token)
  <2> HIDE DEF x, z, f, half, p
  <2>1. CASE m = Len(d)
    <3> DEFINE rk == DraftRan(d).ks
               rv == DraftRan(d).kv
               rc == DraftRan(d).cached
    <3>1. rk \in Seq(Token) /\ rv \in Seq(Token) /\ rc \in Nat
      BY Zenon, <1>5
    <3>2. dks' = rk \o z /\ dkv' = Rows(rv, rc, z) /\ dcached' = rc + 1
      BY Zenon, <1>11, <2>1
    <3> HIDE DEF rk, rv, rc
    <3>3. rk \o z \in Seq(Token) /\ Rows(rv, rc, z) \in Seq(Token) /\ rc + 1 \in Nat
      <4>1. z \in Seq(Token) /\ rk \in Seq(Token) /\ rv \in Seq(Token) /\ rc \in Nat
        BY Zenon, <1>7, <3>1
      <4>2. rk \o z \in Seq(Token)
        BY Zenon, <4>1, ConcatProperties
      <4>3. Rows(rv, rc, z) \in Seq(Token)
        BY Zenon, <4>1, RowsFacts
      <4> QED
        BY <4>1, <4>2, <4>3
    <3> QED
      BY Zenon, <3>2, <3>3
  <2>2. CASE m # Len(d)
    <3> DEFINE fed == p \o x
    <3>1. fed \in Seq(Token) /\ cached \in Nat /\ cached + m + 1 \in Nat
      BY <1>2, <1>3, <1>8
    <3>2. dks' = dks \o fed /\ dkv' = Rows(DraftRan(d).kv, cached, fed) /\ dcached' = cached + m + 1
      BY Zenon, <1>12, <2>2
    <3> HIDE DEF fed
    <3> QED
      BY Zenon, <1>4, <1>5, <3>1, <3>2, ConcatProperties, RowsFacts
  <2> QED
    BY Zenon, <2>1, <2>2
<1>22. ASSUME ~dfault'
       PROVE  /\ dcached' = cached' /\ dks' = SubSeq(seq \o e, 1, cached')
              /\ dcached' <= Len(dkv') /\ SubSeq(dkv', 1, dcached') = dks'
  <2>1. /\ dcached = cached /\ dks = SubSeq(seq, 1, cached)
        /\ dcached <= Len(dkv) /\ SubSeq(dkv, 1, dcached) = dks
    BY Zenon, <1>1, <1>13, <1>22 DEF Inv, DraftHolds
  <2>2. RowsHold(dkv, dks) /\ Len(dks) = cached /\ dks \o p = seq
    BY Zenon, <1>2, <2>1 DEF RowsHold
  <2>3. dks' = seq \o x /\ RowsHold(dkv', dks') /\ dcached' = cached'
    <3>1. CASE m = Len(d)
      <4>1. x = d
        BY Zenon, <1>3, <3>1, SubSeqFull
      <4>2. /\ (dks \o f) \o z = (dks \o p) \o d
            /\ RowsHold(Rows(Rows(dkv, Len(dks), f), Len(dks) + Len(d), z), (dks \o p) \o d)
        <5>1. /\ p \in Seq(Token) /\ Len(p) = 1 /\ Len(d) >= 1 /\ RowsHold(dkv, dks)
              /\ d \in Seq(Token) /\ dks \in Seq(Token) /\ dkv \in Seq(Token)
          BY Zenon, <1>2, <1>3, <1>4, <2>2
        <5> HIDE DEF p
        <5> QED
          BY Zenon, <5>1, GapCloses
      <4> HIDE DEF f, z, p, x, half
      <4>3. /\ dks' = (dks \o f) \o z
            /\ dkv' = Rows(Rows(dkv, dcached, f), dcached + Len(d), z)
            /\ dcached' = dcached + Len(d) + 1
        BY Zenon, <1>11, <1>13, <1>19, <1>22, <3>1
      <4>4. dcached = Len(dks)
        BY Zenon, <2>1, <2>2
      <4>5. dks' = seq \o d /\ RowsHold(dkv', seq \o d)
        BY Zenon, <2>2, <4>2, <4>3, <4>4
      <4> QED
        BY Zenon, <2>1, <3>1, <4>1, <4>3, <4>5
    <3>2. CASE m # Len(d)
      <4> DEFINE h == f \o half
      <4>1. h \in Seq(Token) /\ DraftRan(d).kv = Rows(dkv, dcached, h)
        BY Zenon, <1>17, <1>18
      <4>2. p \in Seq(Token)
        BY Zenon, <1>2
      <4> HIDE DEF h, p, x
      <4>3. /\ dks \o (p \o x) = (dks \o p) \o x
            /\ RowsHold(Rows(Rows(dkv, Len(dks), h), Len(dks), p \o x), (dks \o p) \o x)
        BY Zenon, <1>4, <1>6, <2>2, <4>1, <4>2, ReplayHolds
      <4>4. dcached = Len(dks) /\ cached = Len(dks)
        BY Zenon, <2>1, <2>2
      <4>5. dks' = dks \o (p \o x) /\ dkv' = Rows(Rows(dkv, dcached, h), cached, p \o x)
        BY Zenon, <1>12, <3>2, <4>1
      <4>6. dks' = seq \o x /\ RowsHold(dkv', seq \o x)
        BY Zenon, <2>2, <4>3, <4>4, <4>5
      <4> QED
        BY Zenon, <1>12, <3>2, <4>6
    <3> QED
      BY Zenon, <3>1, <3>2
  <2>4. cached' = Len(seq) + m
    <3>1. cached \in Nat /\ cached + 1 = Len(seq) /\ m \in Nat
      BY <1>2, <1>3
    <3> DEFINE l == Len(seq)
    <3>2. cached + 1 = l /\ cached \in Nat /\ m \in Nat
      BY Zenon, <3>1
    <3> HIDE DEF l
    <3>3. cached + m + 1 = l + m
      BY <3>2
    <3> QED
      BY Zenon, <3>3 DEF l
  <2>5. /\ dks' = SubSeq(seq \o e, 1, cached') /\ cached' <= Len(dkv')
        /\ SubSeq(dkv', 1, cached') = dks'
    <3>1. seq \in Seq(Token) /\ d \in Seq(Token) /\ dks' = seq \o SubSeq(d, 1, m) /\ RowsHold(dkv', dks')
      BY Zenon, <1>3, <1>4, <2>3
    <3>2. /\ SubSeq(seq \o (SubSeq(d, 1, m) \o <<a>>), 1, Len(seq) + m) = seq \o SubSeq(d, 1, m)
          /\ Len(seq) + m <= Len(dkv')
          /\ SubSeq(dkv', 1, Len(seq) + m) = seq \o SubSeq(d, 1, m)
      <4>1. RowsHold(dkv', seq \o SubSeq(d, 1, m))
        BY Zenon, <3>1
      <4> QED
        BY Zenon, <3>1, <4>1, HoldsEmitted
    <3> QED
      BY Zenon, <2>4, <3>1, <3>2
  <2> QED
    BY Zenon, <2>3, <2>5
<1> QED
  BY Zenon, <1>10, <1>21, <1>22 DEF DraftTo

LEMMA VerifyTo ==
    ASSUME GreedyIsToken, Inv, VerifyStep
    PROVE  \E e : StepTo(e)
<1>1. Stepping /\ Incremental /\ ~first /\ Types /\ Shape /\ Holds /\ stage # "off"
  BY DEF VerifyStep, Inv, Stepping
<1>2. PICK d \in Proposals \ {<<>>}, bad \in BOOLEAN, again \in BOOLEAN : Verify(d, bad, again)
  BY Zenon DEF VerifyStep
<1>3. /\ T = Len(seq) /\ cached + 1 = T /\ Len(Pending) = 1 /\ Pending \in Seq(Token)
      /\ SubSeq(seq, 1, cached) \in Seq(Token) /\ Len(SubSeq(seq, 1, cached)) = cached
      /\ SubSeq(seq, 1, cached) \o Pending = seq /\ T \in Nat /\ cached \in Nat
      /\ (seq \in Seq(Tok) => Pending \in Seq(Tok))
  BY Zenon, <1>1, PendingFacts DEF Types
<1>4. /\ d \in Seq(Token) /\ (seq \in Seq(Tok) => d \in Seq(Tok))
      /\ Len(d) \in Nat /\ 1 <= Len(d) /\ Len(d) <= SpecN /\ SpecN \in Nat
      /\ SpecN + 1 <= gen - nout
  BY Zenon, <1>1, ProposalFacts
<1>5. /\ seq \in Seq(Token) /\ ks \in Seq(Token) /\ kv \in Seq(Token) /\ net \in Nets
      /\ gen \in Nat /\ nout \in Nat
  BY Zenon, <1>1 DEF Types
<1> DEFINE p    == Pending
           w    == p \o d
           fed  == Absorbed(w, bad)
           args == [i \in 1..(Len(d) + 1) |-> Arg(ks, kv, cached, fed, i)]
           m    == AcceptedPrefix(args, d)
           x    == SubSeq(d, 1, m)
           acc  == Absorbed(p \o x, again)
           a    == args[m + 1]
           e    == x \o <<a>>
<1>6. /\ Drop(bad \/ (m < Len(d) /\ again))
      /\ m = Len(d) => ks' = ks \o fed /\ kv' = Rows(kv, cached, fed)
      /\ m # Len(d) => ks' = ks \o acc /\ kv' = Rows(Rows(kv, cached, fed), cached, acc)
      /\ cached' = cached + m + 1
      /\ IF Hybrid THEN DraftResync(d, m) ELSE UNCHANGED draft
      /\ Emit(e)
  BY Zenon, <1>2 DEF Verify, Replay
<1>7. w \in Seq(Token) /\ Len(w) = 1 + Len(d)
  BY <1>3, <1>4, ConcatProperties
<1>8. p \in Seq(Token) /\ Len(p) = 1
  BY <1>3
<1> HIDE DEF p, w
<1>9. fed \in Seq(Token) /\ Len(fed) = 1 + Len(d) /\ (~bad => fed = w)
  BY Zenon, <1>7, AbsorbedFacts
<1> HIDE DEF fed
<1>10. ASSUME NEW i \in 1..(Len(d) + 1)
       PROVE  args[i] = Arg(ks, kv, cached, fed, i) /\ args[i] \in Token
  <2>1. i \in 0..Len(fed)
    BY <1>4, <1>9
  <2>2. Arg(ks, kv, cached, fed, i) \in Token
    BY Zenon, <1>3, <1>5, <1>9, <2>1, ArgType
  <2> QED
    BY Zenon, <2>2
<1> HIDE DEF args
<1>11. m \in 0..Len(d) /\ \A i \in 1..m : args[i] = d[i]
  BY Zenon, <1>4, AcceptedFacts
<1> HIDE DEF m
<1>12. a \in Token
  <2>1. m + 1 \in 1..(Len(d) + 1)
    BY <1>4, <1>11
  <2> QED
    BY Zenon, <1>10, <2>1
<1>13. x \in Seq(Token) /\ Len(x) = m
  BY Zenon, <1>4, <1>11, PrefixFacts
<1>14. p \o x \in Seq(Token) /\ Len(p \o x) = m + 1
  <2>1. p \o x \in Seq(Token) /\ Len(p \o x) = Len(p) + Len(x)
    BY Zenon, <1>8, <1>13, ConcatProperties
  <2>2. Len(p) + Len(x) = m + 1
    BY <1>8, <1>11, <1>13
  <2> QED
    BY Zenon, <2>1, <2>2
<1>15. e = SubSeq(d, 1, m) \o <<a>>
  OBVIOUS
<1>16. e \in Seq(Token) /\ Len(e) = m + 1
  BY <1>4, <1>11, <1>12, EmittedFacts
<1> HIDE DEF x, a, e
<1>17. acc \in Seq(Token) /\ Len(acc) = m + 1 /\ (~again => acc = p \o x)
  BY Zenon, <1>14, AbsorbedFacts
<1> HIDE DEF acc
<1> DEFINE lost == bad \/ (m < Len(d) /\ again)
<1>18. /\ {drops', tainted'} \subseteq BOOLEAN
       /\ (tainted => tainted') /\ (drops => drops') /\ (tainted' => tainted \/ drops')
       /\ ~tainted' => ~tainted /\ ~lost
  <2>1. lost \in BOOLEAN /\ Drop(lost)
    BY Zenon, <1>6
  <2> HIDE DEF lost
  <2> QED
    BY Zenon, <1>1, <2>1, DropFacts
<1>19. /\ ks' \in Seq(Token) /\ kv' \in Seq(Token) /\ cached' \in Nat /\ cached' <= Len(kv')
       /\ cached' = T + Len(e) - 1
  <2>1. cached' \in Nat /\ cached' = cached + (m + 1) /\ cached' = T + Len(e) - 1
    <3>1. cached \in Nat /\ m \in Nat /\ T = cached + 1 /\ cached' = cached + m + 1 /\ Len(e) = m + 1
      BY <1>3, <1>4, <1>6, <1>11, <1>16
    <3> QED
      BY <3>1
  <2>2. CASE m = Len(d)
    <3>1. Len(fed) = m + 1 /\ ks' = ks \o fed /\ kv' = Rows(kv, cached, fed)
      BY <1>6, <1>9, <1>11, <2>2
    <3>2. ks \o fed \in Seq(Token)
      BY Zenon, <1>5, <1>9, ConcatProperties
    <3>3. Rows(kv, cached, fed) \in Seq(Token) /\ Len(Rows(kv, cached, fed)) >= cached + Len(fed)
          /\ Len(Rows(kv, cached, fed)) \in Nat
      BY Zenon, <1>3, <1>5, <1>9, RowsFacts
    <3> QED
      BY Zenon, <2>1, <3>1, <3>2, <3>3
  <2>3. CASE m # Len(d)
    <3> DEFINE r == Rows(kv, cached, fed)
    <3>1. ks' = ks \o acc /\ kv' = Rows(r, cached, acc)
      BY Zenon, <1>6, <2>3
    <3>2. ks \o acc \in Seq(Token)
      BY Zenon, <1>5, <1>17, ConcatProperties
    <3>3. r \in Seq(Token)
      BY Zenon, <1>3, <1>5, <1>9, RowsFacts
    <3> HIDE DEF r
    <3>4. Rows(r, cached, acc) \in Seq(Token) /\ Len(Rows(r, cached, acc)) >= cached + Len(acc)
          /\ Len(Rows(r, cached, acc)) \in Nat
      BY Zenon, <1>3, <1>17, <3>3, RowsFacts
    <3> QED
      BY Zenon, <1>17, <2>1, <3>1, <3>2, <3>4
  <2> QED
    BY Zenon, <2>2, <2>3
<1>20. DraftTo(e)
  <2>1. CASE ~Hybrid
    BY Zenon, <1>1, <1>6, <2>1, NoDraft
  <2>2. CASE Hybrid
    BY Zenon, <1>1, <1>6, <1>11, <1>12, <1>15, <2>2, ResyncTo
  <2> QED
    BY Zenon, <2>1, <2>2
<1>21. ASSUME ~tainted'
       PROVE  /\ e \in Seq(Tok) /\ Continues(e)
              /\ ks' = SubSeq(seq \o e, 1, cached') /\ SubSeq(kv', 1, cached') = ks'
  <2>1. ~tainted /\ ~bad /\ (m < Len(d) => ~again)
    BY Zenon, <1>18, <1>21
  <2>2. /\ seq \in Seq(Tok) /\ born = arch /\ ks = SubSeq(seq, 1, cached)
        /\ SubSeq(kv, 1, cached) = ks /\ cached <= Len(kv)
    BY Zenon, <1>1, <2>1 DEF Holds, Types
  <2>3. p \in Seq(Tok) /\ d \in Seq(Tok)
    BY Zenon, <1>3, <1>4, <2>2 DEF p
  <2>4. RowsHold(kv, ks) /\ Len(ks) = cached /\ ks \o p = seq
    BY Zenon, <1>3, <2>2 DEF RowsHold, p
  <2>5. ks \in Seq(Tok)
    <3>1. cached \in 0..Len(seq)
      BY <1>3
    <3> QED
      BY <2>2, <3>1, PrefixFacts
  <2>6. fed = w
    BY <1>9, <2>1
  <2>7. \A i \in 1..(Len(d) + 1) : args[i] = Arg(ks, kv, Len(ks), p \o d, i)
    BY Zenon, <1>10, <2>4, <2>6 DEF w
  <2>8. e \in Seq(Tok) /\ Continues(e)
    <3>1. seq = ks \o p /\ RowsHold(kv, ks)
      BY <2>4
    <3>2. e = SubSeq(d, 1, m) \o <<args[m + 1]>>
      BY <1>15 DEF a
    <3>3. /\ net \in Nets /\ born = arch /\ ks \in Seq(Tok) /\ kv \in Seq(Token)
          /\ p \in Seq(Tok) /\ d \in Seq(Tok) /\ Len(p) = 1
      BY Zenon, <1>5, <1>8, <2>2, <2>3, <2>5
    <3>4. m \in 0..Len(d) /\ \A i \in 1..m : args[i] = d[i]
      BY <1>11
    <3> QED
      <4>1. /\ SubSeq(d, 1, m) \o <<args[m + 1]>> \in Seq(Tok)
            /\ Continues(SubSeq(d, 1, m) \o <<args[m + 1]>>)
        BY Zenon, <2>7, <3>1, <3>3, <3>4, VerifySays
      <4> QED
        BY <3>2, <4>1
  <2>9. ks' = seq \o x /\ RowsHold(kv', seq \o x)
    <3>1. CASE m = Len(d)
      <4>1. x = d
        BY Zenon, <1>4, <3>1, SubSeqFull DEF x
      <4>2. ks \o (p \o d) = (ks \o p) \o d /\ RowsHold(Rows(kv, Len(ks), p \o d), (ks \o p) \o d)
        BY Zenon, <1>4, <1>5, <1>8, <2>4, AllHolds
      <4>3. ks' = ks \o (p \o d) /\ kv' = Rows(kv, Len(ks), p \o d)
        BY Zenon, <1>6, <2>4, <2>6, <3>1 DEF w
      <4> QED
        BY Zenon, <2>4, <4>1, <4>2, <4>3
    <3>2. CASE m # Len(d)
      <4>1. acc = p \o x
        BY <1>4, <1>11, <1>17, <2>1, <3>2
      <4>2. /\ ks \o (p \o x) = (ks \o p) \o x
            /\ RowsHold(Rows(Rows(kv, Len(ks), fed), Len(ks), p \o x), (ks \o p) \o x)
        BY Zenon, <1>5, <1>8, <1>9, <1>13, <2>4, ReplayHolds
      <4>3. ks' = ks \o (p \o x) /\ kv' = Rows(Rows(kv, Len(ks), fed), Len(ks), p \o x)
        BY Zenon, <1>6, <2>4, <3>2, <4>1
      <4> QED
        BY Zenon, <2>4, <4>2, <4>3
    <3> QED
      BY <3>1, <3>2
  <2>10. cached' = Len(seq) + m
    <3>1. cached \in Nat /\ m \in Nat /\ Len(seq) = cached + 1 /\ cached' = cached + m + 1
      BY <1>3, <1>4, <1>6, <1>11
    <3> QED
      BY <3>1
  <2>11. /\ SubSeq(seq \o (SubSeq(d, 1, m) \o <<a>>), 1, Len(seq) + m) = seq \o SubSeq(d, 1, m)
         /\ Len(seq) + m <= Len(kv')
         /\ SubSeq(kv', 1, Len(seq) + m) = seq \o SubSeq(d, 1, m)
    <3>1. RowsHold(kv', seq \o SubSeq(d, 1, m))
      BY <2>9 DEF x
    <3> QED
      BY Zenon, <1>4, <1>5, <1>11, <1>12, <3>1, HoldsEmitted
  <2>12. ks' = SubSeq(seq \o e, 1, cached') /\ SubSeq(kv', 1, cached') = ks'
    BY Zenon, <1>15, <2>9, <2>10, <2>11 DEF x
  <2> QED
    BY Zenon, <2>8, <2>12
<1>22. Len(e) >= 1 /\ Len(e) <= gen - nout
  BY <1>4, <1>5, <1>11, <1>16
<1>23. StepTo(e)
  BY Zenon, <1>1, <1>6, <1>16, <1>18, <1>19, <1>20, <1>21, <1>22 DEF StepTo, DraftTo
<1> QED
  BY Zenon, <1>23

-----------------------------------------------------------------------------
(* The process.                                                            *)

\* A step of the loop keeps the invariant and says what the network says.
LEMMA StepKeeps ==
    ASSUME GreedyIsToken, Inv, Step
    PROVE  Inv' /\ Says /\ Stepping /\ UNCHANGED <<net, stage, file>>
<1>1. Stepping
  BY Zenon DEF Step, FirstStep, VerifyStep, PlainStep, FullStep
<1>2. PICK e : StepTo(e)
  BY Zenon, FirstTo, VerifyTo, PlainTo, FullTo DEF Step
<1>3. Inv' /\ Says
  BY <1>1, <1>2, StepToKeeps
<1>4. UNCHANGED <<net, stage, file>>
  BY Zenon, <1>2 DEF StepTo, Emit
<1> QED
  BY Zenon, <1>1, <1>3, <1>4

\* The initial state: no run, no file.
LEMMA InitInv == Init => Inv
<1> SUFFICES ASSUME Init PROVE Inv
  OBVIOUS
<1>1. <<>> \in Seq(Token) /\ Len(<<>>) = 0
  BY EmptySeq
<1>2. /\ stage = "off" /\ seq = <<>> /\ nout = 0 /\ gen = 0 /\ made = {} /\ cached = 0
      /\ ks = <<>> /\ kv = <<>> /\ dcached = 0 /\ dks = <<>> /\ dkv = <<>> /\ net \in Nets
      /\ drops = FALSE /\ tainted = FALSE /\ dfault = FALSE /\ first = TRUE /\ resumed = FALSE
      /\ file = NoFile
  BY Zenon DEF Init
<1>3. Types
  <2>1. {drops, tainted, dfault, first, resumed} \subseteq BOOLEAN
    BY Zenon, <1>2
  <2>2. T = 0 /\ Len(kv) = 0 /\ made \subseteq 1..T
    BY <1>1, <1>2 DEF T
  <2>3. seq \in Seq(Token) /\ ks \in Seq(Token) /\ kv \in Seq(Token)
        /\ dks \in Seq(Token) /\ dkv \in Seq(Token)
    BY <1>1, <1>2
  <2>4. stage \in {"off", "run", "saving"}
    BY <1>2
  <2>5. /\ nout \in Nat /\ gen \in Nat /\ nout <= gen /\ cached \in Nat /\ cached <= T
        /\ cached <= Len(kv) /\ dcached \in Nat
    BY <1>2, <2>2
  <2> QED
    BY Zenon, <1>2, <2>1, <2>2, <2>3, <2>4, <2>5 DEF Types
<1>4. Begun /\ Shape /\ Holds /\ DraftHolds
  BY <1>2 DEF Begun, Shape, Holds, DraftHolds
<1>5. Honest
  BY <1>2 DEF Honest, IsGreedy
<1>6. FileHolds
  BY Zenon, <1>2 DEF FileHolds, NoFile
<1> QED
  BY <1>3, <1>4, <1>5, <1>6 DEF Inv

\* A fresh run.
LEMMA StartInv ==
    ASSUME Inv, Start
    PROVE  Inv'
<1>1. <<>> \in Seq(Token) /\ Len(<<>>) = 0
  BY EmptySeq
<1>2. /\ stage' = "run" /\ gen' \in Gens /\ opt' \in Options /\ seq' \in Prompts
      /\ nout' = 0 /\ first' = TRUE /\ made' = {} /\ resumed' = FALSE
      /\ cached' = 0 /\ ks' = <<>> /\ kv' = <<>> /\ born' = arch'
      /\ dcached' = 0 /\ dks' = <<>> /\ dkv' = <<>> /\ dfault' = FALSE
      /\ drops' = FALSE /\ tainted' = FALSE /\ net' = net /\ file' = file
  BY Zenon DEF Start
<1>3. seq' \in Seq(Tok) /\ Len(seq') > 0 /\ gen' \in Nat /\ opt' \in Option
  BY <1>2, DecodeAssumption
<1>4. seq' \in Seq(Token) /\ T' = Len(seq') /\ T' \in Nat
  BY <1>3, TokIsToken, LenProperties DEF T
<1>5. Types'
  <2>1. net' \in Nets
    BY Zenon, <1>2 DEF Inv, Types
  <2>2. cached' \in Nat /\ cached' <= T' /\ cached' <= Len(kv')
    BY <1>1, <1>2, <1>4
  <2>3. nout' \in Nat /\ nout' <= gen'
    BY <1>2, <1>3
  <2> QED
    BY Zenon, <1>1, <1>2, <1>3, <1>4, <2>1, <2>2, <2>3 DEF Types
<1>6. Begun' /\ Shape'
  BY <1>2, <1>3, <1>4 DEF Begun, Shape
<1>7. Holds'
  <2>1. SubSeq(seq', 1, 0) = <<>> /\ SubSeq(<<>>, 1, 0) = <<>>
    BY SubSeqEmpty
  <2> QED
    BY Zenon, <1>2, <1>3, <2>1 DEF Holds
<1>8. DraftHolds'
  BY Zenon, <1>2 DEF DraftHolds
<1>9. Honest'
  BY Zenon, <1>2 DEF Honest, IsGreedy
<1>10. FileHolds'
  BY Zenon, <1>2 DEF Inv, FileHolds
<1> QED
  BY Zenon, <1>5, <1>6, <1>7, <1>8, <1>9, <1>10 DEF Inv

\* What a run that resumes finds in the file.
LEMMA ResumeInv ==
    ASSUME Inv, Resume
    PROVE  Inv' /\ Len(file.seq) >= 1
<1>1. <<>> \in Seq(Token)
  BY EmptySeq
<1>2. /\ stage' = "run" /\ gen' \in Gens /\ opt' \in Options /\ arch' = file.arch
      /\ nout' = 0 /\ first' = TRUE /\ made' = file.made /\ resumed' = TRUE
      /\ cached' = file.cached /\ ks' = file.ks /\ kv' = file.kv /\ born' = file.arch
      /\ dcached' = 0 /\ dks' = <<>> /\ dkv' = <<>> /\ dfault' = FALSE
      /\ drops' = FALSE /\ tainted' = file.tainted /\ net' = net /\ file' = file
      /\ file.kind = "whole"
  BY Zenon DEF Resume, Loadable
<1>3. PICK p \in Prompts : seq' = file.seq \o p
  BY Zenon DEF Resume
<1>4. p \in Seq(Tok) /\ p \in Seq(Token) /\ Len(p) > 0 /\ Len(p) \in Nat
      /\ gen' \in Nat /\ opt' \in Option
  BY <1>2, DecodeAssumption, TokIsToken, LenProperties
<1> DEFINE fs == file.seq
           fc == file.cached
<1>5. /\ fs \in Seq(Token) /\ Len(fs) >= 1 /\ file.tainted \in BOOLEAN
      /\ file.made \subseteq 1..Len(fs)
      /\ fc \in Nat /\ fc <= Len(fs)
      /\ file.ks \in Seq(Token) /\ file.kv \in Seq(Token) /\ Len(file.kv) = fc
      /\ ~file.tainted =>
           /\ fs \in Seq(Tok)
           /\ file.ks = SubSeq(fs, 1, fc) /\ file.kv = file.ks
           /\ \A i \in file.made : fs[i] = Greedy(net, SubSeq(fs, 1, i - 1))
  BY Zenon, <1>2 DEF Inv, FileHolds
<1>6. seq' = fs \o p /\ cached' = fc
  BY <1>2, <1>3
<1> HIDE DEF fs, fc
<1>7. /\ seq' \in Seq(Token) /\ T' = Len(fs) + Len(p) /\ T' \in Nat /\ Len(fs) \in Nat
      /\ \A i \in 1..Len(fs) : seq'[i] = fs[i]
  <2>1. /\ fs \o p \in Seq(Token) /\ Len(fs \o p) = Len(fs) + Len(p)
        /\ \A i \in 1..(Len(fs) + Len(p)) : (fs \o p)[i] = IF i <= Len(fs) THEN fs[i] ELSE p[i - Len(fs)]
    BY <1>4, <1>5, ConcatProperties
  <2>2. Len(fs) \in Nat
    BY Zenon, <1>5, LenProperties
  <2> QED
    BY <1>4, <1>6, <2>1, <2>2 DEF T
<1>8. \A i \in 0..Len(fs) : SubSeq(seq', 1, i) = SubSeq(fs, 1, i)
  BY Zenon, <1>4, <1>5, <1>6, PrefixInConcat
<1>9. Types'
  <2>1. net' \in Nets
    BY Zenon, <1>2 DEF Inv, Types
  <2>2. cached' \in Nat /\ cached' <= T' /\ cached' <= Len(kv')
    BY SMTT(30), <1>2, <1>4, <1>5, <1>6, <1>7
  <2>3. nout' \in Nat /\ nout' <= gen'
    BY <1>2, <1>4
  <2>4. made' \subseteq 1..T'
    BY SMTT(30), <1>2, <1>4, <1>5, <1>7
  <2>5. {drops', tainted', dfault', first', resumed'} \subseteq BOOLEAN
    BY Zenon, <1>2, <1>5
  <2>6. stage' \in {"off", "run", "saving"} /\ dcached' \in Nat
    BY Zenon, <1>2
  <2> QED
    BY Zenon, <1>1, <1>2, <1>4, <1>5, <1>7, <2>1, <2>2, <2>3, <2>4, <2>5, <2>6 DEF Types
<1>10. Begun'
  BY <1>4, <1>7 DEF Begun
<1>11. Shape'
  <2>1. cached' < T'
    BY SMTT(30), <1>4, <1>5, <1>6, <1>7
  <2> QED
    BY Zenon, <1>2, <1>4, <2>1 DEF Shape
<1>12. Holds'
  <2> SUFFICES ASSUME ~tainted'
               PROVE  /\ seq' \in Seq(Tok) /\ born' = arch'
                      /\ ks' = SubSeq(seq', 1, cached') /\ SubSeq(kv', 1, cached') = ks'
    BY Zenon DEF Holds
  <2>1. fs \in Seq(Tok) /\ ks' = SubSeq(fs, 1, fc) /\ kv' = ks'
    BY Zenon, <1>2, <1>5
  <2>2. seq' \in Seq(Tok)
    BY Zenon, <1>4, <1>6, <2>1, ConcatProperties
  <2>3. fc \in 0..Len(fs)
    BY <1>5, <1>7
  <2>4. SubSeq(seq', 1, cached') = SubSeq(fs, 1, fc)
    BY <1>6, <1>8, <2>3
  <2>5. SubSeq(kv', 1, cached') = kv'
    <3>1. kv' \in Seq(Token) /\ Len(kv') = cached'
      BY Zenon, <1>2, <1>5, <1>6
    <3> QED
      BY <3>1, SubSeqFull
  <2> QED
    BY Zenon, <1>2, <2>1, <2>2, <2>4, <2>5
<1>13. DraftHolds'
  BY Zenon, <1>2 DEF DraftHolds
<1>14. Honest'
  <2>1. ~tainted' => IsGreedy'
    <3> SUFFICES ASSUME ~tainted', NEW i \in made'
                 PROVE  seq'[i] = Greedy(net, SubSeq(seq', 1, i - 1))
      BY Zenon, <1>2 DEF IsGreedy
    <3>1. i \in 1..Len(fs) /\ fs[i] = Greedy(net, SubSeq(fs, 1, i - 1))
      BY Zenon, <1>2, <1>5
    <3>2. i - 1 \in 0..Len(fs)
      BY <1>7, <3>1
    <3> QED
      BY Zenon, <1>7, <1>8, <3>1, <3>2
  <2> QED
    BY Zenon, <1>2, <2>1 DEF Honest
<1>15. FileHolds'
  BY Zenon, <1>2 DEF Inv, FileHolds
<1> QED
  BY Zenon, <1>5, <1>9, <1>10, <1>11, <1>12, <1>13, <1>14, <1>15 DEF Inv, fs

\* A step that changes neither text nor state.
LEMMA QuietInv ==
    ASSUME Inv, UNCHANGED <<net, run, exact, draft, drops, tainted>>,
           stage' \in {"off", "run", "saving"}, stage' # "off" => stage # "off",
           stage' = "off" /\ exit' = 0 => ~drops, FileHolds'
    PROVE  Inv'
<1>1. /\ UNCHANGED <<net, arch, gen, opt, seq, nout, first, made, resumed>>
      /\ UNCHANGED <<cached, ks, kv, born, dcached, dks, dkv, dfault, drops, tainted>>
  BY Zenon DEF run, exact, draft
<1>2. Types'
  BY Zenon, <1>1 DEF Inv, Types, T
<1>3. Begun' /\ Shape'
  BY Zenon, <1>1 DEF Inv, Begun, Shape, T, Incremental
<1>4. Holds'
  BY <1>1 DEF Inv, Holds
<1>5. DraftHolds'
  BY Zenon, <1>1 DEF Inv, DraftHolds, Hybrid
<1>6. Honest'
  <2>1. IsGreedy' = IsGreedy
    BY Zenon, <1>1 DEF IsGreedy
  <2> QED
    BY <1>1, <2>1 DEF Inv, Honest
<1> QED
  BY Zenon, <1>2, <1>3, <1>4, <1>5, <1>6 DEF Inv

\* The state file is an image of the state.
LEMMA ImageHolds ==
    ASSUME Inv, stage # "off", file' = Image, net' = net
    PROVE  FileHolds'
<1>1. Types /\ Holds /\ Honest /\ T >= 1 /\ T = Len(seq)
  BY DEF Inv, Begun, T
<1>2. /\ file'.kind = "whole" /\ file'.seq = seq /\ file'.made = made
      /\ file'.tainted = tainted /\ file'.cached = cached /\ file'.ks = ks
      /\ file'.kv = SubSeq(kv, 1, cached)
  BY Zenon DEF Image
<1>3. /\ SubSeq(kv, 1, cached) \in Seq(Token) /\ Len(SubSeq(kv, 1, cached)) = cached
  <2>1. kv \in Seq(Token) /\ cached \in Nat /\ cached <= Len(kv) /\ Len(kv) \in Nat
    BY Zenon, <1>1, LenProperties DEF Types
  <2>2. cached \in 0..Len(kv)
    BY <2>1
  <2> QED
    BY Zenon, <2>1, <2>2, PrefixFacts
<1>4. /\ seq \in Seq(Token) /\ tainted \in BOOLEAN /\ made \subseteq 1..Len(seq)
      /\ cached \in Nat /\ cached <= Len(seq) /\ ks \in Seq(Token)
  BY Zenon, <1>1 DEF Types
<1>5. ~tainted => /\ seq \in Seq(Tok) /\ ks = SubSeq(seq, 1, cached) /\ SubSeq(kv, 1, cached) = ks
                  /\ \A i \in made : seq[i] = Greedy(net, SubSeq(seq, 1, i - 1))
  BY Zenon, <1>1 DEF Holds, Honest, IsGreedy
<1>6. Len(seq) >= 1
  BY Zenon, <1>1
<1> QED
  BY Zenon, <1>2, <1>3, <1>4, <1>5, <1>6 DEF FileHolds

LEMMA NextInv ==
    ASSUME GreedyIsToken, Inv, [Next]_vars
    PROVE  Inv'
<1>1. stage \in {"off", "run", "saving"} /\ drops \in BOOLEAN /\ FileHolds
  BY Zenon DEF Inv, Types
<1>2. file' = file /\ net' = net => FileHolds'
  BY Zenon, <1>1 DEF FileHolds
<1>3. ExitCode = 0 => ~drops
  BY DEF ExitCode
<1>4. CASE Start
  BY Zenon, <1>4, StartInv
<1>5. CASE Resume
  BY <1>5, ResumeInv
<1>6. CASE Refuse
  <2>1. /\ stage' = stage /\ exit' = 1 /\ net' = net /\ file' = file
        /\ UNCHANGED <<net, run, exact, draft, drops, tainted>>
    BY Zenon, <1>6 DEF Refuse
  <2> QED
    BY <1>1, <1>2, <2>1, QuietInv
<1>7. CASE Step
  BY Zenon, <1>7, StepKeeps
<1>8. CASE Abort
  <2>1. /\ stage' = "off" /\ exit' = 1 /\ net' = net /\ file' = file
        /\ UNCHANGED <<net, run, exact, draft, drops, tainted>>
    BY Zenon, <1>8 DEF Abort
  <2> QED
    BY <1>2, <2>1, QuietInv
<1>9. CASE Finish \/ SaveFails
  <2>1. /\ stage' = "off" /\ exit' = ExitCode /\ net' = net /\ file' = file
        /\ UNCHANGED <<net, run, exact, draft, drops, tainted>>
    BY Zenon, <1>9 DEF Finish, SaveFails
  <2> QED
    BY Zenon, <1>2, <1>3, <2>1, QuietInv
<1>10. CASE SaveOpen
  <2>1. /\ stage = "run" /\ stage' = "saving" /\ file'.kind = "torn"
        /\ UNCHANGED <<net, run, exact, draft, drops, tainted>>
    BY <1>10 DEF SaveOpen, Image
  <2>2. FileHolds'
    BY Zenon, <2>1 DEF FileHolds
  <2> QED
    BY Zenon, <2>1, <2>2, QuietInv
<1>11. CASE SaveDone
  <2>1. /\ stage = "saving" /\ stage' = "off" /\ exit' = ExitCode /\ file' = Image /\ net' = net
        /\ UNCHANGED <<net, run, exact, draft, drops, tainted>>
    BY Zenon, <1>11 DEF SaveDone
  <2>2. FileHolds'
    BY Zenon, <2>1, ImageHolds
  <2> QED
    BY Zenon, <1>3, <2>1, <2>2, QuietInv
<1>12. CASE Crash
  <2>1. /\ stage' = "off" /\ exit' = 137 /\ net' = net /\ file' = file
        /\ UNCHANGED <<net, run, exact, draft, drops, tainted>>
    BY Zenon, <1>12 DEF Crash, Killed
  <2> QED
    BY <1>2, <2>1, QuietInv
<1>13. CASE UNCHANGED vars
  <2>1. /\ stage' = stage /\ exit' = exit /\ net' = net /\ file' = file
        /\ UNCHANGED <<net, run, exact, draft, drops, tainted>>
    BY Zenon, <1>13 DEF vars
  <2>2. stage = "off" /\ exit = 0 => ~drops
    BY DEF Inv, Honest
  <2> QED
    BY Zenon, <1>1, <1>2, <2>1, <2>2, QuietInv
<1> QED
  BY Zenon, <1>4, <1>5, <1>6, <1>7, <1>8, <1>9, <1>10, <1>11, <1>12, <1>13 DEF Next

\* The inductive invariant holds throughout.
LEMMA Invariance == ASSUME GreedyIsToken PROVE Spec => []Inv
  BY InitInv, NextInv, PTL DEF Spec

\* Between the steps of k3_run's loop the recurrent state and the KV rows hold
\* the same text, up to the pending token: after a rejected draft, after a
\* resume, and whatever the draft model or the n-gram search proposes.
THEOREM CarriesHistoryHolds == ASSUME GreedyIsToken PROVE Spec => []CarriesHistory
<1>1. Inv => CarriesHistory
  BY Zenon DEF Inv, Holds, Shape, CarriesHistory
<1> QED
  BY <1>1, Invariance, PTL

\* The draft model follows the exact one in every step, as long as its own
\* sweeps succeed.
THEOREM DraftInStepHolds == ASSUME GreedyIsToken PROVE Spec => []DraftInStep
<1>1. Inv => DraftInStep
  BY Zenon DEF Inv, DraftHolds, DraftInStep
<1> QED
  BY <1>1, Invariance, PTL

\* Exit code 0 of a run that did not resume says that its output is exact.
THEOREM FreshZeroIsExactHolds == ASSUME GreedyIsToken PROVE Spec => []FreshZeroIsExact
<1>1. Inv => FreshZeroIsExact
  BY Zenon DEF Inv, Types, Honest, FreshZeroIsExact
<1> QED
  BY <1>1, Invariance, PTL

-----------------------------------------------------------------------------
(* The refinement.                                                         *)

\* What the state file says, in terms of the conversation.
Stored == IF file.kind = "whole" THEN [text |-> file.seq, sound |-> ~file.tainted]
          ELSE [text |-> <<>>, sound |-> TRUE]

LEMMA InitRefines == Init => Promise!Init
<1> SUFFICES ASSUME Init PROVE Promise!Init
  OBVIOUS
<1>1. net \in Nets /\ seq = <<>> /\ stage = "off" /\ tainted = FALSE /\ file.kind # "whole"
  BY Zenon DEF Init, NoFile
<1>2. (stage # "off") = FALSE /\ (~tainted) = TRUE
  BY Zenon, <1>1
<1>3. Stored = [text |-> <<>>, sound |-> TRUE]
  BY Zenon, <1>1 DEF Stored
<1> QED
  BY Zenon, <1>1, <1>2, <1>3 DEF Promise!Init, Promise!Nothing, Stored

\* A run ends without a new file.
LEMMA StopRefines ==
    ASSUME stage # "off", stage' = "off", UNCHANGED <<net, seq, tainted, file>>
    PROVE  Promise!Stop
<1>1. Stored' = Stored
  BY Zenon DEF Stored
<1> QED
  BY Zenon, <1>1 DEF Promise!Stop, Stored

LEMMA NextRefines ==
    ASSUME GreedyIsToken, Inv, [Next]_vars
    PROVE  [Promise!Next]_(Promise!vars)
<1>1. file' = file => Stored' = Stored
  BY Zenon DEF Stored
<1>2. CASE Start
  <2>1. /\ stage = "off" /\ stage' = "run" /\ seq' \in Prompts /\ tainted' = FALSE
        /\ net' = net /\ Stored' = Stored
    BY Zenon, <1>1, <1>2 DEF Start
  <2>2. (~tainted') = TRUE
    BY Zenon, <2>1
  <2>3. Promise!Begin
    BY Zenon, <2>1, <2>2 DEF Promise!Begin, Stored
  <2> QED
    BY Zenon, <2>3 DEF Promise!Next
<1>3. CASE Resume
  <2>1. /\ stage = "off" /\ stage' = "run" /\ tainted' = file.tainted
        /\ net' = net /\ file' = file /\ file.kind = "whole"
    BY Zenon, <1>3 DEF Resume, Loadable
  <2>2. PICK p \in Prompts : seq' = file.seq \o p
    BY Zenon, <1>3 DEF Resume
  <2>3. Stored = [text |-> file.seq, sound |-> ~file.tainted]
    BY Zenon, <2>1 DEF Stored
  <2>4. Stored.text = file.seq /\ Stored.sound = ~file.tainted
    BY Zenon, <2>3
  <2>5. file.seq # <<>>
    <3>1. Len(file.seq) >= 1
      BY <1>3, ResumeInv
    <3> QED
      BY <3>1, EmptySeq
  <2>6. Stored # [text |-> <<>>, sound |-> TRUE]
    BY <2>4, <2>5
  <2>7. seq' = Stored.text \o p /\ (~tainted') = Stored.sound
    BY Zenon, <2>1, <2>2, <2>4
  <2>8. Promise!Begin
    BY Zenon, <1>1, <2>1, <2>6, <2>7 DEF Promise!Begin, Promise!Nothing, Stored
  <2> QED
    BY <2>8 DEF Promise!Next
<1>4. CASE Refuse
  <2>1. stage' = stage /\ UNCHANGED <<net, seq, tainted, file>>
    BY <1>4 DEF Refuse, run
  <2>2. UNCHANGED Promise!vars
    BY Zenon, <2>1 DEF Promise!vars
  <2> QED
    BY <2>2
<1>5. CASE Step
  <2>1. Says /\ stage = "run" /\ UNCHANGED <<net, stage, file>>
    BY <1>5, StepKeeps DEF Stepping
  <2>2. Promise!Say
    BY Zenon, <1>1, <2>1 DEF Says, T, Promise!Say, Stored
  <2> QED
    BY <2>2 DEF Promise!Next
<1>6. CASE Abort \/ Finish \/ SaveFails \/ Crash
  <2>1. stage # "off" /\ stage' = "off" /\ UNCHANGED <<net, seq, tainted, file>>
    BY Zenon, <1>6 DEF Abort, Finish, SaveFails, Crash, Stepping, run
  <2> QED
    BY <2>1, StopRefines DEF Promise!Next
<1>7. CASE SaveOpen
  <2>1. /\ stage = "run" /\ stage' = "saving" /\ file'.kind = "torn"
        /\ UNCHANGED <<net, seq, tainted>>
    BY <1>7 DEF SaveOpen, Image, run
  <2>2. Stored' = [text |-> <<>>, sound |-> TRUE]
    BY Zenon, <2>1 DEF Stored
  <2>3. (stage' # "off") = (stage # "off")
    BY Zenon, <2>1
  <2>4. Promise!Tear
    BY Zenon, <2>1, <2>2, <2>3 DEF Promise!Tear, Promise!Nothing, Stored
  <2> QED
    BY <2>4 DEF Promise!Next
<1>8. CASE SaveDone
  <2>1. /\ stage = "saving" /\ stage' = "off" /\ file' = Image
        /\ UNCHANGED <<net, seq, tainted>>
    BY Zenon, <1>8 DEF SaveDone, run
  <2>2. file'.kind = "whole" /\ file'.seq = seq /\ file'.tainted = tainted
    BY Zenon, <2>1 DEF Image
  <2>3. Stored' = [text |-> seq, sound |-> ~tainted]
    BY Zenon, <2>2 DEF Stored
  <2>4. Promise!Store
    BY Zenon, <2>1, <2>3 DEF Promise!Store, Stored
  <2> QED
    BY <2>4 DEF Promise!Next
<1>9. CASE UNCHANGED vars
  <2>1. stage' = stage /\ UNCHANGED <<net, seq, tainted, file>>
    BY Zenon, <1>9 DEF vars, run
  <2>2. UNCHANGED Promise!vars
    BY <2>1 DEF Promise!vars
  <2> QED
    BY <2>2
<1> QED
  BY Zenon, <1>2, <1>3, <1>4, <1>5, <1>6, <1>7, <1>8, <1>9 DEF Next

\* k3_run is a conversation: incremental, speculative, hybrid and resumed
\* decode, across crashes and torn state files, say what serial greedy decode
\* says, unless an expert was dropped.
THEOREM ConversationRefines == ASSUME GreedyIsToken PROVE Spec => ImplementsChat
  BY InitRefines, NextRefines, Invariance, PTL DEF Spec, ImplementsChat, Promise!Spec
=============================================================================
