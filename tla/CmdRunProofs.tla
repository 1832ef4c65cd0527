---------------------------- MODULE CmdRunProofs ----------------------------
(***************************************************************************)
(* What the sequence state of qwen3 keeps for every number of layers and   *)
(* positions, under any caller that leaves no gap, and what `engine run`   *)
(* prints with it.                                                         *)
(***************************************************************************)
EXTENDS CmdRun, SequenceTheorems, TLAPS

-----------------------------------------------------------------------------
(* Prefixes.                                                               *)

\* A prefix is a sequence of its length with the same elements.
LEMMA PrefixFacts ==
    ASSUME NEW S, NEW s \in Seq(S), NEW k \in 0..Len(s)
    PROVE  /\ Prefix(s, k) \in Seq(S) /\ Len(Prefix(s, k)) = k
           /\ \A i \in 1..k : Prefix(s, k)[i] = s[i]
  BY SubSeqProperties DEF Prefix

\* A prefix of a prefix.
LEMMA PrefixOfPrefix ==
    ASSUME NEW S, NEW s \in Seq(S), NEW k \in 0..Len(s), NEW j \in 0..k
    PROVE  Prefix(Prefix(s, k), j) = Prefix(s, j)
<1>1. /\ Prefix(s, k) \in Seq(S) /\ Len(Prefix(s, k)) = k
      /\ \A i \in 1..k : Prefix(s, k)[i] = s[i]
  BY PrefixFacts
<1>2. /\ Prefix(s, j) \in Seq(S) /\ Len(Prefix(s, j)) = j
      /\ \A i \in 1..j : Prefix(s, j)[i] = s[i]
  BY PrefixFacts
<1>3. /\ Prefix(Prefix(s, k), j) \in Seq(S) /\ Len(Prefix(Prefix(s, k), j)) = j
      /\ \A i \in 1..j : Prefix(Prefix(s, k), j)[i] = Prefix(s, k)[i]
  BY <1>1, PrefixFacts
<1> QED
  BY <1>1, <1>2, <1>3, SeqEqual

\* Appending does not disturb shorter prefixes.
LEMMA PrefixOfAppend ==
    ASSUME NEW S, NEW s \in Seq(S), NEW e \in S, NEW k \in 0..Len(s)
    PROVE  Prefix(Append(s, e), k) = Prefix(s, k)
<1>1. /\ Append(s, e) \in Seq(S) /\ Len(Append(s, e)) = Len(s) + 1
      /\ \A i \in 1..Len(s) : Append(s, e)[i] = s[i]
  BY AppendProperties
<1>2. /\ Prefix(s, k) \in Seq(S) /\ Len(Prefix(s, k)) = k
      /\ \A i \in 1..k : Prefix(s, k)[i] = s[i]
  BY PrefixFacts
<1>3. k \in 0..Len(Append(s, e)) /\ Len(s) \in Nat
  BY <1>1, LenProperties
<1>4. /\ Prefix(Append(s, e), k) \in Seq(S) /\ Len(Prefix(Append(s, e), k)) = k
      /\ \A i \in 1..k : Prefix(Append(s, e), k)[i] = Append(s, e)[i]
  BY Zenon, <1>1, <1>3, PrefixFacts
<1> QED
  BY <1>1, <1>2, <1>3, <1>4, SeqEqual

\* A sequence is its longest prefix.
LEMMA PrefixWhole ==
    ASSUME NEW S, NEW s \in Seq(S)
    PROVE  Prefix(s, Len(s)) = s
<1>1. Len(s) \in 0..Len(s)
  BY LenProperties
<1> QED
  BY <1>1, PrefixFacts, SeqEqual

\* The next longer prefix.
LEMMA PrefixGrows ==
    ASSUME NEW S, NEW s \in Seq(S), NEW k \in 0..(Len(s) - 1)
    PROVE  Append(Prefix(s, k), s[k + 1]) = Prefix(s, k + 1) /\ s[k + 1] \in S
<1>1. Len(s) \in Nat /\ k \in 0..Len(s) /\ k + 1 \in 0..Len(s) /\ k + 1 \in 1..Len(s)
  BY LenProperties
<1>2. s[k + 1] \in S
  BY <1>1, ElementOfSeq
<1>3. /\ Prefix(s, k) \in Seq(S) /\ Len(Prefix(s, k)) = k
      /\ \A i \in 1..k : Prefix(s, k)[i] = s[i]
  BY <1>1, PrefixFacts
<1>4. /\ Prefix(s, k + 1) \in Seq(S) /\ Len(Prefix(s, k + 1)) = k + 1
      /\ \A i \in 1..(k + 1) : Prefix(s, k + 1)[i] = s[i]
  BY <1>1, PrefixFacts
<1> DEFINE a == Append(Prefix(s, k), s[k + 1])
<1>5. /\ a \in Seq(S) /\ Len(a) = k + 1
      /\ \A i \in 1..k : a[i] = Prefix(s, k)[i]
      /\ a[k + 1] = s[k + 1]
  BY <1>2, <1>3, AppendProperties
<1>6. \A i \in 1..(k + 1) : a[i] = Prefix(s, k + 1)[i]
  BY <1>1, <1>3, <1>4, <1>5
<1> HIDE DEF a
<1>7. a = Prefix(s, k + 1)
  BY <1>1, <1>4, <1>5, <1>6, SeqEqual
<1> QED
  BY <1>2, <1>7 DEF a

-----------------------------------------------------------------------------
(* The sequence state.                                                     *)

SeqTypes ==
    /\ rows \in [Layer -> [Position -> Value]]
    /\ n_seen \in Nat
    /\ path \in Seq(Tok) /\ Len(path) <= Context
    /\ call.token \in Tok /\ call.pos \in Position
    /\ L \in 0..NLayers
    /\ pc \in {"idle", "layers", "head"}

\* The history with the token being decoded.
Longer == Append(path, call.token)

\* In the middle of a decode the layers passed have the new position's row,
\* and the residual stream is what the next layer expects: the token itself
\* before layer 0, the whole history after it.
SeqInv ==
    /\ SeqTypes
    /\ RowsHoldPath
    /\ pc # "idle" =>
         /\ Len(path) = call.pos
         /\ \A l \in Layer : l < L => rows[l][call.pos] = RowOf(Longer, l, call.pos)
         /\ x = IF L = 0 THEN <<call.token>> ELSE Longer
    /\ pc = "layers" => L < NLayers
    /\ pc = "head" => L = NLayers
    /\ LogitsOfPath

\* The constants' facts that the steps below use.
LEMMA Sizes == NLayers \in Nat /\ NLayers >= 1 /\ Context \in Nat /\ Context >= 1
  BY SeqStateAssumption

\* The state is created with no history.
LEMMA SeqInit == Init => SeqInv
<1> SUFFICES ASSUME Init PROVE SeqInv
  OBVIOUS
<1>1. path = <<>> /\ path \in Seq(Tok) /\ Len(path) = 0
  BY EmptySeq DEF Init
<1>2. SeqTypes
  <2>1. rows \in [Layer -> [Position -> Value]]
    <3>1. <<>> \in Value
      BY EmptySeq DEF Value
    <3> QED
      BY <3>1 DEF Init
  <2>2. call.token \in Tok /\ call.pos \in Position
    <3>1. 0 \in Position
      BY Sizes DEF Position
    <3> QED
      BY <3>1 DEF Init
  <2>3. n_seen \in Nat /\ L \in 0..NLayers /\ pc = "idle"
    BY Sizes DEF Init
  <2> QED
    BY <1>1, <2>1, <2>2, <2>3, Sizes DEF SeqTypes
<1>3. RowsHoldPath
  BY <1>1 DEF RowsHoldPath
<1>4. pc = "idle" /\ calls = 0
  BY DEF Init
<1> QED
  BY <1>2, <1>3, <1>4 DEF SeqInv, LogitsOfPath

\* A decode begins at a position of the history or right behind it: what is
\* kept of the history still has its rows.
LEMMA BeginStep ==
    ASSUME SeqInv, NEW tok \in Tok, NEW p \in 0..Len(path), NEW want,
           DecodeBegin(tok, p, want)
    PROVE  SeqInv'
<1>1. SeqTypes /\ RowsHoldPath
  BY DEF SeqInv
<1>2. /\ p \in Position /\ call' = [token |-> tok, pos |-> p, want |-> want]
      /\ x' = <<tok>> /\ L' = 0 /\ pc' = "layers" /\ path' = Prefix(path, p)
      /\ UNCHANGED <<rows, n_seen>>
  BY DEF DecodeBegin, stateVars
<1>3. /\ path' \in Seq(Tok) /\ Len(path') = p
      /\ \A i \in 1..p : path'[i] = path[i]
  BY <1>1, <1>2, PrefixFacts DEF SeqTypes
<1>4. p \in Nat /\ p <= Context
  BY <1>2, Sizes DEF Position
<1>5. SeqTypes'
  BY <1>1, <1>2, <1>3, <1>4, Sizes DEF SeqTypes
<1>6. RowsHoldPath'
  <2> SUFFICES ASSUME NEW l \in Layer, NEW t \in 0..(p - 1)
               PROVE  rows[l][t] = RowOf(path', l, t)
    BY <1>2, <1>3 DEF RowsHoldPath
  <2>1. t \in 0..(Len(path) - 1) /\ t + 1 \in 1..p /\ t + 1 \in 0..p
    BY <1>1, <1>4, LenProperties DEF SeqTypes
  <2>2. rows[l][t] = RowOf(path, l, t)
    BY <1>1, <2>1 DEF RowsHoldPath
  <2>3. Prefix(path', t + 1) = Prefix(path, t + 1)
    BY <1>1, <1>2, <2>1, PrefixOfPrefix DEF SeqTypes
  <2> QED
    BY <1>3, <2>1, <2>2, <2>3 DEF RowOf
<1>7. ASSUME NEW l \in Layer PROVE ~(l < L')
  BY <1>2 DEF Layer
<1> QED
  BY <1>2, <1>3, <1>5, <1>6, <1>7, Sizes DEF SeqInv, LogitsOfPath

\* A call that is refused changes nothing but its result.
LEMMA RefusedStep ==
    ASSUME SeqInv, NEW tok, NEW p, NEW want, DecodeRefused(tok, p, want)
    PROVE  SeqInv'
  BY DEF SeqInv, SeqTypes, RowsHoldPath, LogitsOfPath, Longer, DecodeRefused, stateVars,
         callVars

\* The history with the token being decoded is a history.
LEMMA LongerFacts ==
    ASSUME SeqTypes
    PROVE  /\ Longer \in Seq(Tok) /\ Len(Longer) = Len(path) + 1 /\ Longer # Mixed
           /\ Len(path) \in Nat
           /\ \A i \in 1..Len(path) : Longer[i] = path[i]
           /\ Longer[Len(path) + 1] = call.token
           /\ \A k \in 0..Len(path) : Prefix(Longer, k) = Prefix(path, k)
<1>1. path \in Seq(Tok) /\ call.token \in Tok
  BY DEF SeqTypes
<1>2. /\ Longer \in Seq(Tok) /\ Len(Longer) = Len(path) + 1 /\ Len(path) \in Nat
      /\ \A i \in 1..Len(path) : Longer[i] = path[i]
      /\ Longer[Len(path) + 1] = call.token
  BY <1>1, AppendProperties, LenProperties DEF Longer
<1>3. \A k \in 0..Len(path) : Prefix(Longer, k) = Prefix(path, k)
  BY <1>1, PrefixOfAppend DEF Longer
<1> QED
  BY <1>2, <1>3, SeqStateAssumption

\* The rows of the history are the rows of the longer one.
LEMMA RowOfLonger ==
    ASSUME SeqTypes, NEW l \in Layer, NEW t \in 0..(Len(path) - 1)
    PROVE  RowOf(Longer, l, t) = RowOf(path, l, t)
<1>1. Len(path) \in Nat
  BY LongerFacts
<1>2. t + 1 \in 1..Len(path) /\ t + 1 \in 0..Len(path)
  BY <1>1
<1> QED
  BY <1>2, LongerFacts DEF RowOf

\* Attention over rows that hold the history yields the longer history.
LEMMA AttendsHistory ==
    ASSUME SeqInv, pc = "layers", LayerStep
    PROVE  /\ x' = Longer
           /\ rows' = [rows EXCEPT ![L] = Store(rows[L], call.pos, x)]
           /\ x = RowOf(Longer, L, call.pos) /\ L \in Layer /\ x \in Value
<1>1. SeqTypes /\ RowsHoldPath /\ Len(path) = call.pos /\ L \in Layer
  BY Sizes DEF SeqInv, SeqTypes, Layer
<1> DEFINE p == call.pos
           layer == Store(rows[L], p, x)
<1>2. p \in Nat /\ p \in Position /\ p = Len(path) /\ rows[L] \in [Position -> Value]
  BY <1>1, LongerFacts DEF SeqTypes
<1>3. \A t \in 0..(p - 1) : t \in Position /\ layer[t] = RowOf(path, L, t)
  <2> TAKE t \in 0..(p - 1)
  <2>1. t \in Position /\ t # p
    BY <1>2, Sizes DEF Position
  <2>2. layer[t] = rows[L][t]
    BY <1>2, <2>1 DEF Store
  <2>3. rows[L][t] = RowOf(path, L, t)
    BY <1>1, <1>2 DEF RowsHoldPath
  <2> QED
    BY <2>1, <2>2, <2>3
<1>4. layer[p] = x
  BY <1>2 DEF Store
<1>5. /\ Longer \in Seq(Tok) /\ Len(Longer) = p + 1 /\ Longer # Mixed
      /\ \A i \in 1..p : Longer[i] = path[i]
      /\ Longer[p + 1] = call.token
      /\ \A k \in 0..p : Prefix(Longer, k) = Prefix(path, k)
  BY <1>1, <1>2, LongerFacts
<1>6. rows' = [rows EXCEPT ![L] = layer] /\ x' = Attend(layer, L, p, x)
  BY DEF LayerStep
<1> HIDE DEF layer, p
<1>7. CASE L = 0
  <2>1. x = <<call.token>> /\ call.token \in Tok
    BY <1>1, <1>7 DEF SeqInv, SeqTypes
  <2>2. \A t \in 0..p : layer[t] = <<Longer[t + 1]>>
    <3> TAKE t \in 0..p
    <3>1. CASE t = p
      BY <1>4, <1>5, <2>1, <3>1
    <3>2. CASE t # p
      <4>1. t \in 0..(p - 1) /\ t + 1 \in 1..p
        BY <1>2, <3>2
      <4> QED
        BY <1>3, <1>5, <1>7, <4>1 DEF RowOf
    <3> QED
      BY <3>1, <3>2
  <2>3. \A t \in 0..p : Len(layer[t]) = 1 /\ layer[t][1] = Longer[t + 1]
    BY <2>2
  <2>4. x' = [i \in 1..(p + 1) |-> layer[i - 1][1]]
    BY <1>6, <1>7, <2>3 DEF Attend
  <2>5. \A i \in 1..(p + 1) : layer[i - 1][1] = Longer[i]
    <3> TAKE i \in 1..(p + 1)
    <3>1. i - 1 \in 0..p /\ (i - 1) + 1 = i
      BY <1>2
    <3> QED
      BY <2>3, <3>1
  <2>6. Longer = [i \in 1..(p + 1) |-> Longer[i]]
    BY <1>5, LenProperties
  <2>7. x' = Longer
    BY <2>4, <2>5, <2>6
  <2>8. x = RowOf(Longer, L, p)
    BY <1>5, <1>7, <2>1 DEF RowOf
  <2>9. x \in Value
    BY <2>1 DEF Value
  <2> QED
    BY <1>1, <1>6, <2>7, <2>8, <2>9 DEF layer, p
<1>8. CASE L # 0
  <2>1. x = Longer
    BY <1>8 DEF SeqInv
  <2>2. \A t \in 0..(p - 1) : layer[t] = Prefix(x, t + 1)
    <3> TAKE t \in 0..(p - 1)
    <3>1. t + 1 \in 0..p
      BY <1>2
    <3> QED
      BY <1>3, <1>5, <1>8, <2>1, <3>1 DEF RowOf
  <2>3. x' = x
    BY <1>5, <1>6, <1>8, <2>1, <2>2 DEF Attend
  <2>4. x = RowOf(Longer, L, p)
    BY <1>5, <1>8, <2>1, PrefixWhole DEF RowOf
  <2> QED
    BY <1>1, <1>5, <1>6, <2>1, <2>3, <2>4 DEF layer, p, Value
<1> QED
  BY <1>7, <1>8

\* A layer is passed.
LEMMA LayerKeeps ==
    ASSUME SeqInv, LayerStep
    PROVE  SeqInv'
<1>1. pc = "layers" /\ SeqTypes /\ RowsHoldPath /\ Len(path) = call.pos
  BY DEF SeqInv, LayerStep
<1>2. /\ x' = Longer /\ x = RowOf(Longer, L, call.pos) /\ L \in Layer /\ x \in Value
      /\ rows' = [rows EXCEPT ![L] = Store(rows[L], call.pos, x)]
  BY <1>1, AttendsHistory
<1>3. /\ L' = L + 1 /\ pc' = IF L + 1 = NLayers THEN "head" ELSE "layers"
      /\ UNCHANGED <<n_seen, logits, call, ret, path, calls>>
  BY DEF LayerStep
<1>4. /\ rows' \in [Layer -> [Position -> Value]]
      /\ \A l \in Layer, t \in Position :
            rows'[l][t] = IF l = L /\ t = call.pos THEN x ELSE rows[l][t]
  BY <1>1, <1>2 DEF SeqTypes, Store
<1>5. L \in Int /\ L < NLayers /\ 0 <= L
  BY <1>2, Sizes DEF Layer
<1>6. SeqTypes'
  BY <1>1, <1>3, <1>4, <1>5, Sizes DEF SeqTypes
<1>7. \A l \in Layer, t \in 0..(Len(path) - 1) : t \in Position /\ t # call.pos
  BY <1>1, LongerFacts, Sizes DEF SeqTypes, Position
<1>8. RowsHoldPath'
  BY <1>1, <1>3, <1>4, <1>7 DEF RowsHoldPath
<1>9. ASSUME NEW l \in Layer, l < L'
      PROVE  rows'[l][call.pos] = RowOf(Longer, l, call.pos)
  <2>1. call.pos \in Position
    BY <1>1 DEF SeqTypes
  <2>2. CASE l = L
    BY <1>2, <1>4, <2>1, <2>2
  <2>3. CASE l # L
    <3>1. l < L
      BY <1>3, <1>5, <1>9, <2>3 DEF Layer
    <3> QED
      BY <1>1, <1>4, <2>1, <2>3, <3>1 DEF SeqInv
  <2> QED
    BY <2>2, <2>3
<1>10. L' # 0 /\ Longer' = Longer
  BY <1>3, <1>5 DEF Longer
<1>11. /\ pc' # "idle"
       /\ pc' = "layers" => L' < NLayers
       /\ pc' = "head" => L' = NLayers
  BY <1>3, <1>5, Sizes
<1>12. Len(path') = call'.pos /\ call' = call /\ x' = IF L' = 0 THEN <<call'.token>> ELSE Longer'
  BY <1>1, <1>2, <1>3, <1>10
<1>13. LogitsOfPath'
  BY <1>11 DEF LogitsOfPath
<1> QED
  BY <1>6, <1>8, <1>9, <1>10, <1>11, <1>12, <1>13 DEF SeqInv

\* decode fails somewhere: the rows of the history are as they were.
LEMMA FailKeeps ==
    ASSUME SeqInv, DecodeFails
    PROVE  SeqInv'
<1>1. UNCHANGED <<rows, n_seen, x, call, L, path, calls>> /\ pc' = "idle" /\ ret' = -1
  BY DEF DecodeFails, stateVars
<1> QED
  BY <1>1 DEF SeqInv, SeqTypes, RowsHoldPath, LogitsOfPath

\* decode returns: the history has grown by the token, and every layer has
\* its row.
LEMMA ReturnKeeps ==
    ASSUME SeqInv, DecodeReturns
    PROVE  SeqInv' /\ path' = Longer /\ (call.want => logits' = path')
<1>1. /\ pc = "head" /\ pc' = "idle" /\ path' = Longer
      /\ logits' = IF call.want THEN x ELSE logits
      /\ UNCHANGED <<rows, x, call, L, calls>>
  BY DEF DecodeReturns, Longer
<1>2. SeqTypes /\ RowsHoldPath /\ L = NLayers /\ Len(path) = call.pos /\ x = Longer
  BY <1>1, Sizes DEF SeqInv
<1>3. n_seen' \in Nat
  BY <1>2 DEF DecodeReturns, SeqTypes, Position
<1>4. Len(Longer) = Len(path) + 1 /\ Len(path) \in Nat /\ Longer \in Seq(Tok)
  BY <1>2, LongerFacts
<1>5. Len(path') <= Context
  BY <1>1, <1>2, <1>4, Sizes DEF SeqTypes, Position
<1>6. SeqTypes'
  BY <1>1, <1>2, <1>3, <1>4, <1>5 DEF SeqTypes
<1>7. RowsHoldPath'
  <2> SUFFICES ASSUME NEW l \in Layer, NEW t \in 0..Len(path)
               PROVE  rows[l][t] = RowOf(Longer, l, t)
    BY <1>1, <1>4 DEF RowsHoldPath
  <2>1. CASE t = Len(path)
    <3>1. l < L
      BY <1>2, Sizes DEF Layer
    <3> QED
      BY <1>1, <1>2, <2>1, <3>1 DEF SeqInv
  <2>2. CASE t # Len(path)
    <3>1. t \in 0..(Len(path) - 1)
      BY <1>4, <2>2
    <3> QED
      BY <1>2, <3>1, RowOfLonger DEF RowsHoldPath
  <2> QED
    BY <2>1, <2>2
<1> QED
  BY <1>1, <1>2, <1>6, <1>7 DEF SeqInv, LogitsOfPath

\* A step that touches none of the state.
LEMMA SeqStutters ==
    ASSUME SeqInv, UNCHANGED vars
    PROVE  SeqInv'
  BY DEF SeqInv, SeqTypes, RowsHoldPath, LogitsOfPath, Longer, vars, stateVars, callVars

\* Every step of a caller that leaves no gap.
LEMMA SeqStep == SeqInv /\ [Next]_vars => SeqInv'
<1> SUFFICES ASSUME SeqInv, [Next]_vars PROVE SeqInv'
  OBVIOUS
<1>1. CASE Decode
  BY <1>1, BeginStep, RefusedStep DEF Decode
<1> QED
  BY <1>1, LayerKeeps, FailKeeps, ReturnKeeps, SeqStutters DEF Next

LEMMA SeqInvariant == Spec => []SeqInv
  BY SeqInit, SeqStep, PTL DEF Spec

\* For every number of layers and positions, whatever the caller rewinds,
\* repeats or loses to failed decodes: the rows below its position hold its
\* history in every layer.
THEOREM RewindNeedsNoReset == Spec => []RowsHoldPath
<1>1. SeqInv => RowsHoldPath
  BY DEF SeqInv
<1> QED
  BY <1>1, SeqInvariant, PTL

\* ... and logits that decode returned are those of the caller's history.
THEOREM LogitsAreOfPath == Spec => []LogitsOfPath
<1>1. SeqInv => LogitsOfPath
  BY DEF SeqInv
<1> QED
  BY <1>1, SeqInvariant, PTL

-----------------------------------------------------------------------------
(* The run on that state.                                                  *)

\* What has been read and printed so far.
Text == ids \o out

RunTypes ==
    /\ net \in Nets /\ ids \in Seq(Tok) /\ out \in Seq(Tok)
    /\ ntok \in Nat /\ ntok >= 1 /\ ctx \in Nat /\ pos \in Nat
    /\ produced = Len(out)
    /\ stage \in {"start", "decode", "read", "ended"}

\* The loop's position against the text: in the prompt nothing is printed,
\* behind it the last token printed is the one to feed.
AtPosition ==
    /\ 1 <= n /\ n + 1 <= ctx /\ ctx <= Context /\ ctx <= n + ntok
    /\ pos <= ctx - 1
    /\ pos < n => out = <<>>
    /\ pos >= n => Len(out) = pos - n + 1
    /\ Len(out) < ntok
    /\ tok_id = Text[pos + 1]

\* The decode in progress is of the token at the position; the history before
\* it is the text before it; once it has returned, the text up to it, and the
\* logits from the last prompt position on are those of the whole text.
RunInv ==
    /\ SeqInv
    /\ RunTypes
    /\ stage = "start" => pc = "idle" /\ path = <<>> /\ out = <<>> /\ pos = 0
    /\ stage \in {"decode", "read"} => AtPosition
    /\ stage # "read" => pc = "idle"
    /\ stage = "decode" => path = Prefix(Text, pos)
    /\ stage = "read" =>
         /\ pos < ctx - 1
         /\ pc # "idle" =>
              /\ call = [token |-> tok_id, pos |-> pos, want |-> LastPrompt]
              /\ path = Prefix(Text, pos)
         /\ pc = "idle" /\ ret = 0 =>
              /\ path = Prefix(Text, pos + 1)
              /\ LastPrompt => logits = path
    /\ PrintsGreedy
    /\ ProducesAll

\* The text in terms of its parts.
LEMMA TextFacts ==
    ASSUME RunTypes
    PROVE  /\ Text \in Seq(Tok) /\ Len(Text) = n + Len(out) /\ n \in Nat /\ Len(out) \in Nat
           /\ \A i \in 1..n : Text[i] = ids[i]
           /\ \A i \in (n + 1)..(n + Len(out)) : Text[i] = out[i - n]
  BY ConcatProperties, LenProperties DEF RunTypes, Text, n

\* Every position the loop visits has its token in the text; from the last
\* prompt position on that token is the text's last.
LEMMA PositionInText ==
    ASSUME RunTypes, AtPosition
    PROVE  /\ pos \in 0..(Len(Text) - 1) /\ pos + 1 \in 1..Len(Text)
           /\ LastPrompt => Len(Text) = pos + 1
           /\ Len(Text) <= Context
           /\ tok_id \in Tok
<1>1. Text \in Seq(Tok) /\ Len(Text) = n + Len(out) /\ n \in Nat /\ Len(out) \in Nat
  BY TextFacts
<1>2. Len(<<>>) = 0
  OBVIOUS
<1>3. /\ pos \in Nat /\ ctx \in Nat
      /\ pos < n => Len(out) = 0
      /\ pos >= n => Len(out) = pos - n + 1
  BY <1>2 DEF RunTypes, AtPosition
<1>4. pos \in 0..(Len(Text) - 1) /\ pos + 1 \in 1..Len(Text)
  BY <1>1, <1>3
<1>5. LastPrompt => Len(Text) = pos + 1
  BY <1>1, <1>3 DEF LastPrompt, AtPosition
<1>6. Len(Text) <= Context
  BY <1>1, <1>3, Sizes DEF AtPosition
<1>7. tok_id \in Tok
  BY <1>1, <1>4, ElementOfSeq DEF AtPosition
<1> QED
  BY <1>4, <1>5, <1>6, <1>7

\* The next text after one more token.
LEMMA TextGrows ==
    ASSUME NEW a \in Seq(Tok), NEW b \in Seq(Tok), NEW e \in Tok
    PROVE  a \o Append(b, e) = Append(a \o b, e)
<1>1. a \o b \in Seq(Tok) /\ <<e>> \in Seq(Tok)
  BY ConcatProperties
<1>2. Append(b, e) = b \o <<e>> /\ Append(a \o b, e) = (a \o b) \o <<e>>
  BY <1>1, AppendIsConcat
<1> QED
  BY <1>1, <1>2, ConcatAssociative

LEMMA RunStarts == RunInit => RunInv
<1> SUFFICES ASSUME RunInit PROVE RunInv
  OBVIOUS
<1>1. SeqInv /\ pc = "idle" /\ path = <<>>
  BY SeqInit DEF RunInit, Init
<1>2. out = <<>> /\ out \in Seq(Tok) /\ Len(out) = 0
  BY EmptySeq DEF RunInit
<1>3. ntok \in Nat /\ ntok >= 1
  BY CmdRunAssumption DEF RunInit, Tokens
<1>4. RunTypes
  BY <1>2, <1>3, CmdRunAssumption DEF RunInit, RunTypes
<1>5. PrintsGreedy
  BY <1>2 DEF PrintsGreedy
<1> QED
  BY <1>1, <1>2, <1>4, <1>5 DEF RunInit, RunInv, ProducesAll

\* The sequence state sees, of every step of the run, a step of its own or none.
LEMMA RunKeepsState ==
    ASSUME RunInv, [RunNext]_allVars
    PROVE  SeqInv'
<1>1. SeqInv
  BY DEF RunInv
<1>2. CASE CallDecode
  <2>1. stage = "decode" /\ DecodeBegin(tok_id, pos, LastPrompt)
    BY <1>2 DEF CallDecode
  <2>2. RunTypes /\ AtPosition /\ path = Prefix(Text, pos)
    BY <2>1 DEF RunInv
  <2>3. tok_id \in Tok /\ pos \in 0..Len(Text) /\ Text \in Seq(Tok)
    BY <2>2, PositionInText, TextFacts
  <2>4. Len(path) = pos /\ pos \in Nat
    BY <2>2, <2>3, PrefixFacts
  <2>5. pos \in 0..Len(path)
    BY <2>4
  <2> QED
    BY <1>1, <2>1, <2>3, <2>5, BeginStep
<1>3. CASE Within
  BY <1>1, <1>3, LayerKeeps, FailKeeps, ReturnKeeps DEF Within
<1>4. CASE UNCHANGED vars
  BY <1>1, <1>4, SeqStutters
<1> QED
  BY <1>2, <1>3, <1>4
     DEF RunNext, allVars, Refused, Begin, Prefill, Produce, EndOfText, DecodeFailed,
         ContextEnds

\* A context with room for more than the prompt.
LEMMA RoomBehind ==
    ASSUME NEW a \in Nat, a > 0, NEW c \in Nat, c >= a + 1
    PROVE  1 <= a /\ a + 1 <= c /\ 0 <= c - 1 /\ ~(0 >= a)
  OBVIOUS

\* The model is loaded.
LEMMA BeginKeeps ==
    ASSUME RunInv, Begin, SeqInv'
    PROVE  RunInv'
<1>1. /\ stage = "start" /\ stage' = "decode" /\ tok_id' = ids[1] /\ n > 0
      /\ UNCHANGED <<vars, net, ids, ntok, exit, pos, produced, out>>
  BY DEF Begin
<1>2. /\ RunTypes /\ PrintsGreedy /\ pc = "idle" /\ path = <<>> /\ out = <<>> /\ pos = 0
  BY <1>1 DEF RunInv
<1>3. UNCHANGED <<pc, path, Text, n, ret, call, logits>>
  BY <1>1 DEF vars, callVars, stateVars, Text, n
<1>4. /\ Text \in Seq(Tok) /\ Len(Text) = n + Len(out) /\ n \in Nat
      /\ \A i \in 1..n : Text[i] = ids[i]
  BY <1>2, TextFacts
<1>5. (\E granted \in 1..Context : ctx' = Smaller(granted, n + ntok)) /\ ctx' >= n + 1
  BY DEF Begin
<1>6. ctx' \in Nat /\ ctx' <= Context /\ ctx' <= n + ntok /\ ctx' >= n + 1
  BY <1>2, <1>4, <1>5, Sizes DEF Smaller, RunTypes
<1>7. RunTypes'
  BY <1>1, <1>2, <1>6 DEF RunTypes
<1>8. Len(<<>>) = 0 /\ 1 \in 1..n
  BY <1>1, <1>4
<1>9. AtPosition'
  <2>1. n \in Nat /\ n > 0 /\ Context \in Nat /\ ntok \in Nat /\ ntok >= 1
    BY <1>1, <1>2, <1>4, Sizes DEF RunTypes
  <2>2. /\ 1 <= n /\ n + 1 <= ctx' /\ ctx' <= Context /\ ctx' <= n + ntok
        /\ 0 <= ctx' - 1 /\ ~(0 >= n)
    BY Zenon, <1>6, <2>1, RoomBehind
  <2>3. Len(<<>>) < ntok
    BY <1>8, <2>1
  <2>4. ids[1] = Text[0 + 1]
    BY <1>4, <1>8
  <2>5. /\ n' = n /\ ntok' = ntok /\ pos' = 0 /\ out' = <<>>
        /\ tok_id' = ids[1] /\ Text' = Text
    BY <1>1, <1>2, <1>3
  <2> QED
    BY Zenon, <2>2, <2>3, <2>4, <2>5 DEF AtPosition
<1>10. path' = Prefix(Text', pos')
  <2>1. 0 \in 0..Len(Text)
    BY <1>4, LenProperties
  <2>2. Prefix(Text, 0) \in Seq(Tok) /\ Len(Prefix(Text, 0)) = 0
    BY <1>4, <2>1, PrefixFacts
  <2>3. Prefix(Text, 0) = <<>>
    BY <2>2, EmptySeq
  <2> QED
    BY <1>1, <1>2, <1>3, <2>3
<1>11. PrintsGreedy'
  BY <1>1, <1>2 DEF PrintsGreedy
<1> QED
  BY SMTT(30), <1>1, <1>2, <1>3, <1>7, <1>9, <1>10, <1>11 DEF RunInv, ProducesAll

\* The loop calls decode.
LEMMA CallKeeps ==
    ASSUME RunInv, CallDecode, SeqInv'
    PROVE  RunInv'
<1>1. /\ stage = "decode" /\ stage' = "read" /\ pos < ctx - 1
      /\ pc' = "layers" /\ path' = Prefix(path, pos)
      /\ call' = [token |-> tok_id, pos |-> pos, want |-> LastPrompt]
      /\ UNCHANGED <<net, ids, ntok, ctx, exit, pos, tok_id, produced, out>>
  BY DEF CallDecode, DecodeBegin, LoopBound
<1>2. RunTypes /\ AtPosition /\ PrintsGreedy /\ path = Prefix(Text, pos)
  BY <1>1 DEF RunInv
<1>3. UNCHANGED <<Text, n, LastPrompt>>
  BY <1>1 DEF Text, n, LastPrompt
<1>4. RunTypes' /\ AtPosition' /\ PrintsGreedy'
  BY <1>1, <1>2, <1>3 DEF RunTypes, AtPosition, PrintsGreedy
<1>5. path' = path
  <2>1. Text \in Seq(Tok) /\ pos \in 0..Len(Text)
    BY <1>2, TextFacts, PositionInText
  <2>2. path \in Seq(Tok) /\ Len(path) = pos
    BY <1>2, <2>1, PrefixFacts
  <2> QED
    BY <1>1, <2>2, PrefixWhole
<1> QED
  BY <1>1, <1>2, <1>3, <1>4, <1>5 DEF RunInv, ProducesAll

\* decode goes through its layers, fails or returns.
LEMMA WithinKeeps ==
    ASSUME RunInv, Within, SeqInv'
    PROVE  RunInv'
<1>1. UNCHANGED <<net, ids, ntok, ctx, stage, exit, pos, tok_id, produced, out>> /\ pc # "idle"
  BY DEF Within, runVars, LayerStep, DecodeFails, DecodeReturns
<1>2. /\ stage = "read" /\ RunTypes /\ AtPosition /\ PrintsGreedy /\ pos < ctx - 1
      /\ call = [token |-> tok_id, pos |-> pos, want |-> LastPrompt]
      /\ path = Prefix(Text, pos)
  BY <1>1 DEF RunInv
<1>3. UNCHANGED <<Text, n, LastPrompt>>
  BY <1>1 DEF Text, n, LastPrompt
<1>4. RunTypes' /\ AtPosition' /\ PrintsGreedy' /\ stage' = "read" /\ pos' < ctx' - 1
  BY <1>1, <1>2, <1>3 DEF RunTypes, AtPosition, PrintsGreedy
<1>5. CASE LayerStep
  <2>1. UNCHANGED <<call, path>> /\ pc' # "idle"
    BY <1>5 DEF LayerStep
  <2> QED
    BY <1>1, <1>2, <1>3, <1>4, <2>1 DEF RunInv, ProducesAll
<1>6. CASE DecodeFails
  <2>1. ret' = -1
    BY <1>6 DEF DecodeFails
  <2>2. ret' # 0 /\ pc' = "idle"
    BY <1>6, <2>1 DEF DecodeFails
  <2> QED
    BY <1>1, <1>2, <1>3, <1>4, <2>2 DEF RunInv, ProducesAll
<1>7. CASE DecodeReturns
  <2>1. SeqInv
    BY DEF RunInv
  <2>2. path' = Append(path, tok_id) /\ (LastPrompt => logits' = path') /\ pc' = "idle"
    BY <1>2, <1>7, <2>1, ReturnKeeps DEF Longer, DecodeReturns
  <2>3. Text \in Seq(Tok) /\ pos \in 0..(Len(Text) - 1)
    BY <1>2, TextFacts, PositionInText
  <2>4. Append(Prefix(Text, pos), Text[pos + 1]) = Prefix(Text, pos + 1)
    BY <2>3, PrefixGrows
  <2>5. path' = Prefix(Text', pos' + 1) /\ (LastPrompt' => logits' = path')
    BY <1>1, <1>2, <1>3, <2>2, <2>4 DEF AtPosition
  <2> QED
    BY <1>1, <1>2, <1>3, <1>4, <2>2, <2>5 DEF RunInv, ProducesAll
<1> QED
  BY <1>5, <1>6, <1>7 DEF Within

\* The next token of the prompt.
LEMMA PrefillKeeps ==
    ASSUME RunInv, Prefill, SeqInv'
    PROVE  RunInv'
<1>1. /\ stage = "read" /\ pc = "idle" /\ ret = 0 /\ ~LastPrompt
      /\ tok_id' = ids[pos + 2] /\ pos' = pos + 1 /\ stage' = "decode"
      /\ UNCHANGED <<vars, net, ids, ntok, ctx, exit, produced, out>>
  BY DEF Prefill
<1>2. RunTypes /\ AtPosition /\ PrintsGreedy /\ pos < ctx - 1 /\ path = Prefix(Text, pos + 1)
  BY <1>1 DEF RunInv
<1>3. UNCHANGED <<pc, path, Text, n>>
  BY <1>1 DEF vars, callVars, Text, n
<1>4. /\ n \in Nat /\ pos \in Nat /\ ctx \in Nat
      /\ \A i \in 1..n : Text[i] = ids[i]
  BY <1>2, TextFacts DEF RunTypes
<1>5. pos + 1 < n /\ pos + 2 \in 1..n /\ (pos + 1) + 1 = pos + 2
  BY <1>1, <1>4 DEF LastPrompt
<1>6. out = <<>>
  BY <1>2, <1>4, <1>5 DEF AtPosition
<1>7. RunTypes' /\ PrintsGreedy'
  BY <1>1, <1>2, <1>4 DEF RunTypes, PrintsGreedy
<1>8. AtPosition'
  BY <1>1, <1>2, <1>3, <1>4, <1>5, <1>6 DEF AtPosition
<1> QED
  BY <1>1, <1>2, <1>3, <1>7, <1>8 DEF RunInv, ProducesAll

\* From the last prompt position on the argmax is that of the whole text.
LEMMA BestOfText ==
    ASSUME RunInv, stage = "read", pc = "idle", ret = 0, LastPrompt
    PROVE  Best = Greedy(net, Text) /\ Best \in Tok
<1>1. RunTypes /\ AtPosition /\ path = Prefix(Text, pos + 1) /\ logits = path
  BY DEF RunInv
<1>2. /\ Text \in Seq(Tok) /\ Len(Text) = pos + 1 /\ Len(Text) <= Context
  BY <1>1, TextFacts, PositionInText
<1>3. logits = Text
  BY <1>1, <1>2, PrefixWhole
<1>4. Text # Mixed
  BY <1>2, SeqStateAssumption
<1>5. pos + 1 \in 1..Context /\ Text \in [1..(pos + 1) -> Tok] /\ net \in Nets
  BY <1>1, <1>2, Sizes, LenProperties DEF RunTypes
<1>6. Greedy(net, Text) \in Tok
  BY <1>5, GreedyAssumption
<1> QED
  BY <1>3, <1>4, <1>6 DEF Best

\* A token is printed and fed back.
LEMMA ProduceKeeps ==
    ASSUME RunInv, Produce, SeqInv'
    PROVE  RunInv'
<1>1. /\ stage = "read" /\ pc = "idle" /\ ret = 0 /\ LastPrompt /\ Best # Eos
      /\ tok_id' = Best /\ out' = Append(out, Best) /\ produced' = produced + 1
      /\ UNCHANGED <<vars, net, ids, ntok, ctx, exit>>
  BY DEF Produce
<1>2. \/ produced + 1 >= ntok /\ stage' = "ended" /\ pos' = pos
      \/ ~(produced + 1 >= ntok) /\ stage' = "decode" /\ pos' = pos + 1
  BY DEF Produce
<1>3. RunTypes /\ AtPosition /\ PrintsGreedy /\ pos < ctx - 1 /\ path = Prefix(Text, pos + 1)
  BY <1>1 DEF RunInv
<1>4. UNCHANGED <<pc, path, n, ret>>
  BY <1>1 DEF vars, callVars, n
<1>5. Best = Greedy(net, Text) /\ Best \in Tok
  BY <1>1, BestOfText
<1>6. ids \in Seq(Tok) /\ out \in Seq(Tok) /\ Text \in Seq(Tok)
  BY <1>3, TextFacts DEF RunTypes
<1>7. /\ out' \in Seq(Tok) /\ Len(out') = Len(out) + 1 /\ Len(out) \in Nat
      /\ \A i \in 1..Len(out) : out'[i] = out[i]
      /\ out'[Len(out) + 1] = Best
  BY <1>1, <1>5, <1>6, AppendProperties, LenProperties
<1>8. Text' = Append(Text, Best)
  BY <1>1, <1>5, <1>6, TextGrows DEF Text
<1>9. /\ n \in Nat /\ pos \in Nat /\ ctx \in Nat /\ ntok \in Nat /\ produced = Len(out)
      /\ Len(Text) = n + Len(out) /\ Len(Text) = pos + 1
  BY <1>1, <1>3, TextFacts, PositionInText DEF RunTypes
<1>10. RunTypes'
  BY SMTT(30), <1>1, <1>2, <1>3, <1>7, <1>9 DEF RunTypes
<1>11. PrintsGreedy'
  <2> SUFFICES ASSUME NEW i \in 1..(Len(out) + 1)
               PROVE  /\ out'[i] # Eos
                      /\ out'[i] = Greedy(net, ids \o SubSeq(out', 1, i - 1))
    BY <1>1, <1>7 DEF PrintsGreedy
  <2>1. i - 1 \in 0..Len(out)
    BY <1>7
  <2>2. SubSeq(out', 1, i - 1) = SubSeq(out, 1, i - 1)
    BY <1>1, <1>5, <1>6, <2>1, PrefixOfAppend DEF Prefix
  <2>3. CASE i \in 1..Len(out)
    BY Zenon, <1>3, <1>7, <2>2, <2>3 DEF PrintsGreedy
  <2>4. CASE i = Len(out) + 1
    <3>1. i - 1 = Len(out)
      BY <1>7, <2>4
    <3>2. SubSeq(out, 1, i - 1) = out
      BY <1>6, <3>1, PrefixWhole DEF Prefix
    <3> QED
      BY Zenon, <1>1, <1>5, <1>7, <2>2, <2>4, <3>2 DEF Text
  <2> QED
    BY <1>7, <2>3, <2>4
<1>12. CASE stage' = "decode"
  <2>1. pos' = pos + 1 /\ Len(out) + 1 < ntok
    BY <1>2, <1>7, <1>9, <1>12
  <2>2. /\ Text'[Len(Text) + 1] = Best
        /\ Prefix(Text', pos + 1) = Prefix(Text, pos + 1)
    <3>1. pos + 1 \in 0..Len(Text)
      BY <1>9
    <3> QED
      BY <1>5, <1>6, <1>8, <3>1, AppendProperties, PrefixOfAppend
  <2>3. AtPosition'
    <3>1. tok_id' = Text'[pos' + 1]
      BY <1>1, <1>9, <2>1, <2>2
    <3>2. Len(out') = pos' - n + 1 /\ pos' >= n /\ pos' <= ctx - 1 /\ Len(out') < ntok
      BY <1>3, <1>7, <1>9, <2>1
    <3>3. ~(pos' < n)
      BY <1>9, <2>1, <3>2
    <3> QED
      BY <1>1, <1>3, <1>4, <3>1, <3>2, <3>3 DEF AtPosition
  <2>4. path' = Prefix(Text', pos')
    BY <1>3, <1>4, <2>1, <2>2
  <2> QED
    BY <1>1, <1>4, <1>10, <1>11, <1>12, <2>3, <2>4 DEF RunInv, ProducesAll
<1>13. CASE stage' = "ended"
  <2>1. Len(out') = ctx' - n'
    <3>1. Len(out) + 1 >= ntok
      BY <1>2, <1>9, <1>13
    <3>2. ctx <= n + ntok
      BY <1>3 DEF AtPosition
    <3>3. Len(out) + 1 = ctx - n
      BY <1>3, <1>7, <1>9, <3>1, <3>2
    <3> QED
      BY <1>1, <1>4, <1>7, <3>3
  <2> QED
    BY <1>1, <1>4, <1>10, <1>11, <1>13, <2>1 DEF RunInv, ProducesAll
<1> QED
  BY <1>2, <1>12, <1>13

\* The ways out of the loop, and of the start.
LEMMA EndKeeps ==
    ASSUME RunInv, Refused \/ EndOfText \/ DecodeFailed \/ ContextEnds, SeqInv'
    PROVE  RunInv'
<1>1. /\ UNCHANGED <<vars, net, ids, ntok, ctx, pos, tok_id, produced, out>>
      /\ stage' = "ended"
  BY DEF Refused, EndOfText, DecodeFailed, ContextEnds
<1>2. UNCHANGED <<pc, path, Text, n, ret>>
  BY <1>1 DEF vars, callVars, Text, n
<1>3. RunTypes' /\ PrintsGreedy'
  BY <1>1 DEF RunInv, RunTypes, PrintsGreedy
<1>4. pc' = "idle"
  BY <1>2 DEF RunInv, Refused, EndOfText, DecodeFailed, ContextEnds
<1>5. ProducesAll'
  <2>1. CASE Refused
    BY <2>1 DEF Refused, ProducesAll
  <2>2. CASE EndOfText
    <3>1. Greedy(net, Text) = Eos
      BY <2>2, BestOfText DEF EndOfText
    <3> QED
      BY <1>1, <3>1 DEF ProducesAll, Text
  <2>3. CASE DecodeFailed
    BY <1>2, <2>3 DEF DecodeFailed, ProducesAll
  <2>4. CASE ContextEnds
    <3>1. stage = "decode" /\ pos >= ctx - 1
      BY <2>4 DEF ContextEnds, LoopBound
    <3>2. RunTypes /\ AtPosition
      BY <3>1 DEF RunInv
    <3>3. n \in Nat /\ pos \in Nat /\ ctx \in Nat
      BY <3>2, TextFacts DEF RunTypes
    <3>4. Len(out) = ctx - n
      BY <3>1, <3>2, <3>3 DEF AtPosition
    <3> QED
      BY <1>1, <1>2, <3>4 DEF ProducesAll
  <2> QED
    BY <2>1, <2>2, <2>3, <2>4
<1> QED
  BY <1>1, <1>3, <1>4, <1>5 DEF RunInv

LEMMA RunStutters ==
    ASSUME RunInv, UNCHANGED allVars, SeqInv'
    PROVE  RunInv'
  BY SMTT(30) DEF RunInv, RunTypes, AtPosition, PrintsGreedy, ProducesAll, Text, n, LastPrompt,
         allVars, vars, callVars, runVars

LEMMA RunStep == RunInv /\ [RunNext]_allVars => RunInv'
<1> SUFFICES ASSUME RunInv, [RunNext]_allVars PROVE RunInv'
  OBVIOUS
<1>1. SeqInv'
  BY RunKeepsState
<1> QED
  BY <1>1, BeginKeeps, CallKeeps, WithinKeeps, PrefillKeeps, ProduceKeeps, EndKeeps,
     RunStutters DEF RunNext

LEMMA RunInvariant == RunSpec => []RunInv
  BY RunStarts, RunStep, PTL DEF RunSpec

\* For every network, prompt, number of layers and context: what `engine run`
\* prints is the greedy continuation of the prompt, though no logits are
\* computed in the prompt and a decode may fail at any layer.
THEOREM RunPrintsGreedy == RunSpec => []PrintsGreedy
<1>1. RunInv => PrintsGreedy
  BY DEF RunInv
<1> QED
  BY <1>1, RunInvariant, PTL

\* A run that ends in order has produced what was asked for, or what fits,
\* or has met the end of the text.
THEOREM RunProducesAll == RunSpec => []ProducesAll
<1>1. RunInv => ProducesAll
  BY DEF RunInv
<1> QED
  BY <1>1, RunInvariant, PTL
=============================================================================
