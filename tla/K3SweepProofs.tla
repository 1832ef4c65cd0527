--------------------------- MODULE K3SweepProofs ----------------------------
(***************************************************************************)
(* Every sweep of every K3 session computes the logits of one full sweep   *)
(* over the sequence so far: Spec implies []SweepsExact.  K3SessionProofs  *)
(* has what a layer does to a text; here is what the steps of main do to   *)
(* the text that the carried state belongs to.                             *)
(***************************************************************************)
EXTENDS K3SessionProofs

(***************************************************************************)
(* The invariant.  The carried state of a layer holds the first n tokens   *)
(* of Q: a recurrent layer in its matrix and window, an MLA layer in its   *)
(* rows of the cache.                                                      *)
(***************************************************************************)
LayerHas(st, rows, L, Q, n) ==
  /\ ~IsMla(cfg, L) => KdaHolds(cfg, L, st[L], Q, n)
  /\ IsMla(cfg, L) /\ req.inc => RowsHold(rows, MlaSlot(cfg, L) * Tmax, L, Q, n)

Carried(st, rows, Q, n) == \A L \in 0..(req.NL - 1) : LayerHas(st, rows, L, Q, n)

Allocated ==
  /\ DOMAIN br = 0..(Tmax * MaxB(cfg) - 1)
  /\ DOMAIN ks = 0..(req.NL - 1)
  /\ req.inc => DOMAIN kv = 0..(NMla(cfg, req.NL) * Tmax - 1)

(* The state file holds what the process that wrote it had consumed.       *)
FileHolds ==
  file.whole =>
    /\ DOMAIN file.ks = 0..(file.NL - 1)
    /\ \A L \in 0..(file.NL - 1) :
         /\ ~IsMla(cfg, L) => KdaHolds(cfg, L, file.ks[L], file.seq, file.cached)
         /\ IsMla(cfg, L) => \A s \in 1..file.cached :
                               file.rows[MlaSlot(cfg, L)][s - 1] = At(L, file.seq, s)

(* Between sweeps the state is that of the consumed part of the sequence.  *)
LoopHolds == req.inc => Carried(ks, kv, seq, cached)

(* What a sweep computes on: the consumed part, then the tokens it feeds.  *)
Text == TextOf(seq, cached, call.ids)

(* A batch under verification can be undone: the snapshot is the state     *)
(* before it.  What a sweep will append is what it fed, one token on.      *)
KindHolds ==
  /\ call.kind = "feed" => Agree(Text, seq, cached + Len(call.ids))
  /\ call.kind \in {"verify", "replay"} => call.ids[1] = seq[cached + 1]
  /\ call.kind = "verify" =>
       /\ DOMAIN snap = 0..(req.NL - 1)
       /\ \A L \in 0..(req.NL - 1) : ~IsMla(cfg, L) => KdaHolds(cfg, L, snap[L], seq, cached)
  /\ call.kind = "replay" =>
       \A i \in 1..(Len(call.ids) - 1) : call.emit[i] = call.ids[i + 1]

(* Within one, the layers behind have consumed its tokens, those ahead     *)
(* have not, and the rows between them belong to its text.                 *)
SweepHolds ==
  /\ \A L \in 0..(req.NL - 1) :
       LayerHas(ks, kv, L, Text, IF L < call.L THEN cached + Len(call.ids) ELSE cached)
  /\ SnapsOk(cfg, call.L, call.nb)
  /\ pc = "layer" => /\ h = Streams(call.L, Text, cached, Len(call.ids))
                     /\ BrHolds(cfg, br, Text, cached, Len(call.ids), call.nb)
  /\ pc = "swept" => call.L = req.NL

TextInv ==
  /\ SessionInv
  /\ FileHolds
  /\ pc # "start" => Allocated
  /\ pc \in {"step", "end"} => LoopHolds
  /\ pc \in {"layer", "swept"} => SweepHolds /\ KindHolds
  /\ SweepsExact

(* A layer of the text holds it, whatever follows.                         *)
LEMMA HasAgrees ==
  ASSUME cfg.conv_k \in Nat \ {0}, NEW st, NEW rows, NEW L \in Nat, NEW Q, NEW R,
         NEW n \in Nat, Agree(Q, R, n), LayerHas(st, rows, L, Q, n)
  PROVE  LayerHas(st, rows, L, R, n)
<1>1. ASSUME ~IsMla(cfg, L) PROVE KdaHolds(cfg, L, st[L], R, n)
  <2>1. KdaHolds(cfg, L, st[L], Q, n) BY Zenon, <1>1 DEF LayerHas
  <2> QED BY Zenon, <2>1, KdaAgrees
<1> DEFINE base == MlaSlot(cfg, L) * Tmax
<1>2. ASSUME IsMla(cfg, L), req.inc PROVE RowsHold(rows, base, L, R, n)
  <2>1. RowsHold(rows, base, L, Q, n) BY Zenon, <1>2 DEF LayerHas
  <2> HIDE DEF base
  <2> QED BY Zenon, <2>1, RowsAgree
<1> QED BY Zenon, <1>1, <1>2 DEF LayerHas

(* What every process may rely on.                                         *)
LEMMA Shape ==
  ASSUME SessionInv, pc # "start"
  PROVE  /\ cfg \in Cfgs /\ cfg.conv_k \in Nat \ {0} /\ cfg.attn_res_block \in Nat \ {0}
         /\ req.NL \in Nat /\ req.NL > 0 /\ req.NL <= cfg.n_layers /\ cached \in Nat
         /\ seq \in Seq(Toks) /\ (~req.inc => cached = 0) /\ req.inc \in BOOLEAN
         /\ Tmax \in Nat /\ Tmax > 0
<1>1. ReqOk /\ LoopOk /\ cfg \in Cfgs BY Zenon DEF SessionInv
<1>2. cfg.conv_k \in Nat \ {0} /\ cfg.attn_res_block \in Nat \ {0} BY Zenon, <1>1, CfgAssumption
<1>3. cfg.n_layers \in Nat /\ cfg.layers \subseteq 1..cfg.n_layers
  <2>1. cfg.n_layers \in Nat \ {0} /\ cfg.layers \subseteq 1..cfg.n_layers
    BY Zenon, <1>1, CfgAssumption
  <2> QED BY <2>1
<1>4. req.NL \in 1..cfg.n_layers BY Zenon, <1>1, <1>3 DEF ReqOk
<1>5. req.NL \in Nat /\ req.NL > 0 /\ req.NL <= cfg.n_layers BY <1>3, <1>4
<1>6. cached \in Nat /\ seq \in Seq(Toks) /\ (~req.inc => cached = 0) /\ req.inc \in BOOLEAN
  BY Zenon, <1>1 DEF LoopOk, ReqOk
<1>7. Tmax \in Nat /\ Tmax = req.prior + req.np + req.gen + 1 /\ req.prior \in Nat
      /\ req.np \in Nat /\ req.gen \in Nat
  BY Zenon, <1>1, Room
<1>8. Tmax > 0 BY <1>7
<1> QED BY Zenon, <1>1, <1>2, <1>5, <1>6, <1>7, <1>8

(* forward() starts on the text its caller means it to continue.           *)
LEMMA EnterHolds ==
  ASSUME SessionInv, pc # "start", Allocated, NEW c, NEW state, ForwardEnter(c, state),
         UNCHANGED <<cfg, req, seq, cached, kv>>,
         c.L = 0, c.nb = 0, c.ids \in Seq(Toks), DOMAIN state = 0..(req.NL - 1),
         req.inc => Carried(state, kv, seq, cached)
  PROVE  Allocated' /\ SweepHolds' /\ SweepsExact'
<1> DEFINE Q == TextOf(seq, cached, c.ids)  T == Len(c.ids)
<1>1. /\ cfg.conv_k \in Nat \ {0} /\ cfg.attn_res_block \in Nat \ {0} /\ cached \in Nat
      /\ (~req.inc => cached = 0)
  BY Zenon, Shape
<1>2. /\ call' = c /\ h' = [t \in DOMAIN c.ids |-> EmbedRow(c.ids[t])]
      /\ br' = [i \in DOMAIN br |-> IF i < Len(c.ids) * MaxB(cfg) THEN Zero ELSE br[i]]
      /\ ks' = (IF req.inc THEN state ELSE EmptyKs(cfg, req.NL, Zero)) /\ pc' = "layer"
  BY Zenon DEF ForwardEnter
<1>3. Spells(Q, seq, cached, c.ids) BY Zenon, <1>1, TextIs
<1>4. Text' = Q BY Zenon, <1>2 DEF Text, TextOf, Pre
<1> HIDE DEF Q
<1>5. T \in Nat OBVIOUS
<1>6. Carried(ks', kv, Q, cached)
  <2> SUFFICES ASSUME NEW L \in 0..(req.NL - 1) PROVE LayerHas(ks', kv, L, Q, cached)
    BY Zenon DEF Carried
  <2>1. L \in Nat OBVIOUS
  <2>2. CASE req.inc
    <3>1. LayerHas(state, kv, L, seq, cached) BY Zenon, <2>2 DEF Carried
    <3>2. Agree(seq, Q, cached) BY Zenon, <1>3 DEF Spells
    <3>3. LayerHas(state, kv, L, Q, cached) BY Zenon, <3>1, <3>2, <2>1, <1>1, HasAgrees
    <3> QED BY Zenon, <2>2, <3>3, <1>2
  <2>3. CASE ~req.inc
    <3>1. KdaHolds(cfg, L, EmptyKs(cfg, req.NL, Zero)[L], Q, 0) BY Zenon, <1>1, KdaFresh
    <3> QED BY Zenon, <2>3, <3>1, <1>1, <1>2 DEF LayerHas
  <2> QED BY Zenon, <2>2, <2>3
<1>7. SnapsOk(cfg, 0, 0) BY Zenon, <1>1, SnapsFirst
<1>8. h' = Streams(0, Q, cached, T)
  <2>1. cached \in Nat BY Zenon, <1>1
  <2>2. EmbedsTo(Q, cached, c.ids) BY Zenon, <2>1, <1>3, StreamsFirst
  <2> QED BY Zenon, <2>2, <1>2 DEF EmbedsTo
<1>9. BrHolds(cfg, br', Q, cached, T, 0)
  <2>1. \A b \in 1..0 : FALSE OBVIOUS
  <2> QED BY Zenon, <2>1 DEF BrHolds, BrOf
<1>10. SweepHolds'
  <2>1. \A L \in 0..(req.NL - 1) : ~(L < 0) OBVIOUS
  <2>2. \A L \in 0..(req.NL - 1) : LayerHas(ks', kv, L, Q, cached) BY Zenon, <1>6 DEF Carried
  <2>3. Tmax' = Tmax BY Zenon DEF Tmax, TmaxOf
  <2>4. ASSUME NEW L \in 0..(req.NL - 1)
        PROVE  LayerHas(ks, kv, L, Text, IF L < call.L THEN cached + Len(call.ids) ELSE cached)'
    <3>1. LayerHas(ks', kv, L, Q, cached) /\ ~(L < 0) BY Zenon, <2>1, <2>2
    <3>2. (IF L < call.L THEN cached + Len(call.ids) ELSE cached)' = cached
      BY Zenon, <3>1, <1>2
    <3> QED BY Zenon, <3>1, <3>2, <2>3, <1>4 DEF LayerHas
  <2>5. h' = Streams(call'.L, Text', cached', Len(call'.ids)) BY Zenon, <1>2, <1>4, <1>8
  <2>6. BrHolds(cfg', br', Text', cached', Len(call'.ids), call'.nb) BY Zenon, <1>2, <1>4, <1>9
  <2>7. SnapsOk(cfg', call'.L, call'.nb) BY Zenon, <1>2, <1>7
  <2>8. pc' # "swept" BY <1>2
  <2> QED BY Zenon, <2>4, <2>5, <2>6, <2>7, <2>8 DEF SweepHolds
<1>11. Allocated'
  <2>1. DOMAIN EmptyKs(cfg, req.NL, Zero) = 0..(req.NL - 1) BY Zenon DEF EmptyKs
  <2>2. DOMAIN ks' = 0..(req.NL - 1) BY Zenon, <2>1, <1>2
  <2>3. DOMAIN br' = DOMAIN br BY Zenon, <1>2
  <2>4. Tmax' = Tmax BY Zenon DEF Tmax, TmaxOf
  <2> QED BY Zenon, <2>2, <2>3, <2>4 DEF Allocated
<1>12. SweepsExact'
  <2>1. pc' # "swept" BY <1>2
  <2> QED BY Zenon, <2>1 DEF SweepsExact
<1> QED BY Zenon, <1>10, <1>11, <1>12

(* The rows of a slot are rows of the cache.                               *)
LEMMA RowsRoom ==
  ASSUME NEW c, NEW L \in Nat, NEW NL \in Nat, L < NL, IsMla(c, L), NEW cap \in Nat,
         NEW s \in 1..cap
  PROVE  /\ MlaSlot(c, L) * cap + s - 1 \in 0..(NMla(c, NL) * cap - 1)
         /\ MlaSlot(c, L) * cap \in Nat
<1> DEFINE a == MlaSlot(c, L)  b == NMla(c, NL)
<1>1. a \in Nat /\ b \in Nat /\ a + 1 <= b BY Zenon, SlotsApart
<1> HIDE DEF a, b
<1>2. a * cap \in Nat /\ b * cap \in Nat /\ a * cap + cap <= b * cap BY Zenon, <1>1, RowsApart
<1> DEFINE x == a * cap  y == b * cap
<1> HIDE DEF x, y
<1>3. x \in Nat /\ y \in Nat /\ x + cap <= y BY Zenon, <1>2 DEF x, y
<1>4. x + s - 1 \in 0..(y - 1) BY <1>3
<1> QED BY Zenon, <1>3, <1>4 DEF a, b, x, y

(* What a layer writes is not another's.                                   *)
LEMMA OthersKept ==
  ASSUME NEW c, NEW NL \in Nat, NEW L \in Nat, L < NL, NEW M \in Nat, M < NL, L # M,
         IsMla(c, L), IsMla(c, M), NEW cap \in Nat, NEW rows,
         DOMAIN rows = 0..(NMla(c, NL) * cap - 1),
         NEW Q, NEW n \in Nat, NEW T \in Nat, n + T <= cap,
         NEW R, MlaTo(L, rows, MlaSlot(c, L) * cap, R, n, T),
         NEW k \in Nat, k <= cap, RowsHold(rows, MlaSlot(c, M) * cap, M, Q, k)
  PROVE  RowsHold(MlaCached(L, rows, MlaSlot(c, L) * cap, n, Fed(L, R, n, T)).kv,
                  MlaSlot(c, M) * cap, M, Q, k)
<1> DEFINE a == MlaSlot(c, L)  b == MlaSlot(c, M)  x == a * cap  y == b * cap
           new == MlaCached(L, rows, x, n, Fed(L, R, n, T)).kv
<1>1. \A i \in DOMAIN rows : (i < x + n \/ i >= x + n + T) => new[i] = rows[i]
  BY Zenon DEF MlaTo
<1>2. x \in Nat /\ y \in Nat /\ (x + cap <= y \/ y + cap <= x)
  <2>1. CASE L < M
    <3>1. a \in Nat /\ b \in Nat /\ a + 1 <= b BY Zenon, <2>1, SlotsApart DEF MlaSlot
    <3> HIDE DEF a, b
    <3> QED BY Zenon, <3>1, RowsApart
  <2>2. CASE M < L
    <3>1. b \in Nat /\ a \in Nat /\ b + 1 <= a BY Zenon, <2>2, SlotsApart DEF MlaSlot
    <3> HIDE DEF a, b
    <3> QED BY Zenon, <3>1, RowsApart
  <2>3. L < M \/ M < L OBVIOUS
  <2> QED BY Zenon, <2>1, <2>2, <2>3
<1>3. \A s \in 1..cap : y + s - 1 \in DOMAIN rows BY Zenon, RowsRoom
<1>4. RowsHold(rows, y, M, Q, k) BY Zenon
<1> HIDE DEF x, y, new
<1>5. ASSUME NEW s \in 1..k PROVE new[y + s - 1] = At(M, Q, s)
  <2>1. s \in 1..cap OBVIOUS
  <2>2. y + s - 1 < x + n \/ y + s - 1 >= x + n + T BY <1>2, <2>1
  <2>3. new[y + s - 1] = rows[y + s - 1] BY Zenon, <1>1, <1>3, <2>1, <2>2
  <2> QED BY Zenon, <2>3, <1>4 DEF RowsHold
<1> QED BY Zenon, <1>5 DEF RowsHold, new, x, y

(* The snapshot rows of the tokens fed are rows of br.                     *)
LEMMA SnapRoom ==
  ASSUME NEW c, MaxB(c) \in Nat, NEW rows, NEW T \in Nat, NEW cap \in Nat, T <= cap,
         DOMAIN rows = 0..(cap * MaxB(c) - 1)
  PROVE  BrRoom(c, rows, T)
<1> DEFINE M == MaxB(c)
<1> SUFFICES ASSUME NEW t \in 1..T, NEW b \in 1..M PROVE BrRow(c, t, b) \in DOMAIN rows
  BY Zenon DEF BrRoom
<1>1. t - 1 \in Nat /\ (t - 1) + 1 <= cap /\ M \in Nat /\ cap \in Nat OBVIOUS
<1> DEFINE d == t - 1  x == d * M  y == cap * M
<1> HIDE DEF d, M
<1>2. x \in Nat /\ y \in Nat /\ x + M <= y BY Zenon, <1>1, RowsApart DEF d
<1>3. BrRow(c, t, b) = x + b - 1 BY Zenon DEF BrRow, d, M
<1> HIDE DEF x, y
<1>4. x + b - 1 \in 0..(y - 1) BY <1>1, <1>2
<1> QED BY Zenon, <1>3, <1>4 DEF y, M

(* A layer that runs computes on its text.                                 *)
Ran == LayerInc(cfg, call.L, Streams(call.L, Text, cached, Len(call.ids)), br, call.nb,
                ks[call.L], kv, req.inc, cached, Tmax)
RanTo == LayerTo(cfg, call.L, br, call.nb, ks[call.L], kv, Tmax, Text, cached, Len(call.ids))
Wrote == MlaTo(call.L, kv, MlaSlot(cfg, call.L) * Tmax, Text, cached, Len(call.ids))

(* Inside the cache the layer runs, and as the reference has it.           *)
LEMMA LayerRan ==
  ASSUME SessionInv, Allocated, SweepHolds, ForwardLayer
  PROVE  /\ h' = Ran.h /\ br' = Ran.br /\ kv' = Ran.kv
         /\ ks' = [ks EXCEPT ![call.L] = Ran.kda]
         /\ call' = [call EXCEPT !.L = @ + 1, !.nb = Ran.nb] /\ pc' = "layer"
         /\ RanTo /\ (IsMla(cfg, call.L) /\ req.inc => Wrote)
<1> DEFINE L == call.L  nb == call.nb  T == Len(call.ids)  Q == Text  n == cached
<1>1. pc = "layer" /\ L < req.NL BY Zenon DEF ForwardLayer
<1>2. pc # "start" BY <1>1
<1>3. SweepOk(call) BY Zenon, <1>1 DEF SessionInv
<1>4. /\ cfg \in Cfgs /\ cfg.conv_k \in Nat \ {0} /\ cfg.attn_res_block \in Nat \ {0}
      /\ req.NL \in Nat /\ req.NL <= cfg.n_layers /\ cached \in Nat
      /\ (~req.inc => cached = 0) /\ Tmax \in Nat
  BY Zenon, <1>2, Shape
<1>5. L \in Nat /\ T \in Nat /\ cached + T <= Tmax BY <1>3 DEF SweepOk
<1>6. T <= Tmax BY <1>4, <1>5
<1>7. SnapsOk(cfg, L, nb) /\ h = Streams(L, Q, n, T) /\ BrHolds(cfg, br, Q, n, T, nb)
  BY Zenon, <1>1 DEF SweepHolds
<1>8. nb \in Nat /\ (nb - 1) * cfg.attn_res_block < L BY Zenon, <1>7 DEF SnapsOk
<1>9. Sized(cfg) BY Zenon, <1>4, CfgSized
<1>10. L <= cfg.n_layers
  <2>1. cfg.n_layers \in Nat BY Zenon, <1>9 DEF Sized
  <2> QED BY <2>1, <1>1, <1>4, <1>5
<1>11. nb + 1 <= MaxB(cfg) /\ MaxB(cfg) \in Nat BY Zenon, <1>5, <1>8, <1>9, <1>10, SnapshotsFit
<1>12. BrRoom(cfg, br, T)
  <2>1. DOMAIN br = 0..(Tmax * MaxB(cfg) - 1) BY Zenon DEF Allocated
  <2> HIDE DEF T
  <2> QED BY Zenon, <2>1, <1>4, <1>5, <1>6, <1>11, SnapRoom
<1>13. LayerHas(ks, kv, L, Q, n)
  <2>1. L \in 0..(req.NL - 1) /\ ~(L < L) BY <1>1, <1>4, <1>5
  <2>2. LayerHas(ks, kv, L, Q, IF L < L THEN n + T ELSE n) BY Zenon, <2>1 DEF SweepHolds
  <2> HIDE DEF L, T, Q, n
  <2> QED BY Zenon, <2>1, <2>2
<1> DEFINE base == MlaSlot(cfg, L) * Tmax
<1>14. ASSUME IsMla(cfg, L), req.inc PROVE Wrote
  <2>1. DOMAIN kv = 0..(NMla(cfg, req.NL) * Tmax - 1) BY Zenon, <1>14 DEF Allocated
  <2>2. DOMAIN kv \subseteq Nat BY <2>1
  <2>3. \A s \in 1..Tmax : base + s - 1 \in DOMAIN kv /\ base \in Nat
    BY Zenon, <2>1, <1>14, <1>1, <1>4, <1>5, RowsRoom
  <2>4. \A s \in 1..(n + T) : s \in 1..Tmax BY <1>4, <1>5
  <2>5. \A s \in 1..(n + T) : base + s - 1 \in DOMAIN kv BY Zenon, <2>3, <2>4
  <2>6. base \in Nat
    <3>1. Tmax > 0 BY Zenon, <1>2, Shape
    <3>2. 1 \in 1..Tmax BY <3>1, <1>4
    <3> QED BY Zenon, <3>2, <2>3
  <2>7. RowsHold(kv, base, L, Q, n) BY Zenon, <1>13, <1>14 DEF LayerHas
  <2> HIDE DEF base, L, T, Q
  <2>8. MlaTo(L, kv, base, Q, n, T) BY Zenon, <2>2, <2>5, <2>6, <2>7, <1>4, <1>5, MlaExact
  <2> QED BY Zenon, <2>8 DEF Wrote, base, L, T, Q
<1>15. RanTo
  <2>1. ~IsMla(cfg, L) => KdaHolds(cfg, L, ks[L], Q, n) BY Zenon, <1>13 DEF LayerHas
  <2>2. IsMla(cfg, L) /\ req.inc => MlaTo(L, kv, MlaSlot(cfg, L) * Tmax, Q, n, T)
    BY Zenon, <1>14 DEF Wrote
  <2>3. IsMla(cfg, L) /\ ~req.inc => n = 0 BY Zenon, <1>4
  <2> DEFINE st == ks[L]
  <2>4. ~IsMla(cfg, L) => KdaHolds(cfg, L, st, Q, n) BY Zenon, <2>1
  <2> HIDE DEF L, nb, T, Q, st
  <2>5. LayerTo(cfg, L, br, nb, st, kv, Tmax, Q, n, T)
    BY Zenon, <2>2, <2>3, <2>4, <1>4, <1>5, <1>7, <1>11, <1>12, LayerExact
  <2> QED BY Zenon, <2>5 DEF RanTo, L, nb, T, Q, st
<1>16. ~PastCache(call.L, Len(call.ids))
  <2> HIDE DEF T
  <2>1. ~(cached + T - 1 >= Tmax) BY <1>4, <1>5
  <2> QED BY Zenon, <2>1 DEF PastCache, T
<1>17. /\ h' = Ran.h /\ br' = Ran.br /\ kv' = Ran.kv
       /\ ks' = [ks EXCEPT ![call.L] = Ran.kda]
       /\ call' = [call EXCEPT !.L = @ + 1, !.nb = Ran.nb] /\ pc' = "layer"
  <2>1. LayerInc(cfg, call.L, h, br, call.nb, ks[call.L], kv, req.inc, cached, Tmax) = Ran
    BY Zenon, <1>7 DEF Ran
  <2> QED BY Zenon, <2>1, <1>1, <1>16 DEF ForwardLayer
<1> QED BY Zenon, <1>14, <1>15, <1>17

(* A layer step takes every piece of state one layer further.              *)
LEMMA LayerHolds ==
  ASSUME SessionInv, Allocated, SweepHolds, KindHolds, ForwardLayer
  PROVE  Allocated' /\ SweepHolds' /\ KindHolds' /\ SweepsExact'
<1> DEFINE L == call.L  nb == call.nb  T == Len(call.ids)  Q == Text  n == cached
           base == MlaSlot(cfg, L) * Tmax
           mine == MlaCached(L, kv, base, n, Fed(L, Q, n, T)).kv
<1>1. pc = "layer" /\ L < req.NL /\ UNCHANGED <<cfg, req, seq, cached, snap>>
  BY Zenon DEF ForwardLayer
<1>2. pc # "start" BY <1>1
<1>3. SweepOk(call) BY Zenon, <1>1 DEF SessionInv
<1>4. /\ cfg.attn_res_block \in Nat \ {0} /\ req.NL \in Nat /\ cached \in Nat /\ Tmax \in Nat
  BY Zenon, <1>2, Shape
<1>5. L \in Nat /\ T \in Nat /\ n + T <= Tmax BY <1>3 DEF SweepOk
<1>6. /\ h' = Ran.h /\ br' = Ran.br /\ kv' = Ran.kv
      /\ ks' = [ks EXCEPT ![L] = Ran.kda]
      /\ call' = [call EXCEPT !.L = @ + 1, !.nb = Ran.nb] /\ pc' = "layer"
      /\ RanTo /\ (IsMla(cfg, L) /\ req.inc => Wrote)
  BY Zenon, LayerRan
<1>7. /\ call'.ids = call.ids /\ call'.kind = call.kind /\ call'.emit = call.emit
      /\ call'.L = L + 1 /\ call'.nb = Ran.nb
  <2> DEFINE r == Ran.nb
  <2>1. call' = [call EXCEPT !.L = @ + 1, !.nb = r] BY Zenon, <1>6
  <2> HIDE DEF r
  <2>3. /\ call'.ids = call.ids /\ call'.kind = call.kind /\ call'.emit = call.emit
        /\ call'.L = call.L + 1 /\ call'.nb = r
    BY <2>1
  <2> QED BY Zenon, <2>3 DEF r
<1>8. /\ Ran.h = Streams(L + 1, Q, n, T) /\ Ran.nb = (IF Boundary(cfg, L) THEN nb + 1 ELSE nb)
      /\ BrHolds(cfg, Ran.br, Q, n, T, Ran.nb) /\ DOMAIN Ran.br = DOMAIN br
      /\ (~IsMla(cfg, L) => KdaHolds(cfg, L, Ran.kda, Q, n + T))
      /\ Ran.kv = (IF IsMla(cfg, L) /\ req.inc THEN mine ELSE kv)
  BY Zenon, <1>6 DEF RanTo, LayerTo, Ran
<1> DEFINE hh == Ran.h  bb == Ran.br  kk == Ran.kda  vv == Ran.kv  mm == Ran.nb
<1> HIDE DEF hh, bb, kk, vv, mm
<1>9. Text' = Q /\ Tmax' = Tmax
  BY Zenon, <1>1, <1>7 DEF Text, TextOf, Pre, Tmax, TmaxOf
<1>10. DOMAIN ks = 0..(req.NL - 1) /\ L \in 0..(req.NL - 1)
  <2>1. L \in 0..(req.NL - 1) BY <1>1, <1>4, <1>5
  <2> QED BY Zenon, <2>1 DEF Allocated
<1>11. ks'[L] = kk /\ \A M \in 0..(req.NL - 1) : M # L => ks'[M] = ks[M]
  <2> HIDE DEF L
  <2> QED BY <1>6, <1>10 DEF kk
<1>12. IsMla(cfg, L) /\ req.inc =>
         /\ RowsHold(mine, base, L, Q, n + T) /\ DOMAIN mine = DOMAIN kv
         /\ DOMAIN kv = 0..(NMla(cfg, req.NL) * Tmax - 1)
  BY Zenon, <1>6 DEF Wrote, MlaTo, Allocated
<1> HIDE DEF mine
<1>13. ASSUME NEW M \in 0..(req.NL - 1)
       PROVE  LayerHas(ks', kv', M, Q, IF M < L + 1 THEN n + T ELSE n)
  <2> DEFINE k == IF M < L + 1 THEN n + T ELSE n
  <2>1. M \in Nat /\ M < req.NL BY <1>4
  <2>2. k \in Nat /\ k <= Tmax BY <1>4, <1>5
  <2>3. CASE M = L
    <3>1. k = n + T
      <4>1. L < L + 1 BY <1>5
      <4> QED BY Zenon, <2>3, <4>1
    <3>2. ~IsMla(cfg, M) => KdaHolds(cfg, M, ks'[M], Q, k) BY Zenon, <3>1, <2>3, <1>8, <1>11 DEF kk
    <3>3. IsMla(cfg, M) /\ req.inc => RowsHold(kv', MlaSlot(cfg, M) * Tmax, M, Q, k)
      BY Zenon, <3>1, <2>3, <1>6, <1>8, <1>12
    <3> QED BY Zenon, <3>2, <3>3 DEF LayerHas
  <2>4. CASE M # L
    <3>1. k = (IF M < L THEN n + T ELSE n)
      <4>1. (M < L + 1) <=> (M < L) BY <2>1, <2>4, <1>5
      <4> QED BY Zenon, <4>1
    <3>2. LayerHas(ks, kv, M, Q, k) BY Zenon, <3>1 DEF SweepHolds
    <3> HIDE DEF k, L, Q, n, T
    <3>3. ~IsMla(cfg, M) => KdaHolds(cfg, M, ks'[M], Q, k)
      BY Zenon, <3>2, <2>4, <1>11 DEF LayerHas
    <3>4. ASSUME IsMla(cfg, M), req.inc PROVE RowsHold(kv', MlaSlot(cfg, M) * Tmax, M, Q, k)
      <4>1. RowsHold(kv, MlaSlot(cfg, M) * Tmax, M, Q, k) BY Zenon, <3>2, <3>4 DEF LayerHas
      <4>2. CASE IsMla(cfg, L)
        <5>1. MlaTo(L, kv, MlaSlot(cfg, L) * Tmax, Q, n, T)
          BY Zenon, <4>2, <3>4, <1>6 DEF Wrote, L, Q, n, T
        <5>2. RowsHold(MlaCached(L, kv, MlaSlot(cfg, L) * Tmax, n, Fed(L, Q, n, T)).kv,
                       MlaSlot(cfg, M) * Tmax, M, Q, k)
          BY Zenon, <5>1, <4>1, <4>2, <3>4, <2>1, <2>2, <2>4, <1>1, <1>4, <1>5, <1>12, n \in Nat,
             OthersKept DEF n
        <5>3. kv' = MlaCached(L, kv, MlaSlot(cfg, L) * Tmax, n, Fed(L, Q, n, T)).kv
          BY Zenon, <4>2, <3>4, <1>6, <1>8 DEF mine
        <5> QED BY Zenon, <5>2, <5>3
      <4>3. CASE ~IsMla(cfg, L)
        <5>1. kv' = kv BY Zenon, <4>3, <1>6, <1>8
        <5> QED BY Zenon, <5>1, <4>1
      <4> QED BY Zenon, <4>2, <4>3
    <3>5. LayerHas(ks', kv', M, Q, k) BY Zenon, <3>3, <3>4 DEF LayerHas
    <3> QED BY Zenon, <3>5 DEF k
  <2> QED BY Zenon, <2>3, <2>4
<1>14. SweepHolds'
  <2>1. ASSUME NEW M \in 0..(req.NL - 1)
        PROVE  LayerHas(ks, kv, M, Text, IF M < call.L THEN cached + Len(call.ids) ELSE cached)'
    <3> DEFINE k == IF M < L + 1 THEN n + T ELSE n
    <3>1. (IF M < call.L THEN cached + Len(call.ids) ELSE cached)' = k BY Zenon, <1>1, <1>7
    <3>2. LayerHas(ks', kv', M, Q, k) BY Zenon, <1>13
    <3> HIDE DEF k, Q, L
    <3> QED BY Zenon, <3>1, <3>2, <1>1, <1>9 DEF LayerHas
  <2>2. SnapsOk(cfg, L, nb) BY Zenon DEF SweepHolds
  <2>3. TakesNext(cfg, L, nb) BY Zenon, <2>2, <1>4, <1>5, SnapsNext
  <2>4. SnapsOk(cfg', call'.L, call'.nb) BY Zenon, <2>3, <1>1, <1>7, <1>8 DEF TakesNext
  <2>5. h' = Streams(call'.L, Text', cached', Len(call'.ids)) BY Zenon, <1>1, <1>6, <1>7, <1>8, <1>9
  <2>6. BrHolds(cfg', br', Text', cached', Len(call'.ids), call'.nb)
    BY Zenon, <1>1, <1>6, <1>7, <1>8, <1>9
  <2>7. pc' # "swept" BY <1>6
  <2> QED BY Zenon, <2>1, <2>4, <2>5, <2>6, <2>7, <1>1 DEF SweepHolds
<1>15. KindHolds' BY Zenon, <1>1, <1>7, <1>9 DEF KindHolds
<1>16. Allocated'
  <2>1. DOMAIN ks' = DOMAIN ks BY Zenon, <1>6
  <2>2. req.inc => DOMAIN kv' = DOMAIN kv
    <3>1. CASE IsMla(cfg, L) BY Zenon, <3>1, <1>6, <1>8, <1>12
    <3>2. CASE ~IsMla(cfg, L) BY Zenon, <3>2, <1>6, <1>8
    <3> QED BY Zenon, <3>1, <3>2
  <2>3. DOMAIN br' = DOMAIN br BY Zenon, <1>6, <1>8
  <2> QED BY Zenon, <2>1, <2>2, <2>3, <1>1, <1>9 DEF Allocated
<1>17. SweepsExact'
  <2>1. pc' # "swept" BY <1>6
  <2> QED BY Zenon, <2>1 DEF SweepsExact
<1> QED BY Zenon, <1>14, <1>15, <1>16, <1>17

(* The aggregator returns the logits of the text.                          *)
LEMMA HeadHolds ==
  ASSUME SessionInv, Allocated, SweepHolds, KindHolds, ForwardHead
  PROVE  Allocated' /\ SweepHolds' /\ KindHolds' /\ SweepsExact'
<1> DEFINE T == Len(call.ids)  first == IF call.all THEN 1 ELSE T  N == T - first + 1
           Q == Text  n == cached  nb == call.nb
<1>1. /\ pc = "layer" /\ pc' = "swept" /\ call.L = req.NL
      /\ UNCHANGED <<cfg, req, seq, nout, cached, ks, snap, kv, h, br, call, file>>
      /\ out' = [i \in 1..N |-> HeadRow(cfg, req.NL, br, nb, first + i - 1, h[first + i - 1])]
  BY Zenon DEF ForwardHead
<1>2. pc # "start" BY <1>1
<1>3. SweepOk(call) BY Zenon, <1>1 DEF SessionInv
<1>4. req.NL \in Nat /\ req.NL > 0 /\ cached \in Nat BY Zenon, <1>2, Shape
<1>5. call.ids \in Seq(Toks) /\ T \in Nat /\ T > 0 BY <1>3 DEF SweepOk
<1>6. SnapsOk(cfg, req.NL, nb) /\ h = Streams(req.NL, Q, n, T) /\ BrHolds(cfg, br, Q, n, T, nb)
  BY Zenon, <1>1 DEF SweepHolds
<1>7. Spells(Q, seq, n, call.ids) BY Zenon, <1>4, <1>5, TextIs DEF Text
<1>8. Text' = Text /\ Tmax' = Tmax BY Zenon, <1>1 DEF Text, TextOf, Pre, Tmax, TmaxOf
<1>9. first \in 1..T /\ N \in Nat
  <2>1. CASE call.all BY <2>1, <1>5
  <2>2. CASE ~call.all BY <2>2, <1>5
  <2> QED BY Zenon, <2>1, <2>2
<1> HIDE DEF first, T, Q, nb
<1>10. Len(out') = N /\ DOMAIN out' = 1..N
  <2>1. Tup(out', N) BY Zenon, <1>1 DEF Tup
  <2> HIDE DEF N
  <2> QED BY Zenon, <2>1, <1>9, TupLen
<1>11. ASSUME NEW i \in 1..N
       PROVE  out'[i] = LogitsOf(req.NL, Pre(seq, n) \o Pre(call.ids, T - N + i))
  <2> DEFINE t == first + i - 1
  <2>1. t \in 1..T /\ T - N + i = t BY <1>5, <1>9
  <2>2. out'[i] = HeadRow(cfg, req.NL, br, nb, t, h[t]) BY Zenon, <1>1
  <2> HIDE DEF t
  <2>3. h[t] = ResOf(req.NL, Pre(Q, n + t)) BY Zenon, <2>1, <1>6 DEF Streams
  <2> DEFINE NL == req.NL
  <2>4. NL \in Nat /\ NL > 0 /\ SnapsOk(cfg, NL, nb) BY Zenon, <1>4, <1>6
  <2>5. h[t] = ResOf(NL, Pre(Q, n + t)) /\ out'[i] = HeadRow(cfg, NL, br, nb, t, h[t])
    BY Zenon, <2>2, <2>3
  <2> HIDE DEF NL
  <2>6. HeadTo(cfg, NL, br, nb, Q, n, t) BY Zenon, <2>1, <2>4, <1>4, <1>5, <1>6, HeadExact
  <2>7. Pre(Q, n + t) = Pre(seq, n) \o Pre(call.ids, t) BY Zenon, <2>1, <1>7 DEF Spells, T
  <2>8. out'[i] = LogitsOf(NL, Pre(seq, n) \o Pre(call.ids, t))
    BY Zenon, <2>5, <2>6, <2>7 DEF HeadTo
  <2> QED BY Zenon, <2>1, <2>8 DEF NL
<1>12. SweepsExact'
  <2> SUFFICES ASSUME NEW i \in DOMAIN out'
               PROVE  (out[i] = LogitsOf(req.NL, SubSeq(seq, 1, cached)
                                  \o SubSeq(call.ids, 1, Len(call.ids) - Len(out) + i)))'
    BY Zenon DEF SweepsExact
  <2>1. i \in 1..N BY Zenon, <1>10
  <2>2. out'[i] = LogitsOf(req.NL, Pre(seq, n) \o Pre(call.ids, Len(call.ids) - Len(out') + i))
    BY Zenon, <2>1, <1>10, <1>11 DEF T
  <2> QED BY Zenon, <2>2, <1>1 DEF Pre
<1>13. SweepHolds'
  <2>1. ASSUME NEW M \in 0..(req.NL - 1)
        PROVE  LayerHas(ks, kv, M, Text, IF M < call.L THEN cached + Len(call.ids) ELSE cached)'
    <3>1. LayerHas(ks, kv, M, Text, IF M < call.L THEN cached + Len(call.ids) ELSE cached)
      BY Zenon DEF SweepHolds
    <3> QED BY Zenon, <3>1, <1>1, <1>8 DEF LayerHas
  <2>2. SnapsOk(cfg, call.L, call.nb)' BY Zenon, <1>1 DEF SweepHolds, SnapsOk
  <2>3. pc' # "layer" BY <1>1
  <2> QED BY Zenon, <2>1, <2>2, <2>3, <1>1 DEF SweepHolds
<1>14. KindHolds' BY Zenon, <1>1, <1>8 DEF KindHolds
<1>15. Allocated' BY Zenon, <1>1, <1>8 DEF Allocated
<1> QED BY Zenon, <1>12, <1>13, <1>14, <1>15

(***************************************************************************)
(* The sweeps main starts                                                  *)
(***************************************************************************)
(* One that feeds the sequence on.                                         *)
LEMMA FeedHolds ==
  ASSUME SessionInv, pc = "step", req.inc, Allocated, LoopHolds, NEW ids \in Seq(Toks),
         \A t \in 1..Len(ids) : ids[t] = seq[cached + t],
         ForwardEnter(NewCall("feed", ids, FALSE), ks),
         UNCHANGED <<cfg, req, seq, nout, cached, snap, kv, file>>
  PROVE  Allocated' /\ SweepHolds' /\ KindHolds' /\ SweepsExact'
<1> DEFINE c == NewCall("feed", ids, FALSE)
<1>1. c.L = 0 /\ c.nb = 0 /\ c.ids = ids /\ c.kind = "feed" BY DEF NewCall
<1>2. ForwardEnter(c, ks) /\ pc # "start" OBVIOUS
<1>3. DOMAIN ks = 0..(req.NL - 1) BY Zenon DEF Allocated
<1>4. req.inc => Carried(ks, kv, seq, cached) BY Zenon DEF LoopHolds
<1>5. cached \in Nat BY Zenon, <1>2, Shape
<1>6. Spells(TextOf(seq, cached, ids), seq, cached, ids) BY Zenon, <1>5, TextIs
<1>7. Agree(TextOf(seq, cached, ids), seq, cached + Len(ids)) BY Zenon, <1>5, <1>6, GoesOn
<1> HIDE DEF c
<1>8. call' = c BY Zenon, <1>2 DEF ForwardEnter
<1>9. Text' = TextOf(seq, cached, ids) BY Zenon, <1>1, <1>8 DEF Text, TextOf, Pre
<1>10. KindHolds'
  <2>1. call'.kind = "feed" BY Zenon, <1>1, <1>8
  <2>2. ~(call'.kind \in {"verify", "replay"}) /\ call'.kind # "verify" /\ call'.kind # "replay"
    BY <2>1
  <2>3. Agree(Text', seq', cached' + Len(call'.ids)) BY Zenon, <1>1, <1>7, <1>8, <1>9
  <2> QED BY Zenon, <2>2, <2>3 DEF KindHolds, Agree, Pre
<1>11. Allocated' /\ SweepHolds' /\ SweepsExact'
  BY Zenon, <1>1, <1>2, <1>3, <1>4, EnterHolds
<1> QED BY Zenon, <1>10, <1>11

(* The first step feeds all that was not consumed yet.                     *)
LEMMA StepZeroHolds ==
  ASSUME SessionInv, Allocated, LoopHolds, StepZero
  PROVE  Allocated' /\ SweepHolds' /\ KindHolds' /\ SweepsExact'
<1>1. /\ pc = "step" /\ req.inc /\ nout = 0
      /\ UNCHANGED <<cfg, req, seq, nout, cached, snap, kv, file>>
      /\ ForwardEnter(NewCall("feed", Unread, FALSE), ks)
  BY Zenon DEF StepZero
<1>2. pc # "start" BY <1>1
<1>3. cached \in Nat /\ seq \in Seq(Toks) BY Zenon, <1>2, Shape
<1>4. ReqOk /\ LoopOk BY Zenon, <1>2 DEF SessionInv
<1>5. Len(seq) \in Nat /\ cached <= Len(seq)
  <2>1. cached <= req.prior BY Zenon, <1>1, <1>4 DEF LoopOk
  <2>2. Len(seq) \in Nat /\ Len(seq) = req.prior + req.np + nout /\ req.prior \in Nat
        /\ req.np \in Nat /\ nout \in Nat
    BY Zenon, <1>4, Room
  <2> QED BY <2>1, <2>2, <1>3
<1> DEFINE ids == Unread  m == cached + 1  e == Len(seq)
<1>6. m \in Int /\ e \in Int /\ m <= e + 1 BY <1>3, <1>5
<1>7. ids = Slice(seq, m, e) BY Zenon, <1>6, SubIs DEF Unread
<1>8. e - m + 1 \in Nat BY <1>3, <1>5
<1> HIDE DEF e, ids
<1> DEFINE k == e - m + 1
<1>9. Tup(ids, k) BY Zenon, <1>7 DEF Slice, Tup
<1>10. Len(ids) = k BY Zenon, <1>8, <1>9, TupLen
<1>11. ASSUME NEW t \in 1..Len(ids) PROVE ids[t] = seq[cached + t]
  <2>1. t \in 1..k BY Zenon, <1>10
  <2>2. ids[t] = seq[m + t - 1] BY Zenon, <2>1, <1>7 DEF Slice
  <2>3. m + t - 1 = cached + t BY <2>1, <1>8, <1>3
  <2> QED BY Zenon, <2>2, <2>3
<1>12. ids \in Seq(Toks)
  <2>1. SubSeq(seq, cached + 1, Len(seq)) \in Seq(Toks) BY <1>3, <1>5
  <2> QED BY Zenon, <2>1 DEF ids, Unread
<1>13. ForwardEnter(NewCall("feed", ids, FALSE), ks) BY Zenon, <1>1 DEF ids
<1> QED BY Zenon, <1>1, <1>11, <1>12, <1>13, FeedHolds

(* A plain step feeds the one token pending.                               *)
LEMMA StepPlainHolds ==
  ASSUME SessionInv, Allocated, LoopHolds, StepPlain
  PROVE  Allocated' /\ SweepHolds' /\ KindHolds' /\ SweepsExact'
<1>1. /\ pc = "step" /\ req.inc /\ nout > 0
      /\ UNCHANGED <<cfg, req, seq, nout, cached, snap, kv, file>>
      /\ ForwardEnter(NewCall("feed", <<seq[cached + 1]>>, FALSE), ks)
  BY Zenon DEF StepPlain
<1>2. pc # "start" BY <1>1
<1>3. cached \in Nat /\ seq \in Seq(Toks) BY Zenon, <1>2, Shape
<1>4. cached + 1 = Len(seq) BY Zenon, <1>1, <1>2 DEF SessionInv, LoopOk
<1>5. seq[cached + 1] \in Toks BY <1>3, <1>4
<1> DEFINE ids == <<seq[cached + 1]>>
<1>6. ids \in Seq(Toks) /\ Len(ids) = 1 /\ ids[1] = seq[cached + 1] BY <1>5
<1> HIDE DEF ids
<1>7. ASSUME NEW t \in 1..Len(ids) PROVE ids[t] = seq[cached + t]
  <2>1. t = 1 BY <1>6
  <2> QED BY Zenon, <2>1, <1>6
<1>8. ForwardEnter(NewCall("feed", ids, FALSE), ks) BY Zenon, <1>1 DEF ids
<1> QED BY Zenon, <1>1, <1>6, <1>7, <1>8, FeedHolds

(* The sweeps that carry nothing on have nothing more to keep.             *)
LEMMA StepFullHolds ==
  ASSUME SessionInv, Allocated, StepFull
  PROVE  Allocated' /\ SweepHolds' /\ KindHolds' /\ SweepsExact'
<1> DEFINE c == NewCall("full", seq, FALSE)
<1>1. /\ pc = "step" /\ ~req.inc /\ UNCHANGED <<cfg, req, seq, cached, kv>>
      /\ ForwardEnter(c, ks)
  BY Zenon DEF StepFull
<1>2. c.L = 0 /\ c.nb = 0 /\ c.ids = seq /\ c.kind = "full" BY DEF NewCall
<1> HIDE DEF c
<1>3. pc # "start" BY <1>1
<1>4. c.ids \in Seq(Toks) BY Zenon, <1>2, <1>3, Shape
<1>5. DOMAIN ks = 0..(req.NL - 1) BY Zenon DEF Allocated
<1>6. Allocated' /\ SweepHolds' /\ SweepsExact'
  BY Zenon, <1>1, <1>2, <1>3, <1>4, <1>5, EnterHolds
<1>7. call'.kind = "full" BY Zenon, <1>1, <1>2 DEF ForwardEnter
<1>8. call'.kind \notin {"feed", "verify", "replay"} BY <1>7
<1>9. KindHolds' BY Zenon, <1>8 DEF KindHolds
<1> QED BY Zenon, <1>6, <1>9

(* --tf-check feeds the first np tokens behind what was consumed.          *)
LEMMA TfCheckHolds ==
  ASSUME SessionInv, Allocated, LoopHolds, TfCheck
  PROVE  Allocated' /\ SweepHolds' /\ KindHolds' /\ SweepsExact'
<1> DEFINE ids == SubSeq(seq, 1, req.np)  c == NewCall("tf", ids, TRUE)
<1>1. /\ pc \in {"step", "end"} /\ UNCHANGED <<cfg, req, seq, cached, kv>>
      /\ ForwardEnter(c, ks)
  BY Zenon DEF TfCheck
<1>2. c.L = 0 /\ c.nb = 0 /\ c.ids = ids /\ c.kind = "tf" BY DEF NewCall
<1>3. pc # "start" BY <1>1
<1>4. ReqOk /\ LoopOk BY Zenon, <1>3 DEF SessionInv
<1>5. ids \in Seq(Toks) BY <1>4 DEF ReqOk, LoopOk
<1> HIDE DEF c, ids
<1>6. c.ids \in Seq(Toks) BY Zenon, <1>2, <1>5
<1>7. DOMAIN ks = 0..(req.NL - 1) /\ (req.inc => Carried(ks, kv, seq, cached))
  BY Zenon DEF Allocated, LoopHolds
<1>8. Allocated' /\ SweepHolds' /\ SweepsExact'
  BY Zenon, <1>1, <1>2, <1>3, <1>6, <1>7, EnterHolds
<1>9. call'.kind = "tf" BY Zenon, <1>1, <1>2 DEF ForwardEnter
<1>10. call'.kind \notin {"feed", "verify", "replay"} BY <1>9
<1>11. KindHolds' BY Zenon, <1>10 DEF KindHolds
<1> QED BY Zenon, <1>8, <1>11

(* A batch to verify keeps the state before it.                            *)
LEMMA StepVerifyHolds ==
  ASSUME SessionInv, Allocated, LoopHolds, NEW d \in Drafts, StepVerify(d)
  PROVE  Allocated' /\ SweepHolds' /\ KindHolds' /\ SweepsExact'
<1> DEFINE ids == <<seq[cached + 1]>> \o d  c == NewCall("verify", ids, TRUE)
<1>1. /\ pc = "step" /\ req.inc /\ nout > 0 /\ snap' = ks
      /\ UNCHANGED <<cfg, req, seq, cached, kv>> /\ ForwardEnter(c, ks)
  BY Zenon DEF StepVerify
<1>2. c.L = 0 /\ c.nb = 0 /\ c.ids = ids /\ c.kind = "verify" BY DEF NewCall
<1>3. pc # "start" BY <1>1
<1>4. cached \in Nat /\ seq \in Seq(Toks) BY Zenon, <1>3, Shape
<1>5. cached + 1 = Len(seq) BY Zenon, <1>1, <1>3 DEF SessionInv, LoopOk
<1>6. seq[cached + 1] \in Toks BY <1>4, <1>5
<1>7. d \in Seq(Toks) BY DEF Drafts
<1>8. ids \in Seq(Toks) /\ ids[1] = seq[cached + 1] BY <1>6, <1>7
<1> HIDE DEF c, ids
<1>9. c.ids \in Seq(Toks) BY Zenon, <1>2, <1>8
<1>10. DOMAIN ks = 0..(req.NL - 1) /\ Carried(ks, kv, seq, cached)
  BY Zenon, <1>1 DEF Allocated, LoopHolds
<1>11. Allocated' /\ SweepHolds' /\ SweepsExact'
  BY Zenon, <1>1, <1>2, <1>3, <1>9, <1>10, EnterHolds
<1>12. call' = c BY Zenon, <1>1 DEF ForwardEnter
<1>13. call'.kind = "verify" BY Zenon, <1>2, <1>12
<1>14. call'.kind # "feed" /\ call'.kind # "replay" BY <1>13
<1>15. call'.ids[1] = seq'[cached' + 1] BY Zenon, <1>1, <1>2, <1>8, <1>12
<1>16. ASSUME NEW L \in 0..(req.NL - 1), ~IsMla(cfg, L)
       PROVE  KdaHolds(cfg, L, ks[L], seq, cached)
  BY Zenon, <1>10, <1>16 DEF Carried, LayerHas
<1>17. KindHolds' BY Zenon, <1>1, <1>10, <1>14, <1>15, <1>16 DEF KindHolds
<1> QED BY Zenon, <1>11, <1>17

(* After a rejected draft the recurrent state is the one before the batch, *)
(* and the cache rows of the tokens consumed before it are untouched.      *)
LEMMA SnapCarried ==
  ASSUME SessionInv, SweepHolds, KindHolds, pc = "swept", call.kind = "verify"
  PROVE  Carried(snap, kv, seq, cached)
<1> DEFINE T == Len(call.ids)  n == cached + T  Q == Text
<1>1. pc # "start" OBVIOUS
<1>2. cached \in Nat /\ req.NL \in Nat BY Zenon, <1>1, Shape
<1>3. call.ids \in Seq(Toks) BY Zenon DEF SessionInv, SweepOk
<1>4. T \in Nat BY <1>3
<1>5. Spells(Q, seq, cached, call.ids) BY Zenon, <1>2, <1>3, TextIs DEF Text
<1>6. Agree(Q, seq, cached) BY Zenon, <1>5 DEF Spells
<1>7. call.L = req.NL BY Zenon DEF SweepHolds
<1> SUFFICES ASSUME NEW L \in 0..(req.NL - 1) PROVE LayerHas(snap, kv, L, seq, cached)
  BY Zenon DEF Carried
<1>8. L < call.L BY <1>2, <1>7
<1> DEFINE base == MlaSlot(cfg, L) * Tmax
<1>9. ASSUME IsMla(cfg, L), req.inc PROVE RowsHold(kv, base, L, seq, cached)
  <2>1. LayerHas(ks, kv, L, Q, n) BY Zenon, <1>8 DEF SweepHolds
  <2>2. RowsHold(kv, base, L, Q, n) BY Zenon, <2>1, <1>9 DEF LayerHas
  <2> HIDE DEF base, Q, T
  <2>3. n \in Nat /\ cached <= n BY <1>2, <1>4
  <2> HIDE DEF n
  <2>4. RowsHold(kv, base, L, Q, cached) BY Zenon, <2>2, <2>3, <1>2, RowsLess
  <2> QED BY Zenon, <2>4, <1>2, <1>6, RowsAgree
<1>10. ~IsMla(cfg, L) => KdaHolds(cfg, L, snap[L], seq, cached) BY Zenon DEF KindHolds
<1> QED BY Zenon, <1>9, <1>10 DEF LayerHas

(* A replay starts where the rejected batch did.                           *)
LEMMA SweptRejectHolds ==
  ASSUME SessionInv, Allocated, SweepHolds, KindHolds, NEW m \in Nat, NEW tok \in Toks,
         SweptReject(m, tok)
  PROVE  Allocated' /\ SweepHolds' /\ KindHolds' /\ SweepsExact'
<1> DEFINE ids == SubSeq(call.ids, 1, m + 1)
           fs == SubSeq(call.ids, 2, m + 1)
           es == fs \o <<tok>>
           c == [NewCall("replay", ids, FALSE) EXCEPT !.emit = es]
<1>1. /\ pc = "swept" /\ call.kind = "verify" /\ m + 1 < Len(call.ids)
      /\ UNCHANGED <<cfg, req, seq, cached, kv>> /\ ForwardEnter(c, snap)
  BY Zenon DEF SweptReject
<1>2. pc # "start" BY <1>1
<1>3. call.ids \in Seq(Toks) BY Zenon, <1>1 DEF SessionInv, SweepOk
<1>4. ids \in Seq(Toks) /\ Len(ids) = m + 1 /\ \A i \in 1..(m + 1) : ids[i] = call.ids[i]
  BY <1>1, <1>3
<1>5. fs \in Seq(Toks) /\ Len(fs) = m /\ \A i \in 1..m : fs[i] = call.ids[i + 1]
  BY <1>1, <1>3
<1> HIDE DEF fs
<1>6. \A i \in 1..m : es[i] = call.ids[i + 1] BY <1>5
<1>7. c.L = 0 /\ c.nb = 0 /\ c.ids = ids /\ c.kind = "replay" /\ c.emit = es BY Zenon DEF NewCall
<1> HIDE DEF c, ids, es
<1>8. c.ids \in Seq(Toks) BY Zenon, <1>4, <1>7
<1>9. DOMAIN snap = 0..(req.NL - 1) BY Zenon, <1>1 DEF KindHolds
<1>10. Carried(snap, kv, seq, cached) BY Zenon, <1>1, SnapCarried
<1>11. Allocated' /\ SweepHolds' /\ SweepsExact'
  BY Zenon, <1>1, <1>2, <1>7, <1>8, <1>9, <1>10, EnterHolds
<1>12. call' = c BY Zenon, <1>1 DEF ForwardEnter
<1>13. call'.kind = "replay" BY Zenon, <1>7, <1>12
<1>14. call'.kind # "feed" /\ call'.kind # "verify" BY <1>13
<1>15. call'.ids[1] = seq'[cached' + 1]
  <2>1. 1 \in 1..(m + 1) OBVIOUS
  <2>2. call.ids[1] = seq[cached + 1] BY Zenon, <1>1 DEF KindHolds
  <2> QED BY Zenon, <2>1, <2>2, <1>1, <1>4, <1>7, <1>12
<1>16. ASSUME NEW i \in 1..(Len(ids) - 1) PROVE es[i] = ids[i + 1]
  <2>1. i \in 1..m /\ i + 1 \in 1..(m + 1) BY <1>4
  <2> QED BY Zenon, <2>1, <1>4, <1>6
<1>17. \A i \in 1..(Len(call'.ids) - 1) : call'.emit[i] = call'.ids[i + 1]
  BY Zenon, <1>7, <1>12, <1>16
<1>18. KindHolds' BY Zenon, <1>14, <1>15, <1>17 DEF KindHolds
<1> QED BY Zenon, <1>11, <1>18

(***************************************************************************)
(* What the sweeps return to                                               *)
(***************************************************************************)
(* Texts that begin alike have the same tokens there.                      *)
LEMMA AgreeAt ==
  ASSUME NEW Q, NEW R, NEW n \in Nat, Agree(Q, R, n), NEW i \in 1..n
  PROVE  Q[i] = R[i]
<1>1. i \in Nat /\ i \in 0..n /\ i \in 1..i OBVIOUS
<1>2. Pre(Q, i)[i] = Q[i] /\ Pre(R, i)[i] = R[i] BY Zenon, <1>1, PreIs
<1>3. Pre(Q, i) = Pre(R, i) BY Zenon, <1>1 DEF Agree
<1> QED BY Zenon, <1>2, <1>3

(* Once every layer ran, the state is that of any sequence that goes on    *)
(* from the consumed part with the tokens fed.                             *)
LEMMA SweptCarried ==
  ASSUME SessionInv, SweepHolds, pc = "swept", NEW R, \A i \in 1..cached : R[i] = seq[i],
         \A t \in 1..Len(call.ids) : R[cached + t] = call.ids[t]
  PROVE  Carried(ks, kv, R, cached + Len(call.ids))
<1> DEFINE T == Len(call.ids)  n == cached + T  Q == Text
<1>1. pc # "start" OBVIOUS
<1>2. cached \in Nat /\ req.NL \in Nat /\ cfg.conv_k \in Nat \ {0} BY Zenon, <1>1, Shape
<1>3. call.ids \in Seq(Toks) BY Zenon DEF SessionInv, SweepOk
<1>4. n \in Nat BY <1>2, <1>3
<1>5. Spells(Q, seq, cached, call.ids) BY Zenon, <1>2, <1>3, TextIs DEF Text
<1>6. Agree(Q, R, n) BY Zenon, <1>2, <1>3, <1>5, GoesOn
<1>7. call.L = req.NL BY Zenon DEF SweepHolds
<1>8. ASSUME NEW L \in 0..(req.NL - 1) PROVE LayerHas(ks, kv, L, R, n)
  <2>1. L < call.L /\ L \in Nat BY <1>2, <1>7
  <2>2. LayerHas(ks, kv, L, Q, n) BY Zenon, <2>1 DEF SweepHolds
  <2> HIDE DEF Q, n
  <2> QED BY Zenon, <2>1, <2>2, <1>2, <1>4, <1>6, HasAgrees
<1> QED BY Zenon, <1>8 DEF Carried

(* A batch and a replay append what they fed, one token on.                *)
LEMMA BehindCarried ==
  ASSUME SessionInv, SweepHolds, KindHolds, pc = "swept", call.kind \in {"verify", "replay"},
         NEW es \in Seq(Toks), Len(es) = Len(call.ids), nout + Len(es) <= req.gen,
         \A j \in 1..(Len(call.ids) - 1) : es[j] = call.ids[j + 1], Emit(es)
  PROVE  Carried(ks, kv, seq', cached + Len(call.ids))
<1> DEFINE T == Len(call.ids)  l == Len(seq)
<1>1. ReqOk /\ LoopOk /\ SweepOk(call) /\ KindOk(call) BY Zenon DEF SessionInv
<1>2. call.kind # "tf" /\ call.kind # "feed" /\ call.kind # "full" OBVIOUS
<1>3. req.inc /\ nout > 0 BY Zenon, <1>1, <1>2 DEF KindOk
<1>4. cached + 1 = l BY Zenon, <1>1, <1>3 DEF LoopOk
<1>5. cached \in Nat /\ l \in Nat BY Zenon, <1>1, Room
<1>6. (\A i \in 1..l : seq'[i] = seq[i]) /\ (\A j \in 1..Len(es) : seq'[l + j] = es[j])
  BY Zenon, <1>1, EmitAll
<1>7. call.ids \in Seq(Toks) BY Zenon, <1>1 DEF SweepOk
<1>8. T \in Nat BY <1>7
<1>9. call.ids[1] = seq[cached + 1] BY Zenon DEF KindHolds
<1> HIDE DEF T, l
<1>10. ASSUME NEW t \in 1..T PROVE seq'[cached + t] = call.ids[t]
  <2>1. CASE t = 1
    <3>1. cached + 1 \in 1..l BY <1>4, <1>5
    <3> QED BY Zenon, <2>1, <3>1, <1>6, <1>9
  <2>2. CASE t # 1
    <3>1. t - 1 \in 1..(T - 1) /\ t - 1 \in 1..T /\ (t - 1) + 1 = t /\ l + (t - 1) = cached + t
      BY <2>2, <1>4, <1>5, <1>8
    <3>2. es[t - 1] = call.ids[t] BY Zenon, <3>1 DEF T
    <3>3. seq'[l + (t - 1)] = es[t - 1] BY Zenon, <3>1, <1>6 DEF T
    <3> QED BY Zenon, <3>1, <3>2, <3>3
  <2> QED BY Zenon, <2>1, <2>2
<1>11. ASSUME NEW i \in 1..cached PROVE seq'[i] = seq[i]
  <2>1. i \in 1..l BY <1>4, <1>5
  <2> QED BY Zenon, <2>1, <1>6
<1> DEFINE R == seq'
<1>12. (\A i \in 1..cached : R[i] = seq[i]) /\ (\A t \in 1..Len(call.ids) : R[cached + t] = call.ids[t])
  BY Zenon, <1>10, <1>11 DEF T
<1> HIDE DEF R
<1>13. Carried(ks, kv, R, cached + Len(call.ids)) BY Zenon, <1>12, SweptCarried
<1> QED BY Zenon, <1>13 DEF R

(* A feed was of the sequence itself.                                      *)
LEMMA FeedCarried ==
  ASSUME SessionInv, SweepHolds, KindHolds, pc = "swept", call.kind = "feed",
         NEW es \in Seq(Toks), nout + Len(es) <= req.gen, Emit(es)
  PROVE  Carried(ks, kv, seq', cached + Len(call.ids))
<1> DEFINE T == Len(call.ids)  l == Len(seq)  Q == Text
<1>1. ReqOk /\ LoopOk /\ SweepOk(call) /\ KindOk(call) BY Zenon DEF SessionInv
<1>2. call.kind \notin {"tf", "full", "verify", "replay"} OBVIOUS
<1>3. cached + T = l BY Zenon, <1>1, <1>2 DEF KindOk
<1>4. cached \in Nat /\ l \in Nat BY Zenon, <1>1, Room
<1>5. \A i \in 1..l : seq'[i] = seq[i] BY Zenon, <1>1, EmitAll
<1>6. call.ids \in Seq(Toks) BY Zenon, <1>1 DEF SweepOk
<1>7. T \in Nat BY <1>6
<1>8. Agree(Q, seq, cached + T) BY Zenon DEF KindHolds
<1>9. Spells(Q, seq, cached, call.ids) BY Zenon, <1>4, <1>6, TextIs DEF Text
<1> HIDE DEF T, l, Q
<1>10. Agree(Q, seq, l) BY Zenon, <1>3, <1>8
<1>11. ASSUME NEW t \in 1..T PROVE seq'[cached + t] = call.ids[t]
  <2>1. cached + t \in 1..l BY <1>3, <1>4, <1>7
  <2>2. Q[cached + t] = seq[cached + t] BY Zenon, <2>1, <1>4, <1>10, AgreeAt
  <2>3. Q[cached + t] = call.ids[t] BY Zenon, <1>9 DEF Spells, T
  <2> QED BY Zenon, <2>1, <2>2, <2>3, <1>5
<1>12. ASSUME NEW i \in 1..cached PROVE seq'[i] = seq[i]
  <2>1. i \in 1..l BY <1>3, <1>4, <1>7
  <2> QED BY Zenon, <2>1, <1>5
<1> DEFINE R == seq'
<1>13. (\A i \in 1..cached : R[i] = seq[i]) /\ (\A t \in 1..Len(call.ids) : R[cached + t] = call.ids[t])
  BY Zenon, <1>11, <1>12 DEF T
<1> HIDE DEF R
<1>14. Carried(ks, kv, R, cached + Len(call.ids)) BY Zenon, <1>13, SweptCarried
<1> QED BY Zenon, <1>14 DEF R

(* Back in the loop with the state of the new sequence.                    *)
LEMMA LoopNext ==
  ASSUME Allocated, UNCHANGED <<cfg, req, ks, kv, br>>, pc' \in {"step", "end"},
         req.inc => Carried(ks, kv, seq', cached')
  PROVE  Allocated' /\ LoopHolds' /\ SweepsExact'
<1>1. Tmax' = Tmax BY Zenon DEF Tmax, TmaxOf
<1>2. Allocated' BY Zenon, <1>1 DEF Allocated
<1>3. LoopHolds' BY Zenon, <1>1 DEF LoopHolds, Carried, LayerHas
<1>4. pc' # "swept" OBVIOUS
<1> QED BY Zenon, <1>2, <1>3, <1>4 DEF SweepsExact

(* One token follows a feed or a full recompute.                           *)
LEMMA SweptFeedHolds ==
  ASSUME SessionInv, Allocated, SweepHolds, KindHolds, NEW tok \in Toks, SweptFeed(tok)
  PROVE  Allocated' /\ LoopHolds' /\ SweepsExact' /\ pc' \in {"step", "end"}
<1> DEFINE es == <<tok>>
<1>1. /\ pc = "swept" /\ call.kind \in {"feed", "full"} /\ Emit(es)
      /\ UNCHANGED <<cfg, req, ks, kv, br>>
      /\ cached' = (IF call.kind = "feed" THEN cached + Len(call.ids) ELSE cached)
  BY Zenon DEF SweptFeed
<1>2. ReqOk /\ LoopOk /\ KindOk(call) BY Zenon, <1>1 DEF SessionInv
<1>3. nout \in Nat /\ req.gen \in Nat BY Zenon, <1>2, Room
<1>4. nout < req.gen BY Zenon, <1>1, <1>2 DEF KindOk
<1>5. es \in Seq(Toks) /\ nout + Len(es) <= req.gen BY <1>3, <1>4
<1> HIDE DEF es
<1>6. pc' \in {"step", "end"} BY Zenon, <1>1, <1>2, <1>5, EmitAll
<1>7. req.inc => Carried(ks, kv, seq', cached')
  <2>1. CASE call.kind = "feed"
    <3>1. Carried(ks, kv, seq', cached + Len(call.ids))
      BY Zenon, <2>1, <1>1, <1>5, FeedCarried
    <3> QED BY Zenon, <2>1, <3>1, <1>1
  <2>2. CASE call.kind = "full" BY Zenon, <2>2, <1>2 DEF KindOk
  <2> QED BY Zenon, <2>1, <2>2, <1>1
<1> QED BY Zenon, <1>1, <1>6, <1>7, LoopNext

(* All drafts and one token follow an accepted batch.                      *)
LEMMA SweptAcceptHolds ==
  ASSUME SessionInv, Allocated, SweepHolds, KindHolds, NEW tok \in Toks, SweptAccept(tok)
  PROVE  Allocated' /\ LoopHolds' /\ SweepsExact' /\ pc' \in {"step", "end"}
<1> DEFINE fs == Tail(call.ids)  es == fs \o <<tok>>  T == Len(call.ids)
<1>1. /\ pc = "swept" /\ call.kind = "verify" /\ Emit(es)
      /\ UNCHANGED <<cfg, req, ks, kv, br>> /\ cached' = cached + T
  BY Zenon DEF SweptAccept
<1>2. ReqOk /\ LoopOk /\ SweepOk(call) /\ KindOk(call) BY Zenon, <1>1 DEF SessionInv
<1>3. call.ids \in Seq(Toks) /\ T > 0 BY Zenon, <1>2 DEF SweepOk
<1>4. T \in Nat BY <1>3
<1>5. nout + T <= req.gen BY Zenon, <1>1, <1>2 DEF KindOk
<1>6. fs \in Seq(Toks) /\ Len(fs) = T - 1 /\ \A j \in 1..(T - 1) : fs[j] = call.ids[j + 1]
  BY <1>3, <1>4
<1> HIDE DEF fs
<1>7. es \in Seq(Toks) /\ Len(es) = T /\ \A j \in 1..(T - 1) : es[j] = fs[j] BY <1>4, <1>6
<1> HIDE DEF es
<1>8. \A j \in 1..(T - 1) : es[j] = call.ids[j + 1] BY Zenon, <1>6, <1>7
<1>9. nout + Len(es) <= req.gen BY Zenon, <1>5, <1>7
<1>10. pc' \in {"step", "end"} BY Zenon, <1>1, <1>2, <1>7, <1>9, EmitAll
<1>11. Carried(ks, kv, seq', cached + Len(call.ids))
  BY Zenon, <1>1, <1>7, <1>8, <1>9, BehindCarried
<1> QED BY Zenon, <1>1, <1>10, <1>11, LoopNext

(* The accepted drafts and the correction follow a replay.                 *)
LEMMA SweptReplayHolds ==
  ASSUME SessionInv, Allocated, SweepHolds, KindHolds, SweptReplay
  PROVE  Allocated' /\ LoopHolds' /\ SweepsExact' /\ pc' \in {"step", "end"}
<1> DEFINE es == call.emit  T == Len(call.ids)
<1>1. /\ pc = "swept" /\ call.kind = "replay" /\ Emit(es)
      /\ UNCHANGED <<cfg, req, ks, kv, br>> /\ cached' = cached + T
  BY Zenon DEF SweptReplay
<1>2. ReqOk /\ LoopOk /\ KindOk(call) BY Zenon, <1>1 DEF SessionInv
<1>3. es \in Seq(Toks) /\ Len(es) = T /\ nout + T <= req.gen BY Zenon, <1>1, <1>2 DEF KindOk
<1>4. \A j \in 1..(T - 1) : es[j] = call.ids[j + 1] BY Zenon, <1>1 DEF KindHolds
<1>5. nout + Len(es) <= req.gen BY Zenon, <1>3
<1>6. pc' \in {"step", "end"} BY Zenon, <1>1, <1>2, <1>3, <1>5, EmitAll
<1>7. Carried(ks, kv, seq', cached + Len(call.ids))
  BY Zenon, <1>1, <1>3, <1>4, <1>5, BehindCarried
<1> QED BY Zenon, <1>1, <1>6, <1>7, LoopNext

(***************************************************************************)
(* Processes                                                               *)
(***************************************************************************)
(* k3_state_load puts a layer's saved rows where its slice now begins.     *)
LEMMA LoadedRows ==
  ASSUME NEW c, NEW r, NEW f, r.load, NEW cap \in Nat \ {0}, TmaxOf(r) = cap,
         NEW L \in Nat, NEW NL \in Nat, r.NL = NL, L < NL, IsMla(c, L),
         NEW n \in Nat, f.cached = n, n <= cap, NEW Q,
         \A s \in 1..n : f.rows[MlaSlot(c, L)][s - 1] = At(L, Q, s)
  PROVE  RowsHold(LoadRows(c, r, f), MlaSlot(c, L) * cap, L, Q, n)
<1> DEFINE a == MlaSlot(c, L)  rows == LoadRows(c, r, f)
<1>1. a \in Nat BY Zenon, SlotsApart
<1> SUFFICES ASSUME NEW s \in 1..n PROVE rows[a * cap + s - 1] = At(L, Q, s)
  BY Zenon DEF RowsHold
<1>2. s \in 1..cap /\ s - 1 \in 0..(cap - 1) /\ cap \in Nat /\ s - 1 < n OBVIOUS
<1> DEFINE i == a * cap + s - 1
<1>3. i \in 0..(NMla(c, NL) * cap - 1) BY Zenon, <1>2, RowsRoom
<1>4. i \div cap = a /\ i % cap = s - 1 BY Zenon, <1>1, <1>2, RowAt
<1>5. rows = [k \in 0..(NMla(c, NL) * cap - 1) |->
                IF r.load /\ k % cap < n THEN f.rows[k \div cap][k % cap] ELSE Zero]
  BY Zenon DEF LoadRows
<1>6. f.rows[a][s - 1] = At(L, Q, s) BY Zenon
<1> HIDE DEF i, a, rows
<1>7. rows[i] = IF r.load /\ i % cap < n THEN f.rows[i \div cap][i % cap] ELSE Zero
  BY Zenon, <1>3, <1>5
<1>8. rows[i] = f.rows[a][s - 1] BY Zenon, <1>2, <1>4, <1>7
<1> QED BY Zenon, <1>6, <1>8 DEF i

(* A process starts with the state of what it says it has consumed.        *)
LEMMA LaunchHolds ==
  ASSUME SessionInv, FileHolds, NEW ask \in Asks, NEW NL \in cfg.layers, NEW have \in Haves,
         NEW load \in BOOLEAN, NEW prompt \in [1..ask.np -> Toks],
         Launch(ask, prompt, NL, have, load)
  PROVE  Allocated' /\ LoopHolds' /\ SweepsExact' /\ FileHolds' /\ pc' \in {"step", "end"}
<1> DEFINE r == [inc |-> ask.inc, np |-> ask.np, gen |-> ask.gen, NL |-> NL, have |-> have,
                 spec |-> IF ask.inc THEN ask.spec ELSE 0, load |-> load,
                 prior |-> IF load THEN Len(file.seq) ELSE 0]
           cap == TmaxOf(r)
<1>1. /\ req' = r /\ UNCHANGED <<cfg, file>>
      /\ load => Loadable(file, ask.inc, NL)
      /\ seq' = (IF load THEN file.seq ELSE <<>>) \o prompt
      /\ cached' = (IF load THEN file.cached ELSE 0)
      /\ ks' = (CASE load -> file.ks
                  [] ask.inc /\ ~load -> EmptyKs(cfg, NL, Zero)
                  [] ~ask.inc -> EmptyKs(cfg, NL, Junk))
      /\ kv' = (IF ask.inc THEN LoadRows(cfg, r, file) ELSE <<>>)
      /\ br' = [i \in 0..(TmaxOf(r) * MaxB(cfg) - 1) |-> Junk]
      /\ pc' = (IF ask.gen = 0 THEN "end" ELSE "step")
  BY Zenon DEF Launch
<1>2. ask.np \in Nat \ {0} /\ ask.gen \in Nat /\ ask.inc \in BOOLEAN BY Zenon, AskAssumption
<1>3. r.inc = ask.inc /\ r.NL = NL /\ r.load = load
      /\ cap = (IF load THEN Len(file.seq) ELSE 0) + ask.np + ask.gen + 1
  BY DEF TmaxOf
<1>4. load => file.whole /\ ask.inc /\ file.NL = NL BY Zenon, <1>1 DEF Loadable
<1>5. load => file.seq \in Seq(Toks) /\ file.cached \in Nat /\ file.cached <= Len(file.seq)
  BY Zenon, <1>4 DEF SessionInv, FileOk
<1>6. cfg.conv_k \in Nat \ {0} /\ NL \in Nat
  <2>1. cfg.conv_k \in Nat \ {0} /\ cfg.n_layers \in Nat \ {0} /\ cfg.layers \subseteq 1..cfg.n_layers
    BY Zenon, CfgAssumption DEF SessionInv
  <2>2. NL \in 1..cfg.n_layers BY Zenon, <2>1
  <2> QED BY <2>1, <2>2
<1>7. cap \in Nat \ {0} /\ (load => file.cached <= cap)
  <2>1. CASE load BY <2>1, <1>2, <1>3, <1>5
  <2>2. CASE ~load BY <2>2, <1>2, <1>3
  <2> QED BY Zenon, <2>1, <2>2
<1>8. Tmax' = cap BY Zenon, <1>1 DEF Tmax
<1>9. pc' \in {"step", "end"} BY <1>1
<1> HIDE DEF r, cap
<1>10. Allocated'
  <2>1. DOMAIN ks' = 0..(NL - 1)
    <3>1. CASE load
      <4>1. ks' = file.ks BY <3>1, <1>1, <1>4
      <4> QED BY Zenon, <3>1, <4>1, <1>4 DEF FileHolds
    <3>2. CASE ~load
      <4>1. ks' = EmptyKs(cfg, NL, Zero) \/ ks' = EmptyKs(cfg, NL, Junk) BY <3>2, <1>1, <1>2
      <4> QED BY Zenon, <4>1 DEF EmptyKs
    <3> QED BY Zenon, <3>1, <3>2
  <2>2. DOMAIN br' = 0..(cap * MaxB(cfg) - 1) BY Zenon, <1>1 DEF cap
  <2>3. ask.inc => DOMAIN kv' = 0..(NMla(cfg, NL) * cap - 1)
    BY Zenon, <1>1, <1>3 DEF LoadRows, cap
  <2> QED BY Zenon, <2>1, <2>2, <2>3, <1>1, <1>3, <1>8 DEF Allocated
<1>11. ASSUME ask.inc, NEW L \in 0..(NL - 1)
       PROVE  /\ ~IsMla(cfg, L) => KdaHolds(cfg, L, ks'[L], seq', cached')
              /\ IsMla(cfg, L) => RowsHold(kv', MlaSlot(cfg, L) * cap, L, seq', cached')
  <2>1. L \in Nat /\ L < NL BY <1>6
  <2>2. CASE load
    <3> DEFINE n == file.cached  Q == file.seq  R == Q \o prompt  rows == LoadRows(cfg, r, file)
    <3>1. ks' = file.ks /\ kv' = rows /\ seq' = R /\ cached' = n
      BY <2>2, <1>1, <1>4, <1>11
    <3>2. n \in Nat /\ n <= cap /\ Q \in Seq(Toks) /\ n <= Len(Q) BY Zenon, <2>2, <1>5, <1>7
    <3>3. prompt \in Seq(Toks) BY <1>2
    <3>4. \A i \in 1..Len(Q) : Q[i] = R[i] BY <3>2, <3>3
    <3>5. Len(Q) \in Nat BY <3>2
    <3>6. /\ ~IsMla(cfg, L) => KdaHolds(cfg, L, file.ks[L], Q, n)
          /\ IsMla(cfg, L) => \A s \in 1..n : file.rows[MlaSlot(cfg, L)][s - 1] = At(L, Q, s)
      BY Zenon, <2>2, <1>4 DEF FileHolds
    <3> HIDE DEF n, Q, R, rows
    <3>7. \A i \in 1..n : Q[i] = R[i]
      <4>1. \A i \in 1..n : i \in 1..Len(Q) BY <3>2, <3>5
      <4> QED BY Zenon, <4>1, <3>4
    <3>8. Agree(Q, R, n) BY Zenon, <3>2, <3>7, AgreeIf
    <3>9. ASSUME ~IsMla(cfg, L) PROVE KdaHolds(cfg, L, file.ks[L], R, n)
      <4>1. KdaHolds(cfg, L, file.ks[L], Q, n) BY Zenon, <3>6, <3>9
      <4> QED BY Zenon, <4>1, <3>2, <3>8, <2>1, <1>6, KdaAgrees
    <3>10. ASSUME IsMla(cfg, L) PROVE RowsHold(rows, MlaSlot(cfg, L) * cap, L, R, n)
      <4>1. \A s \in 1..n : file.rows[MlaSlot(cfg, L)][s - 1] = At(L, Q, s) BY Zenon, <3>6, <3>10
      <4>2. TmaxOf(r) = cap /\ r.load /\ file.cached = n BY Zenon, <2>2, <1>3 DEF cap, n
      <4>3. RowsHold(LoadRows(cfg, r, file), MlaSlot(cfg, L) * cap, L, Q, n)
        BY Zenon, <4>1, <4>2, <3>2, <3>10, <2>1, <1>3, <1>6, <1>7, LoadedRows
      <4> DEFINE base == MlaSlot(cfg, L) * cap
      <4>4. RowsHold(rows, base, L, Q, n) BY Zenon, <4>3 DEF rows
      <4> HIDE DEF base
      <4>5. RowsHold(rows, base, L, R, n) BY Zenon, <4>4, <3>2, <3>8, RowsAgree
      <4> QED BY Zenon, <4>5 DEF base
    <3> QED BY Zenon, <3>1, <3>9, <3>10
  <2>3. CASE ~load
    <3>1. ks' = EmptyKs(cfg, NL, Zero) /\ cached' = 0 BY <2>3, <1>1, <1>11
    <3>2. KdaHolds(cfg, L, EmptyKs(cfg, NL, Zero)[L], seq', 0) BY Zenon, <1>6, KdaFresh
    <3>3. \A s \in 1..0 : FALSE OBVIOUS
    <3> QED BY Zenon, <3>1, <3>2, <3>3 DEF RowsHold
  <2> QED BY Zenon, <2>2, <2>3
<1>12. LoopHolds'
  <2>1. req'.inc = ask.inc /\ req'.NL = NL BY Zenon, <1>1, <1>3
  <2>2. ASSUME ask.inc, NEW L \in 0..(NL - 1) PROVE LayerHas(ks, kv, L, seq, cached)'
    BY Zenon, <2>2, <1>1, <1>8, <1>11 DEF LayerHas
  <2> QED BY Zenon, <2>1, <2>2 DEF LoopHolds, Carried
<1>13. pc' # "swept" BY <1>9
<1>14. SweepsExact' BY Zenon, <1>13 DEF SweepsExact
<1>15. FileHolds' BY Zenon, <1>1 DEF FileHolds
<1> QED BY Zenon, <1>9, <1>10, <1>12, <1>14, <1>15

(* A saved file holds the state of what it says was consumed.              *)
LEMMA SaveHolds ==
  ASSUME SessionInv, Allocated, LoopHolds, SaveState
  PROVE  FileHolds'
<1>1. pc = "end" /\ req.inc /\ file' \in {StateSave, NoFile} /\ cfg' = cfg
  BY Zenon DEF SaveState
<1>2. pc # "start" BY <1>1
<1>3. req.NL \in Nat /\ cached \in Nat BY Zenon, <1>2, Shape
<1>4. Carried(ks, kv, seq, cached) BY Zenon, <1>1 DEF LoopHolds
<1>5. CASE file' = NoFile
  <2>1. ~file'.whole BY <1>5 DEF NoFile
  <2> QED BY Zenon, <2>1 DEF FileHolds
<1>6. CASE file' = StateSave
  <2> DEFINE rows == [mi \in 0..(NMla(cfg, req.NL) - 1) |->
                        [s \in 0..(cached - 1) |-> kv[mi * Tmax + s]]]
  <2>1. /\ file'.seq = seq /\ file'.cached = cached /\ file'.NL = req.NL
        /\ file'.ks = ks /\ file'.rows = rows
    BY Zenon, <1>6 DEF StateSave
  <2>2. DOMAIN ks = 0..(req.NL - 1) BY Zenon DEF Allocated
  <2>3. ASSUME NEW L \in 0..(req.NL - 1), ~IsMla(cfg, L)
        PROVE  KdaHolds(cfg, L, ks[L], seq, cached)
    BY Zenon, <2>3, <1>4 DEF Carried, LayerHas
  <2>4. ASSUME NEW L \in 0..(req.NL - 1), IsMla(cfg, L), NEW s \in 1..cached
        PROVE  rows[MlaSlot(cfg, L)][s - 1] = At(L, seq, s)
    <3> DEFINE a == MlaSlot(cfg, L)  b == NMla(cfg, req.NL)
    <3>1. L \in Nat /\ L < req.NL /\ s - 1 \in 0..(cached - 1) BY <1>3
    <3>2. a \in Nat /\ b \in Nat /\ a + 1 <= b BY Zenon, <2>4, <3>1, <1>3, SlotsApart
    <3>3. LayerHas(ks, kv, L, seq, cached) BY Zenon, <1>4 DEF Carried
    <3>4. RowsHold(kv, a * Tmax, L, seq, cached) BY Zenon, <2>4, <3>3, <1>1 DEF LayerHas
    <3>5. kv[a * Tmax + s - 1] = At(L, seq, s) BY Zenon, <3>4 DEF RowsHold
    <3> HIDE DEF a
    <3>6. a \in 0..(b - 1)
      <4> HIDE DEF b
      <4> QED BY <3>2
    <3>7. rows[a][s - 1] = kv[a * Tmax + s - 1] BY Zenon, <3>1, <3>6
    <3> HIDE DEF rows
    <3> QED BY Zenon, <3>5, <3>7 DEF a
  <2> HIDE DEF rows
  <2> QED BY Zenon, <1>1, <2>1, <2>2, <2>3, <2>4 DEF FileHolds
<1> QED BY Zenon, <1>1, <1>5, <1>6

(* A process that exits leaves only the file.                              *)
LEMMA ExitHolds ==
  ASSUME SessionInv', Exit, FileHolds'
  PROVE  TextInv'
<1>1. pc' = "start" BY Zenon DEF Exit
<1>2. pc' \notin {"step", "end", "layer", "swept"} BY <1>1
<1> QED BY Zenon, <1>1, <1>2 DEF TextInv, SweepsExact

(* A step into a sweep or within one.                                      *)
LEMMA SweepingHolds ==
  ASSUME SessionInv', FileHolds, UNCHANGED <<cfg, file>>, pc' \in {"layer", "swept"},
         Allocated' /\ SweepHolds' /\ KindHolds' /\ SweepsExact'
  PROVE  TextInv'
<1>1. pc' \notin {"step", "end"} OBVIOUS
<1>2. FileHolds' BY Zenon DEF FileHolds
<1> QED BY Zenon, <1>1, <1>2 DEF TextInv

(* A step that leaves main in its loop, or done with it.                   *)
LEMMA LoopingHolds ==
  ASSUME SessionInv', FileHolds', pc' \in {"step", "end"},
         Allocated' /\ LoopHolds' /\ SweepsExact'
  PROVE  TextInv'
<1>1. pc' \notin {"layer", "swept"} OBVIOUS
<1> QED BY Zenon, <1>1 DEF TextInv

(* A step that changes nothing.                                            *)
LEMMA IdleHolds ==
  ASSUME TextInv, SessionInv', UNCHANGED vars
  PROVE  TextInv'
<1>1. UNCHANGED <<cfg, req, pc, seq, nout, cached, ks, snap, kv, h, br, call, out, file>>
  BY Zenon DEF vars
<1>2. Tmax' = Tmax /\ Text' = Text BY Zenon, <1>1 DEF Tmax, TmaxOf, Text
<1>3. FileHolds' = FileHolds BY Zenon, <1>1 DEF FileHolds
<1>4. Allocated' = Allocated BY Zenon, <1>1, <1>2 DEF Allocated
<1>5. LoopHolds' = LoopHolds BY Zenon, <1>1, <1>2 DEF LoopHolds, Carried, LayerHas
<1>6. SweepHolds' = SweepHolds BY Zenon, <1>1, <1>2 DEF SweepHolds, LayerHas
<1>7. KindHolds' = KindHolds BY Zenon, <1>1, <1>2 DEF KindHolds
<1>8. SweepsExact' = SweepsExact BY Zenon, <1>1 DEF SweepsExact
<1> QED BY Zenon, <1>1, <1>3, <1>4, <1>5, <1>6, <1>7, <1>8 DEF TextInv

(* Every step of every process keeps the carried state that of its text.   *)
LEMMA TextNext == TextInv /\ [Next]_vars => TextInv'
<1> SUFFICES ASSUME TextInv, [Next]_vars PROVE TextInv' OBVIOUS
<1>1. SessionInv /\ FileHolds BY Zenon DEF TextInv
<1>2. SessionInv' BY Zenon, <1>1, NextOk
<1>3. pc # "start" => Allocated BY Zenon DEF TextInv
<1>4. ASSUME pc \in {"step", "end"} PROVE Allocated /\ LoopHolds
  <2>1. pc # "start" BY <1>4
  <2> QED BY Zenon, <1>4, <2>1 DEF TextInv
<1>5. ASSUME pc \in {"layer", "swept"} PROVE Allocated /\ SweepHolds /\ KindHolds
  <2>1. pc # "start" BY <1>5
  <2> QED BY Zenon, <1>5, <2>1 DEF TextInv
<1>6. CASE UNCHANGED vars BY Zenon, <1>2, <1>6, IdleHolds
<1>7. CASE \E ask \in Asks, NL \in cfg.layers, have \in Haves, load \in BOOLEAN :
             \E prompt \in [1..ask.np -> Toks] : Launch(ask, prompt, NL, have, load)
  <2>1. Allocated' /\ LoopHolds' /\ SweepsExact' /\ FileHolds' /\ pc' \in {"step", "end"}
    BY Zenon, <1>1, <1>7, LaunchHolds
  <2> QED BY Zenon, <2>1, <1>2, LoopingHolds
<1>8. CASE ForwardLayer
  <2>1. pc = "layer" /\ UNCHANGED <<cfg, file>> BY Zenon, <1>8 DEF ForwardLayer
  <2>2. pc' \in {"layer", "swept"}
    <3>1. pc' = "fatal" \/ pc' = pc BY Zenon, <1>8 DEF ForwardLayer
    <3>2. pc' # "fatal" BY <1>2 DEF SessionInv
    <3> QED BY <2>1, <3>1, <3>2
  <2>3. Allocated' /\ SweepHolds' /\ KindHolds' /\ SweepsExact'
    BY Zenon, <2>1, <1>1, <1>5, <1>8, LayerHolds
  <2> QED BY Zenon, <2>1, <2>2, <2>3, <1>1, <1>2, SweepingHolds
<1>9. CASE ForwardHead
  <2>1. pc = "layer" /\ pc' = "swept" /\ UNCHANGED <<cfg, file>> BY Zenon, <1>9 DEF ForwardHead
  <2>2. Allocated' /\ SweepHolds' /\ KindHolds' /\ SweepsExact'
    BY Zenon, <2>1, <1>1, <1>5, <1>9, HeadHolds
  <2> QED BY Zenon, <2>1, <2>2, <1>1, <1>2, SweepingHolds
<1>10. ASSUME StepZero \/ StepPlain \/ StepFull \/ TfCheck \/ \E d \in Drafts : StepVerify(d)
       PROVE  TextInv'
  <2>1. pc \in {"step", "end"} /\ pc' = "layer" /\ UNCHANGED <<cfg, file>>
    BY Zenon, <1>10 DEF StepZero, StepPlain, StepFull, TfCheck, StepVerify, ForwardEnter
  <2>2. Allocated /\ LoopHolds BY Zenon, <2>1, <1>4
  <2>3. Allocated' /\ SweepHolds' /\ KindHolds' /\ SweepsExact'
    <3>1. CASE StepZero BY Zenon, <3>1, <2>2, <1>1, StepZeroHolds
    <3>2. CASE StepPlain BY Zenon, <3>2, <2>2, <1>1, StepPlainHolds
    <3>3. CASE StepFull BY Zenon, <3>3, <2>2, <1>1, StepFullHolds
    <3>4. CASE TfCheck BY Zenon, <3>4, <2>2, <1>1, TfCheckHolds
    <3>5. CASE \E d \in Drafts : StepVerify(d) BY Zenon, <3>5, <2>2, <1>1, StepVerifyHolds
    <3> QED BY Zenon, <1>10, <3>1, <3>2, <3>3, <3>4, <3>5
  <2> QED BY Zenon, <2>1, <2>3, <1>1, <1>2, SweepingHolds
<1>11. ASSUME NEW m \in 0..MaxSpec, NEW tok \in Toks, SweptReject(m, tok) PROVE TextInv'
  <2>1. pc = "swept" /\ pc' = "layer" /\ UNCHANGED <<cfg, file>>
    BY Zenon, <1>11 DEF SweptReject, ForwardEnter
  <2>2. m \in Nat OBVIOUS
  <2>3. Allocated' /\ SweepHolds' /\ KindHolds' /\ SweepsExact'
    BY Zenon, <2>1, <2>2, <1>1, <1>5, <1>11, SweptRejectHolds
  <2> QED BY Zenon, <2>1, <2>3, <1>1, <1>2, SweepingHolds
<1>12. ASSUME (\E tok \in Toks : SweptFeed(tok) \/ SweptAccept(tok)) \/ SweptReplay
       PROVE  TextInv'
  <2>1. pc = "swept" /\ UNCHANGED <<cfg, file>>
    BY Zenon, <1>12 DEF SweptFeed, SweptAccept, SweptReplay
  <2>2. Allocated /\ SweepHolds /\ KindHolds BY Zenon, <2>1, <1>5
  <2>3. Allocated' /\ LoopHolds' /\ SweepsExact' /\ pc' \in {"step", "end"}
    BY Zenon, <2>2, <1>1, <1>12, SweptFeedHolds, SweptAcceptHolds, SweptReplayHolds
  <2>4. FileHolds' BY Zenon, <2>1, <1>1 DEF FileHolds
  <2> QED BY Zenon, <2>3, <2>4, <1>2, LoopingHolds
<1>13. ASSUME BindFails \/ SweptTf \/ Quit PROVE TextInv'
  <2>1. Exit /\ UNCHANGED <<cfg, file>> BY Zenon, <1>13 DEF BindFails, SweptTf, Quit
  <2>2. FileHolds' BY Zenon, <2>1, <1>1 DEF FileHolds
  <2> QED BY Zenon, <2>1, <2>2, <1>2, ExitHolds
<1>14. CASE SaveState
  <2>1. pc = "end" /\ Exit BY Zenon, <1>14 DEF SaveState
  <2>2. FileHolds' BY Zenon, <2>1, <1>1, <1>4, <1>14, SaveHolds
  <2> QED BY Zenon, <2>1, <2>2, <1>2, ExitHolds
<1> QED
  BY Zenon, <1>6, <1>7, <1>8, <1>9, <1>10, <1>11, <1>12, <1>13, <1>14 DEF Next

(* The logits forward() returns for a position are those of one full sweep *)
(* over the sequence so far, for every configuration, request, split of    *)
(* the prompt, choice of drafts, and history of saved and resumed          *)
(* sessions: what the caches, windows, recurrent matrices and snapshot     *)
(* rows carried belongs to that sequence and to no other.                  *)
THEOREM SweepsAreExact == Spec => []SweepsExact
<1>1. Init => TextInv
  <2> SUFFICES ASSUME Init PROVE TextInv OBVIOUS
  <2>1. SessionInv BY Zenon, InitOk
  <2>2. pc = "start" /\ ~file.whole BY DEF Init, NoFile
  <2>3. pc \notin {"step", "end", "layer", "swept"} BY <2>2
  <2> QED BY Zenon, <2>1, <2>2, <2>3 DEF TextInv, FileHolds, SweepsExact
<1>2. TextInv => SweepsExact BY Zenon DEF TextInv
<1> QED BY <1>1, <1>2, TextNext, PTL DEF Spec
=============================================================================
