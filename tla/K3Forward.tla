----------------------------- MODULE K3Forward -----------------------------
(***************************************************************************)
(* The K3 decoder layer and the buffers it works in: k3_decoder_layer_inc  *)
(* and the operators it calls (src/core/k3_ops.c), for T tokens on top of  *)
(* `cached' earlier ones.                                                  *)
(*                                                                         *)
(* A hidden vector is an atom <<stage, layer, history>>: what the model    *)
(* computes at that stage of that layer for the last token of a history.   *)
(* An operator given the atoms the model prescribes for one history yields *)
(* the next atom of that history; given anything else it yields Bad, and   *)
(* Bad stays Bad.  Rows and blocks are addressed in the flat buffers       *)
(* exactly as the code addresses them, in rows of `hidden' floats (one KV  *)
(* row stands for the keys, values and rope slot of one position).         *)
(***************************************************************************)
EXTENDS K3Buffers, Sequences, FiniteSetsExt

(***************************************************************************)
(* Atoms.  Zero is cleared memory, Junk memory nobody has written, Bad the *)
(* result of a wrong input; its history is of no token.                    *)
(***************************************************************************)
Zero == <<"zero", 0, <<>>>>
Junk == <<"junk", 0, <<>>>>
Bad == <<"bad", 0, <<"bad">>>>

Given(ok, atom) == IF ok THEN atom ELSE Bad

(* The embedding of a token: all that a stream entering layer 0 knows.     *)
EmbedRow(tok) == <<"res", 0, <<tok>>>>

(* The residual stream entering layer L, and the input of its attention.   *)
ResOf(L, hist) == IF L = 0 THEN EmbedRow(hist[Len(hist)]) ELSE <<"res", L, hist>>
InOf(L, hist) == IF L = 0 THEN EmbedRow(hist[Len(hist)]) ELSE <<"in", L, hist>>

(***************************************************************************)
(* The layer map and the block count.  full_attn is one-based.             *)
(***************************************************************************)
IsMla(c, L) == (L + 1) \in c.full_attn
IsDense(c, L) == L < c.first_dense
Boundary(c, L) == L % c.attn_res_block = 0

(* Dense numbering of the MLA layers among the first NL.                   *)
NMla(c, NL) == Cardinality({L \in 0..(NL - 1) : IsMla(c, L)})
MlaSlot(c, L) == NMla(c, L)

(***************************************************************************)
(* Attention over a sequence of layer inputs: the atom of the history they *)
(* spell, when they are the inputs of layer L along one history.           *)
(***************************************************************************)
Attend(L, xs) ==
  LET hist == IF L = 0 THEN [i \in DOMAIN xs |-> xs[i][3][1]] ELSE xs[Len(xs)][3]
  IN Given(/\ \A i \in DOMAIN xs : xs[i][3] # <<>>
           /\ Len(hist) = Len(xs)
           /\ \A i \in DOMAIN xs : xs[i] = InOf(L, SubSeq(hist, 1, i)),
           <<"att", L, hist>>)

(* k3_shortconv: every output sees the k-1 inputs before it and its own;   *)
(* the last k-1 inputs are left in the history buffer.                     *)
ShortConv(c, buf, xs) ==
  LET padded == buf \o xs
  IN [taps |-> [t \in DOMAIN xs |-> SubSeq(padded, t, t + c.conv_k - 1)],
      buf |-> SubSeq(padded, Len(xs) + 1, Len(padded))]

(* The window buffer is k-1 zeros at the start of a sequence.              *)
ZeroHist(c) == [i \in 1..(c.conv_k - 1) |-> Zero]

(* k3_kda_step: the recurrent matrix is the sequence of tap windows it has *)
(* absorbed; the output is read from the state that includes this token.   *)
KdaStep(c, L, S) ==
  LET xs == [i \in DOMAIN S |-> S[i][Len(S[i])]]
  IN Given(S = ShortConv(c, ZeroHist(c), xs).taps, Attend(L, xs))

KdaLayer(c, L, state, xs) ==
  LET conv == ShortConv(c, state.conv, xs)
      S == state.S \o conv.taps
  IN [out |-> [t \in DOMAIN xs |-> KdaStep(c, L, SubSeq(S, 1, Len(state.S) + t))],
      state |-> [S |-> S, conv |-> conv.buf]]

(***************************************************************************)
(* k3_mla_cached.  With a cache, the rows of this layer start at `base' in *)
(* the flat array kv and the call writes rows cached .. cached+T-1; without*)
(* one the rows are the call's own.                                        *)
(***************************************************************************)
MlaWrites(kv, base, cached, xs) ==
  [i \in DOMAIN kv |-> IF i - base - cached \in 0..(Len(xs) - 1)
                       THEN xs[i - base - cached + 1] ELSE kv[i]]

MlaCached(L, kv, base, cached, xs) ==
  LET rows == MlaWrites(kv, base, cached, xs)
  IN [out |-> [t \in DOMAIN xs |->
                 Attend(L, [s \in 1..(cached + t) |-> rows[base + s - 1]])],
      kv |-> rows]

MlaUncached(L, xs) == [t \in DOMAIN xs |-> Attend(L, SubSeq(xs, 1, t))]

(***************************************************************************)
(* k3_attn_res over the snapshots taken so far and the running residual.   *)
(* `taken' is the set of layers whose entry the model snapshots by then.   *)
(***************************************************************************)
AttnRes(c, taken, now, srcs, result) ==
  LET hist == now[3]
      snaps == [b \in 1..Cardinality(taken) |-> ResOf((b - 1) * c.attn_res_block, hist)]
  IN Given(srcs = Append(snaps, now), result)

Snapshots(c, upTo) == {L \in 0..upTo : Boundary(c, L)}

(* The source stack of token t: nb snapshots, then the running residual.   *)
Stack(c, br, nb, t, pref) ==
  Append([b \in 1..nb |-> br[(t - 1) * MaxB(c) + b - 1]], pref)

(***************************************************************************)
(* k3_decoder_layer_inc on rows h (a sequence of T atoms), in its order:   *)
(* aggregate if there are snapshots, snapshot and clear at a boundary,     *)
(* attend, add, aggregate again, MLP, add.  `kda' and `kv' are the layer's *)
(* recurrent state and the KV array; inc says whether there is a KV cache. *)
(***************************************************************************)
LayerInc(c, L, h, br, nb, kda, kv, inc, cached, cap) ==
  LET T == Len(h)
      pref == h
      agg == [t \in 1..T |->
                IF nb = 0 THEN h[t]
                ELSE AttnRes(c, Snapshots(c, L - 1), <<"res", L, pref[t][3]>>,
                             Stack(c, br, nb, t, pref[t]), <<"in", L, pref[t][3]>>)]
      cut == Boundary(c, L)
      br1 == IF cut THEN [i \in DOMAIN br |->
                            IF i % MaxB(c) = nb /\ i \div MaxB(c) < T
                            THEN pref[(i \div MaxB(c)) + 1] ELSE br[i]]
                    ELSE br
      nb1 == IF cut THEN nb + 1 ELSE nb
      hin == agg
      k == KdaLayer(c, L, kda, hin)
      m == MlaCached(L, kv, MlaSlot(c, L) * cap, cached, hin)
      tmp == CASE ~IsMla(c, L)        -> k.out
               [] IsMla(c, L) /\ inc  -> m.out
               [] IsMla(c, L) /\ ~inc -> MlaUncached(L, hin)
      att(t) == <<"att", L, tmp[t][3]>>
      mid(t) == IF cut THEN att(t) ELSE <<"mid", L, tmp[t][3]>>
      pref1 == [t \in 1..T |->
                  IF cut THEN tmp[t]
                  ELSE Given(tmp[t] = att(t) /\ pref[t] = ResOf(L, tmp[t][3]), mid(t))]
      mlp == [t \in 1..T |->
                AttnRes(c, Snapshots(c, L), mid(t), Stack(c, br1, nb1, t, pref1[t]),
                        <<"mlp", L, tmp[t][3]>>)]
  IN [h   |-> [t \in 1..T |-> Given(pref1[t] = mid(t) /\ mlp[t] = <<"mlp", L, tmp[t][3]>>,
                                    ResOf(L + 1, tmp[t][3]))],
      br  |-> br1,
      nb  |-> nb1,
      kda |-> IF IsMla(c, L) THEN kda ELSE k.state,
      kv  |-> IF IsMla(c, L) /\ inc THEN m.kv ELSE kv]

(* The model-level aggregator and the head: the logits atom of a row.      *)
LogitsOf(NL, hist) == <<"logits", NL, hist>>

HeadRow(c, NL, br, nb, t, row) ==
  AttnRes(c, Snapshots(c, NL - 1), <<"res", NL, row[3]>>, Stack(c, br, nb, t, row),
          LogitsOf(NL, row[3]))

=============================================================================
