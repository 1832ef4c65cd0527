----------------------------- MODULE K3Buffers -----------------------------
(***************************************************************************)
(* The float counts of the K3 engine's working buffers: the sizes the      *)
(* k3_*_scratch functions promise (src/core/k3_ops.c), and how far each    *)
(* operator really reaches into the scratch it is handed.  c is the        *)
(* configuration (K3Cfg), T the tokens of the call, all in floats.         *)
(***************************************************************************)
EXTENDS Integers

Larger(a, b) == IF a > b THEN a ELSE b

MaxB(c) == (c.n_layers \div c.attn_res_block) + 2

(***************************************************************************)
(* What the sizing functions return.                                       *)
(***************************************************************************)
MlaScratchCached(c, T, cap, cachedMode) ==
  T * (c.n_heads * (c.qk_nope + c.qk_rope)) + (c.kv_lora + c.qk_rope) + c.q_lora
  + 2 * (c.n_heads * c.v_head) + Larger(cap, T)
  + (IF cachedMode THEN 0
     ELSE T * (c.n_heads * (c.qk_nope + c.v_head)) + T * c.qk_rope)

(* Mutant: sized for the layout whose keys and values live in the cache.   *)
MlaScratchNoRows(c, T) == MlaScratchCached(c, T, T, TRUE)

MlaScratch(c, T) == MlaScratchCached(c, T, T, FALSE)

KdaWidth(c) == c.kda_heads * c.kda_head_dim

KdaScratch(c, T) ==
  3 * (T * KdaWidth(c)) + 2 * (T * KdaWidth(c)) + T * c.kda_heads + T * KdaWidth(c)
  + 2 * KdaWidth(c) + c.kda_head_dim

SharedInter(c) == c.moe_inter * c.n_shared

MoeScratch(c) ==
  2 * c.latent + 3 * c.moe_inter + c.latent + 3 * SharedInter(c) + c.hidden

LayerScratch(c, T) ==
  3 * (T * c.hidden) + 2 * c.hidden + MaxB(c) * c.hidden + 2 * c.dense_inter
  + Larger(Larger(MlaScratch(c, T), KdaScratch(c, T)), MoeScratch(c))

(* main: the scratch it allocates for sequences of at most Tmax positions. *)
ScNeed(c, Tmax) ==
  Larger(LayerScratch(c, Tmax), MlaScratchCached(c, Tmax, Tmax, TRUE))

(* Floats of recurrent matrix and ShortConv history of one layer.          *)
KPer(c) == KdaWidth(c) * c.kda_head_dim + 3 * (KdaWidth(c) * (c.conv_k - 1))

(* Floats of one position of one MLA layer's cache, rope slot included.    *)
KvRow(c) == c.n_heads * (c.qk_nope + c.v_head) + c.qk_rope

(***************************************************************************)
(* How far the operators reach.  Each sum is the end of the last region    *)
(* the function lays out, in its order of regions.                         *)
(***************************************************************************)
MlaReach(c, T, cached, inc) ==
  LET last == (IF inc THEN cached ELSE 0) + T - 1
  IN T * (c.n_heads * (c.qk_nope + c.qk_rope))        \* q
     + (c.kv_lora + c.qk_rope) + c.q_lora             \* ct, ql
     + c.n_heads * c.v_head + c.n_heads * c.v_head    \* acc, gbuf
     + (last + 1)                                     \* sc
     + (IF inc THEN 0
        ELSE T * (c.n_heads * (c.qk_nope + c.v_head)) + T * c.qk_rope)

KdaReach(c, T) ==
  3 * (T * KdaWidth(c)) + T * KdaWidth(c) + T * KdaWidth(c)   \* q k v, z, alpha
  + T * c.kda_heads + T * KdaWidth(c)                         \* beta, o
  + KdaWidth(c) + KdaWidth(c) + c.kda_head_dim                \* gb, wr, fa

(* k3_moe, one token: z accL gu act edn sgu sact sdn.                      *)
MoeReach(c) ==
  c.latent + c.latent + 2 * c.moe_inter + c.moe_inter + c.latent
  + 2 * SharedInter(c) + SharedInter(c) + c.hidden

(* moe_prefill_chunk: gu act edn, then the shared expert over the same.    *)
MoeChunkReach(c) ==
  Larger(2 * c.moe_inter + c.moe_inter + c.latent,
         2 * SharedInter(c) + SharedInter(c) + c.hidden)

(* Offset of the sub-block of k3_decoder_layer_inc: pref tmp hin, the two  *)
(* folds, the source stack, the dense gate and up rows.                    *)
SubAt(c, T) ==
  T * c.hidden + T * c.hidden + T * c.hidden + c.hidden + c.hidden
  + MaxB(c) * c.hidden + 2 * c.dense_inter

(* The reach of one layer: attention in the sub-block, then the MLP there. *)
LayerReach(c, mla, dense, T, cached, inc) ==
  SubAt(c, T)
  + Larger(IF mla THEN MlaReach(c, T, cached, inc) ELSE KdaReach(c, T),
           IF dense THEN c.dense_inter
           ELSE Larger(MoeReach(c), IF T > 1 THEN MoeChunkReach(c) ELSE 0))

(* The model-level aggregator: one fold and nb+1 source rows.              *)
HeadReach(c, nb) == c.hidden + (nb + 1) * c.hidden

=============================================================================
