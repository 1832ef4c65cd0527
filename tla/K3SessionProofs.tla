-------------------------- MODULE K3SessionProofs --------------------------
(***************************************************************************)
(* Whatever the architecture, the request and the history of a K3 session: *)
(* no sweep leaves the buffers main allocated for it (ScratchFits), and    *)
(* what is held is what was planned (PlanHolds).  First the arithmetic of  *)
(* the layouts, then the lengths of what is fed, which the loop of main    *)
(* keeps inside the cache, then the memory plan.  The second half is about *)
(* the network: what each layer does when its state is that of a text.     *)
(***************************************************************************)
EXTENDS K3Session, FiniteSetTheorems, SequenceTheorems, TLAPS

(***************************************************************************)
(* Layout arithmetic                                                       *)
(***************************************************************************)
(* Products of a count and a width grow with the count.                    *)
LEMMA MulMono ==
  ASSUME NEW a \in Nat, NEW b \in Nat, NEW m \in Nat, a <= b
  PROVE  a * m <= b * m /\ a * m \in Nat /\ b * m \in Nat
OBVIOUS

(* The widths of a configuration are natural numbers.                      *)
Sized(c) ==
  /\ c.hidden \in Nat /\ c.kda_heads \in Nat /\ c.kda_head_dim \in Nat
  /\ c.n_heads \in Nat /\ c.q_lora \in Nat /\ c.kv_lora \in Nat /\ c.qk_nope \in Nat
  /\ c.qk_rope \in Nat /\ c.v_head \in Nat /\ c.n_shared \in Nat /\ c.latent \in Nat
  /\ c.moe_inter \in Nat /\ c.dense_inter \in Nat /\ c.first_dense \in Nat
  /\ c.n_layers \in Nat \ {0} /\ c.attn_res_block \in Nat \ {0}
  /\ c.layers \subseteq 1..c.n_layers

(* Every configuration main runs with is one of those.                     *)
LEMMA CfgSized ==
  ASSUME NEW c \in Cfgs
  PROVE  Sized(c)
BY CfgAssumption DEF Sized

(* k3_kda_layer keeps to k3_kda_scratch of any longer sequence.            *)
LEMMA KdaFits ==
  ASSUME NEW c, Sized(c), NEW T \in Nat, NEW X \in Nat, T <= X
  PROVE  /\ KdaReach(c, T) <= KdaScratch(c, X)
         /\ KdaReach(c, T) \in Nat /\ KdaScratch(c, X) \in Nat
<1> DEFINE w == KdaWidth(c)
<1>1. w \in Nat BY DEF Sized, KdaWidth
<1>2. T * w <= X * w /\ T * w \in Nat /\ X * w \in Nat BY <1>1, MulMono
<1>3. T * c.kda_heads <= X * c.kda_heads /\ T * c.kda_heads \in Nat /\ X * c.kda_heads \in Nat
  BY MulMono DEF Sized
<1>4. c.kda_head_dim \in Nat BY DEF Sized
<1> HIDE DEF w
<1> QED BY <1>1, <1>2, <1>3, <1>4 DEF KdaReach, KdaScratch, w

(* k3_mla_cached keeps to k3_mla_scratch of any longer sequence, with its  *)
(* rows in scratch and, when they are cached, with its scores.             *)
LEMMA MlaFits ==
  ASSUME NEW c, Sized(c), NEW T \in Nat, NEW X \in Nat, T <= X,
         NEW past \in Nat, NEW inc \in BOOLEAN, inc => past + T <= X
  PROVE  /\ MlaReach(c, T, past, inc) <= MlaScratch(c, X)
         /\ MlaReach(c, T, past, inc) \in Int /\ MlaScratch(c, X) \in Nat
<1> DEFINE q == c.n_heads * (c.qk_nope + c.qk_rope)
           r == c.n_heads * (c.qk_nope + c.v_head)
           v == c.n_heads * c.v_head
           Tq == T * q          Xq == X * q
           Tr == T * r          Xr == X * r
           Tp == T * c.qk_rope  Xp == X * c.qk_rope
<1>1. q \in Nat /\ r \in Nat /\ v \in Nat BY DEF Sized
<1>2. Tq <= Xq /\ Tq \in Nat /\ Xq \in Nat BY <1>1, MulMono
<1>3. Tr <= Xr /\ Tr \in Nat /\ Xr \in Nat BY <1>1, MulMono
<1>4. Tp <= Xp /\ Tp \in Nat /\ Xp \in Nat BY MulMono DEF Sized
<1>5. c.kv_lora \in Nat /\ c.qk_rope \in Nat /\ c.q_lora \in Nat BY DEF Sized
<1>6. MlaReach(c, T, past, inc)
        = Tq + (c.kv_lora + c.qk_rope) + c.q_lora + v + v
          + ((IF inc THEN past ELSE 0) + T - 1 + 1) + (IF inc THEN 0 ELSE Tr + Tp)
  BY DEF MlaReach
<1>7. MlaScratch(c, X)
        = Xq + (c.kv_lora + c.qk_rope) + c.q_lora + 2 * v + X + (Xr + Xp)
  BY DEF MlaScratch, MlaScratchCached, Larger
<1> HIDE DEF q, r, v, Tq, Xq, Tr, Xr, Tp, Xp
<1>8. CASE inc BY <1>1, <1>2, <1>3, <1>4, <1>5, <1>6, <1>7, <1>8
<1>9. CASE ~inc BY <1>1, <1>2, <1>3, <1>4, <1>5, <1>6, <1>7, <1>9
<1> QED BY <1>8, <1>9

(* k3_moe and a chunk of moe_prefill keep to k3_moe_scratch.               *)
LEMMA MoeFits ==
  ASSUME NEW c, Sized(c)
  PROVE  /\ MoeReach(c) <= MoeScratch(c) /\ MoeChunkReach(c) <= MoeScratch(c)
         /\ MoeReach(c) \in Nat /\ MoeChunkReach(c) \in Nat /\ MoeScratch(c) \in Nat
<1> DEFINE s == SharedInter(c)
<1>1. s \in Nat BY DEF Sized, SharedInter
<1>2. c.latent \in Nat /\ c.moe_inter \in Nat /\ c.hidden \in Nat BY DEF Sized
<1> HIDE DEF s
<1> QED BY <1>1, <1>2 DEF MoeReach, MoeChunkReach, MoeScratch, Larger, s

(* The sizing functions grow with the sequence.                            *)
LEMMA ScratchGrows ==
  ASSUME NEW c, Sized(c), NEW X \in Nat, 1 <= X
  PROVE  MlaScratch(c, 1) <= MlaScratch(c, X) /\ KdaScratch(c, 1) <= KdaScratch(c, X)
<1>1. KdaReach(c, 1) = KdaScratch(c, 1)
  <2>1. 1 * KdaWidth(c) \in Nat /\ KdaWidth(c) \in Nat /\ 1 * c.kda_heads \in Nat /\ c.kda_head_dim \in Nat
    BY DEF Sized, KdaWidth
  <2> QED BY <2>1 DEF KdaReach, KdaScratch
<1>2. ASSUME NEW inc \in BOOLEAN, ~inc
      PROVE  MlaReach(c, 1, 0, inc) = MlaScratch(c, 1)
  <2> DEFINE q == c.n_heads * (c.qk_nope + c.qk_rope)
             r == c.n_heads * (c.qk_nope + c.v_head)
             v == c.n_heads * c.v_head
  <2>1. /\ q \in Nat /\ r \in Nat /\ v \in Nat
        /\ c.kv_lora \in Nat /\ c.qk_rope \in Nat /\ c.q_lora \in Nat
    BY DEF Sized
  <2>2. MlaReach(c, 1, 0, inc)
          = 1 * q + (c.kv_lora + c.qk_rope) + c.q_lora + v + v + (0 + 1 - 1 + 1)
            + (1 * r + 1 * c.qk_rope)
    BY <1>2 DEF MlaReach
  <2>3. MlaScratch(c, 1)
          = 1 * q + (c.kv_lora + c.qk_rope) + c.q_lora + 2 * v + 1 + (1 * r + 1 * c.qk_rope)
    BY DEF MlaScratch, MlaScratchCached, Larger
  <2> HIDE DEF q, r, v
  <2> QED BY <2>1, <2>2, <2>3
<1>3. PICK inc \in BOOLEAN : ~inc BY Zenon
<1>4. MlaReach(c, 1, 0, inc) <= MlaScratch(c, X)
  BY <1>3, MlaFits, 1 \in Nat, 0 \in Nat
<1>5. KdaReach(c, 1) <= KdaScratch(c, X) BY KdaFits, 1 \in Nat
<1> QED BY Zenon, <1>1, <1>2, <1>3, <1>4, <1>5

(* The other size main compares with is a number too.                      *)
LEMMA ScratchCachedInt ==
  ASSUME NEW c, Sized(c), NEW X \in Nat
  PROVE  MlaScratchCached(c, X, X, TRUE) \in Int
<1> DEFINE alt == MlaScratchCached(c, X, X, TRUE)
           q == X * (c.n_heads * (c.qk_nope + c.qk_rope))
           v == c.n_heads * c.v_head
<1>1. c.n_heads * (c.qk_nope + c.qk_rope) \in Nat /\ v \in Nat BY DEF Sized
<1>2. q \in Nat BY <1>1, MulMono
<1>3. c.kv_lora \in Nat /\ c.qk_rope \in Nat /\ c.q_lora \in Nat BY DEF Sized
<1>4. alt = q + (c.kv_lora + c.qk_rope) + c.q_lora + 2 * v + X + 0
  BY DEF MlaScratchCached, Larger
<1>5. v \in Nat BY <1>1
<1>6. alt \in Int
  <2> HIDE DEF q, v, alt
  <2> QED BY <1>2, <1>3, <1>4, <1>5
<1> QED BY Zenon, <1>6

(***************************************************************************)
(* One layer, and the aggregator after the last one, reach no further than *)
(* the scratch of the longest sequence.  `dense' layers need DenseFits.    *)
(***************************************************************************)
THEOREM LayerWithinScratch ==
  ASSUME NEW c, Sized(c), NEW T \in Nat \ {0}, NEW X \in Nat, T <= X,
         NEW past \in Nat, NEW inc \in BOOLEAN, inc => past + T <= X,
         NEW mla \in BOOLEAN, NEW dense \in BOOLEAN,
         dense => c.dense_inter <= Larger(Larger(MlaScratch(c, 1), KdaScratch(c, 1)),
                                          MoeScratch(c))
  PROVE  LayerReach(c, mla, dense, T, past, inc) <= ScNeed(c, X)
<1> DEFINE sub == Larger(Larger(MlaScratch(c, X), KdaScratch(c, X)), MoeScratch(c))
           att == IF mla THEN MlaReach(c, T, past, inc) ELSE KdaReach(c, T)
           mlp == IF dense THEN c.dense_inter
                  ELSE Larger(MoeReach(c), IF T > 1 THEN MoeChunkReach(c) ELSE 0)
           e == c.hidden
           stack == MaxB(c) * e
<1>a. KdaReach(c, T) <= KdaScratch(c, X) /\ KdaReach(c, T) \in Nat /\ KdaScratch(c, X) \in Nat
  BY KdaFits
<1>b. /\ MlaReach(c, T, past, inc) <= MlaScratch(c, X)
      /\ MlaReach(c, T, past, inc) \in Int /\ MlaScratch(c, X) \in Nat
  BY MlaFits
<1>c. /\ MoeReach(c) <= MoeScratch(c) /\ MoeChunkReach(c) <= MoeScratch(c)
      /\ MoeReach(c) \in Nat /\ MoeChunkReach(c) \in Nat /\ MoeScratch(c) \in Nat
  BY Zenon, MoeFits
<1>1. sub \in Nat /\ att \in Int /\ att <= sub
  BY <1>a, <1>b, <1>c DEF Larger
<1>2. mlp \in Int /\ mlp <= sub
  <2>1. CASE ~dense BY <2>1, <1>a, <1>b, <1>c DEF Larger
  <2>2. CASE dense
    <3>1. KdaScratch(c, 1) \in Nat BY KdaFits, 1 \in Nat, 1 <= 1
    <3>2. MlaScratch(c, 1) \in Nat BY MlaFits, 1 \in Nat, 1 <= 1, 0 \in Nat, FALSE \in BOOLEAN
    <3>3. MlaScratch(c, 1) <= MlaScratch(c, X) /\ KdaScratch(c, 1) <= KdaScratch(c, X)
      BY ScratchGrows
    <3>4. c.dense_inter \in Nat BY DEF Sized
    <3> QED BY <2>2, <1>a, <1>b, <1>c, <3>1, <3>2, <3>3, <3>4 DEF Larger
  <2> QED BY Zenon, <2>1, <2>2
<1>3. e \in Nat /\ c.dense_inter \in Nat /\ MaxB(c) \in Nat BY DEF Sized, MaxB
<1>4. stack \in Nat BY <1>3
<1> DEFINE Te == T * e  Xe == X * e
<1>5. Te <= Xe /\ Te \in Nat /\ Xe \in Nat BY Zenon, <1>3, MulMono
<1>6. LayerReach(c, mla, dense, T, past, inc)
        = Te + Te + Te + e + e + stack + 2 * c.dense_inter + Larger(att, mlp)
  BY DEF LayerReach, SubAt
<1>7. LayerScratch(c, X) = 3 * Xe + 2 * e + stack + 2 * c.dense_inter + sub
  BY DEF LayerScratch
<1> DEFINE alt == MlaScratchCached(c, X, X, TRUE)
<1>8. alt \in Int BY Zenon, ScratchCachedInt
<1>f. ScNeed(c, X) = Larger(LayerScratch(c, X), alt) BY Zenon DEF ScNeed
<1>d. Larger(att, mlp) \in Int /\ Larger(att, mlp) <= sub BY Zenon, <1>1, <1>2 DEF Larger
<1>e. c.dense_inter \in Nat BY Zenon, <1>3
<1> HIDE DEF sub, att, mlp, e, stack, Te, Xe, alt
<1>9. LayerReach(c, mla, dense, T, past, inc) <= LayerScratch(c, X)
  BY <1>1, <1>d, <1>e, <1>3, <1>4, <1>5, <1>6, <1>7
<1>10. LayerReach(c, mla, dense, T, past, inc) \in Int /\ LayerScratch(c, X) \in Int
  BY <1>1, <1>d, <1>e, <1>3, <1>4, <1>5, <1>6, <1>7
<1> QED BY <1>8, <1>9, <1>10, <1>f DEF Larger

(* nb <= n_layers / attn_res_block + 1 once the snapshots taken are spaced *)
(* attn_res_block layers apart: the stack has room for the residual too.   *)
LEMMA SnapshotsFit ==
  ASSUME NEW c, Sized(c), NEW nb \in Nat, NEW L \in Nat, L <= c.n_layers,
         (nb - 1) * c.attn_res_block < L
  PROVE  nb + 1 <= MaxB(c) /\ MaxB(c) \in Nat
<1> DEFINE a == c.attn_res_block  n == c.n_layers  d == n \div a
<1>1. a \in Nat \ {0} /\ n \in Nat BY DEF Sized
<1>2. d \in Nat /\ n < (d + 1) * a BY <1>1, SMTT(30)
<1>3. (nb - 1) * a < (d + 1) * a BY <1>1, <1>2, SMTT(30)
<1>4. nb - 1 < d + 1
  <2>1. SUFFICES ASSUME d + 1 <= nb - 1 PROVE FALSE BY <1>2
  <2>2. nb - 1 \in Nat /\ d + 1 \in Nat BY <2>1, <1>2
  <2>3. (d + 1) * a <= (nb - 1) * a /\ (d + 1) * a \in Nat /\ (nb - 1) * a \in Nat
    BY Zenon, <2>1, <2>2, <1>1, MulMono
  <2> QED BY <1>3, <2>3
<1>5. MaxB(c) = d + 2 BY DEF MaxB
<1> HIDE DEF d, a, n
<1> QED BY <1>2, <1>4, <1>5

(* The aggregator after the last layer stacks all snapshots and the        *)
(* residual where the layers had their scratch.                            *)
LEMMA HeadWithinScratch ==
  ASSUME NEW c, Sized(c), NEW nb \in Nat, nb + 1 <= MaxB(c), MaxB(c) \in Nat, NEW X \in Nat
  PROVE  HeadReach(c, nb) <= ScNeed(c, X)
<1> DEFINE e == c.hidden  top == (nb + 1) * e  stack == MaxB(c) * e  Xe == X * e
           sub == Larger(Larger(MlaScratch(c, X), KdaScratch(c, X)), MoeScratch(c))
           alt == MlaScratchCached(c, X, X, TRUE)
<1>1. e \in Nat /\ c.dense_inter \in Nat BY DEF Sized
<1>2. top <= stack /\ top \in Nat /\ stack \in Nat BY <1>1, MulMono
<1>3. Xe \in Nat BY <1>1, MulMono
<1>4. sub \in Nat
  <2>1. KdaScratch(c, X) \in Nat BY KdaFits
  <2>2. PICK inc \in BOOLEAN : ~inc BY Zenon
  <2>3. MlaScratch(c, X) \in Nat BY <2>2, MlaFits, 0 \in Nat
  <2> QED BY Zenon, <2>1, <2>3, MoeFits DEF Larger
<1>5. alt \in Int BY Zenon, ScratchCachedInt
<1>6. LayerScratch(c, X) = 3 * Xe + 2 * e + stack + 2 * c.dense_inter + sub
  BY DEF LayerScratch
<1>7. ScNeed(c, X) = Larger(LayerScratch(c, X), alt) BY DEF ScNeed
<1>8. HeadReach(c, nb) = e + top BY DEF HeadReach
<1> HIDE DEF e, top, stack, Xe, sub, alt
<1>9. HeadReach(c, nb) <= LayerScratch(c, X) /\ HeadReach(c, nb) \in Int /\ LayerScratch(c, X) \in Int
  BY <1>1, <1>2, <1>3, <1>4, <1>6, <1>8
<1> QED BY <1>5, <1>7, <1>9 DEF Larger

(***************************************************************************)
(* Lengths.  The inductive invariant: what main's loop keeps true of the   *)
(* sequence, the consumed positions and the tokens of the sweep under way. *)
(***************************************************************************)
FileOk ==
  /\ file.whole \in BOOLEAN
  /\ file.whole => /\ file.seq \in Seq(Toks)
                   /\ file.cached \in Nat /\ file.cached <= Len(file.seq)

ReqOk ==
  /\ req.inc \in BOOLEAN /\ req.np \in Nat \ {0} /\ req.gen \in Nat
  /\ req.spec \in Nat /\ req.prior \in Nat /\ req.NL \in cfg.layers

(* nout tokens follow the history and the prompt; before the first, the    *)
(* state holds part of the history; after it, all but the last token.      *)
LoopOk ==
  /\ seq \in Seq(Toks) /\ nout \in 0..req.gen
  /\ Len(seq) = req.prior + req.np + nout
  /\ cached \in Nat
  /\ ~req.inc => cached = 0
  /\ nout = 0 => cached <= req.prior
  /\ (req.inc /\ nout > 0) => cached + 1 = Len(seq)

SweepOk(c) ==
  /\ c.ids \in Seq(Toks) /\ Len(c.ids) > 0
  /\ cached + Len(c.ids) <= Tmax
  /\ c.L \in Nat /\ c.L <= req.NL
  /\ c.nb \in Nat /\ (c.nb - 1) * cfg.attn_res_block < c.L

KindOk(c) ==
  \/ c.kind = "tf"
  \/ /\ c.kind = "feed" /\ req.inc /\ nout < req.gen
     /\ cached + Len(c.ids) = Len(seq)
  \/ c.kind = "full" /\ ~req.inc /\ nout < req.gen
  \/ /\ c.kind = "verify" /\ req.inc /\ nout > 0
     /\ nout + Len(c.ids) <= req.gen
  \/ /\ c.kind = "replay" /\ req.inc /\ nout > 0
     /\ nout + Len(c.ids) <= req.gen
     /\ c.emit \in Seq(Toks) /\ Len(c.emit) = Len(c.ids)

SessionInv ==
  /\ cfg \in Cfgs
  /\ pc \in {"start", "step", "layer", "swept", "end"}
  /\ FileOk
  /\ pc # "start" => ReqOk /\ LoopOk
  /\ pc = "step" => nout < req.gen
  /\ pc \in {"layer", "swept"} => SweepOk(call) /\ KindOk(call)

(* Before the first process nothing is held and nothing is saved.          *)
LEMMA InitOk == Init => SessionInv
BY DEF Init, SessionInv, FileOk, NoFile

(* A process that exits leaves the file, the old one or the one it saved.  *)
LEMMA ExitOk ==
  ASSUME SessionInv, Exit, cfg' = cfg, FileOk'
  PROVE  SessionInv'
BY DEF SessionInv, Exit

(* A sweep that starts within the cache starts well.                       *)
LEMMA EnterOk ==
  ASSUME SessionInv, pc # "start", NEW c, NEW state, ForwardEnter(c, state),
         UNCHANGED <<cfg, req, seq, nout, cached, file>>,
         c.L = 0, c.nb = 0, c.ids \in Seq(Toks), Len(c.ids) > 0,
         cached + Len(c.ids) <= Tmax, KindOk(c)
  PROVE  SessionInv'
<1>1. cfg.attn_res_block \in Nat \ {0} BY CfgSized DEF SessionInv, Sized
<1>2. (0 - 1) * cfg.attn_res_block < 0 BY <1>1
<1>3. req.NL \in Nat BY CfgSized DEF SessionInv, ReqOk, Sized
<1>4. SweepOk(c) BY <1>2, <1>3 DEF SweepOk
<1>5. SweepOk(call)' /\ KindOk(call)'
  BY Zenon, <1>4 DEF SweepOk, KindOk, ForwardEnter, Tmax, TmaxOf
<1>6. pc' = "layer" BY DEF ForwardEnter
<1>7. FileOk' /\ ReqOk' /\ LoopOk' BY DEF SessionInv, FileOk, ReqOk, LoopOk
<1> QED BY Zenon, <1>5, <1>6, <1>7 DEF SessionInv

(* A process starts with its history and prompt, nothing generated.        *)
LEMMA LaunchOk ==
  ASSUME SessionInv, NEW ask \in Asks, NEW NL \in cfg.layers, NEW have \in Haves,
         NEW load \in BOOLEAN, NEW prompt \in [1..ask.np -> Toks],
         Launch(ask, prompt, NL, have, load)
  PROVE  SessionInv'
<1>1. ask.np \in Nat \ {0} /\ ask.gen \in Nat /\ ask.spec \in Nat /\ ask.inc \in BOOLEAN
  BY Zenon, AskAssumption
<1>2. prompt \in Seq(Toks) /\ Len(prompt) = ask.np BY <1>1
<1>3. UNCHANGED <<cfg, file>> BY DEF Launch
<1>4. load => file.whole /\ ask.inc BY DEF Launch, Loadable
<1>5. load => /\ file.seq \in Seq(Toks) /\ file.cached \in Nat
              /\ file.cached <= Len(file.seq)
  BY Zenon, <1>4 DEF SessionInv, FileOk
<1>6. /\ req'.inc = ask.inc /\ req'.np = ask.np /\ req'.gen = ask.gen
      /\ req'.spec = (IF ask.inc THEN ask.spec ELSE 0) /\ req'.NL = NL
      /\ req'.prior = (IF load THEN Len(file.seq) ELSE 0)
  BY DEF Launch
<1>7. ReqOk' BY <1>1, <1>3, <1>5, <1>6 DEF ReqOk
<1>8. /\ seq' = (IF load THEN file.seq ELSE <<>>) \o prompt /\ nout' = 0
      /\ cached' = (IF load THEN file.cached ELSE 0)
  BY DEF Launch
<1>9. LoopOk'
  <2>1. CASE load
    <3>1. seq' \in Seq(Toks) /\ Len(seq') = Len(file.seq) + Len(prompt)
      BY SMTT(30), <2>1, <1>2, <1>5, <1>8
    <3> QED BY <2>1, <3>1, <1>1, <1>2, <1>4, <1>5, <1>6, <1>8 DEF LoopOk
  <2>2. CASE ~load
    <3>1. seq' \in Seq(Toks) /\ Len(seq') = Len(prompt) BY <2>2, <1>2, <1>8
    <3> QED BY <2>2, <3>1, <1>1, <1>2, <1>6, <1>8 DEF LoopOk
  <2> QED BY Zenon, <2>1, <2>2
<1>10. pc' = (IF ask.gen = 0 THEN "end" ELSE "step") BY Zenon DEF Launch
<1>11. pc' \in {"step", "end"} /\ (pc' = "step" => nout' < req'.gen)
  BY <1>1, <1>6, <1>8, <1>10
<1>12. FileOk' /\ cfg' \in Cfgs BY Zenon, <1>3 DEF SessionInv, FileOk
<1> QED BY Zenon, <1>7, <1>9, <1>11, <1>12 DEF SessionInv

(* The buffers have room for the sequence and one more position.           *)
LEMMA Room ==
  ASSUME ReqOk, LoopOk
  PROVE  /\ Tmax \in Nat /\ cached \in Nat /\ Len(seq) \in Nat /\ nout \in Nat
         /\ Tmax = req.prior + req.np + req.gen + 1
         /\ Len(seq) = req.prior + req.np + nout
         /\ nout <= req.gen /\ req.gen \in Nat /\ req.prior \in Nat
         /\ req.np \in Nat /\ req.np > 0
<1>1. Tmax = req.prior + req.np + req.gen + 1 BY DEF Tmax, TmaxOf
<1> QED BY SMTT(30), <1>1 DEF ReqOk, LoopOk

(* A layer leaves the lengths alone and takes at most one snapshot, at a   *)
(* multiple of attn_res_block; inside the cache the bound is not hit.      *)
LEMMA LayerOk ==
  ASSUME SessionInv, ForwardLayer
  PROVE  SessionInv'
<1> DEFINE a == cfg.attn_res_block  L == call.L  nb == call.nb
<1>1. pc = "layer" /\ L < req.NL /\ UNCHANGED <<cfg, req, seq, nout, cached, file>>
  BY DEF ForwardLayer
<1>2. ReqOk /\ LoopOk /\ SweepOk(call) /\ KindOk(call) /\ FileOk BY Zenon, <1>1 DEF SessionInv
<1>3. a \in Nat \ {0} /\ req.NL \in Nat /\ L \in Nat /\ nb \in Nat
  BY <1>2, CfgSized DEF SessionInv, Sized, ReqOk, SweepOk
<1>4. ~PastCache(call.L, Len(call.ids))
  <2>1. Tmax \in Nat /\ cached \in Nat BY Zenon, <1>2, Room
  <2>2. Len(call.ids) \in Nat /\ cached + Len(call.ids) <= Tmax BY <1>2 DEF SweepOk
  <2> QED BY <2>1, <2>2 DEF PastCache
<1>5. PICK n : /\ call' = [call EXCEPT !.L = @ + 1, !.nb = n] /\ pc' = pc
               /\ n = (IF Boundary(cfg, L) THEN nb + 1 ELSE nb)
  BY <1>4, Zenon DEF ForwardLayer, LayerInc
<1>6. /\ call'.ids = call.ids /\ call'.kind = call.kind /\ call'.emit = call.emit
      /\ call'.L = L + 1 /\ call'.nb = n
  BY <1>5, <1>1
<1>7. n \in Nat /\ (n - 1) * a < L + 1
  <2>1. (nb - 1) * a < L BY <1>2 DEF SweepOk
  <2>2. CASE ~Boundary(cfg, L) BY <2>1, <2>2, <1>3, <1>5
  <2>3. CASE Boundary(cfg, L)
    <3> DEFINE d == L \div a
    <3>1. L % a = 0 BY <2>3 DEF Boundary
    <3>2. d \in Nat /\ L = d * a BY <3>1, <1>3, SMTT(30)
    <3>3. nb - 1 < d
      <4>1. SUFFICES ASSUME d <= nb - 1 PROVE FALSE BY <3>2, <1>3
      <4>2. nb - 1 \in Nat BY <4>1, <3>2, <1>3
      <4>3. d * a <= (nb - 1) * a BY Zenon, <4>1, <4>2, <3>2, <1>3, MulMono
      <4> QED BY <4>2, <4>3, <3>2, <2>1, <1>3
    <3>4. nb * a <= d * a BY <3>2, <3>3, <1>3, MulMono
    <3>5. n = nb + 1 /\ n - 1 = nb BY <2>3, <1>3, <1>5
    <3>6. nb * a < L + 1 BY <3>2, <3>4, <1>3
    <3> QED BY <3>5, <3>6, <1>3
  <2> QED BY Zenon, <2>2, <2>3
<1>8. SweepOk(call)'
  <2>1. L + 1 \in Nat /\ L + 1 <= req.NL BY <1>1, <1>3
  <2>2. /\ call.ids \in Seq(Toks) /\ Len(call.ids) > 0
        /\ cached + Len(call.ids) <= Tmax
    BY Zenon, <1>2 DEF SweepOk
  <2>3. Tmax' = Tmax BY Zenon, <1>1 DEF Tmax, TmaxOf
  <2> HIDE DEF L, nb
  <2> QED BY Zenon, <2>1, <2>2, <2>3, <1>1, <1>6, <1>7 DEF SweepOk
<1>9. KindOk(call)' BY Zenon, <1>1, <1>2, <1>6 DEF KindOk
<1>10. FileOk' /\ ReqOk' /\ LoopOk' BY Zenon, <1>1, <1>2 DEF FileOk, ReqOk, LoopOk
<1> QED BY Zenon, <1>1, <1>5, <1>8, <1>9, <1>10 DEF SessionInv

(* The aggregator changes neither the sequence nor the positions consumed. *)
LEMMA HeadOk ==
  ASSUME SessionInv, ForwardHead
  PROVE  SessionInv'
<1>1. pc = "layer" /\ pc' = "swept" /\ UNCHANGED <<cfg, req, seq, nout, cached, call, file>>
  BY DEF ForwardHead
<1>2. SweepOk(call)' /\ KindOk(call)'
  BY Zenon, <1>1 DEF SessionInv, SweepOk, KindOk, Tmax, TmaxOf
<1>3. FileOk' /\ ReqOk' /\ LoopOk' BY <1>1 DEF SessionInv, FileOk, ReqOk, LoopOk
<1> QED BY Zenon, <1>1, <1>2, <1>3 DEF SessionInv

(***************************************************************************)
(* The sweeps main starts                                                  *)
(***************************************************************************)
LEMMA StepZeroOk ==
  ASSUME SessionInv, StepZero
  PROVE  SessionInv'
<1>1. /\ pc = "step" /\ req.inc /\ nout = 0
      /\ UNCHANGED <<cfg, req, seq, nout, cached, file>>
  BY DEF StepZero
<1>0. ForwardEnter(NewCall("feed", Unread, FALSE), ks) BY Zenon DEF StepZero
<1>2. ReqOk /\ LoopOk /\ nout < req.gen BY <1>1 DEF SessionInv
<1>3. Unread \in Seq(Toks) /\ Len(Unread) = Len(seq) - cached
  BY <1>1, <1>2 DEF Unread, LoopOk, ReqOk
<1> DEFINE c == NewCall("feed", Unread, FALSE)
<1>4. c.L = 0 /\ c.nb = 0 /\ c.ids = Unread /\ c.kind = "feed" BY DEF NewCall
<1>a. ForwardEnter(c, ks) BY Zenon, <1>0
<1> HIDE DEF c
<1>5. /\ Len(c.ids) > 0 /\ cached + Len(c.ids) <= Tmax
      /\ cached + Len(c.ids) = Len(seq)
  <2>1. cached <= req.prior BY Zenon, <1>1, <1>2 DEF LoopOk
  <2>2. Len(c.ids) = Len(seq) - cached BY Zenon, <1>3, <1>4
  <2>3. /\ Tmax \in Nat /\ cached \in Nat /\ Len(seq) \in Nat /\ nout \in Nat
        /\ Tmax = req.prior + req.np + req.gen + 1
        /\ Len(seq) = req.prior + req.np + nout
        /\ nout <= req.gen /\ req.gen \in Nat /\ req.prior \in Nat
        /\ req.np \in Nat /\ req.np > 0
    BY Zenon, <1>2, Room
  <2> QED BY SMTT(30), <2>1, <2>2, <2>3
<1>6. KindOk(c) BY Zenon, <1>1, <1>2, <1>4, <1>5 DEF KindOk
<1>7. c.ids \in Seq(Toks) BY Zenon, <1>3, <1>4
<1> QED BY Zenon, <1>a, <1>1, <1>4, <1>5, <1>6, <1>7, EnterOk

(* A later one feeds the last token.                                       *)
LEMMA StepPlainOk ==
  ASSUME SessionInv, StepPlain
  PROVE  SessionInv'
<1>1. /\ pc = "step" /\ req.inc /\ nout > 0
      /\ UNCHANGED <<cfg, req, seq, nout, cached, file>>
  BY DEF StepPlain
<1>0. ForwardEnter(NewCall("feed", <<seq[cached + 1]>>, FALSE), ks) BY Zenon DEF StepPlain
<1>2. ReqOk /\ LoopOk /\ nout < req.gen BY Zenon, <1>1 DEF SessionInv
<1>3. seq[cached + 1] \in Toks BY <1>1, <1>2 DEF LoopOk, ReqOk
<1> DEFINE c == NewCall("feed", <<seq[cached + 1]>>, FALSE)
<1>4. c.L = 0 /\ c.nb = 0 /\ c.ids = <<seq[cached + 1]>> /\ c.kind = "feed" BY DEF NewCall
<1>a. ForwardEnter(c, ks) BY Zenon, <1>0
<1> HIDE DEF c
<1>5. c.ids \in Seq(Toks) /\ Len(c.ids) = 1 BY <1>3, <1>4
<1>6. cached + Len(c.ids) <= Tmax /\ cached + Len(c.ids) = Len(seq) /\ Len(c.ids) > 0
  BY <1>1, <1>2, <1>5, Room DEF LoopOk
<1>7. KindOk(c) BY Zenon, <1>1, <1>2, <1>4, <1>6 DEF KindOk
<1> QED BY Zenon, <1>a, <1>1, <1>4, <1>5, <1>6, <1>7, EnterOk

(* Without a carried state the whole sequence is fed again.                *)
LEMMA StepFullOk ==
  ASSUME SessionInv, StepFull
  PROVE  SessionInv'
<1>1. /\ pc = "step" /\ ~req.inc
      /\ UNCHANGED <<cfg, req, seq, nout, cached, file>>
  BY DEF StepFull
<1>0. ForwardEnter(NewCall("full", seq, FALSE), ks) BY Zenon DEF StepFull
<1>2. ReqOk /\ LoopOk /\ nout < req.gen BY Zenon, <1>1 DEF SessionInv
<1> DEFINE c == NewCall("full", seq, FALSE)
<1>4. c.L = 0 /\ c.nb = 0 /\ c.ids = seq /\ c.kind = "full" BY DEF NewCall
<1>a. ForwardEnter(c, ks) BY Zenon, <1>0
<1> HIDE DEF c
<1>5. c.ids \in Seq(Toks) /\ Len(c.ids) > 0 /\ cached + Len(c.ids) <= Tmax
  BY <1>1, <1>2, <1>4, Room DEF LoopOk
<1>6. KindOk(c) BY Zenon, <1>1, <1>2, <1>4 DEF KindOk
<1> QED BY Zenon, <1>a, <1>1, <1>4, <1>5, <1>6, EnterOk

(* --tf-check feeds np ids, behind a restored history at most prior long.  *)
LEMMA TfCheckOk ==
  ASSUME SessionInv, TfCheck
  PROVE  SessionInv'
<1>1. /\ pc \in {"step", "end"} /\ nout = 0
      /\ UNCHANGED <<cfg, req, seq, nout, cached, file>>
  BY DEF TfCheck
<1>0. ForwardEnter(NewCall("tf", SubSeq(seq, 1, req.np), TRUE), ks) BY Zenon DEF TfCheck
<1>2. ReqOk /\ LoopOk BY Zenon, <1>1 DEF SessionInv
<1> DEFINE c == NewCall("tf", SubSeq(seq, 1, req.np), TRUE)
<1>3. SubSeq(seq, 1, req.np) \in Seq(Toks) /\ Len(SubSeq(seq, 1, req.np)) = req.np
  BY <1>2 DEF LoopOk, ReqOk
<1>4. c.L = 0 /\ c.nb = 0 /\ c.ids = SubSeq(seq, 1, req.np) /\ c.kind = "tf" BY Zenon DEF NewCall
<1>a. ForwardEnter(c, ks) BY Zenon, <1>0
<1> HIDE DEF c
<1>5. c.ids \in Seq(Toks) /\ Len(c.ids) > 0 /\ cached + Len(c.ids) <= Tmax
  BY SMTT(30), <1>1, <1>2, <1>3, <1>4, Room DEF LoopOk
<1>6. KindOk(c) BY Zenon, <1>4 DEF KindOk
<1> QED BY Zenon, <1>a, <1>1, <1>4, <1>5, <1>6, EnterOk

(* The draft guard leaves room for every draft and the token after them.   *)
LEMMA StepVerifyOk ==
  ASSUME SessionInv, NEW d \in Drafts, StepVerify(d)
  PROVE  SessionInv'
<1>1. /\ pc = "step" /\ req.inc /\ nout > 0 /\ Len(d) <= req.spec
      /\ Len(seq) + req.spec + 1 < Tmax /\ cached + req.spec + 1 <= Tmax
      /\ UNCHANGED <<cfg, req, seq, nout, cached, file>>
  BY DEF StepVerify, DraftFits
<1>0. ForwardEnter(NewCall("verify", <<seq[cached + 1]>> \o d, TRUE), ks) BY Zenon DEF StepVerify
<1>2. ReqOk /\ LoopOk /\ nout < req.gen BY <1>1 DEF SessionInv
<1>3. /\ Tmax \in Nat /\ cached \in Nat /\ Len(seq) \in Nat /\ nout \in Nat
      /\ Tmax = req.prior + req.np + req.gen + 1
      /\ Len(seq) = req.prior + req.np + nout
      /\ req.gen \in Nat /\ req.prior \in Nat /\ req.np \in Nat
  BY Zenon, <1>2, Room
<1>4. req.spec \in Nat /\ cached + 1 = Len(seq) /\ seq \in Seq(Toks)
  BY Zenon, <1>1, <1>2 DEF ReqOk, LoopOk
<1>5. seq[cached + 1] \in Toks BY <1>3, <1>4
<1>6. d \in Seq(Toks) /\ Len(d) \in Nat BY DEF Drafts
<1> DEFINE ids == <<seq[cached + 1]>> \o d
           c == NewCall("verify", ids, TRUE)
<1>7. ids \in Seq(Toks) /\ Len(ids) = Len(d) + 1 BY <1>5, <1>6
<1>8. c.L = 0 /\ c.nb = 0 /\ c.ids = ids /\ c.kind = "verify" BY DEF NewCall
<1>a. ForwardEnter(c, ks) BY Zenon, <1>0
<1> HIDE DEF c, ids
<1>9. Len(ids) > 0 /\ cached + Len(ids) <= Tmax /\ nout + Len(ids) <= req.gen
  <2> DEFINE s == req.spec  g == req.gen  l == Len(seq)  x == Len(d)  y == Len(ids)
             o == req.prior + req.np
  <2>1. x <= s /\ l + s + 1 < Tmax /\ cached + s + 1 <= Tmax BY Zenon, <1>1
  <2>2. s \in Nat /\ g \in Nat /\ x \in Nat /\ y = x + 1 BY Zenon, <1>3, <1>4, <1>6, <1>7
  <2>3. o \in Nat /\ l = o + nout BY <1>3
  <2>4. Tmax = o + g + 1 BY <1>3
  <2>5. cached \in Nat /\ nout \in Nat /\ Tmax \in Nat BY <1>3
  <2> HIDE DEF s, g, l, x, y, o
  <2>6. y > 0 /\ cached + y <= Tmax /\ nout + y <= g BY <2>1, <2>2, <2>3, <2>4, <2>5
  <2> QED BY Zenon, <2>6 DEF g, y
<1>10. KindOk(c) BY Zenon, <1>1, <1>8, <1>9 DEF KindOk
<1> QED BY Zenon, <1>a, <1>1, <1>7, <1>8, <1>9, <1>10, EnterOk

(* m drafts accepted: the prefix is replayed where the batch was fed.      *)
LEMMA SweptRejectOk ==
  ASSUME SessionInv, NEW m \in Nat, NEW tok \in Toks, SweptReject(m, tok)
  PROVE  SessionInv'
<1> DEFINE ids == SubSeq(call.ids, 1, m + 1)
           es == SubSeq(call.ids, 2, m + 1) \o <<tok>>
           c == [NewCall("replay", ids, FALSE) EXCEPT !.emit = es]
<1>1. /\ pc = "swept" /\ call.kind = "verify" /\ m + 1 < Len(call.ids)
      /\ UNCHANGED <<cfg, req, seq, nout, cached, file>>
  BY DEF SweptReject
<1>0. ForwardEnter(c, snap) BY DEF SweptReject
<1>2. ReqOk /\ LoopOk /\ SweepOk(call) /\ KindOk(call) BY <1>1 DEF SessionInv
<1>3. /\ call.ids \in Seq(Toks) /\ Len(call.ids) \in Nat
      /\ cached + Len(call.ids) <= Tmax
  BY <1>2 DEF SweepOk
<1>4. req.inc /\ nout > 0 /\ nout + Len(call.ids) <= req.gen BY Zenon, <1>1, <1>2 DEF KindOk
<1>5. cached \in Nat /\ Tmax \in Nat /\ nout \in Nat /\ req.gen \in Nat BY Zenon, <1>2, Room
<1>6. ids \in Seq(Toks) /\ Len(ids) = m + 1 BY <1>1, <1>3
<1>7. es \in Seq(Toks) /\ Len(es) = m + 1
  <2>1. SubSeq(call.ids, 2, m + 1) \in Seq(Toks) /\ Len(SubSeq(call.ids, 2, m + 1)) = m
    BY <1>1, <1>3
  <2> QED BY <2>1
<1>8. c.L = 0 /\ c.nb = 0 /\ c.ids = ids /\ c.kind = "replay" /\ c.emit = es BY Zenon DEF NewCall
<1> HIDE DEF c, ids, es
<1>9. Len(ids) > 0 /\ cached + Len(ids) <= Tmax /\ nout + Len(ids) <= req.gen
  BY <1>1, <1>3, <1>4, <1>5, <1>6
<1>10. KindOk(c) BY Zenon, <1>4, <1>6, <1>7, <1>8, <1>9 DEF KindOk
<1>11. pc # "start" BY <1>1
<1> QED BY Zenon, <1>0, <1>1, <1>11, <1>6, <1>8, <1>9, <1>10, EnterOk

(***************************************************************************)
(* What the sweeps return to                                               *)
(***************************************************************************)
(* Tokens the run still wants all join the sequence, none is cut off.      *)
LEMMA EmitAll ==
  ASSUME ReqOk, LoopOk, NEW es \in Seq(Toks), nout + Len(es) <= req.gen, Emit(es)
  PROVE  /\ seq' \in Seq(Toks) /\ Len(seq') = Len(seq) + Len(es)
         /\ nout' = nout + Len(es)
         /\ pc' \in {"step", "end"} /\ (pc' = "step" => nout' < req.gen)
         /\ \A i \in 1..Len(seq) : seq'[i] = seq[i]
         /\ \A j \in 1..Len(es) : seq'[Len(seq) + j] = es[j]
<1> DEFINE k == Smaller(Len(es), Smaller(req.gen - nout, Tmax - Len(seq)))
<1>1. /\ Tmax \in Nat /\ Len(seq) \in Nat /\ nout \in Nat
      /\ Tmax = req.prior + req.np + req.gen + 1
      /\ Len(seq) = req.prior + req.np + nout
      /\ req.gen \in Nat /\ req.prior \in Nat /\ req.np \in Nat
  BY Room
<1>2. k = Len(es) /\ Len(es) \in Nat
  <2> DEFINE n == Len(es)  g == req.gen  l == Len(seq)  o == req.prior + req.np
  <2>1. n \in Nat OBVIOUS
  <2>2. o \in Nat /\ g \in Nat /\ nout \in Nat /\ nout + n <= g BY <1>1
  <2>3. l = o + nout BY Zenon, <1>1
  <2>4. Tmax = o + g + 1 BY <1>1
  <2> HIDE DEF n, g, l, o
  <2>5. Smaller(n, Smaller(g - nout, Tmax - l)) = n BY <2>1, <2>2, <2>3, <2>4 DEF Smaller
  <2> QED BY Zenon, <2>1, <2>5 DEF n, g, l
<1>3. /\ seq' = seq \o SubSeq(es, 1, k) /\ nout' = nout + k
      /\ pc' = (IF nout + k >= req.gen \/ Len(seq) + k >= Tmax THEN "end" ELSE "step")
  BY DEF Emit
<1> HIDE DEF k
<1> DEFINE u == SubSeq(es, 1, k)
<1>4. u \in Seq(Toks) /\ Len(u) = Len(es) BY <1>2
<1>5. seq \in Seq(Toks) BY DEF LoopOk
<1>6. seq' \in Seq(Toks) /\ Len(seq') = Len(seq) + Len(es)
  <2>1. seq' = seq \o u BY <1>3
  <2> HIDE DEF u
  <2>2. seq \o u \in Seq(Toks) /\ Len(seq \o u) = Len(seq) + Len(u) BY SMTT(30), <1>4, <1>5
  <2> QED BY Zenon, <2>1, <2>2, <1>4
<1>7. pc' \in {"step", "end"} /\ (pc' = "step" => nout' < req.gen) BY SMTT(30), <1>1, <1>2, <1>3
<1>8. /\ \A i \in 1..Len(seq) : seq'[i] = seq[i]
      /\ \A j \in 1..Len(es) : seq'[Len(seq) + j] = es[j]
  <2>1. \A j \in 1..Len(es) : u[j] = es[j] BY <1>2
  <2>2. seq' = seq \o u BY <1>3
  <2> HIDE DEF u
  <2>3. \A i \in 1..Len(seq) : (seq \o u)[i] = seq[i] BY <1>4, <1>5
  <2>4. \A j \in 1..Len(u) : (seq \o u)[Len(seq) + j] = u[j] BY <1>4, <1>5
  <2> QED BY Zenon, <2>1, <2>2, <2>3, <2>4, <1>4
<1> QED BY Zenon, <1>2, <1>3, <1>6, <1>7, <1>8

(* A sweep whose tokens were all emitted, the state one behind.            *)
LEMMA ReturnOk ==
  ASSUME SessionInv, pc = "swept", NEW es \in Seq(Toks), Len(es) > 0,
         nout + Len(es) <= req.gen, Emit(es), UNCHANGED <<cfg, req, file>>,
         cached' \in Nat, ~req.inc => cached' = 0,
         req.inc => cached' + 1 = Len(seq) + Len(es)
  PROVE  SessionInv'
<1>1. ReqOk /\ LoopOk BY DEF SessionInv
<1>2. /\ seq' \in Seq(Toks) /\ Len(seq') = Len(seq) + Len(es)
      /\ nout' = nout + Len(es)
      /\ pc' \in {"step", "end"} /\ (pc' = "step" => nout' < req.gen)
  BY Zenon, <1>1, EmitAll
<1>3. Len(seq) = req.prior + req.np + nout /\ nout \in Nat /\ Len(es) \in Nat
      /\ req.prior \in Nat /\ req.np \in Nat /\ req.gen \in Nat
  BY <1>1, Room
<1>4. nout' > 0 /\ nout' \in 0..req.gen /\ Len(seq') = req.prior + req.np + nout'
  BY SMTT(30), <1>2, <1>3
<1>5. LoopOk' BY <1>2, <1>3, <1>4 DEF LoopOk
<1>6. ReqOk' /\ FileOk' BY <1>1 DEF SessionInv, ReqOk, FileOk
<1> QED BY Zenon, <1>2, <1>5, <1>6 DEF SessionInv

(* One token follows a plain sweep.                                        *)
LEMMA SweptFeedOk ==
  ASSUME SessionInv, NEW tok \in Toks, SweptFeed(tok)
  PROVE  SessionInv'
<1>1. /\ pc = "swept" /\ call.kind \in {"feed", "full"}
      /\ cached' = (IF call.kind = "feed" THEN cached + Len(call.ids) ELSE cached)
      /\ UNCHANGED <<cfg, req, file>>
  BY DEF SweptFeed
<1>0. Emit(<<tok>>) BY DEF SweptFeed
<1>2. ReqOk /\ LoopOk /\ SweepOk(call) /\ KindOk(call) BY Zenon, <1>1 DEF SessionInv
<1>3. cached \in Nat /\ Len(seq) \in Nat /\ nout \in Nat /\ req.gen \in Nat BY <1>2, Room
<1> DEFINE es == <<tok>>
<1>4. es \in Seq(Toks) /\ Len(es) = 1 OBVIOUS
<1>5. nout < req.gen BY Zenon, <1>1, <1>2 DEF KindOk
<1>6. /\ cached' \in Nat /\ (~req.inc => cached' = 0)
      /\ (req.inc => cached' + 1 = Len(seq) + 1)
  <2>1. CASE call.kind = "feed"
    <3>1. req.inc /\ cached + Len(call.ids) = Len(seq) BY Zenon, <2>1, <1>2 DEF KindOk
    <3> QED BY Zenon, <2>1, <3>1, <1>1, <1>3
  <2>2. CASE call.kind = "full"
    <3>1. ~req.inc BY Zenon, <2>2, <1>2 DEF KindOk
    <3>2. cached = 0 BY Zenon, <3>1, <1>2 DEF LoopOk
    <3> QED BY Zenon, <2>2, <3>1, <3>2, <1>1
  <2> QED BY Zenon, <1>1, <2>1, <2>2
<1>7. Emit(es) BY <1>0
<1> HIDE DEF es
<1>8. nout + Len(es) <= req.gen /\ Len(es) > 0 BY <1>3, <1>4, <1>5
<1>9. req.inc => cached' + 1 = Len(seq) + Len(es) BY Zenon, <1>4, <1>6
<1> QED BY Zenon, <1>1, <1>4, <1>6, <1>7, <1>8, <1>9, ReturnOk

(* All drafts and the token after them follow an accepted batch.           *)
LEMMA SweptAcceptOk ==
  ASSUME SessionInv, NEW tok \in Toks, SweptAccept(tok)
  PROVE  SessionInv'
<1> DEFINE n == Len(call.ids)  es == Tail(call.ids) \o <<tok>>
<1>1. /\ pc = "swept" /\ call.kind = "verify" /\ cached' = cached + n
      /\ UNCHANGED <<cfg, req, file>>
  BY DEF SweptAccept
<1>0. Emit(es) BY DEF SweptAccept
<1>2. ReqOk /\ LoopOk /\ SweepOk(call) /\ KindOk(call) BY Zenon, <1>1 DEF SessionInv
<1>3. cached \in Nat /\ Len(seq) \in Nat /\ nout \in Nat /\ req.gen \in Nat BY <1>2, Room
<1>4. call.ids \in Seq(Toks) /\ n \in Nat /\ n > 0 BY <1>2 DEF SweepOk
<1>5. es \in Seq(Toks) /\ Len(es) = n
  <2>1. Tail(call.ids) \in Seq(Toks) /\ Len(Tail(call.ids)) = n - 1 BY <1>4
  <2> QED BY <2>1, <1>4
<1>6. req.inc /\ nout > 0 /\ nout + n <= req.gen BY Zenon, <1>1, <1>2 DEF KindOk
<1>7. cached + 1 = Len(seq) BY Zenon, <1>2, <1>6 DEF LoopOk
<1> HIDE DEF n, es
<1>8. cached' \in Nat /\ cached' + 1 = Len(seq) + Len(es) BY <1>1, <1>3, <1>4, <1>5, <1>7
<1>9. nout + Len(es) <= req.gen /\ Len(es) > 0 BY Zenon, <1>4, <1>5, <1>6
<1> QED BY Zenon, <1>0, <1>1, <1>5, <1>6, <1>8, <1>9, ReturnOk

(* The accepted drafts and the correction follow a replay.                 *)
LEMMA SweptReplayOk ==
  ASSUME SessionInv, SweptReplay
  PROVE  SessionInv'
<1> DEFINE n == Len(call.ids)  es == call.emit
<1>1. /\ pc = "swept" /\ call.kind = "replay" /\ cached' = cached + n
      /\ UNCHANGED <<cfg, req, file>>
  BY DEF SweptReplay
<1>0. Emit(es) BY DEF SweptReplay
<1>2. ReqOk /\ LoopOk /\ SweepOk(call) /\ KindOk(call) BY <1>1 DEF SessionInv
<1>3. cached \in Nat /\ Len(seq) \in Nat /\ nout \in Nat /\ req.gen \in Nat BY Zenon, <1>2, Room
<1>4. n \in Nat /\ n > 0 BY <1>2 DEF SweepOk
<1>5. es \in Seq(Toks) /\ Len(es) = n /\ req.inc /\ nout > 0 /\ nout + n <= req.gen
  BY Zenon, <1>1, <1>2 DEF KindOk
<1>7. cached + 1 = Len(seq) BY Zenon, <1>2, <1>5 DEF LoopOk
<1> HIDE DEF n, es
<1>8. cached' \in Nat /\ cached' + 1 = Len(seq) + Len(es) BY <1>1, <1>3, <1>4, <1>5, <1>7
<1>9. nout + Len(es) <= req.gen /\ Len(es) > 0 BY Zenon, <1>4, <1>5
<1> QED BY Zenon, <1>0, <1>1, <1>5, <1>8, <1>9, ReturnOk

(* A saved file holds no more consumed positions than tokens.              *)
LEMMA SaveOk ==
  ASSUME SessionInv, SaveState
  PROVE  SessionInv'
<1>1. pc = "end" /\ req.inc /\ file' \in {StateSave, NoFile} /\ Exit /\ cfg' = cfg
  BY DEF SaveState
<1>2. ReqOk /\ LoopOk BY <1>1 DEF SessionInv
<1>3. seq \in Seq(Toks) /\ cached \in Nat /\ cached <= Len(seq)
  <2>1. seq \in Seq(Toks) BY <1>2 DEF LoopOk
  <2>2. /\ cached \in Nat /\ Len(seq) \in Nat /\ nout \in Nat
        /\ Len(seq) = req.prior + req.np + nout /\ req.prior \in Nat /\ req.np \in Nat
    BY Zenon, <1>2, Room
  <2>3. (nout = 0 => cached <= req.prior) /\ (nout > 0 => cached + 1 = Len(seq))
    BY <1>1, <1>2 DEF LoopOk
  <2> QED BY <2>1, <2>2, <2>3
<1>4. FileOk'
  <2>1. CASE file' = NoFile BY <2>1 DEF FileOk, NoFile
  <2>2. CASE file' = StateSave
    <3>1. file'.whole = TRUE /\ file'.seq = seq /\ file'.cached = cached
      BY Zenon, <2>2 DEF StateSave
    <3> QED BY Zenon, <3>1, <1>3 DEF FileOk
  <2> QED BY Zenon, <1>1, <2>1, <2>2
<1> QED BY Zenon, <1>1, <1>4, ExitOk

(* Every step of every process keeps the invariant.                        *)
LEMMA NextOk == SessionInv /\ [Next]_vars => SessionInv'
<1> SUFFICES ASSUME SessionInv, [Next]_vars PROVE SessionInv' OBVIOUS
<1>0. FileOk BY Zenon DEF SessionInv
<1>1. CASE UNCHANGED vars
  BY SMTT(30), <1>1 DEF vars, SessionInv, FileOk, ReqOk, LoopOk, SweepOk, KindOk, Tmax, TmaxOf
<1>2. CASE \E ask \in Asks, NL \in cfg.layers, have \in Haves, load \in BOOLEAN :
             \E prompt \in [1..ask.np -> Toks] : Launch(ask, prompt, NL, have, load)
  BY <1>2, LaunchOk, Zenon
<1>3. CASE ForwardLayer BY Zenon, <1>3, LayerOk
<1>4. CASE BindFails
  <2>1. Exit /\ cfg' = cfg /\ file' = file BY <1>4 DEF BindFails
  <2>2. FileOk' BY Zenon, <1>0, <2>1 DEF FileOk
  <2> QED BY Zenon, <2>1, <2>2, ExitOk
<1>5. CASE ForwardHead BY <1>5, HeadOk
<1>6. CASE StepZero BY <1>6, StepZeroOk
<1>7. CASE StepPlain BY <1>7, StepPlainOk
<1>8. CASE StepFull BY <1>8, StepFullOk
<1>9. CASE TfCheck BY <1>9, TfCheckOk
<1>10. CASE \E d \in Drafts : StepVerify(d) BY <1>10, StepVerifyOk, Zenon
<1>11. CASE \E tok \in Toks : SweptFeed(tok) \/ SweptAccept(tok)
  BY <1>11, SweptFeedOk, SweptAcceptOk, Zenon
<1>12. CASE \E m \in 0..MaxSpec, tok \in Toks : SweptReject(m, tok)
  <2>1. PICK m \in 0..MaxSpec, tok \in Toks : SweptReject(m, tok) BY <1>12
  <2>2. m \in Nat BY <2>1, SMT
  <2> QED BY <2>1, <2>2, SweptRejectOk, Zenon
<1>13. CASE SweptReplay BY <1>13, SweptReplayOk
<1>14. CASE SweptTf
  <2>1. Exit /\ cfg' = cfg /\ file' = file BY Zenon, <1>14 DEF SweptTf
  <2>2. FileOk' BY <1>0, <2>1 DEF FileOk
  <2> QED BY <2>1, <2>2, ExitOk
<1>15. CASE SaveState BY <1>15, SaveOk
<1>16. CASE Quit
  <2>1. Exit /\ cfg' = cfg /\ file' = file BY Zenon, <1>16 DEF Quit
  <2>2. FileOk' BY <1>0, <2>1 DEF FileOk
  <2> QED BY <2>1, <2>2, ExitOk
<1> QED
  BY Zenon, <1>1, <1>2, <1>3, <1>4, <1>5, <1>6, <1>7, <1>8, <1>9, <1>10, <1>11, <1>12, <1>13,
     <1>14, <1>15, <1>16 DEF Next

(* The lengths the loop keeps are lengths the buffers were sized for.      *)
LEMMA InvFits == SessionInv => ScratchFits
<1> SUFFICES ASSUME SessionInv PROVE ScratchFits OBVIOUS
<1>1. pc # "fatal" BY DEF SessionInv
<1>2. ASSUME pc = "layer"
      PROVE  /\ Len(call.ids) <= Tmax
             /\ call.nb + 1 <= MaxB(cfg)
             /\ HeadReach(cfg, call.nb) <= ScNeed(cfg, Tmax)
             /\ call.L < req.NL =>
                  LayerReach(cfg, IsMla(cfg, call.L), IsDense(cfg, call.L), Len(call.ids),
                             cached, req.inc) <= ScNeed(cfg, Tmax)
  <2> DEFINE T == Len(call.ids)
  <2>1. ReqOk /\ LoopOk /\ SweepOk(call) BY <1>2 DEF SessionInv
  <2>2. cfg \in Cfgs /\ Sized(cfg) BY CfgSized DEF SessionInv
  <2>3. Tmax \in Nat /\ cached \in Nat BY <2>1, Room
  <2>4. T \in Nat \ {0} /\ cached + T <= Tmax BY <2>1 DEF SweepOk
  <2>5. T <= Tmax BY <2>3, <2>4
  <2>6. call.nb \in Nat /\ call.L \in Nat /\ (call.nb - 1) * cfg.attn_res_block < call.L
    BY <2>1 DEF SweepOk
  <2>7. call.L <= cfg.n_layers
    <3>1. req.NL \in 1..cfg.n_layers BY Zenon, <2>1, <2>2 DEF ReqOk, Sized
    <3>2. call.L <= req.NL BY <2>1 DEF SweepOk
    <3>3. cfg.n_layers \in Nat BY <2>2 DEF Sized
    <3> QED BY <3>1, <3>2, <3>3, <2>6
  <2>8. call.nb + 1 <= MaxB(cfg) /\ MaxB(cfg) \in Nat BY Zenon, <2>2, <2>6, <2>7, SnapshotsFit
  <2>9. HeadReach(cfg, call.nb) <= ScNeed(cfg, Tmax)
    BY Zenon, <2>2, <2>3, <2>6, <2>8, HeadWithinScratch
  <2> DEFINE mla == IsMla(cfg, call.L)  dense == IsDense(cfg, call.L)
  <2>10. mla \in BOOLEAN /\ dense \in BOOLEAN BY DEF IsMla, IsDense
  <2>11. dense => cfg.dense_inter <= Larger(Larger(MlaScratch(cfg, 1), KdaScratch(cfg, 1)),
                                            MoeScratch(cfg))
    <3>1. dense => cfg.first_dense # 0 BY <2>2, <2>6 DEF IsDense, Sized
    <3> HIDE DEF dense
    <3> QED BY <3>1, <2>2, DenseFits, Zenon
  <2>12. req.inc \in BOOLEAN BY <2>1 DEF ReqOk
  <2> HIDE DEF T, mla, dense
  <2>13. LayerReach(cfg, mla, dense, T, cached, req.inc) <= ScNeed(cfg, Tmax)
    BY Zenon, <2>2, <2>3, <2>4, <2>5, <2>10, <2>11, <2>12, LayerWithinScratch
  <2> QED BY Zenon, <2>5, <2>8, <2>9, <2>13 DEF T, mla, dense
<1> QED BY <1>1, <1>2 DEF ScratchFits

(***************************************************************************)
(* For every architecture, request, history and draft length, no sweep of  *)
(* k3_run leaves its scratch, its rows or its cache, and the guard of      *)
(* k3_mla_cached against a full cache is never taken.                      *)
(***************************************************************************)
THEOREM SweepsStayInBuffers == Spec => []ScratchFits
<1>1. Init => SessionInv BY InitOk
<1>2. SessionInv /\ [Next]_vars => SessionInv' BY NextOk
<1>3. SessionInv => ScratchFits BY InvFits
<1> QED BY <1>1, <1>2, <1>3, PTL DEF Spec

(***************************************************************************)
(* The memory plan                                                         *)
(***************************************************************************)
(* Running fewer layers never takes more cache slices than the plan        *)
(* counts over all of them.                                                *)
LEMMA FewerSlices ==
  ASSUME NEW c, Sized(c), NEW NL \in c.layers
  PROVE  /\ NMla(c, NL) <= NMla(c, c.n_layers)
         /\ NMla(c, NL) \in Nat /\ NMla(c, c.n_layers) \in Nat
<1> DEFINE A == {L \in 0..(NL - 1) : IsMla(c, L)}
           B == {L \in 0..(c.n_layers - 1) : IsMla(c, L)}
<1>1. NL \in 1..c.n_layers /\ c.n_layers \in Nat BY DEF Sized
<1>2. A \subseteq B
  <2>1. 0..(NL - 1) \subseteq 0..(c.n_layers - 1) BY <1>1
  <2> QED BY <2>1, Zenon
<1>3. IsFiniteSet(0..(c.n_layers - 1)) BY <1>1, FS_Interval
<1>4. B \subseteq 0..(c.n_layers - 1) OBVIOUS
<1> HIDE DEF A, B
<1>5. IsFiniteSet(B) BY Zenon, <1>3, <1>4, FS_Subset
<1>6. IsFiniteSet(A) /\ Cardinality(A) <= Cardinality(B) BY <1>2, <1>5, FS_Subset
<1>7. Cardinality(A) \in Nat /\ Cardinality(B) \in Nat BY <1>5, <1>6, FS_CardinalityType
<1> QED BY Zenon, <1>6, <1>7 DEF NMla, A, B

(* The score buffer of the cached layout never decides the scratch size.   *)
LEMMA ScratchIsLayers ==
  ASSUME NEW c, Sized(c), NEW X \in Nat
  PROVE  ScNeed(c, X) = LayerScratch(c, X) /\ LayerScratch(c, X) \in Nat
<1> DEFINE q == X * (c.n_heads * (c.qk_nope + c.qk_rope))
           r == X * (c.n_heads * (c.qk_nope + c.v_head))
           v == c.n_heads * c.v_head
           Xp == X * c.qk_rope
           e == c.hidden  Xe == X * e  stack == MaxB(c) * e
           alt == MlaScratchCached(c, X, X, TRUE)
           m == MlaScratch(c, X)  k == KdaScratch(c, X)  o == MoeScratch(c)
<1>1. c.n_heads * (c.qk_nope + c.qk_rope) \in Nat /\ c.n_heads * (c.qk_nope + c.v_head) \in Nat
  BY DEF Sized
<1>2. q \in Nat /\ r \in Nat BY <1>1, MulMono
<1>3. v \in Nat /\ e \in Nat /\ c.qk_rope \in Nat /\ c.dense_inter \in Nat
      /\ c.kv_lora \in Nat /\ c.q_lora \in Nat
  BY DEF Sized
<1>4. Xp \in Nat /\ Xe \in Nat BY <1>3, MulMono
<1>5. MaxB(c) \in Nat BY DEF Sized, MaxB
<1>6. stack \in Nat BY <1>3, <1>5, MulMono
<1>7. alt = q + (c.kv_lora + c.qk_rope) + c.q_lora + 2 * v + X + 0
  BY DEF MlaScratchCached, Larger
<1>8. m = q + (c.kv_lora + c.qk_rope) + c.q_lora + 2 * v + X + (r + Xp)
  BY DEF MlaScratch, MlaScratchCached, Larger
<1>9. k \in Nat /\ o \in Nat BY KdaFits, MoeFits
<1>10. LayerScratch(c, X) = 3 * Xe + 2 * e + stack + 2 * c.dense_inter + Larger(Larger(m, k), o)
  BY DEF LayerScratch
<1>11. ScNeed(c, X) = Larger(LayerScratch(c, X), alt) BY DEF ScNeed
<1> HIDE DEF q, r, v, Xp, e, Xe, stack, alt, m, k, o
<1>12. m \in Nat /\ alt \in Nat /\ alt <= m BY <1>2, <1>3, <1>4, <1>7, <1>8
<1> DEFINE w == Larger(Larger(m, k), o)
<1>13. w \in Nat /\ m <= w BY <1>9, <1>12 DEF Larger
<1> HIDE DEF w
<1>14. LayerScratch(c, X) \in Nat /\ w <= LayerScratch(c, X)
  BY <1>3, <1>4, <1>6, <1>10, <1>13 DEF w
<1>15. alt <= LayerScratch(c, X) BY <1>12, <1>13, <1>14
<1> QED BY <1>11, <1>12, <1>14, <1>15 DEF Larger

(* What main allocates for a fresh request without drafts is no more than  *)
(* it planned.                                                             *)
LEMMA HeldIsPlanned ==
  ASSUME NEW c \in Cfgs, NEW r, r.np \in Nat, r.gen \in Nat, r.NL \in c.layers,
         r.prior = 0, r.spec = 0
  PROVE  Held(c, r) <= MemPlan(c, r) /\ Held(c, r) \in Int /\ MemPlan(c, r) \in Nat
<1> DEFINE T == r.np + r.gen + 1
           K == KPer(c) * r.NL
           S == LayerScratch(c, T)
           H == T * c.hidden
           R == T * (MaxB(c) * c.hidden)
           few == NMla(c, r.NL) * KvRow(c)     all == NMla(c, c.n_layers) * KvRow(c)
           Tfew == T * few                     Tall == T * all
           kept == IF r.inc THEN Tfew ELSE 0
           plan == IF r.inc THEN Tall ELSE 0
<1>1. Sized(c) BY CfgSized
<1>2. T \in Nat /\ TmaxOf(r) = T BY DEF TmaxOf
<1>3. c.hidden \in Nat /\ MaxB(c) \in Nat BY <1>1 DEF Sized, MaxB
<1>4. MaxB(c) * c.hidden \in Nat BY <1>3, MulMono
<1>5. H \in Nat /\ R \in Nat BY <1>2, <1>3, <1>4, MulMono
<1>6. KPer(c) \in Nat
  <2> DEFINE w == KdaWidth(c)  y == w * (c.conv_k - 1)  z == w * c.kda_head_dim
  <2>1. w \in Nat /\ c.kda_head_dim \in Nat BY <1>1 DEF Sized, KdaWidth
  <2>2. c.conv_k - 1 \in Nat
    <3>1. c.conv_k \in Nat \ {0} BY CfgAssumption
    <3> QED BY <3>1
  <2>3. y \in Nat /\ z \in Nat BY <2>1, <2>2, MulMono
  <2>4. KPer(c) = z + 3 * y BY DEF KPer
  <2> HIDE DEF w, y, z
  <2> QED BY <2>3, <2>4
<1>7. r.NL \in Nat BY <1>1 DEF Sized
<1>8. K \in Nat BY <1>6, <1>7, MulMono
<1>9. ScNeed(c, T) = S /\ S \in Nat BY Zenon, <1>1, <1>2, ScratchIsLayers
<1>10. KvRow(c) \in Nat BY <1>1 DEF Sized, KvRow
<1>11. few <= all /\ few \in Nat /\ all \in Nat BY Zenon, <1>1, <1>10, FewerSlices, MulMono
<1>12. c.vocab \in Nat BY CfgAssumption
<1>13. Weights \in Nat BY Zenon, MemAssumption
<1>14. MemPlan(c, r) = Weights + K + (H + R + S + c.vocab) + plan
  BY DEF MemPlan
<1>15. Held(c, r) = Weights + K + (H + R + S + c.vocab) + kept + 0
  <2>1. ~(r.spec > 0) OBVIOUS
  <2> HIDE DEF K, H, R, kept, T, S
  <2>2. Held(c, r) = Weights + K + (H + R + ScNeed(c, T) + c.vocab) + kept
                     + (IF r.spec > 0 THEN K ELSE 0)
    BY Zenon, <1>2 DEF Held, K, H, R, kept
  <2> QED BY Zenon, <1>9, <2>1, <2>2
<1> HIDE DEF few, all
<1>16. Tfew <= Tall /\ Tfew \in Nat /\ Tall \in Nat
  <2>1. few * T <= all * T /\ few * T \in Nat /\ all * T \in Nat BY Zenon, <1>2, <1>11, MulMono
  <2>2. few * T = T * few /\ all * T = T * all BY <1>2, <1>11
  <2> QED BY Zenon, <2>1, <2>2
<1> HIDE DEF Tfew, Tall, K, S, H, R, T
<1>17. kept \in Nat /\ plan \in Nat /\ kept <= plan BY <1>16
<1> HIDE DEF kept, plan
<1> QED BY <1>5, <1>8, <1>9, <1>12, <1>13, <1>14, <1>15, <1>17

(* A running process is one whose plan was accepted.                       *)
PlanInv ==
  /\ cfg \in Cfgs
  /\ pc # "start" => /\ req.np \in Nat /\ req.gen \in Nat /\ req.have \in Nat
                     /\ req.NL \in cfg.layers
                     /\ PlanAccepts(cfg, req)

(***************************************************************************)
(* For every architecture, request, depth and amount of memory: a fresh    *)
(* session without drafts that k3_run starts has the memory for all the    *)
(* floats it allocates.                                                    *)
(***************************************************************************)
THEOREM PlanIsKept == Spec => []PlanHolds
<1>1. Init => PlanInv BY DEF Init, PlanInv
<1>2. PlanInv /\ [Next]_vars => PlanInv'
  <2> SUFFICES ASSUME PlanInv, [Next]_vars PROVE PlanInv' OBVIOUS
  <2>1. ASSUME NEW ask \in Asks, NEW NL \in cfg.layers, NEW have \in Haves,
               NEW load \in BOOLEAN, NEW prompt, Launch(ask, prompt, NL, have, load)
        PROVE  PlanInv'
    <3> DEFINE r == [inc |-> ask.inc, np |-> ask.np, gen |-> ask.gen, NL |-> NL,
                     have |-> have, spec |-> IF ask.inc THEN ask.spec ELSE 0, load |-> load,
                     prior |-> IF load THEN Len(file.seq) ELSE 0]
    <3>1. req' = r /\ cfg' = cfg /\ PlanAccepts(cfg, r) BY Zenon, <2>1 DEF Launch
    <3>2. r.np = ask.np /\ r.gen = ask.gen /\ r.have = have /\ r.NL = NL BY Zenon 
    <3>3. ask.np \in Nat /\ ask.gen \in Nat BY AskAssumption
    <3>4. have \in Nat BY Zenon, MemAssumption
    <3> HIDE DEF r
    <3>5. PlanAccepts(cfg, req)' BY Zenon, <3>1 DEF PlanAccepts, MemPlan
    <3> QED BY Zenon, <3>1, <3>2, <3>3, <3>4, <3>5 DEF PlanInv
  <2>2. CASE pc # "start" /\ UNCHANGED <<cfg, req>>
    BY Zenon, <2>2 DEF PlanInv, PlanAccepts, MemPlan
  <2>3. CASE pc' = "start" /\ cfg' = cfg BY Zenon, <2>3 DEF PlanInv
  <2>4. CASE UNCHANGED vars BY Zenon, <2>4 DEF vars, PlanInv, PlanAccepts, MemPlan
  <2>5. CASE BindFails \/ SweptTf \/ SaveState \/ Quit
    BY <2>3, <2>5, Zenon DEF BindFails, SweptTf, SaveState, Quit, Exit
  <2>6. CASE ForwardLayer \/ ForwardHead
    <3>1. pc = "layer" /\ UNCHANGED <<cfg, req>> BY <2>6, Zenon DEF ForwardLayer, ForwardHead
    <3> QED BY Zenon, <3>1, <2>2
  <2>7. CASE StepZero \/ StepPlain \/ StepFull \/ TfCheck
    <3>1. pc \in {"step", "end"} /\ UNCHANGED <<cfg, req>>
      BY <2>7, Zenon DEF StepZero, StepPlain, StepFull, TfCheck
    <3> QED BY Zenon, <3>1, <2>2
  <2>8. CASE SweptReplay
    <3>1. pc = "swept" /\ UNCHANGED <<cfg, req>> BY Zenon, <2>8 DEF SweptReplay
    <3> QED BY Zenon, <3>1, <2>2
  <2>9. ASSUME NEW d \in Drafts, StepVerify(d) PROVE PlanInv'
    <3>1. pc = "step" /\ UNCHANGED <<cfg, req>> BY Zenon, <2>9 DEF StepVerify
    <3> QED BY Zenon, <3>1, <2>2
  <2>10. ASSUME NEW tok \in Toks, SweptFeed(tok) \/ SweptAccept(tok) PROVE PlanInv'
    <3>1. pc = "swept" /\ UNCHANGED <<cfg, req>> BY Zenon, <2>10 DEF SweptFeed, SweptAccept
    <3> QED BY Zenon, <3>1, <2>2
  <2>11. ASSUME NEW m, NEW tok \in Toks, SweptReject(m, tok) PROVE PlanInv'
    <3>1. pc = "swept" /\ UNCHANGED <<cfg, req>> BY <2>11 DEF SweptReject
    <3> QED BY <3>1, <2>2
  <2> QED
    BY <2>1, <2>4, <2>5, <2>6, <2>7, <2>8, <2>9, <2>10, <2>11, Zenon DEF Next
<1>3. PlanInv => PlanHolds
  <2> SUFFICES ASSUME PlanInv, pc # "start", req.have > 0, req.prior = 0, req.spec = 0
               PROVE  Held(cfg, req) <= req.have
    BY DEF PlanHolds
  <2>1. req.np \in Nat /\ req.gen \in Nat /\ req.have \in Nat /\ req.NL \in cfg.layers
        /\ cfg \in Cfgs /\ PlanAccepts(cfg, req)
    BY Zenon DEF PlanInv
  <2> DEFINE x == Held(cfg, req)  y == MemPlan(cfg, req)  a == req.have
  <2>2. x <= y /\ x \in Int /\ y \in Nat BY Zenon, <2>1, HeldIsPlanned
  <2>3. 100 * y <= 95 * a /\ a \in Nat BY <2>1 DEF PlanAccepts
  <2> HIDE DEF x, y, a
  <2>4. x <= a BY <2>2, <2>3
  <2> QED BY <2>4 DEF x, a
<1> QED BY <1>1, <1>2, <1>3, PTL DEF Spec

(***************************************************************************)
(* Sequences, element by element                                           *)
(***************************************************************************)
(* s is a sequence of n elements.                                          *)
Tup(s, n) == s = [i \in 1..n |-> s[i]]

(* Such a sequence has length n.                                           *)
LEMMA TupLen ==
  ASSUME NEW n \in Nat, NEW s, Tup(s, n)
  PROVE  Len(s) = n /\ DOMAIN s = 1..n /\ s \in Seq({s[i] : i \in 1..n})
<1> DEFINE S == {s[i] : i \in 1..n}
<1>1. s \in [1..n -> S] BY Zenon DEF Tup
<1>2. s \in Seq(S) BY Zenon, <1>1, SeqDef
<1>3. DOMAIN s = 1..n BY Zenon, <1>1
<1>4. Len(s) \in Nat /\ DOMAIN s = 1..Len(s) BY Zenon, <1>2, LenProperties
<1>5. 1..n = 1..Len(s) BY Zenon, <1>3, <1>4
<1>6. Len(s) = n
  <2> DEFINE k == Len(s)
  <2>1. n # 0 => n \in 1..n OBVIOUS
  <2>2. k # 0 => k \in 1..k BY <1>4
  <2>3. n # 0 => n \in 1..k BY Zenon, <2>1, <1>5
  <2>4. k # 0 => k \in 1..n BY Zenon, <2>2, <1>5
  <2>5. k \in Nat BY Zenon, <1>4
  <2> HIDE DEF k
  <2>6. k = n BY <2>3, <2>4, <2>5
  <2> QED BY Zenon, <2>6 DEF k
<1> QED BY Zenon, <1>2, <1>3, <1>6

(* A sequence over a set is one.                                           *)
LEMMA SeqTup ==
  ASSUME NEW S, NEW s \in Seq(S)
  PROVE  Tup(s, Len(s))
<1>1. s \in [1..Len(s) -> S] BY Zenon, LenProperties
<1> QED BY Zenon, <1>1 DEF Tup

(* A part of a sequence.                                                   *)
Slice(s, m, n) == [i \in 1..(n - m + 1) |-> s[m + i - 1]]

(* SubSeq takes the elements between its bounds.                           *)
LEMMA SubIs ==
  ASSUME NEW s, NEW m \in Int, NEW n \in Int, m <= n + 1
  PROVE  SubSeq(s, m, n) = Slice(s, m, n)
<1> DEFINE S == {s[i] : i \in m..n}  u == SubSeq(s, m, n)
<1>1. \A i \in m..n : s[i] \in S BY Zenon
<1> HIDE DEF S
<1>2. u \in Seq(S) BY Zenon, <1>1, SubSeqProperties
<1>b. ASSUME NEW i \in 1..(n - m + 1) PROVE u[i] = s[m + i - 1]
  BY <1>1, SubSeqProperties
<1>a. Len(u) = IF m <= n THEN n - m + 1 ELSE 0 BY Zenon, <1>1, SubSeqProperties
<1> HIDE DEF u
<1>3. Len(u) = n - m + 1 BY <1>a
<1>4. u = [i \in 1..(n - m + 1) |-> u[i]] BY Zenon, <1>2, <1>3, SeqTup DEF Tup
<1>5. [i \in 1..(n - m + 1) |-> u[i]] = [i \in 1..(n - m + 1) |-> s[m + i - 1]]
  BY Zenon, <1>b
<1>6. u = [i \in 1..(n - m + 1) |-> s[m + i - 1]] BY Zenon, <1>4, <1>5
<1> QED BY Zenon, <1>6 DEF u, Slice

(* One sequence after another.                                             *)
Cat(s, t, m, n) == [i \in 1..(m + n) |-> IF i <= m THEN s[i] ELSE t[i - m]]

(* Concatenation puts one sequence behind the other.                       *)
LEMMA CatIs ==
  ASSUME NEW m \in Nat, NEW n \in Nat, NEW s, Tup(s, m), NEW t, Tup(t, n)
  PROVE  s \o t = Cat(s, t, m, n)
<1> DEFINE S == {s[i] : i \in 1..m}  T == {t[i] : i \in 1..n}  u == s \o t
<1>1. Len(s) = m /\ Len(t) = n /\ s \in Seq(S) /\ t \in Seq(T) BY Zenon, TupLen
<1>2. s \in Seq(S \union T)
  <2>1. S \subseteq S \union T BY Zenon
  <2> HIDE DEF S, T
  <2> QED BY Zenon, <1>1, <2>1, SeqMonotonic
<1>3. t \in Seq(S \union T)
  <2>1. T \subseteq S \union T BY Zenon
  <2> HIDE DEF S, T
  <2> QED BY Zenon, <1>1, <2>1, SeqMonotonic
<1> HIDE DEF S, T
<1>4. /\ u \in Seq(S \union T) /\ Len(u) = m + n
      /\ \A i \in 1..(m + n) : u[i] = IF i <= m THEN s[i] ELSE t[i - m]
  BY Zenon, <1>1, <1>2, <1>3, ConcatProperties
<1> HIDE DEF u
<1>5. u = [i \in 1..(m + n) |-> u[i]] BY Zenon, <1>4, SeqTup DEF Tup
<1>6. [i \in 1..(m + n) |-> u[i]] = [i \in 1..(m + n) |-> IF i <= m THEN s[i] ELSE t[i - m]]
  BY Zenon, <1>4
<1>7. u = [i \in 1..(m + n) |-> IF i <= m THEN s[i] ELSE t[i - m]] BY Zenon, <1>5, <1>6
<1> QED BY Zenon, <1>7 DEF u, Cat

(* The first i tokens of a text.                                           *)
Pre(Q, i) == SubSeq(Q, 1, i)

(* A prefix has the length asked for and the same tokens.                  *)
LEMMA PreIs ==
  ASSUME NEW Q, NEW i \in Nat
  PROVE  /\ Tup(Pre(Q, i), i) /\ Len(Pre(Q, i)) = i
         /\ \A j \in 1..i : Pre(Q, i)[j] = Q[j]
<1>1. SubSeq(Q, 1, i) = [j \in 1..(i - 1 + 1) |-> Q[1 + j - 1]] BY SubIs DEF Slice
<1>2. i - 1 + 1 = i /\ \A j \in 1..i : 1 + j - 1 = j OBVIOUS
<1>3. Pre(Q, i) = [j \in 1..i |-> Q[j]] BY Zenon, <1>1, <1>2 DEF Pre
<1>4. Tup(Pre(Q, i), i) /\ \A j \in 1..i : Pre(Q, i)[j] = Q[j] BY Zenon, <1>3 DEF Tup
<1> QED BY Zenon, <1>4, TupLen

(* Two texts that begin with the same n tokens.                            *)
Agree(Q, R, n) == \A i \in 0..n : Pre(Q, i) = Pre(R, i)

(* Texts with the same first tokens have the same prefixes.                *)
LEMMA AgreeIf ==
  ASSUME NEW n \in Nat, NEW Q, NEW R, \A i \in 1..n : Q[i] = R[i]
  PROVE  Agree(Q, R, n)
<1> SUFFICES ASSUME NEW i \in 0..n PROVE Pre(Q, i) = Pre(R, i) BY Zenon DEF Agree
<1>1. i \in Nat /\ \A j \in 1..i : j \in 1..n OBVIOUS
<1>2. Pre(Q, i) = [j \in 1..i |-> Pre(Q, i)[j]] /\ \A j \in 1..i : Pre(Q, i)[j] = Q[j]
  BY Zenon, <1>1, PreIs DEF Tup
<1>3. Pre(R, i) = [j \in 1..i |-> Pre(R, i)[j]] /\ \A j \in 1..i : Pre(R, i)[j] = R[j]
  BY Zenon, <1>1, PreIs DEF Tup
<1>4. \A j \in 1..i : Pre(Q, i)[j] = Pre(R, i)[j] BY Zenon, <1>1, <1>2, <1>3
<1>5. [j \in 1..i |-> Pre(Q, i)[j]] = [j \in 1..i |-> Pre(R, i)[j]] BY Zenon, <1>4
<1> QED BY Zenon, <1>2, <1>3, <1>5

(* A text and its first n tokens do.                                       *)
LEMMA PreAgrees ==
  ASSUME NEW n \in Nat, NEW Q
  PROVE  Agree(Pre(Q, n), Q, n) /\ Agree(Q, Pre(Q, n), n)
<1>1. \A j \in 1..n : Pre(Q, n)[j] = Q[j] BY Zenon, PreIs
<1>2. \A j \in 1..n : Q[j] = Pre(Q, n)[j] BY Zenon, <1>1
<1>3. Agree(Pre(Q, n), Q, n) BY Zenon, <1>1, AgreeIf
<1>4. Agree(Q, Pre(Q, n), n) BY Zenon, <1>2, AgreeIf
<1> QED BY Zenon, <1>3, <1>4

(***************************************************************************)
(* Attention                                                               *)
(***************************************************************************)
(* The input of layer L's attention at position i of a text.               *)
At(L, Q, i) == InOf(L, Pre(Q, i))
Inputs(L, Q, n) == [i \in 1..n |-> At(L, Q, i)]

(* The component of an atom that is its history.                           *)
LEMMA Third ==
  ASSUME NEW a, NEW b, NEW d
  PROVE  <<a, b, d>>[3] = d
OBVIOUS

(* Texts that begin alike have the same inputs there.                      *)
LEMMA AtAgrees ==
  ASSUME NEW n \in Nat, NEW Q, NEW R, Agree(Q, R, n), NEW i \in 0..n, NEW L
  PROVE  At(L, Q, i) = At(L, R, i)
BY Zenon DEF Agree, At

(* Attention over a layer's inputs along a text is that of the text.       *)
LEMMA AttendExact ==
  ASSUME NEW L \in Nat, NEW n \in Nat, n > 0, NEW Q
  PROVE  Attend(L, Inputs(L, Q, n)) = <<"att", L, Pre(Q, n)>>
<1> DEFINE xs == Inputs(L, Q, n)
           hist == IF L = 0 THEN [i \in DOMAIN xs |-> xs[i][3][1]] ELSE xs[Len(xs)][3]
<1>1. Len(xs) = n /\ DOMAIN xs = 1..n
  <2>1. Tup(xs, n) BY Zenon DEF Tup, Inputs
  <2> HIDE DEF xs
  <2> QED BY Zenon, <2>1, TupLen
<1>2. \A i \in 1..n : xs[i] = At(L, Q, i) BY Zenon DEF Inputs
<1> HIDE DEF xs
<1>0. ASSUME NEW i \in 1..n
      PROVE  /\ L = 0 => xs[i][3] = <<Q[i]>>
             /\ L # 0 => xs[i][3] = Pre(Q, i)
             /\ Len(Pre(Q, i)) = i /\ i > 0
  <2>1. i \in Nat /\ i \in 1..i /\ i > 0 OBVIOUS
  <2>2. Len(Pre(Q, i)) = i /\ Pre(Q, i)[i] = Q[i] BY Zenon, <2>1, PreIs
  <2>3. CASE L = 0
    <3>1. xs[i] = <<"res", 0, <<Q[i]>>>> BY Zenon, <1>2, <2>2, <2>3 DEF At, InOf, EmbedRow
    <3>3. <<"res", 0, <<Q[i]>>>>[3] = <<Q[i]>> BY Zenon, Third
    <3>2. xs[i][3] = <<Q[i]>> BY Zenon, <3>1, <3>3
    <3> QED BY Zenon, <2>1, <2>2, <2>3, <3>2
  <2>4. CASE L # 0
    <3>1. xs[i] = <<"in", L, Pre(Q, i)>> BY Zenon, <1>2, <2>4 DEF At, InOf
    <3>3. <<"in", L, Pre(Q, i)>>[3] = Pre(Q, i) BY Zenon, Third
    <3>2. xs[i][3] = Pre(Q, i) BY Zenon, <3>1, <3>3
    <3> QED BY Zenon, <2>1, <2>2, <2>4, <3>2
  <2> QED BY Zenon, <2>3, <2>4
<1>3. hist = Pre(Q, n)
  <2>1. CASE L = 0
    <3>1. \A i \in 1..n : <<Q[i]>>[1] = Q[i] OBVIOUS
    <3>2. \A i \in 1..n : xs[i][3][1] = Q[i] BY Zenon, <2>1, <1>0, <3>1
    <3>3. hist = [i \in 1..n |-> Q[i]] BY Zenon, <1>1, <2>1, <3>2
    <3>4. Tup(Pre(Q, n), n) /\ \A i \in 1..n : Pre(Q, n)[i] = Q[i] BY Zenon, PreIs
    <3>5. Pre(Q, n) = [i \in 1..n |-> Q[i]] BY Zenon, <3>4 DEF Tup
    <3> QED BY Zenon, <3>3, <3>5
  <2>2. CASE L # 0
    <3>1. n \in 1..n OBVIOUS
    <3> QED BY Zenon, <1>0, <1>1, <2>2, <3>1
  <2> QED BY Zenon, <2>1, <2>2
<1>6. ASSUME NEW i \in DOMAIN xs PROVE xs[i][3] # <<>>
  <2>1. i \in 1..n BY Zenon, <1>1
  <2>2. Len(<<Q[i]>>) = 1 /\ Len(<<>>) = 0 /\ ~(1 = 0) OBVIOUS
  <2>3. Len(Pre(Q, i)) = i /\ i > 0 BY Zenon, <2>1, <1>0
  <2>4. Len(Pre(Q, i)) # 0 BY <2>3
  <2> QED BY Zenon, <2>1, <2>2, <2>4, <1>0
<1>4. Len(hist) = Len(xs)
  <2>1. Len(Pre(Q, n)) = n BY Zenon, PreIs
  <2> HIDE DEF hist
  <2> QED BY Zenon, <1>1, <1>3, <2>1
<1>5. ASSUME NEW i \in DOMAIN xs PROVE xs[i] = InOf(L, SubSeq(hist, 1, i))
  <2>1. i \in 1..n /\ i \in 0..n BY <1>1
  <2>2. Agree(Pre(Q, n), Q, n) BY Zenon, PreAgrees
  <2>3. Pre(Pre(Q, n), i) = Pre(Q, i) BY Zenon, <2>1, <2>2 DEF Agree
  <2>4. SubSeq(hist, 1, i) = Pre(Q, i) BY Zenon, <1>3, <2>3 DEF Pre
  <2> QED BY Zenon, <1>2, <2>1, <2>4 DEF At
<1>7. Attend(L, xs) = <<"att", L, hist>> BY Zenon, <1>4, <1>5, <1>6 DEF Attend, Given
<1>8. Attend(L, xs) = <<"att", L, Pre(Q, n)>> BY Zenon, <1>3, <1>7
<1> QED BY Zenon, <1>8 DEF xs

(***************************************************************************)
(* The recurrent layers                                                    *)
(***************************************************************************)
(* The inputs of a layer with the zeros before them, the window that ends  *)
(* at position i, and the state that has consumed the first n tokens.      *)
Padded(c, L, Q, i) == IF i < c.conv_k THEN Zero ELSE At(L, Q, i - c.conv_k + 1)
Window(c, L, Q, i) == [j \in 1..c.conv_k |-> Padded(c, L, Q, i + j - 1)]
Tail0(c, L, Q, n) == [j \in 1..(c.conv_k - 1) |-> Padded(c, L, Q, n + j)]
Windows(c, L, Q, n, T) == [t \in 1..T |-> Window(c, L, Q, n + t)]
Fed(L, Q, n, T) == [t \in 1..T |-> At(L, Q, n + t)]

KdaHolds(c, L, st, Q, n) ==
  st.S = Windows(c, L, Q, 0, n) /\ st.conv = Tail0(c, L, Q, n)

(* k3_shortconv on the state after n tokens and the next T inputs.         *)
ConvTo(c, L, Q, n, T) ==
  ShortConv(c, Tail0(c, L, Q, n), Fed(L, Q, n, T))
    = [taps |-> Windows(c, L, Q, n, T), buf |-> Tail0(c, L, Q, n + T)]

(* ShortConv on the window of a text sees the windows that follow.         *)
LEMMA ConvIs ==
  ASSUME NEW c, c.conv_k \in Nat \ {0}, NEW L, NEW Q, NEW n \in Nat, NEW T \in Nat
  PROVE  ConvTo(c, L, Q, n, T)
<1> DEFINE k == c.conv_k  buf == Tail0(c, L, Q, n)  xs == Fed(L, Q, n, T)
           p == buf \o xs  m == k - 1
<1>1. k \in Nat /\ k > 0 /\ m \in Nat /\ m + T \in Nat OBVIOUS
<1>2. Tup(buf, m) /\ \A i \in 1..m : buf[i] = Padded(c, L, Q, n + i) BY Zenon DEF Tup, Tail0
<1>3. Tup(xs, T) /\ \A i \in 1..T : xs[i] = At(L, Q, n + i) BY Zenon DEF Tup, Fed
<1>4. Len(xs) = T /\ DOMAIN xs = 1..T
  <2> HIDE DEF xs
  <2> QED BY Zenon, <1>3, TupLen
<1>5. p = Cat(buf, xs, m, T)
  <2>1. Tup(buf, m) /\ Tup(xs, T) BY Zenon, <1>2, <1>3
  <2>2. m \in Nat BY <1>1
  <2> HIDE DEF buf, xs, m
  <2> QED BY Zenon, <2>1, <2>2, CatIs
<1> HIDE DEF buf, xs
<1>6. ASSUME NEW i \in 1..(m + T) PROVE p[i] = Padded(c, L, Q, n + i)
  <2>1. p[i] = IF i <= m THEN buf[i] ELSE xs[i - m]
    <3> HIDE DEF p, m
    <3> QED BY Zenon, <1>5 DEF Cat
  <2>2. CASE i <= m
    <3>1. i \in 1..m BY <2>2, <1>1
    <3> QED BY Zenon, <2>1, <2>2, <3>1, <1>2
  <2>3. CASE ~(i <= m)
    <3>1. i - m \in 1..T /\ ~(n + i < k) /\ n + (i - m) = (n + i) - k + 1 BY <2>3, <1>1
    <3>2. p[i] = At(L, Q, n + (i - m)) BY Zenon, <2>1, <2>3, <3>1, <1>3
    <3> QED BY Zenon, <3>1, <3>2 DEF Padded
  <2> QED BY Zenon, <2>2, <2>3
<1>7. Len(p) = m + T
  <2> HIDE DEF p, m
  <2>1. Tup(p, m + T) BY Zenon, <1>5 DEF Cat, Tup
  <2> QED BY Zenon, <2>1, <1>1, TupLen
<1> HIDE DEF p
<1>8. ASSUME NEW t \in 1..T PROVE SubSeq(p, t, t + k - 1) = Window(c, L, Q, n + t)
  <2>1. SubSeq(p, t, t + k - 1) = [j \in 1..((t + k - 1) - t + 1) |-> p[t + j - 1]]
    <3>1. t \in Int /\ t + k - 1 \in Int /\ t <= t + k - 1 + 1 BY <1>1
    <3>2. SubSeq(p, t, t + k - 1) = Slice(p, t, t + k - 1) BY Zenon, <3>1, SubIs
    <3> QED BY Zenon, <3>2 DEF Slice
  <2>2. (t + k - 1) - t + 1 = k BY <1>1
  <2>3. ASSUME NEW j \in 1..k PROVE p[t + j - 1] = Padded(c, L, Q, (n + t) + j - 1)
    <3>1. t + j - 1 \in 1..(m + T) /\ n + (t + j - 1) = (n + t) + j - 1 BY <1>1
    <3> QED BY Zenon, <3>1, <1>6
  <2>4. SubSeq(p, t, t + k - 1) = [j \in 1..k |-> Padded(c, L, Q, (n + t) + j - 1)]
    BY Zenon, <2>1, <2>2, <2>3
  <2> QED BY Zenon, <2>4 DEF Window
<1>9. SubSeq(p, T + 1, m + T) = Tail0(c, L, Q, n + T)
  <2>1. SubSeq(p, T + 1, m + T) = [j \in 1..((m + T) - (T + 1) + 1) |-> p[T + 1 + j - 1]]
    <3>1. T + 1 \in Int /\ m + T \in Int /\ T + 1 <= m + T + 1 BY <1>1
    <3>2. SubSeq(p, T + 1, m + T) = Slice(p, T + 1, m + T) BY Zenon, <3>1, SubIs
    <3> QED BY Zenon, <3>2 DEF Slice
  <2>2. (m + T) - (T + 1) + 1 = m BY <1>1
  <2>3. ASSUME NEW j \in 1..m PROVE p[T + 1 + j - 1] = Padded(c, L, Q, (n + T) + j)
    <3>1. T + 1 + j - 1 \in 1..(m + T) /\ n + (T + 1 + j - 1) = (n + T) + j BY <1>1
    <3> QED BY Zenon, <3>1, <1>6
  <2>4. SubSeq(p, T + 1, m + T) = [j \in 1..m |-> Padded(c, L, Q, (n + T) + j)]
    BY Zenon, <2>1, <2>2, <2>3
  <2> QED BY Zenon, <2>4 DEF Tail0
<1>10. ShortConv(c, buf, xs) = [taps |-> [t \in 1..T |-> SubSeq(p, t, t + k - 1)],
                                buf |-> SubSeq(p, T + 1, m + T)]
  BY Zenon, <1>4, <1>7 DEF ShortConv, p
<1>11. [t \in 1..T |-> SubSeq(p, t, t + k - 1)] = Windows(c, L, Q, n, T)
  BY Zenon, <1>8 DEF Windows
<1>12. ShortConv(c, buf, xs) = [taps |-> Windows(c, L, Q, n, T), buf |-> Tail0(c, L, Q, n + T)]
  BY Zenon, <1>9, <1>10, <1>11
<1> QED BY Zenon, <1>12 DEF buf, xs, ConvTo

(* A fresh state has consumed nothing.                                     *)
LEMMA FreshTail ==
  ASSUME NEW c, c.conv_k \in Nat \ {0}, NEW L, NEW Q
  PROVE  ZeroHist(c) = Tail0(c, L, Q, 0)
<1>1. ASSUME NEW j \in 1..(c.conv_k - 1) PROVE Padded(c, L, Q, 0 + j) = Zero
  <2>1. 0 + j < c.conv_k OBVIOUS
  <2> QED BY Zenon, <2>1 DEF Padded
<1> QED BY Zenon, <1>1 DEF ZeroHist, Tail0

(* k3_kda_step reads the attention of the tokens its state has consumed.   *)
StepTo(c, L, Q, m) ==
  KdaStep(c, L, Windows(c, L, Q, 0, m)) = <<"att", L, Pre(Q, m)>>

(* One token takes the matrix of a text to that of the next.               *)
LEMMA KdaStepExact ==
  ASSUME NEW c, c.conv_k \in Nat \ {0}, NEW L \in Nat, NEW Q, NEW m \in Nat, m > 0
  PROVE  StepTo(c, L, Q, m)
<1> DEFINE S == Windows(c, L, Q, 0, m)  xs == [i \in DOMAIN S |-> S[i][Len(S[i])]]
<1>1. DOMAIN S = 1..m BY Zenon DEF Windows
<1>2. ASSUME NEW i \in 1..m PROVE S[i][Len(S[i])] = At(L, Q, i) /\ At(L, Q, i) = At(L, Q, 0 + i)
  <2> DEFINE k == c.conv_k  w == Window(c, L, Q, 0 + i)
  <2>1. S[i] = w BY Zenon DEF Windows
  <2>2. k \in Nat /\ k \in 1..k /\ ~((0 + i) + k - 1 < k) OBVIOUS
  <2>3. ((0 + i) + k - 1) - k + 1 = i /\ 0 + i = i OBVIOUS
  <2>4. Tup(w, k) BY Zenon DEF Window, Tup
  <2>5. w[k] = Padded(c, L, Q, (0 + i) + k - 1) BY Zenon, <2>2 DEF Window
  <2>6. Padded(c, L, Q, (0 + i) + k - 1) = At(L, Q, i) BY Zenon, <2>2, <2>3 DEF Padded
  <2>7. Len(w) = k
    <3> HIDE DEF w, k
    <3> QED BY Zenon, <2>2, <2>4, TupLen
  <2> HIDE DEF w
  <2> QED BY Zenon, <2>1, <2>3, <2>5, <2>6, <2>7
<1> HIDE DEF S
<1>3. xs = Inputs(L, Q, m) BY Zenon, <1>1, <1>2 DEF Inputs
<1>4. xs = Fed(L, Q, 0, m) BY Zenon, <1>1, <1>2 DEF Fed
<1>5. ShortConv(c, ZeroHist(c), Fed(L, Q, 0, m)).taps = Windows(c, L, Q, 0, m)
  <2>1. ConvTo(c, L, Q, 0, m) BY Zenon, ConvIs, 0 \in Nat
  <2>2. ZeroHist(c) = Tail0(c, L, Q, 0) BY Zenon, FreshTail
  <2>3. [taps |-> Windows(c, L, Q, 0, m), buf |-> Tail0(c, L, Q, 0 + m)].taps
          = Windows(c, L, Q, 0, m)
    OBVIOUS
  <2> QED BY Zenon, <2>1, <2>2, <2>3 DEF ConvTo
<1>6. KdaStep(c, L, S) = Given(S = ShortConv(c, ZeroHist(c), xs).taps, Attend(L, xs))
  BY Zenon DEF KdaStep
<1>7. S = ShortConv(c, ZeroHist(c), xs).taps BY Zenon, <1>4, <1>5 DEF S
<1>8. Attend(L, xs) = <<"att", L, Pre(Q, m)>> BY Zenon, <1>3, AttendExact
<1> HIDE DEF xs
<1>9. KdaStep(c, L, S) = <<"att", L, Pre(Q, m)>> BY Zenon, <1>6, <1>7, <1>8 DEF Given
<1> QED BY Zenon, <1>9 DEF S, StepTo

(* k3_kda_layer on the state after n tokens and the next T inputs: the     *)
(* attention of each, and the state after n + T.                           *)
Attended(L, Q, n, T) == [t \in 1..T |-> <<"att", L, Pre(Q, n + t)>>]

KdaTo(c, L, st, Q, n, T) ==
  /\ KdaLayer(c, L, st, Fed(L, Q, n, T)).out = Attended(L, Q, n, T)
  /\ KdaHolds(c, L, KdaLayer(c, L, st, Fed(L, Q, n, T)).state, Q, n + T)

(* k3_kda on the state of a text leaves the state after its tokens.        *)
LEMMA KdaLayerExact ==
  ASSUME NEW c, c.conv_k \in Nat \ {0}, NEW L \in Nat, NEW Q, NEW n \in Nat, NEW T \in Nat,
         NEW st, KdaHolds(c, L, st, Q, n)
  PROVE  KdaTo(c, L, st, Q, n, T)
<1> DEFINE xs == Fed(L, Q, n, T)  conv == ShortConv(c, st.conv, xs)
           W(i) == Window(c, L, Q, 0 + i)
           S0 == st.S  S == S0 \o conv.taps
           res == [t \in DOMAIN xs |-> KdaStep(c, L, SubSeq(S, 1, Len(S0) + t))]
<1>1. conv = [taps |-> Windows(c, L, Q, n, T), buf |-> Tail0(c, L, Q, n + T)]
  <2>1. ConvTo(c, L, Q, n, T) BY Zenon, ConvIs
  <2> QED BY Zenon, <2>1 DEF ConvTo, KdaHolds
<1> HIDE DEF conv
<1>2. conv.taps = Windows(c, L, Q, n, T) /\ conv.buf = Tail0(c, L, Q, n + T) BY <1>1
<1>3. DOMAIN xs = 1..T BY Zenon DEF Fed
<1> HIDE DEF xs
<1>4. Tup(S0, n) /\ \A i \in 1..n : S0[i] = W(i)
  <2>1. S0 = [t \in 1..n |-> Window(c, L, Q, 0 + t)] BY Zenon DEF KdaHolds, Windows
  <2> HIDE DEF S0
  <2> QED BY Zenon, <2>1 DEF Tup
<1>5. Tup(conv.taps, T) /\ \A t \in 1..T : conv.taps[t] = Window(c, L, Q, n + t)
  <2>1. conv.taps = [t \in 1..T |-> Window(c, L, Q, n + t)] BY Zenon, <1>2 DEF Windows
  <2> QED BY Zenon, <2>1 DEF Tup
<1>6. Len(S0) = n
  <2> HIDE DEF S0
  <2> QED BY Zenon, <1>4, TupLen
<1>7. S = Cat(S0, conv.taps, n, T)
  <2>1. Tup(S0, n) /\ Tup(conv.taps, T) BY Zenon, <1>4, <1>5
  <2> HIDE DEF S0
  <2> QED BY Zenon, <2>1, CatIs
<1> HIDE DEF S0
<1>8. ASSUME NEW i \in 1..(n + T) PROVE S[i] = W(i)
  <2>1. S[i] = IF i <= n THEN S0[i] ELSE conv.taps[i - n]
    <3> HIDE DEF S
    <3> QED BY Zenon, <1>7 DEF Cat
  <2>2. CASE i <= n
    <3>1. i \in 1..n BY <2>2
    <3> QED BY Zenon, <2>1, <2>2, <3>1, <1>4
  <2>3. CASE ~(i <= n)
    <3>1. i - n \in 1..T /\ n + (i - n) = 0 + i BY <2>3
    <3> QED BY Zenon, <2>1, <2>3, <3>1, <1>5
  <2> QED BY Zenon, <2>2, <2>3
<1>9. S = Windows(c, L, Q, 0, n + T)
  <2> HIDE DEF S, W
  <2>1. S = [i \in 1..(n + T) |-> S[i]] BY Zenon, <1>7 DEF Cat
  <2>2. S = [i \in 1..(n + T) |-> W(i)] BY Zenon, <2>1, <1>8
  <2> QED BY Zenon, <2>2 DEF Windows, W
<1> HIDE DEF S
<1>10. ASSUME NEW t \in 1..T
       PROVE  KdaStep(c, L, SubSeq(S, 1, Len(S0) + t)) = <<"att", L, Pre(Q, n + t)>>
  <2> DEFINE m == n + t
  <2>1. m \in Nat /\ m > 0 /\ \A i \in 1..m : i \in 1..(n + T) OBVIOUS
  <2> HIDE DEF m
  <2>2. Tup(Pre(S, m), m) /\ \A i \in 1..m : Pre(S, m)[i] = S[i] BY Zenon, <2>1, PreIs
  <2>3. Pre(S, m) = [i \in 1..m |-> Window(c, L, Q, 0 + i)]
    BY Zenon, <2>1, <2>2, <1>8 DEF Tup
  <2>4. SubSeq(S, 1, m) = Windows(c, L, Q, 0, m) BY Zenon, <2>3 DEF Windows, Pre
  <2>5. StepTo(c, L, Q, m) BY Zenon, <2>1, KdaStepExact
  <2> QED BY Zenon, <2>4, <2>5, <1>6 DEF m, StepTo
<1>11. res = Attended(L, Q, n, T) BY Zenon, <1>3, <1>10 DEF Attended
<1> DEFINE st1 == [S |-> S, conv |-> conv.buf]
<1>12. KdaLayer(c, L, st, xs) = [out |-> res, state |-> st1]
  BY Zenon DEF KdaLayer, S, S0, conv
<1> HIDE DEF res
<1>13. st1.S = S /\ st1.conv = conv.buf OBVIOUS
<1> HIDE DEF st1
<1>14. KdaHolds(c, L, st1, Q, n + T) BY Zenon, <1>2, <1>9, <1>13 DEF KdaHolds
<1>15. KdaLayer(c, L, st, xs).out = res /\ KdaLayer(c, L, st, xs).state = st1 BY <1>12
<1> QED BY Zenon, <1>11, <1>14, <1>15 DEF KdaTo, xs

(* A state of a text is one of every text that begins alike.               *)
LEMMA KdaAgrees ==
  ASSUME NEW c, c.conv_k \in Nat \ {0}, NEW L \in Nat, NEW Q, NEW R, NEW n \in Nat,
         Agree(Q, R, n), NEW st, KdaHolds(c, L, st, Q, n)
  PROVE  KdaHolds(c, L, st, R, n)
<1> DEFINE k == c.conv_k
<1>1. ASSUME NEW i \in Nat, i <= n + k - 1
      PROVE  Padded(c, L, Q, i) = Padded(c, L, R, i)
  <2>1. CASE i < k BY Zenon, <2>1 DEF Padded
  <2>2. CASE ~(i < k)
    <3>1. i - k + 1 \in 0..n BY <1>1, <2>2
    <3>2. At(L, Q, i - k + 1) = At(L, R, i - k + 1) BY Zenon, <3>1 DEF Agree, At
    <3> QED BY Zenon, <2>2, <3>2 DEF Padded
  <2> QED BY Zenon, <2>1, <2>2
<1>2. ASSUME NEW t \in 1..n PROVE Window(c, L, Q, 0 + t) = Window(c, L, R, 0 + t)
  <2>1. ASSUME NEW j \in 1..k
        PROVE  Padded(c, L, Q, (0 + t) + j - 1) = Padded(c, L, R, (0 + t) + j - 1)
    <3>1. (0 + t) + j - 1 \in Nat /\ (0 + t) + j - 1 <= n + k - 1 OBVIOUS
    <3> QED BY Zenon, <1>1, <3>1
  <2> QED BY Zenon, <2>1 DEF Window
<1>3. ASSUME NEW j \in 1..(k - 1) PROVE Padded(c, L, Q, n + j) = Padded(c, L, R, n + j)
  <2>1. n + j \in Nat /\ n + j <= n + k - 1 OBVIOUS
  <2> QED BY Zenon, <1>1, <2>1
<1>4. Windows(c, L, Q, 0, n) = Windows(c, L, R, 0, n) BY Zenon, <1>2 DEF Windows
<1>5. Tail0(c, L, Q, n) = Tail0(c, L, R, n) BY Zenon, <1>3 DEF Tail0
<1> QED BY Zenon, <1>4, <1>5 DEF KdaHolds

(* The cleared state of a layer has consumed nothing.                      *)
LEMMA KdaFresh ==
  ASSUME NEW c, c.conv_k \in Nat \ {0}, NEW NL, NEW L \in 0..(NL - 1), NEW Q
  PROVE  KdaHolds(c, L, EmptyKs(c, NL, Zero)[L], Q, 0)
<1> DEFINE st == [S |-> <<>>, conv |-> ZeroHist(c)]
<1>1. EmptyKs(c, NL, Zero)[L] = st BY Zenon DEF EmptyKs, ZeroHist
<1>2. st.S = <<>> /\ st.conv = ZeroHist(c) OBVIOUS
<1> HIDE DEF st
<1>3. Windows(c, L, Q, 0, 0) = <<>>
  <2>1. Tup(Windows(c, L, Q, 0, 0), 0) BY Zenon DEF Windows, Tup
  <2>2. Len(Windows(c, L, Q, 0, 0)) = 0 /\ \E S : Windows(c, L, Q, 0, 0) \in Seq(S)
    BY Zenon, <2>1, TupLen, 0 \in Nat
  <2> QED BY Zenon, <2>2, EmptySeq
<1>4. ZeroHist(c) = Tail0(c, L, Q, 0) BY Zenon, FreshTail
<1> QED BY Zenon, <1>1, <1>2, <1>3, <1>4 DEF KdaHolds

(***************************************************************************)
(* The attention layers with a KV cache                                    *)
(***************************************************************************)
(* The first n rows from base on hold layer L's inputs along a text.       *)
RowsHold(rows, base, L, Q, n) == \A s \in 1..n : rows[base + s - 1] = At(L, Q, s)

(* k3_mla_cached on rows that hold n tokens and the next T inputs.         *)
MlaTo(L, rows, base, Q, n, T) ==
  LET r == MlaCached(L, rows, base, n, Fed(L, Q, n, T))
  IN /\ r.out = Attended(L, Q, n, T)
     /\ RowsHold(r.kv, base, L, Q, n + T)
     /\ DOMAIN r.kv = DOMAIN rows
     /\ \A i \in DOMAIN rows : (i < base + n \/ i >= base + n + T) => r.kv[i] = rows[i]

(* Rows that hold the text are completed by the rows appended.             *)
LEMMA MlaExact ==
  ASSUME NEW L \in Nat, NEW rows, NEW base \in Nat, NEW Q, NEW n \in Nat, NEW T \in Nat,
         DOMAIN rows \subseteq Nat,
         \A s \in 1..(n + T) : base + s - 1 \in DOMAIN rows,
         RowsHold(rows, base, L, Q, n)
  PROVE  MlaTo(L, rows, base, Q, n, T)
<1> DEFINE xs == Fed(L, Q, n, T)  w == MlaWrites(rows, base, n, xs)
<1>1. Tup(xs, T) /\ \A i \in 1..T : xs[i] = At(L, Q, n + i) BY Zenon DEF Tup, Fed
<1>2. Len(xs) = T /\ DOMAIN xs = 1..T
  <2> HIDE DEF xs
  <2> QED BY Zenon, <1>1, TupLen
<1> HIDE DEF xs
<1>3. w = [i \in DOMAIN rows |-> IF i - base - n \in 0..(T - 1)
                                 THEN xs[i - base - n + 1] ELSE rows[i]]
  BY Zenon, <1>2 DEF MlaWrites
<1> HIDE DEF w
<1>4. ASSUME NEW s \in 1..(n + T) PROVE w[base + s - 1] = At(L, Q, s)
  <2> DEFINE i == base + s - 1
  <2>1. i \in DOMAIN rows BY Zenon
  <2>2. CASE s <= n
    <3>1. s \in 1..n /\ ~(i - base - n \in 0..(T - 1)) BY <2>2
    <3>2. rows[i] = At(L, Q, s) BY Zenon, <3>1 DEF RowsHold
    <3> HIDE DEF i
    <3>3. w[i] = rows[i] BY Zenon, <1>3, <2>1, <3>1
    <3>4. w[i] = At(L, Q, s) BY Zenon, <3>2, <3>3
    <3> QED BY Zenon, <3>4 DEF i
  <2>3. CASE ~(s <= n)
    <3>1. i - base - n \in 0..(T - 1) /\ i - base - n + 1 = s - n /\ s - n \in 1..T
          /\ n + (s - n) = s
      BY <2>3
    <3> HIDE DEF i
    <3>2. w[i] = xs[i - base - n + 1] BY Zenon, <1>3, <2>1, <3>1
    <3>3. w[i] = At(L, Q, s) BY Zenon, <3>1, <3>2, <1>1
    <3> QED BY Zenon, <3>3 DEF i
  <2> QED BY Zenon, <2>2, <2>3
<1>5. RowsHold(w, base, L, Q, n + T) BY Zenon, <1>4 DEF RowsHold
<1>6. DOMAIN w = DOMAIN rows BY Zenon, <1>3
<1>7. ASSUME NEW i \in DOMAIN rows, i < base + n \/ i >= base + n + T PROVE w[i] = rows[i]
  <2>1. i \in Nat OBVIOUS
  <2>2. ~(i - base - n \in 0..(T - 1)) BY <1>7, <2>1
  <2> QED BY Zenon, <1>3, <2>2
<1>8. ASSUME NEW t \in 1..T
      PROVE  Attend(L, [s \in 1..(n + t) |-> w[base + s - 1]]) = <<"att", L, Pre(Q, n + t)>>
  <2> DEFINE m == n + t
  <2>1. m \in Nat /\ m > 0 /\ \A s \in 1..m : s \in 1..(n + T) OBVIOUS
  <2> HIDE DEF m
  <2>2. [s \in 1..m |-> w[base + s - 1]] = Inputs(L, Q, m) BY Zenon, <1>4, <2>1 DEF Inputs
  <2>3. Attend(L, Inputs(L, Q, m)) = <<"att", L, Pre(Q, m)>> BY Zenon, <2>1, AttendExact
  <2> QED BY Zenon, <2>2, <2>3 DEF m
<1> DEFINE res == [t \in DOMAIN xs |-> Attend(L, [s \in 1..(n + t) |-> w[base + s - 1]])]
           r == MlaCached(L, rows, base, n, xs)
<1>9. res = Attended(L, Q, n, T) BY Zenon, <1>2, <1>8 DEF Attended
<1>10. r = [out |-> res, kv |-> w] BY Zenon DEF MlaCached, w
<1> HIDE DEF res, r
<1>11. r.out = res /\ r.kv = w BY <1>10
<1> QED BY Zenon, <1>5, <1>6, <1>7, <1>9, <1>11 DEF MlaTo, r, xs

(* Without a cache the rows are the call's own.                            *)
LEMMA UncachedExact ==
  ASSUME NEW L \in Nat, NEW Q, NEW T \in Nat
  PROVE  MlaUncached(L, Fed(L, Q, 0, T)) = Attended(L, Q, 0, T)
<1> DEFINE xs == Fed(L, Q, 0, T)
<1>1. DOMAIN xs = 1..T /\ \A i \in 1..T : xs[i] = At(L, Q, 0 + i) BY Zenon DEF Fed
<1> HIDE DEF xs
<1>2. ASSUME NEW t \in 1..T
      PROVE  Attend(L, SubSeq(xs, 1, t)) = <<"att", L, Pre(Q, 0 + t)>>
  <2>1. t \in Nat /\ t > 0 /\ 0 + t = t /\ \A s \in 1..t : s \in 1..T /\ 0 + s = s OBVIOUS
  <2>2. Tup(Pre(xs, t), t) /\ \A i \in 1..t : Pre(xs, t)[i] = xs[i] BY Zenon, <2>1, PreIs
  <2>3. Pre(xs, t) = Inputs(L, Q, t) BY Zenon, <1>1, <2>1, <2>2 DEF Tup, Inputs
  <2>4. Attend(L, Inputs(L, Q, t)) = <<"att", L, Pre(Q, t)>> BY Zenon, <2>1, AttendExact
  <2> QED BY Zenon, <2>1, <2>3, <2>4 DEF Pre
<1>3. MlaUncached(L, xs) = [t \in 1..T |-> Attend(L, SubSeq(xs, 1, t))]
  BY Zenon, <1>1 DEF MlaUncached
<1>4. MlaUncached(L, xs) = Attended(L, Q, 0, T) BY Zenon, <1>2, <1>3 DEF Attended
<1> QED BY Zenon, <1>4 DEF xs

(* The rows of a text are those of every text that begins alike.           *)
LEMMA RowsAgree ==
  ASSUME NEW rows, NEW base, NEW L, NEW Q, NEW R, NEW n \in Nat, Agree(Q, R, n),
         RowsHold(rows, base, L, Q, n)
  PROVE  RowsHold(rows, base, L, R, n)
<1> SUFFICES ASSUME NEW s \in 1..n PROVE rows[base + s - 1] = At(L, R, s)
  BY Zenon DEF RowsHold
<1>1. s \in 0..n OBVIOUS
<1> QED BY Zenon, <1>1 DEF RowsHold, Agree, At

(* MLA layers have slots of their own, below the number of slots.          *)
LEMMA SlotsApart ==
  ASSUME NEW c, NEW L \in Nat, NEW M \in Nat, L < M, IsMla(c, L)
  PROVE  /\ MlaSlot(c, L) \in Nat /\ NMla(c, M) \in Nat
         /\ MlaSlot(c, L) + 1 <= NMla(c, M)
<1> DEFINE A == {l \in 0..(L - 1) : IsMla(c, l)}  B == {l \in 0..(M - 1) : IsMla(c, l)}
<1>1. A \union {L} \subseteq B /\ L \notin A
  <2>1. L \in 0..(M - 1) /\ L \notin 0..(L - 1) /\ 0..(L - 1) \subseteq 0..(M - 1) OBVIOUS
  <2> QED BY Zenon, <2>1
<1>2. IsFiniteSet(0..(M - 1)) BY FS_Interval
<1>3. B \subseteq 0..(M - 1) BY Zenon
<1>4. MlaSlot(c, L) = Cardinality(A) /\ NMla(c, M) = Cardinality(B)
  BY Zenon DEF MlaSlot, NMla
<1> HIDE DEF A, B
<1>5. IsFiniteSet(B) BY Zenon, <1>2, <1>3, FS_Subset
<1>6. IsFiniteSet(A \union {L}) /\ Cardinality(A \union {L}) <= Cardinality(B)
  BY Zenon, <1>1, <1>5, FS_Subset
<1>7. IsFiniteSet(A)
  <2>1. A \subseteq B BY Zenon, <1>1
  <2> QED BY Zenon, <2>1, <1>5, FS_Subset
<1>8. Cardinality(A \union {L}) = Cardinality(A) + 1 BY Zenon, <1>1, <1>7, FS_AddElement
<1>9. Cardinality(A) \in Nat /\ Cardinality(B) \in Nat
  BY Zenon, <1>5, <1>7, FS_CardinalityType
<1> QED BY Zenon, <1>4, <1>6, <1>8, <1>9

(* Rows of lower slots come before rows of higher ones.                    *)
LEMMA RowsApart ==
  ASSUME NEW a \in Nat, NEW b \in Nat, NEW cap \in Nat, a + 1 <= b
  PROVE  a * cap \in Nat /\ b * cap \in Nat /\ a * cap + cap <= b * cap
<1>1. (a + 1) * cap <= b * cap BY MulMono
<1>2. (a + 1) * cap = a * cap + cap OBVIOUS
<1>3. a * cap \in Nat /\ b * cap \in Nat OBVIOUS
<1> QED BY <1>1, <1>2, <1>3

(* Quotient and remainder.                                                 *)
LEMMA Quotient ==
  ASSUME NEW x \in Nat, NEW a \in Nat \ {0}
  PROVE  x \div a \in Nat /\ x % a \in 0..(a - 1) /\ x = (x \div a) * a + (x % a)
OBVIOUS

(* Where a row of a slot is.                                               *)
LEMMA RowAt ==
  ASSUME NEW a \in Nat, NEW cap \in Nat \ {0}, NEW s \in 0..(cap - 1)
  PROVE  (a * cap + s) \div cap = a /\ (a * cap + s) % cap = s
<1> DEFINE x == a * cap + s  q == x \div cap  p == x % cap
<1>1. x \in Nat
  <2>1. a * cap \in Nat OBVIOUS
  <2> QED BY <2>1
<1> HIDE DEF x
<1>2. q \in Nat /\ p \in 0..(cap - 1) /\ x = q * cap + p BY Zenon, <1>1, Quotient
<1> HIDE DEF q, p
<1>3. ~(q + 1 <= a)
  <2> SUFFICES ASSUME q + 1 <= a PROVE FALSE OBVIOUS
  <2>1. q * cap + cap <= a * cap /\ q * cap \in Nat /\ a * cap \in Nat
    BY Zenon, <1>2, RowsApart, cap \in Nat
  <2> HIDE DEF x
  <2>2. x = a * cap + s BY Zenon DEF x
  <2> QED BY <2>1, <2>2, <1>2
<1>4. ~(a + 1 <= q)
  <2> SUFFICES ASSUME a + 1 <= q PROVE FALSE OBVIOUS
  <2>1. a * cap + cap <= q * cap /\ q * cap \in Nat /\ a * cap \in Nat
    BY Zenon, <1>2, RowsApart, cap \in Nat
  <2>2. x = a * cap + s BY Zenon DEF x
  <2> QED BY <2>1, <2>2, <1>2
<1>5. q = a BY <1>2, <1>3, <1>4
<1>6. p = s
  <2>1. a * cap + p = a * cap + s BY Zenon, <1>2, <1>5 DEF x
  <2>2. a * cap \in Nat OBVIOUS
  <2> QED BY <2>1, <2>2, <1>2
<1> QED BY Zenon, <1>5, <1>6 DEF q, p, x

(***************************************************************************)
(* The snapshots                                                           *)
(***************************************************************************)
(* nb snapshots have been taken on the way to layer L.                     *)
SnapsOk(c, L, nb) ==
  /\ nb \in Nat /\ nb = Cardinality(Snapshots(c, L - 1))
  /\ (nb - 1) * c.attn_res_block < L /\ L <= nb * c.attn_res_block

(* At the first layer there is none.                                       *)
LEMMA SnapsFirst ==
  ASSUME NEW c, c.attn_res_block \in Nat \ {0}
  PROVE  SnapsOk(c, 0, 0)
<1>1. Snapshots(c, 0 - 1) = {}
  <2>1. 0..(0 - 1) = {} OBVIOUS
  <2> QED BY Zenon, <2>1 DEF Snapshots
<1>2. Cardinality(Snapshots(c, 0 - 1)) = 0 BY Zenon, <1>1, FS_EmptySet
<1>3. (0 - 1) * c.attn_res_block < 0 /\ 0 <= 0 * c.attn_res_block OBVIOUS
<1> QED BY Zenon, <1>2, <1>3, 0 \in Nat DEF SnapsOk

(* A layer that is a multiple of attn_res_block takes the next one.        *)
TakesNext(c, L, nb) ==
  /\ SnapsOk(c, L + 1, IF Boundary(c, L) THEN nb + 1 ELSE nb)
  /\ Cardinality(Snapshots(c, L)) = (IF Boundary(c, L) THEN nb + 1 ELSE nb)
  /\ Boundary(c, L) => L = nb * c.attn_res_block

(* A layer counts its own snapshot and no other.                           *)
LEMMA SnapsNext ==
  ASSUME NEW c, c.attn_res_block \in Nat \ {0}, NEW L \in Nat, NEW nb, SnapsOk(c, L, nb)
  PROVE  TakesNext(c, L, nb)
<1> DEFINE a == c.attn_res_block  A == Snapshots(c, L - 1)  B == Snapshots(c, L)
<1>1. a \in Nat \ {0} OBVIOUS
<1>2. nb \in Nat /\ Cardinality(A) = nb /\ (nb - 1) * a < L /\ L <= nb * a
  BY Zenon DEF SnapsOk
<1>3. IsFiniteSet(A) /\ L \notin A
  <2>1. IsFiniteSet(0..(L - 1)) /\ L \notin 0..(L - 1)
    <3>1. IsFiniteSet(0..(L - 1)) BY FS_Interval
    <3>2. L \notin 0..(L - 1) OBVIOUS
    <3> QED BY Zenon, <3>1, <3>2
  <2>2. A \subseteq 0..(L - 1) BY Zenon DEF Snapshots
  <2> HIDE DEF A
  <2> QED BY Zenon, <2>1, <2>2, FS_Subset
<1>4. (L + 1) - 1 = L OBVIOUS
<1>5. 0..L = 0..(L - 1) \union {L} OBVIOUS
<1>6. nb + 1 \in Nat /\ (nb + 1) - 1 = nb /\ nb * a \in Int /\ (nb - 1) * a \in Int
      /\ (nb + 1) * a = nb * a + a
  BY <1>1, <1>2
<1>7. CASE Boundary(c, L)
  <2>1. L % a = 0 BY Zenon, <1>7 DEF Boundary
  <2>2. L = nb * a
    <3> DEFINE d == L \div a
    <3>1. d \in Nat /\ L = d * a
      <4>1. d \in Nat /\ L = d * a + (L % a) BY Zenon, <1>1, Quotient
      <4> HIDE DEF d, a
      <4>2. L = d * a + 0 /\ d \in Nat BY Zenon, <4>1, <2>1
      <4>3. d * a \in Int BY <4>1, <1>1
      <4> QED BY <4>2, <4>3
    <3> HIDE DEF d
    <3>2. ~(d + 1 <= nb)
      <4> SUFFICES ASSUME d + 1 <= nb PROVE FALSE OBVIOUS
      <4>1. nb - 1 \in Nat /\ d <= nb - 1 BY <3>1, <1>2
      <4>2. d * a <= (nb - 1) * a BY Zenon, <4>1, <3>1, <1>1, MulMono, a \in Nat
      <4> QED BY <4>2, <3>1, <1>2, <1>6
    <3>3. ~(nb + 1 <= d)
      <4> SUFFICES ASSUME nb + 1 <= d PROVE FALSE OBVIOUS
      <4>1. nb * a + a <= d * a BY Zenon, <3>1, <1>2, <1>1, RowsApart, a \in Nat
      <4> QED BY <4>1, <3>1, <1>1, <1>2, <1>6
    <3>4. d = nb BY <3>1, <3>2, <3>3, <1>2
    <3> QED BY Zenon, <3>1, <3>4
  <2>3. B = A \union {L} BY Zenon, <1>5, <1>7 DEF Snapshots
  <2> HIDE DEF A, B
  <2>4. Cardinality(B) = nb + 1 BY Zenon, <2>3, <1>2, <1>3, FS_AddElement
  <2>5. nb * a < L + 1 /\ L + 1 <= (nb + 1) * a BY <2>2, <1>1, <1>2, <1>6
  <2>6. SnapsOk(c, L + 1, nb + 1) BY Zenon, <2>4, <2>5, <1>4, <1>6 DEF SnapsOk, B
  <2> QED BY Zenon, <1>7, <2>2, <2>4, <2>6 DEF TakesNext, B
<1>8. CASE ~Boundary(c, L)
  <2>1. L # nb * a
    <3> SUFFICES ASSUME L = nb * a PROVE FALSE OBVIOUS
    <3>1. 0 \in 0..(a - 1) BY <1>1
    <3>2. (nb * a + 0) % a = 0 BY Zenon, <3>1, <1>1, <1>2, RowAt
    <3>3. nb * a + 0 = nb * a BY <1>6
    <3> QED BY Zenon, <3>2, <3>3, <1>8 DEF Boundary
  <2>2. B = A BY Zenon, <1>5, <1>8 DEF Snapshots
  <2>3. (nb - 1) * a < L + 1 /\ L + 1 <= nb * a BY <2>1, <1>2, <1>6
  <2>4. Cardinality(B) = nb BY Zenon, <2>2, <1>2
  <2>5. SnapsOk(c, L + 1, nb) BY Zenon, <2>3, <2>4, <1>2, <1>4 DEF SnapsOk
  <2> QED BY Zenon, <1>8, <2>4, <2>5 DEF TakesNext
<1> QED BY Zenon, <1>7, <1>8

(* nb snapshot rows of T tokens behind the first n of a text.              *)
SnapRow(c, hist, b) == ResOf((b - 1) * c.attn_res_block, hist)
BrRow(c, t, b) == (t - 1) * MaxB(c) + b - 1
BrOf(c, rows, nb, t, hist) == \A b \in 1..nb : rows[BrRow(c, t, b)] = SnapRow(c, hist, b)
BrHolds(c, rows, Q, n, T, nb) == \A t \in 1..T : BrOf(c, rows, nb, t, Pre(Q, n + t))
BrRoom(c, rows, T) ==
  \A t \in 1..T : \A b \in 1..MaxB(c) : BrRow(c, t, b) \in DOMAIN rows

(* The aggregator over the snapshots of one history and its residual.      *)
AggTo(c, taken, x, rows, nb, t, res) ==
  AttnRes(c, taken, x, Stack(c, rows, nb, t, x), res) = res

(* The aggregator accepts the snapshots taken and the residual.            *)
LEMMA AttnResExact ==
  ASSUME NEW c, NEW rows, NEW nb \in Nat, NEW t, NEW x, NEW taken, Cardinality(taken) = nb,
         BrOf(c, rows, nb, t, x[3]), NEW res
  PROVE  AggTo(c, taken, x, rows, nb, t, res)
<1>1. \A b \in 1..nb : rows[(t - 1) * MaxB(c) + b - 1] = ResOf((b - 1) * c.attn_res_block, x[3])
  BY Zenon DEF BrOf, BrRow, SnapRow
<1>2. [b \in 1..nb |-> rows[(t - 1) * MaxB(c) + b - 1]]
      = [b \in 1..nb |-> ResOf((b - 1) * c.attn_res_block, x[3])]
  BY Zenon, <1>1
<1> QED BY Zenon, <1>2 DEF AggTo, AttnRes, Given, Stack

(* A boundary layer writes its entry of each token behind the others.      *)
Cut(c, rows, h0, T, nb) ==
  [i \in DOMAIN rows |-> IF i % MaxB(c) = nb /\ i \div MaxB(c) < T
                         THEN h0[(i \div MaxB(c)) + 1] ELSE rows[i]]

(* Stacking a snapshot row of each token keeps the rows right.             *)
LEMMA CutHolds ==
  ASSUME NEW c, MaxB(c) \in Nat, NEW rows, NEW Q, NEW n \in Nat, NEW T \in Nat,
         NEW nb \in Nat, nb + 1 <= MaxB(c),
         BrHolds(c, rows, Q, n, T, nb), BrRoom(c, rows, T),
         NEW h0, \A t \in 1..T : h0[t] = ResOf(nb * c.attn_res_block, Pre(Q, n + t))
  PROVE  BrHolds(c, Cut(c, rows, h0, T, nb), Q, n, T, nb + 1)
<1> SUFFICES ASSUME NEW t \in 1..T, NEW b \in 1..(nb + 1)
             PROVE  Cut(c, rows, h0, T, nb)[BrRow(c, t, b)] = SnapRow(c, Pre(Q, n + t), b)
  BY Zenon DEF BrHolds, BrOf
<1> DEFINE M == MaxB(c)  i == BrRow(c, t, b)  k == t - 1  s == b - 1
<1>1. M \in Nat \ {0} /\ k \in Nat /\ s \in 0..(M - 1) /\ b \in 1..M /\ k < T /\ k + 1 = t
  OBVIOUS
<1>2. i \in DOMAIN rows BY Zenon, <1>1 DEF BrRoom
<1>3. i = k * M + s BY Zenon DEF BrRow
<1> HIDE DEF M, i, k
<1>4. i \div M = k /\ i % M = s
  <2> HIDE DEF s
  <2> QED BY Zenon, <1>1, <1>3, RowAt
<1> DEFINE w == Cut(c, rows, h0, T, nb)
<1>5. w[i] = IF s = nb /\ k < T THEN h0[k + 1] ELSE rows[i]
  <2> HIDE DEF s
  <2> QED BY Zenon, <1>2, <1>4 DEF Cut, M
<1>6. CASE b \in 1..nb
  <2>1. s # nb BY <1>6
  <2>2. w[i] = rows[i] BY Zenon, <1>5, <2>1
  <2> QED BY Zenon, <1>6, <2>2 DEF BrHolds, BrOf, i
<1>7. CASE b \notin 1..nb
  <2>1. s = nb BY <1>7
  <2>2. w[i] = h0[t] BY Zenon, <1>1, <1>5, <2>1
  <2> QED BY Zenon, <2>1, <2>2 DEF SnapRow, i
<1> QED BY Zenon, <1>6, <1>7

(***************************************************************************)
(* One layer                                                               *)
(***************************************************************************)
(* The residual stream entering layer L, for T tokens after the first n.   *)
Streams(L, Q, n, T) == [t \in 1..T |-> ResOf(L, Pre(Q, n + t))]

(* The first aggregation gives attention its inputs.                       *)
Aggregated(c, L, x, rows, nb, t) ==
  IF nb = 0 THEN x
  ELSE AttnRes(c, Snapshots(c, L - 1), <<"res", L, x[3]>>, Stack(c, rows, nb, t, x),
               <<"in", L, x[3]>>)

AggAt(c, L, Q, n, rows, nb, t) ==
  Aggregated(c, L, ResOf(L, Pre(Q, n + t)), rows, nb, t) = At(L, Q, n + t)

(* What a layer aggregates is what the reference network gives it.         *)
LEMMA AggExact ==
  ASSUME NEW c, c.attn_res_block \in Nat \ {0}, NEW L \in Nat, NEW Q, NEW n \in Nat,
         NEW T \in Nat, NEW rows, NEW nb, SnapsOk(c, L, nb), BrHolds(c, rows, Q, n, T, nb),
         NEW t \in 1..T
  PROVE  AggAt(c, L, Q, n, rows, nb, t)
<1> SUFFICES Aggregated(c, L, ResOf(L, Pre(Q, n + t)), rows, nb, t) = At(L, Q, n + t)
  BY Zenon DEF AggAt
<1> DEFINE a == c.attn_res_block  P == Pre(Q, n + t)  x == ResOf(L, P)
<1>1. nb \in Nat /\ Cardinality(Snapshots(c, L - 1)) = nb /\ (nb - 1) * a < L /\ L <= nb * a
  BY Zenon DEF SnapsOk
<1>2. CASE nb = 0
  <2>1. L = 0 BY <1>1, <1>2
  <2>2. x = At(L, Q, n + t) BY Zenon, <2>1 DEF ResOf, At, InOf
  <2> QED BY Zenon, <1>2, <2>2 DEF Aggregated
<1>3. CASE nb # 0
  <2>1. L # 0
    <3>1. nb - 1 \in Nat /\ a \in Nat BY <1>1, <1>3
    <3>2. (nb - 1) * a \in Nat BY <3>1
    <3> QED BY <1>1, <3>2
  <2>2. x = <<"res", L, P>> /\ At(L, Q, n + t) = <<"in", L, P>>
    BY Zenon, <2>1 DEF ResOf, At, InOf
  <2>a. <<"res", L, P>>[3] = P OBVIOUS
  <2> HIDE DEF x
  <2>3. x[3] = P BY Zenon, <2>2, <2>a
  <2>4. BrOf(c, rows, nb, t, x[3]) BY Zenon, <2>3 DEF BrHolds
  <2> DEFINE taken == Snapshots(c, L - 1)  res == <<"in", L, P>>
  <2>5. AggTo(c, taken, x, rows, nb, t, res)
    <3>1. Cardinality(taken) = nb /\ nb \in Nat BY Zenon, <1>1
    <3> HIDE DEF taken, res
    <3> QED BY Zenon, <3>1, <2>4, AttnResExact
  <2>6. Aggregated(c, L, x, rows, nb, t) = At(L, Q, n + t)
    BY Zenon, <1>3, <2>2, <2>3, <2>5 DEF Aggregated, AggTo
  <2> QED BY Zenon, <2>6 DEF x
<1> QED BY Zenon, <1>2, <1>3

(* The second aggregation and the residual of one token: what the layer    *)
(* hands on once attention gave the token's atom.                          *)
Middle(c, L, y) ==
  IF Boundary(c, L) THEN <<"att", L, y[3]>> ELSE <<"mid", L, y[3]>>
Added(c, L, x, y) ==
  IF Boundary(c, L) THEN y
  ELSE Given(y = <<"att", L, y[3]>> /\ x = ResOf(L, y[3]), Middle(c, L, y))
HandsOn(c, L, x, y, rows, nb, t) ==
  LET m == AttnRes(c, Snapshots(c, L), Middle(c, L, y), Stack(c, rows, nb, t, Added(c, L, x, y)),
                   <<"mlp", L, y[3]>>)
  IN Given(Added(c, L, x, y) = Middle(c, L, y) /\ m = <<"mlp", L, y[3]>>, ResOf(L + 1, y[3]))

HandsTo(c, L, P, rows, nb, t) ==
  HandsOn(c, L, ResOf(L, P), <<"att", L, P>>, rows, nb, t) = ResOf(L + 1, P)

(* What a layer hands on is the stream entering the next.                  *)
LEMMA HandsOnExact ==
  ASSUME NEW c, NEW L, NEW P, NEW rows, NEW nb \in Nat, NEW t,
         Cardinality(Snapshots(c, L)) = nb,
         BrOf(c, rows, nb, t, P)
  PROVE  HandsTo(c, L, P, rows, nb, t)
<1> DEFINE x == ResOf(L, P)  y == <<"att", L, P>>  m == Middle(c, L, y)
           z == AttnRes(c, Snapshots(c, L), m, Stack(c, rows, nb, t, Added(c, L, x, y)),
                        <<"mlp", L, y[3]>>)
<1>1. y[3] = P BY Zenon, Third
<1>2. m = (IF Boundary(c, L) THEN <<"att", L, P>> ELSE <<"mid", L, P>>)
  <2> HIDE DEF y
  <2> QED BY Zenon, <1>1 DEF Middle
<1>3. m[3] = P
  <2> HIDE DEF m
  <2> QED BY Zenon, <1>2, Third
<1>4. Added(c, L, x, y) = m
  <2>1. y = <<"att", L, y[3]>> BY Zenon, <1>1
  <2>2. x = ResOf(L, y[3]) BY Zenon, <1>1
  <2> HIDE DEF x, y
  <2> QED BY Zenon, <2>1, <2>2 DEF Added, Middle, Given
<1> HIDE DEF m
<1>5. BrOf(c, rows, nb, t, m[3]) BY Zenon, <1>3
<1> HIDE DEF x, y
<1> DEFINE taken == Snapshots(c, L)  res == <<"mlp", L, y[3]>>
<1>6. AggTo(c, taken, m, rows, nb, t, res)
  <2>1. Cardinality(taken) = nb BY Zenon
  <2> HIDE DEF taken, res
  <2> QED BY Zenon, <2>1, <1>5, AttnResExact
<1>7. z = <<"mlp", L, y[3]>> BY Zenon, <1>4, <1>6 DEF AggTo
<1>8. HandsOn(c, L, x, y, rows, nb, t) = Given(Added(c, L, x, y) = m /\ z = <<"mlp", L, y[3]>>, ResOf(L + 1, y[3]))
  BY Zenon DEF HandsOn, m
<1> HIDE DEF z
<1>9. HandsOn(c, L, x, y, rows, nb, t) = ResOf(L + 1, P)
  BY Zenon, <1>1, <1>4, <1>7, <1>8 DEF Given
<1> QED BY Zenon, <1>9 DEF x, y, HandsTo

(* What a layer leaves after T tokens behind the first n of a text.        *)
LayerTo(c, L, rows, nb, st, kvs, cap, Q, n, T) ==
  LET r == LayerInc(c, L, Streams(L, Q, n, T), rows, nb, st, kvs, req.inc, n, cap)
  IN /\ r.h = Streams(L + 1, Q, n, T)
     /\ r.nb = (IF Boundary(c, L) THEN nb + 1 ELSE nb)
     /\ BrHolds(c, r.br, Q, n, T, r.nb) /\ DOMAIN r.br = DOMAIN rows
     /\ ~IsMla(c, L) => KdaHolds(c, L, r.kda, Q, n + T)
     /\ r.kv = IF IsMla(c, L) /\ req.inc
               THEN MlaCached(L, kvs, MlaSlot(c, L) * cap, n, Fed(L, Q, n, T)).kv
               ELSE kvs

(* LayerInc on N tokens, in these terms.                                   *)
LayerParts(c, L, hh, rows, nb, st, kvs, inc, n, cap, N) ==
  LET agg == [t \in 1..N |-> Aggregated(c, L, hh[t], rows, nb, t)]
      br1 == IF Boundary(c, L) THEN Cut(c, rows, hh, N, nb) ELSE rows
      nb1 == IF Boundary(c, L) THEN nb + 1 ELSE nb
      k == KdaLayer(c, L, st, agg)
      m == MlaCached(L, kvs, MlaSlot(c, L) * cap, n, agg)
      tmp == CASE ~IsMla(c, L)        -> k.out
               [] IsMla(c, L) /\ inc  -> m.out
               [] IsMla(c, L) /\ ~inc -> MlaUncached(L, agg)
      pref1 == [t \in 1..N |-> Added(c, L, hh[t], tmp[t])]
      mlp == [t \in 1..N |->
                AttnRes(c, Snapshots(c, L), Middle(c, L, tmp[t]),
                        Stack(c, br1, nb1, t, pref1[t]), <<"mlp", L, tmp[t][3]>>)]
  IN [h |-> [t \in 1..N |-> Given(pref1[t] = Middle(c, L, tmp[t])
                                    /\ mlp[t] = <<"mlp", L, tmp[t][3]>>,
                                  ResOf(L + 1, tmp[t][3]))],
      br |-> br1, nb |-> nb1,
      kda |-> IF IsMla(c, L) THEN st ELSE k.state,
      kv |-> IF IsMla(c, L) /\ inc THEN m.kv ELSE kvs]

(* k3_decoder_layer_inc is made of these parts.                            *)
LEMMA LayerIs ==
  ASSUME NEW c, NEW L, NEW hh, NEW rows, NEW nb, NEW st, NEW kvs, NEW inc, NEW n, NEW cap
  PROVE  LayerInc(c, L, hh, rows, nb, st, kvs, inc, n, cap)
         = LayerParts(c, L, hh, rows, nb, st, kvs, inc, n, cap, Len(hh))
BY Zenon DEF LayerInc, LayerParts, Aggregated, Cut, Middle, Added

(* A layer given the state of a text does what the reference does.         *)
LEMMA LayerExact ==
  ASSUME NEW c, c.conv_k \in Nat \ {0}, c.attn_res_block \in Nat \ {0}, MaxB(c) \in Nat,
         NEW L \in Nat, NEW Q, NEW n \in Nat, NEW T \in Nat, NEW rows, NEW nb,
         SnapsOk(c, L, nb), nb + 1 <= MaxB(c), BrHolds(c, rows, Q, n, T, nb),
         BrRoom(c, rows, T), NEW st, NEW kvs, NEW cap,
         ~IsMla(c, L) => KdaHolds(c, L, st, Q, n),
         IsMla(c, L) /\ req.inc => MlaTo(L, kvs, MlaSlot(c, L) * cap, Q, n, T),
         IsMla(c, L) /\ ~req.inc => n = 0
  PROVE  LayerTo(c, L, rows, nb, st, kvs, cap, Q, n, T)
<1> DEFINE h0 == Streams(L, Q, n, T)
           agg == [t \in 1..T |-> Aggregated(c, L, h0[t], rows, nb, t)]
           cut == Boundary(c, L)
           br1 == IF cut THEN Cut(c, rows, h0, T, nb) ELSE rows
           nb1 == IF cut THEN nb + 1 ELSE nb
           k == KdaLayer(c, L, st, agg)
           m == MlaCached(L, kvs, MlaSlot(c, L) * cap, n, agg)
           tmp == CASE ~IsMla(c, L)            -> k.out
                    [] IsMla(c, L) /\ req.inc  -> m.out
                    [] IsMla(c, L) /\ ~req.inc -> MlaUncached(L, agg)
           hs == [t \in 1..T |-> HandsOn(c, L, h0[t], tmp[t], br1, nb1, t)]
<1>1. Len(h0) = T /\ \A t \in 1..T : h0[t] = ResOf(L, Pre(Q, n + t))
  <2>1. Tup(h0, T) /\ \A t \in 1..T : h0[t] = ResOf(L, Pre(Q, n + t))
    BY Zenon DEF Tup, Streams
  <2> HIDE DEF h0
  <2> QED BY Zenon, <2>1, TupLen
<1> DEFINE r == LayerInc(c, L, h0, rows, nb, st, kvs, req.inc, n, cap)
<1>2. r = [h |-> hs, br |-> br1, nb |-> nb1,
           kda |-> IF IsMla(c, L) THEN st ELSE k.state,
           kv |-> IF IsMla(c, L) /\ req.inc THEN m.kv ELSE kvs]
  <2> HIDE DEF h0
  <2> DEFINE pref1 == [t \in 1..T |-> Added(c, L, h0[t], tmp[t])]
             mlp == [t \in 1..T |->
                       AttnRes(c, Snapshots(c, L), Middle(c, L, tmp[t]),
                               Stack(c, br1, nb1, t, pref1[t]), <<"mlp", L, tmp[t][3]>>)]
             hs1 == [t \in 1..T |->
                       Given(pref1[t] = Middle(c, L, tmp[t]) /\ mlp[t] = <<"mlp", L, tmp[t][3]>>,
                             ResOf(L + 1, tmp[t][3]))]
  <2>1. r = [h |-> hs1, br |-> br1, nb |-> nb1,
             kda |-> IF IsMla(c, L) THEN st ELSE k.state,
             kv |-> IF IsMla(c, L) /\ req.inc THEN m.kv ELSE kvs]
    <3>1. r = LayerParts(c, L, h0, rows, nb, st, kvs, req.inc, n, cap, T)
      BY Zenon, <1>1, LayerIs
    <3> QED BY Zenon, <3>1 DEF LayerParts
  <2> HIDE DEF tmp, br1, nb1
  <2>2. ASSUME NEW t \in 1..T
        PROVE  Given(pref1[t] = Middle(c, L, tmp[t]) /\ mlp[t] = <<"mlp", L, tmp[t][3]>>,
                     ResOf(L + 1, tmp[t][3]))
               = HandsOn(c, L, h0[t], tmp[t], br1, nb1, t)
    <3>1. pref1[t] = Added(c, L, h0[t], tmp[t]) BY Zenon
    <3> HIDE DEF pref1
    <3>2. mlp[t] = AttnRes(c, Snapshots(c, L), Middle(c, L, tmp[t]),
                           Stack(c, br1, nb1, t, pref1[t]), <<"mlp", L, tmp[t][3]>>)
      BY Zenon
    <3> HIDE DEF mlp
    <3> QED BY Zenon, <3>1, <3>2 DEF HandsOn
  <2> HIDE DEF pref1, mlp
  <2>3. hs1 = hs BY Zenon, <2>2
  <2> QED BY Zenon, <2>1, <2>3
<1> HIDE DEF h0, r
<1>3. agg = Fed(L, Q, n, T)
  <2>1. ASSUME NEW t \in 1..T PROVE Aggregated(c, L, h0[t], rows, nb, t) = At(L, Q, n + t)
    <3>1. AggAt(c, L, Q, n, rows, nb, t) BY Zenon, AggExact
    <3> QED BY Zenon, <3>1, <1>1 DEF AggAt
  <2> QED BY Zenon, <2>1 DEF Fed
<1> HIDE DEF agg
<1>4. ~IsMla(c, L) => k.out = Attended(L, Q, n, T) /\ KdaHolds(c, L, k.state, Q, n + T)
  <2>1. ASSUME ~IsMla(c, L) PROVE KdaTo(c, L, st, Q, n, T) BY Zenon, <2>1, KdaLayerExact
  <2> QED BY Zenon, <2>1, <1>3 DEF KdaTo
<1>5. IsMla(c, L) /\ req.inc => m.out = Attended(L, Q, n, T) BY Zenon, <1>3 DEF MlaTo
<1>6. IsMla(c, L) /\ ~req.inc => MlaUncached(L, agg) = Attended(L, Q, n, T)
  BY Zenon, <1>3, UncachedExact
<1> DEFINE u == MlaUncached(L, agg)
<1> HIDE DEF k, m, u
<1>7. tmp = Attended(L, Q, n, T)
  <2>1. CASE ~IsMla(c, L) BY Zenon, <2>1, <1>4
  <2>2. CASE IsMla(c, L) /\ req.inc BY Zenon, <2>2, <1>5
  <2>3. CASE IsMla(c, L) /\ ~req.inc BY Zenon, <2>3, <1>6 DEF u
  <2> QED BY Zenon, <2>1, <2>2, <2>3
<1> HIDE DEF tmp
<1>8. \A t \in 1..T : tmp[t] = <<"att", L, Pre(Q, n + t)>> BY Zenon, <1>7 DEF Attended
<1>9. TakesNext(c, L, nb) BY Zenon, SnapsNext
<1>10. /\ nb \in Nat /\ nb1 \in Nat /\ Cardinality(Snapshots(c, L)) = nb1
       /\ cut => L = nb * c.attn_res_block
  <2>1. nb \in Nat BY Zenon DEF SnapsOk
  <2>2. nb1 \in Nat BY <2>1
  <2> QED BY Zenon, <2>1, <2>2, <1>9 DEF TakesNext
<1>11. BrHolds(c, br1, Q, n, T, nb1) /\ DOMAIN br1 = DOMAIN rows
  <2>1. CASE cut
    <3>1. \A t \in 1..T : h0[t] = ResOf(nb * c.attn_res_block, Pre(Q, n + t))
      BY Zenon, <2>1, <1>1, <1>10
    <3>2. BrHolds(c, Cut(c, rows, h0, T, nb), Q, n, T, nb + 1)
      BY Zenon, <3>1, <1>10, CutHolds
    <3>3. DOMAIN Cut(c, rows, h0, T, nb) = DOMAIN rows BY Zenon DEF Cut
    <3> QED BY Zenon, <2>1, <3>2, <3>3
  <2>2. CASE ~cut BY Zenon, <2>2
  <2> QED BY Zenon, <2>1, <2>2
<1> HIDE DEF br1, nb1
<1>12. hs = Streams(L + 1, Q, n, T)
  <2>1. ASSUME NEW t \in 1..T
        PROVE  HandsOn(c, L, h0[t], tmp[t], br1, nb1, t) = ResOf(L + 1, Pre(Q, n + t))
    <3> DEFINE P == Pre(Q, n + t)
    <3>1. BrOf(c, br1, nb1, t, P) BY Zenon, <1>11 DEF BrHolds
    <3> HIDE DEF P
    <3>a. nb1 \in Nat /\ Cardinality(Snapshots(c, L)) = nb1 BY Zenon, <1>10
    <3>2. HandsTo(c, L, P, br1, nb1, t) BY Zenon, <3>1, <3>a, HandsOnExact
    <3> QED BY Zenon, <3>2, <1>1, <1>8 DEF P, HandsTo
  <2> QED BY Zenon, <2>1 DEF Streams
<1> HIDE DEF hs
<1> DEFINE ka == IF IsMla(c, L) THEN st ELSE k.state
           kw == IF IsMla(c, L) /\ req.inc THEN m.kv ELSE kvs
<1>13. ~IsMla(c, L) => ka = k.state BY Zenon
<1>14. kw = IF IsMla(c, L) /\ req.inc
            THEN MlaCached(L, kvs, MlaSlot(c, L) * cap, n, Fed(L, Q, n, T)).kv
            ELSE kvs
  BY Zenon, <1>3 DEF m
<1> HIDE DEF ka, kw
<1>15. r.h = hs /\ r.br = br1 /\ r.nb = nb1 /\ r.kda = ka /\ r.kv = kw
  BY <1>2 DEF ka, kw
<1> QED BY Zenon, <1>4, <1>11, <1>12, <1>13, <1>14, <1>15 DEF LayerTo, r, h0, nb1

(***************************************************************************)
(* Texts                                                                   *)
(***************************************************************************)
(* The first n tokens of s, then ids.                                      *)
TextOf(s, n, ids) == Pre(s, n) \o ids

Spells(Q, s, n, ids) ==
  /\ Agree(s, Q, n) /\ Agree(Q, s, n) /\ \A i \in 1..n : Q[i] = s[i]
  /\ \A t \in 1..Len(ids) : Q[n + t] = ids[t] /\ Pre(Q, n + t) = Pre(s, n) \o Pre(ids, t)

(* Such a text begins as s does and goes on with ids.                      *)
LEMMA TextIs ==
  ASSUME NEW s, NEW n \in Nat, NEW ids \in Seq(Toks)
  PROVE  Spells(TextOf(s, n, ids), s, n, ids)
<1> DEFINE P == Pre(s, n)  T == Len(ids)  Q == TextOf(s, n, ids)
<1>1. T \in Nat OBVIOUS
<1>2. Tup(P, n) /\ \A j \in 1..n : P[j] = s[j] BY Zenon, PreIs
<1>3. Tup(ids, T) BY Zenon, SeqTup
<1> HIDE DEF P, T
<1>4. P \o ids = Cat(P, ids, n, T) BY Zenon, <1>1, <1>2, <1>3, CatIs
<1>5. Q = Cat(P, ids, n, T) BY Zenon, <1>4 DEF TextOf, P
<1> HIDE DEF Q
<1>6. ASSUME NEW i \in 1..n PROVE Q[i] = s[i]
  <2>1. i \in 1..(n + T) /\ i <= n BY <1>1
  <2> QED BY Zenon, <2>1, <1>2, <1>5 DEF Cat
<1>7. ASSUME NEW t \in 1..T PROVE Q[n + t] = ids[t]
  <2>1. n + t \in 1..(n + T) /\ ~(n + t <= n) /\ (n + t) - n = t BY <1>1
  <2> QED BY Zenon, <2>1, <1>5 DEF Cat
<1>8. Agree(s, Q, n) BY Zenon, <1>6, AgreeIf
<1>9. Agree(Q, s, n) BY Zenon, <1>6, AgreeIf
<1>10. ASSUME NEW t \in 1..T PROVE Pre(Q, n + t) = Pre(s, n) \o Pre(ids, t)
  <2> DEFINE m == n + t  u == Pre(ids, t)  X == Pre(Q, m)
  <2>1. t \in Nat /\ m \in Nat BY <1>1
  <2>2. Tup(u, t) /\ \A j \in 1..t : u[j] = ids[j] BY Zenon, <2>1, PreIs
  <2>3. Tup(X, m) /\ \A j \in 1..m : X[j] = Q[j] BY Zenon, <2>1, PreIs
  <2> HIDE DEF u, X
  <2>4. P \o u = Cat(P, u, n, t) BY Zenon, <2>1, <2>2, <1>2, CatIs
  <2>5. ASSUME NEW j \in 1..m PROVE X[j] = IF j <= n THEN P[j] ELSE u[j - n]
    <3>1. CASE j <= n
      <4>1. j \in 1..n BY <3>1, <2>1
      <4> QED BY Zenon, <3>1, <4>1, <2>3, <1>2, <1>6
    <3>2. CASE ~(j <= n)
      <4>1. j - n \in 1..t /\ j - n \in 1..T /\ n + (j - n) = j BY <3>2, <2>1, <1>1
      <4>2. Q[j] = ids[j - n] BY Zenon, <4>1, <1>7
      <4>3. u[j - n] = ids[j - n] BY Zenon, <4>1, <2>2
      <4> QED BY Zenon, <3>2, <4>2, <4>3, <2>3
    <3> QED BY Zenon, <3>1, <3>2
  <2>6. X = [j \in 1..m |-> X[j]] BY Zenon, <2>3 DEF Tup
  <2> DEFINE e(j) == IF j <= n THEN P[j] ELSE u[j - n]
  <2>7. \A j \in 1..m : X[j] = e(j) BY Zenon, <2>5
  <2> HIDE DEF e
  <2>8. X = [j \in 1..m |-> e(j)] BY Zenon, <2>6, <2>7
  <2>9. X = Cat(P, u, n, t) BY Zenon, <2>8 DEF Cat, e
  <2> QED BY Zenon, <2>4, <2>9 DEF P, u, X
<1> QED BY Zenon, <1>6, <1>7, <1>8, <1>9, <1>10 DEF Spells, Q, T

(* It is the beginning of what goes on with ids after them.                *)
LEMMA GoesOn ==
  ASSUME NEW s, NEW n \in Nat, NEW ids \in Seq(Toks), NEW Q, Spells(Q, s, n, ids), NEW R,
         \A i \in 1..n : R[i] = s[i], \A t \in 1..Len(ids) : R[n + t] = ids[t]
  PROVE  Agree(Q, R, n + Len(ids))
<1> DEFINE T == Len(ids)
<1>1. T \in Nat /\ n + T \in Nat OBVIOUS
<1>2. \A t \in 1..T : R[n + t] = ids[t] /\ Q[n + t] = ids[t] BY Zenon DEF Spells
<1>3. \A i \in 1..n : Q[i] = R[i] BY Zenon DEF Spells
<1> HIDE DEF T
<1>4. ASSUME NEW i \in 1..(n + T) PROVE Q[i] = R[i]
  <2>1. CASE i \in 1..n BY Zenon, <2>1, <1>3
  <2>2. CASE i \notin 1..n
    <3>1. i - n \in 1..T /\ n + (i - n) = i BY <2>2, <1>1
    <3> QED BY Zenon, <3>1, <1>2
  <2> QED BY Zenon, <2>1, <2>2
<1> DEFINE m == n + T
<1>5. m \in Nat /\ \A i \in 1..m : Q[i] = R[i] BY Zenon, <1>1, <1>4
<1> HIDE DEF m
<1>6. Agree(Q, R, m) BY Zenon, <1>5, AgreeIf
<1> QED BY Zenon, <1>6 DEF m, T

(* The embeddings of the tokens fed are the streams entering layer 0.      *)
EmbedsTo(Q, n, ids) ==
  [t \in DOMAIN ids |-> EmbedRow(ids[t])] = Streams(0, Q, n, Len(ids))

(* Given the text, the lookup is of its own tokens.                        *)
LEMMA StreamsFirst ==
  ASSUME NEW s, NEW n \in Nat, NEW ids \in Seq(Toks), NEW Q, Spells(Q, s, n, ids)
  PROVE  EmbedsTo(Q, n, ids)
<1> DEFINE T == Len(ids)
<1>1. T \in Nat /\ DOMAIN ids = 1..T OBVIOUS
<1>2. ASSUME NEW t \in 1..T PROVE EmbedRow(ids[t]) = ResOf(0, Pre(Q, n + t))
  <2> DEFINE m == n + t  X == Pre(Q, m)
  <2>1. m \in Nat /\ m \in 1..m BY <1>1
  <2>2. Len(X) = m /\ X[m] = Q[m] BY Zenon, <2>1, PreIs
  <2>3. Q[m] = ids[t] BY Zenon DEF Spells
  <2> HIDE DEF X
  <2> QED BY Zenon, <2>2, <2>3 DEF ResOf, X
<1> QED BY Zenon, <1>1, <1>2 DEF Streams, EmbedsTo

(* The aggregator after the last layer, on the streams of a text.          *)
HeadTo(c, NL, rows, nb, Q, n, t) ==
  HeadRow(c, NL, rows, nb, t, ResOf(NL, Pre(Q, n + t))) = LogitsOf(NL, Pre(Q, n + t))

(* The head of a text yields the logits of the reference.                  *)
LEMMA HeadExact ==
  ASSUME NEW c, NEW NL \in Nat, NL > 0, NEW rows, NEW nb, SnapsOk(c, NL, nb),
         NEW Q, NEW n \in Nat, NEW T \in Nat, BrHolds(c, rows, Q, n, T, nb), NEW t \in 1..T
  PROVE  HeadTo(c, NL, rows, nb, Q, n, t)
<1> DEFINE P == Pre(Q, n + t)  x == ResOf(NL, P)  taken == Snapshots(c, NL - 1)
           res == LogitsOf(NL, P)
<1>1. nb \in Nat /\ Cardinality(taken) = nb BY Zenon DEF SnapsOk
<1>2. BrOf(c, rows, nb, t, P) BY Zenon DEF BrHolds
<1>3. NL # 0 OBVIOUS
<1> HIDE DEF P
<1>4. x = <<"res", NL, P>> BY Zenon, <1>3 DEF ResOf
<1>5. x[3] = P
  <2> HIDE DEF x
  <2> QED BY Zenon, <1>4, Third
<1> HIDE DEF x, taken, res
<1>6. BrOf(c, rows, nb, t, x[3]) BY Zenon, <1>2, <1>5
<1>7. AggTo(c, taken, x, rows, nb, t, res) BY Zenon, <1>1, <1>6, AttnResExact
<1>8. HeadRow(c, NL, rows, nb, t, x) = res BY Zenon, <1>4, <1>5, <1>7 DEF AggTo, HeadRow, taken, res
<1> QED BY Zenon, <1>8 DEF HeadTo, x, P, res

(* Fewer rows hold if more do.                                             *)
LEMMA RowsLess ==
  ASSUME NEW rows, NEW base, NEW L, NEW Q, NEW n \in Nat, NEW m \in Nat, m <= n,
         RowsHold(rows, base, L, Q, n)
  PROVE  RowsHold(rows, base, L, Q, m)
<1>1. \A i \in 1..m : i \in 1..n OBVIOUS
<1> QED BY Zenon, <1>1 DEF RowsHold
=============================================================================
