----------------------------- MODULE K3Session -----------------------------
(***************************************************************************)
(* One K3 engine process after another (main of src/cli/k3_run.c): the     *)
(* memory plan, the buffers it allocates, forward() layer by layer over    *)
(* the carried state, speculative verification with restore and replay,    *)
(* and the state file a later process resumes from.                        *)
(*                                                                         *)
(* The token a sweep chooses and the drafts proposed to it are arbitrary:  *)
(* what matters here is on which state the sweep computed its logits.      *)
(* (Decode models the choice of tokens and the second, drafting model.)    *)
(***************************************************************************)
EXTENDS K3Forward

CONSTANTS
  Cfgs,      \* model configurations (K3Cfg), with `layers', the depths asked for
  Toks,      \* token ids
  Asks,      \* requests: np prompt ids, --gen, --incremental, --spec (0 for none)
  Haves,     \* MemAvailable in floats, 0 when it cannot be read
  Weights,   \* floats held by trunk budget, model tensors and expert cache
  MaxPos     \* bound: positions of a session, its history included

VARIABLES
  cfg,     \* the checkpoint
  req,     \* what the process was asked to do
  pc,      \* "start", "step", "layer", "swept", "end", "fatal"
  seq,     \* seq[0..T)
  nout,    \* tokens generated
  cached,  \* positions the carried state has consumed
  ks,      \* per layer: recurrent matrix and ShortConv history
  snap,    \* spec_snap
  kv,      \* kvc and ropec, flat: slot * kv_cap + position
  h, br,   \* hidden rows and snapshot rows of the sweep, br flat
  call,    \* the forward() in progress
  out,     \* logits of the sweep that just returned
  file     \* the state file

vars == <<cfg, req, pc, seq, nout, cached, ks, snap, kv, h, br, call, out, file>>

(* A configuration k3_cfg_load accepts, and depths --layers can ask for.   *)
ASSUME CfgAssumption ==
  \A c \in Cfgs :
    /\ \A f \in {"hidden", "vocab", "kda_heads", "kda_head_dim", "n_heads", "q_lora",
                  "kv_lora", "qk_nope", "qk_rope", "v_head", "n_shared", "latent",
                  "moe_inter", "first_dense", "dense_inter"} : c[f] \in Nat
    /\ c.n_layers \in Nat \ {0} /\ c.attn_res_block \in Nat \ {0} /\ c.conv_k \in Nat \ {0}
    /\ c.layers \subseteq 1..c.n_layers

(* What main accepts: at least one prompt id; --gen and --spec as given.   *)
ASSUME AskAssumption ==
  \A ask \in Asks :
    ask.np \in Nat \ {0} /\ ask.gen \in Nat /\ ask.spec \in Nat /\ ask.inc \in BOOLEAN

(* Sizes and amounts of memory are counts.                                 *)
ASSUME MemAssumption == Weights \in Nat /\ Haves \subseteq Nat

(* The dense path writes dense_inter floats into the sub-block, which is   *)
(* sized for attention and experts only: the released sizes satisfy this.  *)
ASSUME DenseFits ==
  \A c \in Cfgs :
    c.first_dense = 0
    \/ c.dense_inter <= Larger(Larger(MlaScratch(c, 1), KdaScratch(c, 1)), MoeScratch(c))

NoFile == [whole |-> FALSE]
NoReq == [inc |-> FALSE]
NoCall == [kind |-> "none"]
EmptyKs(c, NL, atom) ==
  [L \in 0..(NL - 1) |-> [S |-> IF atom = Zero THEN <<>> ELSE <<<<atom>>>>,
                          conv |-> [i \in 1..(c.conv_k - 1) |-> atom]]]

(***************************************************************************)
(* Sizes: the plan made before anything is allocated, and what is held.    *)
(***************************************************************************)
TmaxOf(r) == r.prior + r.np + r.gen + 1
Tmax == TmaxOf(req)

(* Mutant: the plan forgets the cache.                                     *)
MemPlanNoKv(c, r) ==
  LET Tm == r.np + r.gen + 1
  IN Weights + KPer(c) * r.NL
     + (Tm * c.hidden + Tm * (MaxB(c) * c.hidden) + LayerScratch(c, Tm) + c.vocab)

MemPlan(c, r) ==
  LET Tm == r.np + r.gen + 1
  IN Weights + KPer(c) * r.NL
     + (Tm * c.hidden + Tm * (MaxB(c) * c.hidden) + LayerScratch(c, Tm) + c.vocab)
     + (IF r.inc THEN Tm * (NMla(c, c.n_layers) * KvRow(c)) ELSE 0)

Held(c, r) ==
  LET Tx == TmaxOf(r)
  IN Weights + KPer(c) * r.NL
     + (Tx * c.hidden + Tx * (MaxB(c) * c.hidden) + ScNeed(c, Tx) + c.vocab)
     + (IF r.inc THEN Tx * (NMla(c, r.NL) * KvRow(c)) ELSE 0)
     + (IF r.spec > 0 THEN KPer(c) * r.NL ELSE 0)

(* Before anything is loaded, an incremental request is refused when its   *)
(* cache alone would take nine tenths of memory.                           *)
KvGuard(c, r) ==
  (r.inc /\ r.have > 0) =>
    10 * ((r.np + r.gen + 1) * (NMla(c, c.n_layers) * KvRow(c))) <= 9 * r.have

(* Later, any request whose plan leaves less than a twentieth.             *)
PlanAccepts(c, r) == r.have > 0 => 100 * MemPlan(c, r) <= 95 * r.have

(* Mutant: the saved rows are copied as one block.                         *)
LoadRowsOneBlock(c, r, f) ==
  [i \in 0..(NMla(c, r.NL) * TmaxOf(r) - 1) |->
     IF r.load /\ i < NMla(c, r.NL) * f.cached
     THEN f.rows[i \div f.cached][i % f.cached] ELSE Zero]

(* k3_state_load copies each slice's occupied rows to the slice's place in *)
(* a cache of another capacity.                                            *)
LoadRows(c, r, f) ==
  LET cap == TmaxOf(r)
  IN [i \in 0..(NMla(c, r.NL) * cap - 1) |->
        IF r.load /\ i % cap < f.cached THEN f.rows[i \div cap][i % cap] ELSE Zero]

(* k3_state_load refuses another depth, and a file that ends early.        *)
Loadable(f, inc, NL) == f.whole /\ inc /\ f.NL = NL

Init ==
  /\ cfg \in Cfgs
  /\ req = NoReq /\ pc = "start" /\ seq = <<>> /\ nout = 0 /\ cached = 0
  /\ ks = <<>> /\ snap = <<>> /\ kv = <<>> /\ h = <<>> /\ br = <<>>
  /\ call = NoCall /\ out = <<>> /\ file = NoFile

(***************************************************************************)
(* A process starts: request, plan, buffers, restore.  A refused request   *)
(* ends the process and leaves nothing, so only accepted ones are steps.   *)
(***************************************************************************)
Launch(ask, prompt, NL, have, load) ==
  LET r == [inc |-> ask.inc, np |-> ask.np, gen |-> ask.gen, NL |-> NL, have |-> have,
            spec |-> IF ask.inc THEN ask.spec ELSE 0, load |-> load,
            prior |-> IF load THEN Len(file.seq) ELSE 0]
  IN /\ pc = "start"
     /\ load => Loadable(file, ask.inc, NL)
     /\ KvGuard(cfg, r) /\ PlanAccepts(cfg, r)
     /\ TmaxOf(r) <= MaxPos
     /\ req' = r
     /\ seq' = (IF load THEN file.seq ELSE <<>>) \o prompt
     /\ nout' = 0
     /\ cached' = (IF load THEN file.cached ELSE 0)
     /\ ks' = (CASE load -> file.ks
                 [] ask.inc /\ ~load -> EmptyKs(cfg, NL, Zero)
                 [] ~ask.inc -> EmptyKs(cfg, NL, Junk))
     /\ kv' = (IF ask.inc THEN LoadRows(cfg, r, file) ELSE <<>>)
     /\ br' = [i \in 0..(TmaxOf(r) * MaxB(cfg) - 1) |-> Junk]
     /\ pc' = (IF ask.gen = 0 THEN "end" ELSE "step")
     /\ UNCHANGED <<cfg, snap, h, call, out, file>>

(* Everything a process holds in memory is gone once it exits.             *)
Exit ==
  /\ pc' = "start" /\ req' = NoReq /\ seq' = <<>> /\ nout' = 0 /\ cached' = 0
  /\ ks' = <<>> /\ snap' = <<>> /\ kv' = <<>> /\ h' = <<>> /\ br' = <<>>
  /\ call' = NoCall /\ out' = <<>>

(***************************************************************************)
(* forward(): entry, one step per layer, head.                             *)
(***************************************************************************)
ForwardEnter(c, state) ==
  /\ call' = c
  /\ h' = [t \in DOMAIN c.ids |-> EmbedRow(c.ids[t])]
  /\ br' = [i \in DOMAIN br |-> IF i < Len(c.ids) * MaxB(cfg) THEN Zero ELSE br[i]]
  /\ ks' = (IF req.inc THEN state ELSE EmptyKs(cfg, req.NL, Zero))
  /\ out' = <<>>
  /\ pc' = "layer"

NewCall(kind, ids, all) ==
  [kind |-> kind, ids |-> ids, all |-> all, L |-> 0, nb |-> 0, emit |-> <<>>]

(* MLA refuses to write past the cache: the process dies.                  *)
PastCache(L, T) == req.inc /\ IsMla(cfg, L) /\ cached + T - 1 >= Tmax

ForwardLayer ==
  /\ pc = "layer" /\ call.L < req.NL
  /\ IF PastCache(call.L, Len(call.ids))
     THEN /\ pc' = "fatal"
          /\ UNCHANGED <<h, br, ks, kv, call>>
     ELSE LET r == LayerInc(cfg, call.L, h, br, call.nb, ks[call.L], kv, req.inc,
                            cached, Tmax)
          IN /\ h' = r.h /\ br' = r.br /\ kv' = r.kv
             /\ ks' = [ks EXCEPT ![call.L] = r.kda]
             /\ call' = [call EXCEPT !.L = @ + 1, !.nb = r.nb]
             /\ pc' = pc
  /\ UNCHANGED <<cfg, req, seq, nout, cached, snap, out, file>>

(* A layer of a streamed trunk cannot be read: forward fails, main exits.  *)
BindFails ==
  /\ pc = "layer" /\ call.L < req.NL
  /\ Exit
  /\ UNCHANGED <<cfg, file>>

ForwardHead ==
  /\ pc = "layer" /\ call.L = req.NL
  /\ LET T == Len(call.ids)
         first == IF call.all THEN 1 ELSE T
     IN out' = [i \in 1..(T - first + 1) |->
                  HeadRow(cfg, req.NL, br, call.nb, first + i - 1, h[first + i - 1])]
  /\ pc' = "swept"
  /\ UNCHANGED <<cfg, req, seq, nout, cached, ks, snap, kv, h, br, call, file>>

(***************************************************************************)
(* The generation loop of main.                                            *)
(***************************************************************************)
Unread == SubSeq(seq, cached + 1, Len(seq))

StepZero ==
  /\ pc = "step" /\ req.inc /\ nout = 0
  /\ ForwardEnter(NewCall("feed", Unread, FALSE), ks)
  /\ UNCHANGED <<cfg, req, seq, nout, cached, snap, kv, file>>

StepPlain ==
  /\ pc = "step" /\ req.inc /\ nout > 0
  /\ ForwardEnter(NewCall("feed", <<seq[cached + 1]>>, FALSE), ks)
  /\ UNCHANGED <<cfg, req, seq, nout, cached, snap, kv, file>>

StepFull ==
  /\ pc = "step" /\ ~req.inc
  /\ ForwardEnter(NewCall("full", seq, FALSE), ks)
  /\ UNCHANGED <<cfg, req, seq, nout, cached, snap, kv, file>>

(* --tf-check: one sweep over the first np ids of seq, then the end.       *)
TfCheck ==
  /\ pc \in {"step", "end"} /\ nout = 0 /\ req.np >= 2
  /\ ForwardEnter(NewCall("tf", SubSeq(seq, 1, req.np), TRUE), ks)
  /\ UNCHANGED <<cfg, req, seq, nout, cached, snap, kv, file>>

DraftFits == Len(seq) + req.spec + 1 < Tmax /\ cached + req.spec + 1 <= Tmax

StepVerify(d) ==
  /\ pc = "step" /\ req.inc /\ nout > 0
  /\ req.spec > 0 /\ Len(d) <= req.spec
  /\ DraftFits
  /\ snap' = ks
  /\ ForwardEnter(NewCall("verify", <<seq[cached + 1]>> \o d, TRUE), ks)
  /\ UNCHANGED <<cfg, req, seq, nout, cached, kv, file>>

Smaller(a, b) == IF a < b THEN a ELSE b

(* The emitted tokens join the sequence while there is room for them.      *)
Emit(es) ==
  LET k == Smaller(Len(es), Smaller(req.gen - nout, Tmax - Len(seq)))
  IN /\ seq' = seq \o SubSeq(es, 1, k)
     /\ nout' = nout + k
     /\ pc' = (IF nout + k >= req.gen \/ Len(seq) + k >= Tmax THEN "end" ELSE "step")

SweptFeed(tok) ==
  /\ pc = "swept" /\ call.kind \in {"feed", "full"}
  /\ cached' = (IF call.kind = "feed" THEN cached + Len(call.ids) ELSE cached)
  /\ Emit(<<tok>>)
  /\ call' = NoCall
  /\ UNCHANGED <<cfg, req, ks, snap, kv, h, br, out, file>>

(* All drafts accepted: every position fed had true context.               *)
SweptAccept(tok) ==
  /\ pc = "swept" /\ call.kind = "verify"
  /\ cached' = cached + Len(call.ids)
  /\ Emit(Tail(call.ids) \o <<tok>>)
  /\ call' = NoCall
  /\ UNCHANGED <<cfg, req, ks, snap, kv, h, br, out, file>>

(* m drafts accepted: restore the recurrent state, replay the prefix.      *)
SweptReject(m, tok) ==
  /\ pc = "swept" /\ call.kind = "verify"
  /\ m + 1 < Len(call.ids) /\ tok # call.ids[m + 2]
  /\ ForwardEnter([NewCall("replay", SubSeq(call.ids, 1, m + 1), FALSE)
                     EXCEPT !.emit = SubSeq(call.ids, 2, m + 1) \o <<tok>>], snap)
  /\ UNCHANGED <<cfg, req, seq, nout, cached, snap, kv, file>>

SweptReplay ==
  /\ pc = "swept" /\ call.kind = "replay"
  /\ cached' = cached + Len(call.ids)
  /\ Emit(call.emit)
  /\ call' = NoCall
  /\ UNCHANGED <<cfg, req, ks, snap, kv, h, br, out, file>>

SweptTf ==
  /\ pc = "swept" /\ call.kind = "tf"
  /\ Exit
  /\ UNCHANGED <<cfg, file>>

(***************************************************************************)
(* The end of a process, with or without --save-state.                     *)
(***************************************************************************)
StateSave ==
  [whole |-> TRUE, seq |-> seq, cached |-> cached, NL |-> req.NL, ks |-> ks,
   rows |-> [mi \in 0..(NMla(cfg, req.NL) - 1) |->
               [s \in 0..(cached - 1) |-> kv[mi * Tmax + s]]]]

(* k3_state_save may stop part-way; what it wrote stays.                   *)
SaveState ==
  /\ pc = "end" /\ req.inc
  /\ file' \in {StateSave, NoFile}
  /\ Exit
  /\ UNCHANGED cfg

Quit ==
  /\ pc = "end"
  /\ Exit
  /\ UNCHANGED <<cfg, file>>

MaxSpec == Max({ask.spec : ask \in Asks})
Drafts == UNION {[1..n -> Toks] : n \in 1..MaxSpec}

Next ==
  \/ \E ask \in Asks, NL \in cfg.layers, have \in Haves, load \in BOOLEAN :
       \E prompt \in [1..ask.np -> Toks] : Launch(ask, prompt, NL, have, load)
  \/ ForwardLayer \/ BindFails \/ ForwardHead
  \/ StepZero \/ StepPlain \/ StepFull \/ TfCheck
  \/ \E d \in Drafts : StepVerify(d)
  \/ \E tok \in Toks : SweptFeed(tok) \/ SweptAccept(tok)
  \/ \E m \in 0..MaxSpec, tok \in Toks : SweptReject(m, tok)
  \/ SweptReplay \/ SweptTf
  \/ SaveState \/ Quit

Spec == Init /\ [][Next]_vars

(***************************************************************************)
(* Properties                                                              *)
(***************************************************************************)
(* Whatever the prompt was split into, whatever drafts were verified,      *)
(* rejected and replayed, and however often the session was saved and      *)
(* resumed in a cache of another size, the logits forward() returns for a  *)
(* position are those of one full sweep over the sequence so far: the      *)
(* recurrent matrices, ShortConv windows, KV rows and snapshot rows it     *)
(* read all belong to that sequence and to no other.                       *)
SweepsExact ==
  pc = "swept" =>
    \A i \in DOMAIN out :
      out[i] = LogitsOf(req.NL, SubSeq(seq, 1, cached)
                                  \o SubSeq(call.ids, 1, Len(call.ids) - Len(out) + i))

(* No sweep leaves its buffers: a layer and the model-level aggregator     *)
(* reach no further into the scratch than main allocated for the longest   *)
(* sequence, the source stack holds the snapshots and the residual, the    *)
(* rows fed have rows in h and br, and the cache bound is never hit.       *)
ScratchFits ==
  /\ pc # "fatal"
  /\ pc = "layer" =>
       LET T == Len(call.ids)
       IN /\ T <= Tmax
          /\ call.nb + 1 <= MaxB(cfg)
          /\ HeadReach(cfg, call.nb) <= ScNeed(cfg, Tmax)
          /\ call.L < req.NL =>
               LayerReach(cfg, IsMla(cfg, call.L), IsDense(cfg, call.L), T, cached, req.inc)
                 <= ScNeed(cfg, Tmax)

(* A fresh request without drafts that the memory plan accepted fits: all  *)
(* the floats main then allocates are within what the machine has          *)
(* available, however few of the layers it runs.                           *)
PlanHolds ==
  (pc # "start" /\ req.have > 0 /\ req.prior = 0 /\ req.spec = 0)
    => Held(cfg, req) <= req.have

=============================================================================
