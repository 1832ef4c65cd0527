---------------------------- MODULE MCK3Session ----------------------------
(***************************************************************************)
(* Instances of K3Session: three small architectures that differ in which  *)
(* operator dominates the scratch, in where the MLA layers lie, in the     *)
(* snapshot period and in the ShortConv width.                             *)
(***************************************************************************)
EXTENDS K3Session, TLC

CONSTANTS t1, t2

Base ==
  [hidden |-> 2, n_layers |-> 4, vocab |-> 2, layers |-> {3, 4},
   kda_heads |-> 1, kda_head_dim |-> 2, conv_k |-> 3,
   n_heads |-> 4, q_lora |-> 1, kv_lora |-> 1, qk_nope |-> 2, qk_rope |-> 1, v_head |-> 2,
   n_shared |-> 1, latent |-> 1, moe_inter |-> 1,
   first_dense |-> 1, dense_inter |-> 3, attn_res_block |-> 2, full_attn |-> {2, 4}]

(* The experts dominate; the first layer is MLA, the window one input.     *)
Moe == [Base EXCEPT !.n_layers = 3, !.layers = {3}, !.conv_k = 2, !.n_heads = 2, !.latent = 20,
                    !.moe_inter = 10, !.attn_res_block = 3, !.full_attn = {1, 3}]

(* The recurrence dominates; every layer takes a snapshot; no convolution. *)
Kda == [Base EXCEPT !.n_layers = 2, !.layers = {2}, !.conv_k = 1, !.n_heads = 2, !.kda_heads = 3,
                    !.first_dense = 0, !.attn_res_block = 1, !.full_attn = {2}]

MCCfgs == {Base, Moe, Kda}
MCToks == {t1, t2}
Ask(np, gen, inc, spec) == [np |-> np, gen |-> gen, inc |-> inc, spec |-> spec]
MCAsks == {Ask(2, 2, FALSE, 0), Ask(2, 0, TRUE, 0), Ask(1, 1, TRUE, 0), Ask(1, 4, TRUE, 2),
           Ask(1, 3, TRUE, 1)}
MCHaves == {0, 340, 460}

(* Bound: a process that does not resume neither reads nor needs a state   *)
(* file, so fresh ones are followed only while there is none.              *)
MCFreshFirst == pc = "start" \/ req.load = file.whole

MCSymmetry == Permutations(MCToks)

=============================================================================
