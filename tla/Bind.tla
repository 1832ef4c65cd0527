-------------------------------- MODULE Bind --------------------------------
(***************************************************************************)
(* The binder, src/model/k3_bind.c: a layer's tensors are found, checked   *)
(* and laid out in one blob, either read from the checkpoint or pointed at *)
(* inside a packed run of the trunk (k3_trunk_bind, src/io/k3_trunk.c).    *)
(*                                                                         *)
(* Large matrices stay in their own format, which one tag per layer        *)
(* describes; vectors that kernels read elementwise become fp32.  A        *)
(* tensor's values are abstracted to the format of the bytes its pointer   *)
(* leads to; the numbers of elements come from the configuration (Size).   *)
(***************************************************************************)
EXTENDS Checkpoint

CONSTANTS Size,       \* [tensor] elements the engine expects
          ALogTake,   \* kda_heads, the part of A_log that is taken
          OutGate,    \* mla_out_gate
          Kinds,      \* kinds of layer, [mla, dense : BOOLEAN]
          Slack,      \* bytes k3_bind_widen_bytes adds for alignment, 4096
          Runs        \* packed layers: [tensor -> [off, nbytes, dtype]]

VARIABLE bound        \* the outcome of the last call, if it was a bind

Unbound  == [ok |-> FALSE]
bindVars == <<ckVars, bound>>

BindInit == Init /\ bound = Unbound

-----------------------------------------------------------------------------
(* What is asked for.                                                      *)

\* plan_layer, in its order.
LayerNames(kind) ==
    <<"in_norm", "post_norm", "attn_res_norm", "attn_res_proj", "mlp_res_norm",
      "mlp_res_proj">>
    \o (IF kind.mla
        THEN <<"q_a", "q_a_norm", "q_b", "kv_a", "kv_a_norm", "kv_b", "o">>
             \o (IF OutGate THEN <<"g">> ELSE <<>>)
        ELSE <<"q", "k", "v", "g", "o", "q_conv", "k_conv", "v_conv", "f_a", "f_b",
               "b", "A_log", "dt_bias", "o_norm">>)
    \o (IF kind.dense THEN <<"dense_gate", "dense_up", "dense_down">>
        ELSE <<"gate", "bias", "down", "up", "latent_norm", "sh1", "sh3", "sh2">>)

\* plan_model, with the LM head.
ModelNames == <<"embed", "norm", "out_res_norm", "out_res_proj", "lm_head">>

\* The requests made with reqn: matrices that go through k3_mmw.
Matmul == {"q_a", "q_b", "kv_a", "kv_b", "o", "g", "q", "k", "v", "f_a", "f_b", "b",
           "dense_gate", "dense_up", "dense_down", "down", "up", "sh1", "sh2", "sh3",
           "embed", "lm_head"}

Take(n) == IF n = "A_log" THEN ALogTake ELSE Size[n]

Align8(x) == ((x + 7) \div 8) * 8

\* *q->dest is set.
Point(dest, n, d) == [m \in DOMAIN dest \union {n} |-> IF m = n THEN d ELSE dest[m]]

Width(fmt) == IF fmt = "F32" THEN 4 ELSE 2

-----------------------------------------------------------------------------
(* From the checkpoint.                                                    *)

\* One request: the tensor must be there with the expected number of
\* elements; a matrix that is not BF16 after all is widened and noted.
ResolveOne(p, n, narrow_ok) ==
    LET x      == t[Find(n)]
        bad    == Find(n) = 0 \/ Numel(x) # Size[n] \/ Take(n) > Numel(x)
        narrow == n \in Matmul /\ narrow_ok
        fmt    == IF narrow /\ x.dtype = "BF16" THEN "BF16" ELSE "F32"
        at     == Align8(p.off)
    IN  IF bad THEN [p EXCEPT !.bad = TRUE]
        ELSE [p EXCEPT !.demoted = @ \/ (narrow /\ x.dtype # "BF16"),
                       !.off  = at + Take(n) * Width(fmt),
                       !.dest = Point(@, n, [area |-> "blob", off |-> at, fmt |-> fmt])]

\* plan_resolve: every request checked and laid out before a byte is read.
PlanResolve(names, narrow_ok) ==
    FoldInOrder(LAMBDA p, n : ResolveOne(p, n, narrow_ok),
             [bad |-> FALSE, demoted |-> FALSE, off |-> 0, dest |-> <<>>], names)

\* A plan with the format of its matrices, b->lay.wdt and the others.
Tagged(p, tag) == [bad |-> p.bad, off |-> p.off, dest |-> p.dest, tag |-> tag]

\* Mutant: only the matrix that is not BF16 is widened.
PlanMixed(names) == Tagged(PlanResolve(names, TRUE), "BF16")

\* The plan that is loaded: all over again at fp32 when one matrix was
\* demoted, because one tag describes them all.
Plan(names) ==
    LET p == PlanResolve(names, TRUE)
    IN  IF p.bad \/ ~p.demoted THEN Tagged(p, "BF16")
        ELSE Tagged(PlanResolve(names, FALSE), "F32")

\* k3_bind_layer_bytes, which the memory report adds up.
LayerBytes(names) == PlanResolve(names, TRUE).off

\* plan_load: a narrow tensor is read as its own bytes, the others widened.
Loads(p, names) ==
    \A n \in Range(names) :
        LET x == t[Find(n)]
        IN  IF p.dest[n].fmt = "BF16" THEN ReadRaw(x) = x.nbytes ELSE ReadF32(x) = Numel(x)

\* The plan is loaded.  If it is refused, or allocating or reading fails, the
\* blob is freed and nothing is bound.
BindPlan(names, kda, mla, moe) ==
    /\ pc = "open" /\ ~Plan(names).bad
    /\ LET p == Plan(names) IN
         /\ Loads(p, names)
         /\ bound' = [ok |-> TRUE, tag |-> p.tag, dest |-> p.dest, names |-> names,
                      blob |-> p.off, report |-> LayerBytes(names),
                      kda |-> kda, mla |-> mla, moe |-> moe]
    /\ load' = NoLoad /\ UNCHANGED <<dirVars, stVars>>

\* k3_bind_layer: exactly one of kda and mla is set.
BindLayer(kind) == BindPlan(LayerNames(kind), ~kind.mla, kind.mla, ~kind.dense)

\* k3_bind_model.
BindModel == BindPlan(ModelNames, FALSE, FALSE, FALSE)

-----------------------------------------------------------------------------
(* From a packed run.                                                      *)

\* k3_bind_widen_bytes: the vectors that ship as BF16, and the router gate.
WidenBytes ==
    4 * (6 * Size["in_norm"] + Size["q_a_norm"] + Size["kv_a_norm"]
         + Size["latent_norm"] + Size["gate"]) + Slack

\* One request that is dequantised or widened into the area beside the run.
Widened(p, n) ==
    LET at == Align8(p.w)
    IN  IF at + Take(n) * 4 > WidenBytes THEN [p EXCEPT !.bad = TRUE]
        ELSE [p EXCEPT !.w = at + Take(n) * 4,
                       !.dest = Point(@, n, [area |-> "widen", off |-> at, fmt |-> "F32"])]

Pointed(p, n, x) ==
    [p EXCEPT !.dest = Point(@, n, [area |-> "run", off |-> x.off, fmt |-> x.dtype])]

\* The rows of an I8R tensor follow from its size: each adds a 4-byte scale.
I8Rows(n, x) == (x.nbytes - Take(n)) \div 4
I8OK(n, x) ==
    /\ (x.nbytes - Take(n)) % 4 = 0
    /\ I8Rows(n, x) > 0 /\ Take(n) % I8Rows(n, x) = 0

Have(x) == x.nbytes \div ElemSize(x.dtype)

\* One request of k3_bind_layer_mem.
MemOne(p, n, run) ==
    LET x == run[n]
        q == [p EXCEPT !.wideMatrix = @ \/ (n \in Matmul /\ x.dtype # "BF16")]
    IN  IF n \notin DOMAIN run THEN [p EXCEPT !.bad = TRUE]
        ELSE IF x.dtype = "I8R"
        THEN IF n \in Matmul THEN [Pointed(p, n, x) EXCEPT !.i8 = TRUE]
             ELSE IF I8OK(n, x) THEN Widened(p, n) ELSE [p EXCEPT !.bad = TRUE]
        ELSE IF Have(x) # Size[n] \/ Take(n) > Have(x) THEN [p EXCEPT !.bad = TRUE]
        ELSE IF x.dtype = "F32" \/ (n \in Matmul /\ x.dtype = "BF16") THEN Pointed(q, n, x)
        ELSE IF x.dtype = "BF16" THEN Widened(q, n)
        ELSE [p EXCEPT !.bad = TRUE]

MemPlan(names, run) ==
    FoldInOrder(LAMBDA p, n : IF p.bad THEN p ELSE MemOne(p, n, run),
             [bad |-> FALSE, i8 |-> FALSE, wideMatrix |-> FALSE, w |-> 0, dest |-> <<>>],
             names)

\* A large matrix in fp32 cannot be described, unless int8 was seen.
MemOK(p) == ~p.bad /\ (~p.wideMatrix \/ p.i8)

\* The sizes are numbers of elements, and "an int8 draft trunk has every matmul
\* weight as I8R" (k3_bind_layer_mem).
ASSUME BindAssumption ==
    /\ ALogTake \in Nat /\ WidenBytes \in Nat
    /\ \A n \in Range(ModelNames) \union UNION {Range(LayerNames(k)) : k \in Kinds} :
         Size[n] \in Nat
    /\ \A run \in Runs : \A m, n \in Matmul \intersect DOMAIN run :
         run[m].dtype = "I8R" => run[n].dtype = "I8R"

\* k3_trunk_bind, once the streamer has the layer's bytes.
BindMem(kind, run) ==
    /\ pc = "open"
    /\ LET p == MemPlan(LayerNames(kind), run) IN
         /\ MemOK(p)
         /\ bound' = [ok |-> TRUE, tag |-> IF p.i8 THEN "I8R" ELSE "BF16",
                      dest |-> p.dest, names |-> LayerNames(kind),
                      blob |-> 0, report |-> 0,
                      kda |-> ~kind.mla, mla |-> kind.mla, moe |-> ~kind.dense]
    /\ load' = NoLoad /\ UNCHANGED <<dirVars, stVars>>

\* The caller is done with what the last call gave it.
Done ==
    /\ load # NoLoad \/ bound # Unbound
    /\ load' = NoLoad /\ bound' = Unbound
    /\ UNCHANGED <<dirVars, stVars>>

BindNext ==
    \/ /\ load = NoLoad /\ bound = Unbound
       /\ \/ CheckpointNext /\ UNCHANGED bound
          \/ BindModel
          \/ \E kind \in Kinds : BindLayer(kind) \/ \E run \in Runs : BindMem(kind, run)
    \/ Done

BindSpec == BindInit /\ [][BindNext]_bindVars

-----------------------------------------------------------------------------
(* Properties.                                                             *)

\* Where the bytes a pointer's reader touches end.
End(n) == bound.dest[n].off + Take(n) * Width(bound.dest[n].fmt)

\* What a successful bind hands to the kernels is what they read it as: each
\* matrix is in the format of the layer's one tag, each vector in fp32; the
\* regions of the blob and of the widening area are aligned, disjoint and
\* inside; and a layer without a demoted matrix takes the bytes reported.
BindTruth ==
    bound.ok =>
        /\ DOMAIN bound.dest = Range(bound.names)
        /\ \A n \in DOMAIN bound.dest :
             LET d == bound.dest[n] IN
             /\ d.fmt = IF n \in Matmul THEN bound.tag ELSE "F32"
             /\ d.area # "run" =>
                  /\ d.off % 8 = 0
                  /\ End(n) <= IF d.area = "blob" THEN bound.blob ELSE WidenBytes
                  /\ \A m \in DOMAIN bound.dest \ {n} :
                       bound.dest[m].area = d.area => End(n) <= bound.dest[m].off
                                                      \/ End(m) <= d.off
        /\ ~(bound.kda /\ bound.mla)
        /\ bound.tag = "BF16" => bound.blob = bound.report
=============================================================================
