------------------------------- MODULE Planner ------------------------------
(***************************************************************************)
(* How a memory budget becomes an execution plan (eng_plan of              *)
(* src/runtime/planner.c over eng_mem_plan of src/runtime/memory.c), and   *)
(* what the qwen3 loader and the expert cache then make of their shares.   *)
(*                                                                         *)
(* The planner is arithmetic, so it is given as operators; the state       *)
(* machine picks a machine, a model and a request, plans, and loads.       *)
(* Sizes are in units; the floors of the code (768 MB, 1 GB) are           *)
(* constants.  Activations and scratch are only ever added up, so they are *)
(* one number (fixed).  Threads, notes and prefetch depth decide nothing   *)
(* here and are left out.                                                  *)
(***************************************************************************)
EXTENDS AlignedRead

CONSTANTS ReserveFloor,    \* 768 MB
          KeepFloor,       \* 1 GB
          DefaultContext,  \* ENG_DEFAULT_CONTEXT
          Machines,        \* [avail, total]: hw->ram_available, ram_total
          Models,          \* EngModelFacts, with lm, the bytes of the LM head
          Requests         \* [budget, context, force_stream]

ASSUME PlannerAssumption ==
    /\ ReserveFloor \in Nat \ {0} /\ KeepFloor \in Nat /\ DefaultContext \in Nat \ {0}
    /\ Machines \subseteq [avail : Nat, total : Nat]
    /\ Models \subseteq [total : Nat, resident : Nat, fixed : Nat, kv : Nat,
                         context_max : Nat, n_layers : Nat, max_layer : Nat,
                         avg_layer : Nat, lm : Nat, n_experts : Nat, topk : Nat,
                         expert : Nat]
    /\ Requests \subseteq [budget : Nat, context : Nat, force_stream : {-1, 0, 1}]

Larger(a, b) == IF a > b THEN a ELSE b

\* eng_mem_auto_budget.
AutoBudget(hw) ==
    LET base == IF hw.avail > 0 THEN hw.avail ELSE (hw.total * 3) \div 4
    IN  Larger(base - Larger(base \div 5, KeepFloor), 0)

\* Mutant: one position is held back.
MaxContextOneLess(avail, kv) ==
    IF kv <= 0 \/ avail <= 0 THEN 0 ELSE Larger(avail \div kv - 1, 1)

ContextCap == 1073741824     \* 1 << 30

\* eng_mem_max_context.
MaxContext(avail, kv) ==
    IF kv <= 0 \/ avail <= 0 THEN 0
    ELSE IF avail \div kv > ContextCap THEN ContextCap ELSE avail \div kv

Reserve(b) == Larger((b * 12) \div 100, ReserveFloor)

NoPlan == [ok |-> FALSE]

\* Mutant: the context may take the weights' minimum.
MemPlanStarves(b, n) ==
    LET left   == b - Reserve(b) - n.resident - n.fixed
        capped == n.kv > 0 /\ n.context > 0
        ctx    == IF capped /\ n.context * n.kv > left
                  THEN MaxContext(left, n.kv) ELSE n.context
        kv     == IF capped THEN ctx * n.kv ELSE 0
    IN  IF /\ b > 0 /\ Reserve(b) < b
           /\ n.resident <= b - Reserve(b)
           /\ left >= 0
           /\ capped => left > n.min_weights /\ ctx > 0
           /\ left - kv >= n.min_weights
        THEN [ok |-> TRUE, context |-> ctx, kv_cache |-> kv, weights |-> left - kv]
        ELSE NoPlan

\* eng_mem_plan: reserve, resident weights and fixed buffers come off first;
\* the context is cut to what leaves the weights their minimum; the weights
\* get the rest.
MemPlan(b, n) ==
    LET left   == b - Reserve(b) - n.resident - n.fixed
        for_kv == left - n.min_weights
        capped == n.kv > 0 /\ n.context > 0
        ctx    == IF capped /\ n.context * n.kv > for_kv
                  THEN MaxContext(for_kv, n.kv) ELSE n.context
        kv     == IF capped THEN ctx * n.kv ELSE 0
    IN  IF /\ b > 0 /\ Reserve(b) < b
           /\ n.resident <= b - Reserve(b)
           /\ left >= 0
           /\ capped => for_kv > 0 /\ ctx > 0
           /\ left - kv >= n.min_weights
        THEN [ok |-> TRUE, context |-> ctx, kv_cache |-> kv, weights |-> left - kv]
        ELSE NoPlan

\* The context eng_plan asks for: the request, or a default whose KV cache is
\* held to a quarter of what is left.
WantContext(b, m, req) ==
    IF req.context > 0 THEN req.context
    ELSE LET ctx  == IF m.context_max > 0 /\ m.context_max < DefaultContext
                     THEN m.context_max ELSE DefaultContext
             fits == MaxContext(Larger(b - m.resident - m.fixed, 0) \div 4, m.kv)
         IN  IF m.kv > 0 /\ fits > 0 /\ fits < ctx THEN fits ELSE ctx

Needs(b, m, req) ==
    [resident |-> m.resident, fixed |-> m.fixed, kv |-> m.kv,
     context |-> WantContext(b, m, req),
     min_weights |-> IF m.max_layer > 0 THEN m.max_layer ELSE m.avg_layer]

\* Mutant: the minimum has no expert of slack.
StreamShareTopk(w, m, streaming) ==
    LET cache_min == m.topk * m.expert
    IN  IF ~streaming THEN m.total - m.resident
        ELSE IF m.n_experts > 0 /\ m.expert > 0
        THEN IF w > cache_min + m.max_layer * 2 THEN w - cache_min ELSE w - w \div 2
        ELSE w

\* The streamer's and the cache's share of the weights w.
StreamShare(w, m, streaming) ==
    LET cache_min == (m.topk + 1) * m.expert
    IN  IF ~streaming THEN m.total - m.resident
        ELSE IF m.n_experts > 0 /\ m.expert > 0
        THEN IF w > cache_min + m.max_layer * 2 THEN w - cache_min ELSE w - w \div 2
        ELSE w

\* eng_plan, once the budget is known.
EngPlan(b, m, req) ==
    LET mem        == MemPlan(b, Needs(b, m, req))
        streamable == m.total - m.resident
        streaming  == req.force_stream = 1 \/ mem.weights < streamable
    IN  IF ~mem.ok THEN NoPlan
        ELSE IF req.force_stream = 0 /\ mem.weights < streamable THEN NoPlan
        ELSE [ok |-> TRUE, budget |-> b, context |-> mem.context,
              kv_cache |-> mem.kv_cache, weights |-> mem.weights,
              streaming |-> streaming,
              stream |-> StreamShare(mem.weights, m, streaming),
              cache |-> mem.weights - StreamShare(mem.weights, m, streaming)]

-----------------------------------------------------------------------------
(* The consumers of the shares.                                            *)

\* eng_streamer_create succeeds when one slot for the largest layer fits
\* (StreamerSizing has the whole of it).
SlotFor(big) == AlignUp(AlignUp(big) + Align)

\* eng_cache_stride_for and the slot count of eng_cache_create.
CacheSlots(budget, payload) == budget \div AlignUp(payload + 2 * Align)

\* qwen3_load holds the LM head when half the layers would still fit, or as
\* ENG_LM_RESIDENT says (env; -1: unset) if one layer would.
LmResident(have, m, env) ==
    /\ env # 0
    /\ have >= m.lm + (IF env = 1 THEN 1 ELSE m.n_layers \div 2) * m.max_layer

VARIABLES hw, m, req,   \* the inputs
          stage,        \* "asked", "planned", "refused", "loaded", "failed"
          plan,
          run           \* bytes of the resident LM head and of the streamer,
                        \* and ENG_LM_RESIDENT when they were chosen

planVars == <<hw, m, req, stage, plan, run>>

PlanInit ==
    /\ hw \in Machines /\ m \in Models /\ req \in Requests
    /\ stage = "asked" /\ plan = NoPlan /\ run = [lm |-> 0, streamer |-> 0, env |-> -1]

Budget == IF req.budget > 0 THEN req.budget ELSE AutoBudget(hw)

MakePlan ==
    /\ stage = "asked"
    /\ plan' = IF Budget <= 0 THEN NoPlan ELSE EngPlan(Budget, m, req)
    /\ stage' = IF plan'.ok THEN "planned" ELSE "refused"
    /\ UNCHANGED <<hw, m, req, run>>

\* Mutant: the streamer is built on the whole share.
StreamerBudgetWhole(have, lm) == have

\* cfg.budget_bytes: what the head leaves of the share.
StreamerBudget(have, lm) == have - lm

\* qwen3_load: the LM head if it is to be resident, then the streamer on what
\* is left of the share.
LoadModel ==
    /\ stage = "planned" /\ m.n_experts = 0
    /\ \E env \in {-1, 0, 1} :
         LET lm == IF LmResident(plan.stream, m, env) THEN m.lm ELSE 0
         IN  run' = [lm |-> lm, streamer |-> StreamerBudget(plan.stream, lm), env |-> env]
    /\ stage' = IF SlotFor(m.max_layer) <= run'.streamer THEN "loaded" ELSE "failed"
    /\ UNCHANGED <<hw, m, req, plan>>

PlanNext == MakePlan \/ LoadModel

PlanSpec == PlanInit /\ [][PlanNext]_planVars

-----------------------------------------------------------------------------
(* Properties.                                                             *)

\* The context is cut only as far as it must be: one position more would
\* leave the weights less than their minimum, unless the cut is the cap of
\* eng_mem_max_context.
ContextMaximal ==
    plan.ok /\ plan.context < WantContext(plan.budget, m, req) =>
        \/ plan.weights - m.kv < Needs(plan.budget, m, req).min_weights
        \/ plan.context = ContextCap

\* "Raise --memory" is sound advice: unless residency is required, more
\* memory never turns a plan into a refusal or shortens its context.
MoreMemoryHelps ==
    plan.ok /\ req.force_stream # 0 =>
        LET more == EngPlan(plan.budget + 1, m, req)
        IN  more.ok /\ more.context >= plan.context

\* What a run allocates stays in its plan: the LM head and the streamer share
\* one budget (qwen3_load decides on the head before the streamer is built).
RunWithinPlan ==
    stage = "loaded" =>
        Reserve(plan.budget) + m.resident + m.fixed + plan.kv_cache
            + run.lm + run.streamer <= plan.budget

\* The expert cache holds the experts of one token when the weights exceed its
\* minimum and two layers (test_planner.c: it must "hold one token's working
\* set"), although the minimum counts payloads and the cache counts aligned
\* slots: the one expert of slack covers the padding of topk slots as long as
\* an expert is no smaller than that.
CacheHoldsToken ==
    plan.ok /\ plan.streaming /\ m.n_experts > 0 /\ m.expert >= 3 * Align * m.topk
      /\ plan.weights > (m.topk + 1) * m.expert + 2 * m.max_layer =>
        CacheSlots(plan.cache, m.expert) >= m.topk
=============================================================================
