----------------------------- MODULE MCPlanner ------------------------------
(* Machines, models and requests for the planner, at a scale of about 64 MB  *)
(* a unit: the reserve floor is 12 units, a KV position at most a quarter.   *)
EXTENDS Planner

CONSTANTS Wants,   \* context lengths asked for
          Layers   \* numbers of layers

MCMachines == {[avail |-> a, total |-> t] : a \in {0, 30, 75}, t \in {0, 80}}

Dense == {[total |-> t, resident |-> r, fixed |-> f, kv |-> kv, context_max |-> c,
           n_layers |-> n, max_layer |-> 8, avg_layer |-> 7, lm |-> 10,
           n_experts |-> 0, topk |-> 0, expert |-> 0] :
          t \in {40, 90}, r \in {0, 6}, f \in {3}, kv \in {0, 2, 3}, c \in {0, 4},
          n \in Layers}

Routed == {[d EXCEPT !.n_experts = 8, !.topk = 2, !.expert = e] : d \in Dense, e \in {3, 12}}

MCModels == Dense \union Routed

MCRequests == [budget : 0..110, context : Wants, force_stream : {-1, 0, 1}]
=============================================================================
