------------------------------ MODULE MCSizing ------------------------------
(* Budgets for StreamerSizing, from nothing to everything pinned.            *)
EXTENDS StreamerSizing

MCBudgets == {4 * k : k \in 0..20} \cup {4 * k + 3 : k \in {8, 12, 16}}
=============================================================================
