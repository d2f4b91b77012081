-------------------------- MODULE MCPlanningApproval --------------------------
(* Small instances of PlanningApproval for TLC. *)
EXTENDS PlanningApproval, TLC

\* Keys and requests are interchangeable; not used by runs with liveness.
Symmetry == Permutations(Keys) \cup Permutations(Requests)

===============================================================================
