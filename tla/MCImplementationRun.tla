------------------------- MODULE MCImplementationRun -------------------------
(* Small instances of ImplementationRun for TLC. *)
EXTENDS ImplementationRun, TLC

\* Keys, drafts and requests are interchangeable; not used with liveness.
Symmetry == Permutations(Keys) \cup Permutations(Drafts) \cup Permutations(Requests)

===============================================================================
