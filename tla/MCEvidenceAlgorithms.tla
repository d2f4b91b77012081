------------------------- MODULE MCEvidenceAlgorithms -------------------------
(* Small instances of EvidenceAlgorithms for TLC. *)
EXTENDS EvidenceAlgorithms

\* Two candidates are of one file, the last one of another; every other content is long.
MCPathOf == [c \in Candidates |-> IF c < Cardinality(Candidates) THEN 1 ELSE 2]
MCLength == [c \in Candidates |-> IF c % 2 = 1 THEN 3 ELSE 1]

===============================================================================
