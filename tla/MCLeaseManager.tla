--------------------------- MODULE MCLeaseManager ---------------------------
(* Instances of LeaseManager and its properties for TLC. *)
EXTENDS LeaseProperties, TLC

\* Jobs and workers are interchangeable in the safety runs.
Symmetry == Permutations(Jobs) \cup Permutations(Workers)
=============================================================================
