----------------------------- MODULE MCToolCall -----------------------------
(* Instances of ToolCall for TLC. *)
EXTENDS ToolCall, TLC

\* Calls and workers are interchangeable in the safety runs.
Symmetry == Permutations(Jobs) \cup Permutations(Workers)
=============================================================================
