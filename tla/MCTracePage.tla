----------------------------- MODULE MCTracePage -----------------------------
(* The instance of TracePage for TLC. *)
EXTENDS TracePage

CONSTANT r1

\* One request uses a tool; session ids are interchangeable.
MCCalls  == {<<r1, 1>>}
Symmetry == Permutations(Sessions)
=============================================================================
