---------------------------- MODULE MCChatWrites -----------------------------
(* The instance of ChatWrites for TLC. *)
EXTENDS ChatWrites

CONSTANTS r1, r2

\* One request writes a file, one uses another tool, the others use none.
MCWrites == {<<r1, 1>>}
MCCalls  == MCWrites \cup {<<r2, 1>>}
=============================================================================
