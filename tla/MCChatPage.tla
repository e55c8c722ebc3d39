----------------------------- MODULE MCChatPage -----------------------------
(* The instance of ChatPage for TLC. *)
EXTENDS ChatPage, TLC

\* Messages and session ids are interchangeable.
Symmetry == Permutations(Messages) \cup Permutations(Sessions)
=============================================================================
