---------------------------- MODULE MCChatSession ----------------------------
(* An instance of ChatSession for TLC. *)
EXTENDS ChatSession

\* Every request makes at most one call.
MCCalls == Requests \X {1}
=============================================================================
