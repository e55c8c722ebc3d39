---------------------------- MODULE MCLocalCalls ----------------------------
(* An instance of LocalCalls for TLC. *)
EXTENDS LocalCalls

MCInputs == -1 .. 10

\* Signs, zeros, a multiple, numbers with and without a common divisor.
MCPairs == {-4, 0, 3, 6} \X {-6, 0, 4}
=============================================================================
