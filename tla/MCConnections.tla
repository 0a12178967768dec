--------------------------- MODULE MCConnections ---------------------------
(* Instances of Connections for TLC. *)
EXTENDS Connections, TLC

Interchangeable == Permutations(Calls)
=============================================================================
