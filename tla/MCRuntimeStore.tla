--------------------------- MODULE MCRuntimeStore ---------------------------
(* Instances of RuntimeStore for TLC.                                      *)
EXTENDS RuntimeStore
=============================================================================
