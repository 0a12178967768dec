---------------------------- MODULE MCSyncWorker ----------------------------
(* Instances of SyncWorker for TLC. *)
EXTENDS SyncWorker, TLC

Interchangeable == Permutations(Workers)
=============================================================================
