----------------------------- MODULE MCSyncRuns -----------------------------
(* Instances of SyncRuns for TLC. *)
EXTENDS SyncRuns
=============================================================================
