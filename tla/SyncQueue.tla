------------------------------ MODULE SyncQueue -----------------------------
(***************************************************************************)
(* What the sync-run queue of app-connectors promises its callers, without *)
(* clock, table or lock string: a run is held by one grant at a time, only *)
(* the current grant may write the connection's sync state or report, a    *)
(* report ends the grant, a finished run stays finished, and a run returns *)
(* to the queue only while it has attempts left.  SyncRuns implements it.  *)
(***************************************************************************)
EXTENDS Integers

CONSTANTS
    RunIds,       \* places in the run table
    Cells,        \* sync states: a connection and one of its source objects
    MaxAttempts   \* grants after which a failed run is not queued again

VARIABLES
    phase,        \* where each run is in its life
    grants,       \* how many times each run was granted to a worker
    cell          \* the run and the grant that last wrote each sync state

queueVars == <<phase, grants, cell>>

\* held: granted and within its lease; lapsed: granted, lease over;
\* inline: executed by the request that created it, never granted.
Phases == {"absent", "queued", "held", "lapsed", "inline", "done", "dead"}

QueueTypeOK ==
    /\ phase \in [RunIds -> Phases]
    /\ grants \in [RunIds -> Nat]
    /\ cell \in [Cells -> [run : RunIds \cup {-1}, grant : Nat]]

QueueInit ==
    /\ phase = [r \in RunIds |-> "absent"]
    /\ grants = [r \in RunIds |-> 0]
    /\ cell = [c \in Cells |-> [run |-> -1, grant |-> 0]]

Submit(r) ==
    /\ phase[r] = "absent"
    /\ phase' \in {[phase EXCEPT ![r] = p] : p \in {"queued", "inline"}}
    /\ UNCHANGED <<grants, cell>>

\* A batch of waiting or lapsed runs goes to a worker, each under a new grant.
Grant(S) ==
    /\ \A r \in S : phase[r] \in {"queued", "lapsed"}
    /\ phase' = [r \in RunIds |-> IF r \in S THEN "held" ELSE phase[r]]
    /\ grants' = [r \in RunIds |-> IF r \in S THEN grants[r] + 1 ELSE grants[r]]
    /\ UNCHANGED cell

\* Time passes and the leases of some held runs end.
Lapse(S) ==
    /\ \A r \in S : phase[r] = "held"
    /\ phase' = [r \in RunIds |-> IF r \in S THEN "lapsed" ELSE phase[r]]
    /\ UNCHANGED <<grants, cell>>

Write(r, c) ==
    /\ phase[r] = "held"
    /\ cell' = [cell EXCEPT ![c] = [run |-> r, grant |-> grants[r]]]
    /\ UNCHANGED <<phase, grants>>

Report(r, p) ==
    /\ phase[r] = "held"
    /\ \/ p \in {"done", "dead"}
       \/ p = "queued" /\ grants[r] < MaxAttempts
    /\ phase' = [phase EXCEPT ![r] = p]
    /\ UNCHANGED <<grants, cell>>

FinishInline(r, p) ==
    /\ phase[r] = "inline"
    /\ p \in {"done", "dead"}
    /\ phase' = [phase EXCEPT ![r] = p]
    /\ UNCHANGED <<grants, cell>>

QueueNext ==
    \/ \E r \in RunIds : Submit(r)
    \/ \E S \in SUBSET RunIds : Grant(S) \/ Lapse(S)
    \/ \E r \in RunIds, c \in Cells : Write(r, c)
    \/ \E r \in RunIds, p \in Phases : Report(r, p) \/ FinishInline(r, p)

QueueSpec == QueueInit /\ [][QueueNext]_queueVars
=============================================================================
