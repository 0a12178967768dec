------------------------------ MODULE SyncRuns ------------------------------
(***************************************************************************)
(* The sync-run queue of app-connectors: the table of sync runs kept by    *)
(* store.ts and the runtime handlers of service.ts that create, claim,     *)
(* lease, report and retry them.                                           *)
(*                                                                         *)
(* Every handler modelled here is synchronous in the code, so it is one    *)
(* step.  The workers are outside: a worker is whoever holds a lock token, *)
(* and a token may be presented at any time after it was issued, which     *)
(* covers a slow worker, a worker that lost its lease and a call that was  *)
(* delayed or sent twice.  A call the code refuses changes nothing and is  *)
(* not a step.                                                             *)
(*                                                                         *)
(* A lock token is an opaque random string.  Here it is the pair of the    *)
(* run and the number of the grant that issued it.                         *)
(***************************************************************************)
EXTENDS Integers, FiniteSets

CONSTANTS
    Connections,    \* connections of the organizations the workers may serve
    PullTriggers,   \* trigger types a caller may queue a run with; the route
                    \* accepts "webhook", the type of pushed runs, among them
    Keys,           \* idempotency keys callers use
    SourceObjects,  \* source objects of a connection
    RunIds,         \* places in the run table, in creation order
    MaxAttempts,    \* maxAttempts of a run (8 in the code)
    Limits,         \* values of a claim's limit (1..200)
    LeaseTimes,     \* values of a claim's leaseSeconds (30..900)
    DefaultLease,   \* _DEFAULT_SYNC_LEASE_SECONDS
    RetryDelays,    \* delays a retryable failure may ask for
    PatchStatuses,  \* statuses an operator may set on a connection
    MaxTime         \* bound on the clock (model checking only)

ASSUME ConstantsAssumption ==
    /\ Connections # {} /\ Keys # {}
    /\ RunIds \subseteq Nat
    /\ MaxAttempts \in Nat \ {0}
    /\ Limits \subseteq Nat \ {0}
    /\ LeaseTimes \subseteq Nat \ {0}
    /\ DefaultLease \in Nat \ {0}
    /\ RetryDelays \subseteq Nat \ {0}
    /\ MaxTime \in Nat
    /\ PatchStatuses \subseteq {"pending", "active", "disabled"}

VARIABLES
    now,        \* Date.now()
    runs,       \* the run table: Map<runId, SyncRun>
    granted,    \* how many lock tokens were issued for each run
    inline,     \* webhook runs whose ingestEvents request is still executing
    connStatus, \* status of each connection
    syncState   \* who last wrote the sync state of a connection's object

vars == <<now, runs, granted, inline, connStatus, syncState>>

-----------------------------------------------------------------------------
(* Data *)

Triggers == PullTriggers \cup {"webhook"}

RunStatuses == {"absent", "queued", "running", "success", "failed"}

ConnStatuses == {"pending", "active", "disabled", "needs_attention"}

\* JavaScript's null, for a time or a token; every other value is a natural.
Null == -1

OrNull(S) == S \cup {Null}

Run == [ status         : RunStatuses,
         conn           : Connections,
         trigger        : Triggers,
         key            : Keys,
         attempts       : Nat,
         lockedBy       : OrNull(Nat),
         leaseExpiresAt : OrNull(Nat),
         availableAt    : Nat,
         endedAt        : OrNull(Nat) ]

\* A place of the table no run has taken; only its status means anything.
NoRun ==
    [ status |-> "absent", conn |-> CHOOSE c \in Connections : TRUE,
      trigger |-> "webhook", key |-> CHOOSE k \in Keys : TRUE,
      attempts |-> 0, lockedBy |-> Null, leaseExpiresAt |-> Null,
      availableAt |-> 0, endedAt |-> Null ]

\* The last writer of a sync state: lastRunId and the grant behind
\* updatedByWorker.
Writer == [run : OrNull(RunIds), grant : Nat]

Unwritten == [run |-> Null, grant |-> 0]

TypeOK ==
    /\ now \in Nat
    /\ runs \in [RunIds -> Run]
    /\ granted \in [RunIds -> Nat]
    /\ inline \subseteq RunIds
    /\ connStatus \in [Connections -> ConnStatuses]
    /\ syncState \in [Connections \X SourceObjects -> Writer]

Created(r) == runs[r].status # "absent"

\* findSyncRunByIdempotency: the run the replay index names, if any.
Replayed(c, trigger, k) ==
    {r \in RunIds : /\ Created(r)
                    /\ runs[r].conn = c
                    /\ runs[r].trigger = trigger
                    /\ runs[r].key = k}

\* The Map keeps insertion order: a new run takes the next place.
NextPlace(r) == \A q \in RunIds : Created(q) <=> q < r

LaterOf(a, b) == IF a < b THEN b ELSE a

-----------------------------------------------------------------------------
(* Creating runs *)

NewRun(c, trigger, k, status) ==
    [ status |-> status, conn |-> c, trigger |-> trigger, key |-> k,
      attempts |-> 0, lockedBy |-> Null, leaseExpiresAt |-> Null,
      availableAt |-> now, endedAt |-> Null ]

\* Seeded fault: the replay index is not consulted.
CreateSyncRunNoReplay(r, c, trigger, k, status) ==
    /\ NextPlace(r)
    /\ runs' = [runs EXCEPT ![r] = NewRun(c, trigger, k, status)]

\* Seeded fault: a replay of a failed run's key starts that run again.
CreateSyncRunRestart(r, c, trigger, k, status) ==
    /\ IF Replayed(c, trigger, k) = {}
       THEN NextPlace(r)
       ELSE r \in Replayed(c, trigger, k) /\ runs[r].status = "failed"
    /\ runs' = [runs EXCEPT ![r] = NewRun(c, trigger, k, status)]

CreateSyncRun(r, c, trigger, k, status) ==
    /\ Replayed(c, trigger, k) = {}
    /\ NextPlace(r)
    /\ runs' = [runs EXCEPT ![r] = NewRun(c, trigger, k, status)]

\* triggerSync; an idempotent replay returns the existing run unchanged.
TriggerSync(r, c, trigger, k) ==
    /\ connStatus[c] = "active"
    /\ CreateSyncRun(r, c, trigger, k, "queued")
    /\ UNCHANGED <<now, granted, inline, connStatus, syncState>>

\* ingestEvents up to its first await: the run is born running, without a
\* lock and without a lease.
BeginIngest(r, c, k) ==
    /\ connStatus[c] # "disabled"
    /\ CreateSyncRun(r, c, "webhook", k, "running")
    /\ inline' = inline \cup {r}
    /\ UNCHANGED <<now, granted, connStatus, syncState>>

\* ingestEvents when the credential's allow-list refuses an event: the throw
\* is after createSyncRun and before the try block.
RefuseIngest(r, c, k) ==
    /\ connStatus[c] # "disabled"
    /\ CreateSyncRun(r, c, "webhook", k, "running")
    /\ UNCHANGED <<now, granted, inline, connStatus, syncState>>

\* ingestEvents after persistRawEvents returned.  The run ends as of receivedAt,
\* which persistRawEvents took at its start: the instant of the run's creation,
\* which its availableAt keeps.
FinishIngest(r) ==
    /\ r \in inline
    /\ inline' = inline \ {r}
    /\ runs' = [runs EXCEPT ![r] = [@ EXCEPT !.status = "success",
                                              !.endedAt = runs[r].availableAt]]
    /\ connStatus' = [connStatus EXCEPT ![runs[r].conn] = "active"]
    /\ UNCHANGED <<now, granted, syncState>>

\* The catch block of ingestEvents.
AbortIngest(r) ==
    /\ r \in inline
    /\ inline' = inline \ {r}
    /\ runs' = [runs EXCEPT ![r] = [@ EXCEPT !.status = "failed",
                                              !.endedAt = now,
                                              !.availableAt = now]]
    /\ UNCHANGED <<now, granted, connStatus, syncState>>

-----------------------------------------------------------------------------
(* Claiming runs *)

LeaseLapsed(r) == runs[r].leaseExpiresAt # Null /\ runs[r].leaseExpiresAt <= now

Claimable(r) ==
    \/ runs[r].status = "queued" /\ runs[r].availableAt <= now
    \/ runs[r].status = "running" /\ LeaseLapsed(r)

\* The claim's sort: by availableAt, then by age.  Every claimable run has
\* the default priority 50, so priority decides nothing.
Before(q, r) ==
    \/ runs[q].availableAt < runs[r].availableAt
    \/ runs[q].availableAt = runs[r].availableAt /\ q < r

\* The first limit candidates in that order.
Batch(S, limit) ==
    LET candidates == {r \in RunIds : Claimable(r)} IN
    /\ S # {}
    /\ S \subseteq candidates
    /\ \A r \in S, q \in candidates \ S : Before(r, q)
    /\ Cardinality(S) <= limit
    /\ S # candidates => Cardinality(S) = limit

ClaimSyncRuns(S, limit, lease) ==
    /\ Batch(S, limit)
    /\ granted' = [r \in RunIds |-> IF r \in S THEN granted[r] + 1
                                               ELSE granted[r]]
    /\ runs' = [r \in RunIds |->
                 IF r \in S
                 THEN [runs[r] EXCEPT !.status = "running",
                                      !.attempts = @ + 1,
                                      !.lockedBy = granted[r] + 1,
                                      !.leaseExpiresAt = now + lease]
                 ELSE runs[r]]
    /\ UNCHANGED <<now, inline, connStatus, syncState>>

-----------------------------------------------------------------------------
(* What the holder of a lock token may do *)

\* Seeded fault: any token of the run is accepted.
OwnedByAnyToken(r, n) ==
    /\ runs[r].status = "running"
    /\ ~LeaseLapsed(r)
    /\ runs[r].lockedBy # Null

\* Seeded fault: the lease is not looked at.
OwnedAfterLease(r, n) ==
    /\ runs[r].status = "running"
    /\ runs[r].lockedBy # Null
    /\ runs[r].lockedBy = n

\* assertSyncRunOwnedByWorker, for the token of grant n of run r.
OwnedByWorker(r, n) ==
    /\ runs[r].status = "running"
    /\ ~LeaseLapsed(r)
    /\ runs[r].lockedBy # Null
    /\ runs[r].lockedBy = n

\* Seeded fault: the lease is replaced, not extended.
ReplacedLease(r) ==
    IF runs[r].leaseExpiresAt = Null THEN Null ELSE now + DefaultLease

\* refreshOwnedSyncRunLease.
RefreshedLease(r) ==
    IF runs[r].leaseExpiresAt = Null
    THEN Null
    ELSE LaterOf(runs[r].leaseExpiresAt, now + DefaultLease)

\* getSyncRunExecutionPlan and getProviderRuntimeAccessContextForRun.
ReadForRun(r, n) ==
    /\ OwnedByWorker(r, n)
    /\ runs' = [runs EXCEPT ![r].leaseExpiresAt = RefreshedLease(r)]
    /\ UNCHANGED <<now, granted, inline, connStatus, syncState>>

\* upsertSyncStateForRun; the watermark and the cursor are left out, the
\* writer is kept.
UpsertSyncState(r, n, o) ==
    /\ OwnedByWorker(r, n)
    /\ runs' = [runs EXCEPT ![r].leaseExpiresAt = RefreshedLease(r)]
    /\ syncState' = [syncState EXCEPT ![<<runs[r].conn, o>>] =
                                          [run |-> r, grant |-> n]]
    /\ UNCHANGED <<now, granted, inline, connStatus>>

\* What both reports do to the run: lock and lease are dropped.
Settled(run, status, at) ==
    [run EXCEPT !.status = status, !.endedAt = now, !.availableAt = at,
                !.lockedBy = Null, !.leaseExpiresAt = Null]

\* Seeded fault: completion clears availableAt with the lock.
MarkCompletedNoTime(r, n) ==
    /\ OwnedByWorker(r, n)
    /\ runs' = [runs EXCEPT ![r] = Settled(@, "success", Null)]
    /\ connStatus' = [connStatus EXCEPT ![runs[r].conn] = "active"]
    /\ UNCHANGED <<now, granted, inline, syncState>>

MarkCompleted(r, n) ==
    /\ OwnedByWorker(r, n)
    /\ runs' = [runs EXCEPT ![r] = Settled(@, "success", now)]
    /\ connStatus' = [connStatus EXCEPT ![runs[r].conn] = "active"]
    /\ UNCHANGED <<now, granted, inline, syncState>>

\* Seeded fault: one retry too many.
WillRetryOnce(r, retryable) == retryable /\ runs[r].attempts <= MaxAttempts

WillRetry(r, retryable) == retryable /\ runs[r].attempts < MaxAttempts

MarkFailed(r, n, retryable, delay) ==
    /\ OwnedByWorker(r, n)
    /\ runs' = [runs EXCEPT ![r] =
                   IF WillRetry(r, retryable)
                   THEN Settled(@, "queued", now + delay)
                   ELSE Settled(@, "failed", now)]
    /\ UNCHANGED <<now, granted, inline, connStatus, syncState>>

-----------------------------------------------------------------------------
(* The environment *)

\* The operator's PATCH of a connection.
SetConnectionStatus(c, s) ==
    /\ connStatus' = [connStatus EXCEPT ![c] = s]
    /\ UNCHANGED <<now, runs, granted, inline, syncState>>

Tick ==
    /\ now < MaxTime
    /\ now' = now + 1
    /\ UNCHANGED <<runs, granted, inline, connStatus, syncState>>

Init ==
    /\ now = 0
    /\ runs = [r \in RunIds |-> NoRun]
    /\ granted = [r \in RunIds |-> 0]
    /\ inline = {}
    /\ connStatus = [c \in Connections |-> "pending"]
    /\ syncState = [s \in Connections \X SourceObjects |-> Unwritten]

Next ==
    \/ \E r \in RunIds, c \in Connections, k \in Keys :
          \/ \E t \in PullTriggers : TriggerSync(r, c, t, k)
          \/ BeginIngest(r, c, k)
          \/ RefuseIngest(r, c, k)
    \/ \E r \in RunIds : FinishIngest(r) \/ AbortIngest(r)
    \/ \E S \in SUBSET RunIds, limit \in Limits, lease \in LeaseTimes :
          ClaimSyncRuns(S, limit, lease)
    \/ \E r \in RunIds : \E n \in 1 .. granted[r] :
          \/ ReadForRun(r, n)
          \/ \E o \in SourceObjects : UpsertSyncState(r, n, o)
          \/ MarkCompleted(r, n)
          \/ \E retryable \in BOOLEAN, delay \in RetryDelays :
                MarkFailed(r, n, retryable, delay)
    \/ \E c \in Connections, s \in PatchStatuses : SetConnectionStatus(c, s)
    \/ Tick

Spec == Init /\ [][Next]_vars

-----------------------------------------------------------------------------
(* Safety *)

\* The lock of a run belongs to its newest grant: whoever presents an older
\* token of the run is refused by assertSyncRunOwnedByWorker.  A lock is only
\* ever held together with a lease, so no worker's lock outlives its time.
LockIsNewestGrant ==
    \A r \in RunIds :
        runs[r].lockedBy # Null =>
            /\ runs[r].lockedBy = granted[r]
            /\ runs[r].status = "running"
            /\ runs[r].leaseExpiresAt # Null

\* The replay index of store.ts admits one run for a connection, trigger type
\* and idempotency key, whatever became of the first one.
OneRunPerKey ==
    \A q, r \in RunIds :
        /\ Created(q) /\ Created(r)
        /\ runs[q].conn = runs[r].conn
        /\ runs[q].trigger = runs[r].trigger
        /\ runs[q].key = runs[r].key
        => q = r

\* markSyncRunFailed puts a run back only within its attempt budget, counting
\* the grants that lapsed without a report: a waiting run was granted fewer
\* than maxAttempts times.
RetryBudget ==
    \A r \in RunIds : runs[r].status = "queued" => granted[r] < MaxAttempts

\* A caller that repeats its request gets the one run of its key, and that run
\* is given out within its budget, however often either is retried.
RunsAreSound == OneRunPerKey /\ RetryBudget

\* A run that succeeded or failed is never run, retried or reported again.
TerminalIsFinal ==
    [][\A r \in RunIds :
          runs[r].status \in {"success", "failed"} => runs'[r] = runs[r]]_vars

\* The sync state of a connection is never written by a grant of a run after
\* a later grant of that run wrote it: a worker that lost its lease cannot
\* overwrite the cursor of the worker that replaced it.
StateWritesInGrantOrder ==
    [][\A s \in Connections \X SourceObjects :
          syncState'[s].run = syncState[s].run =>
              syncState'[s].grant >= syncState[s].grant]_vars

\* refreshOwnedSyncRunLease extends: while one worker keeps the lock, no call
\* of it moves the end of its lease backwards, even when it was granted a
\* lease longer than the default.
LeaseNeverShortened ==
    [][\A r \in RunIds :
          /\ runs[r].lockedBy # Null
          /\ runs'[r].lockedBy = runs[r].lockedBy
          => runs'[r].leaseExpiresAt >= runs[r].leaseExpiresAt]_vars

\* A worker that calls again before its lease ends keeps its run: the lock
\* passes to another grant only at a time when the lease is over.
LockPassesAfterLease ==
    [][\A r \in RunIds :
          /\ runs[r].lockedBy # Null
          /\ runs'[r].lockedBy \notin {Null, runs[r].lockedBy}
          => runs[r].leaseExpiresAt <= now]_vars

\* A retry waits: a run whose last attempt was reported is granted again at
\* the earliest when the shortest delay has passed since that report.
RetryWaits ==
    [][\A r \in RunIds :
          /\ granted'[r] # granted[r]
          /\ runs[r].endedAt # Null
          => \E delay \in RetryDelays : now >= runs[r].endedAt + delay]_vars

\* A lease that was granted is the holder's until it is over: neither its own
\* calls nor another worker's claim cut it short.
LeaseIsHonoured == LeaseNeverShortened /\ LockPassesAfterLease

\* What a report decides stays decided: the end of a run for ever, a retry's
\* delay until it has passed.
ReportsAreKept == TerminalIsFinal /\ RetryWaits

\* Whatever calls are late or repeated, the lock of a run and the cursors
\* written under it belong to its newest grant.
GrantsAreFenced == []LockIsNewestGrant /\ StateWritesInGrantOrder

\* A worker keeps its run for the lease it was granted, and once the run is
\* another's nothing it still sends has an effect on the lock or the cursors.
LocksAreSound == GrantsAreFenced /\ LeaseIsHonoured

-----------------------------------------------------------------------------
(* Refinement: the table and the clock implement the abstract queue *)

PhaseOf(r) ==
    CASE runs[r].status = "absent"  -> "absent"
      [] runs[r].status = "queued"  -> "queued"
      [] runs[r].status = "success" -> "done"
      [] runs[r].status = "failed"  -> "dead"
      [] runs[r].status = "running" ->
            IF runs[r].leaseExpiresAt = Null THEN "inline"
            ELSE IF LeaseLapsed(r) THEN "lapsed" ELSE "held"

Queue == INSTANCE SyncQueue WITH
            Cells  <- Connections \X SourceObjects,
            phase  <- [r \in RunIds |-> PhaseOf(r)],
            grants <- granted,
            cell   <- syncState

\* Every behaviour of the run table, seen through PhaseOf, is one the abstract
\* queue allows.
ImplementsQueue == Queue!QueueSpec
=============================================================================
