--------------------------- MODULE SyncRunsProofs ---------------------------
(* Theorems about SyncRuns, for every value of its constants. *)
EXTENDS SyncRuns, TLAPS

(***************************************************************************)
(* The inductive invariant.  LockIsNewestGrant and RetryBudget speak of    *)
(* the lock, the lease and the grants; to carry them through a claim one   *)
(* needs that attempts counts grants, that lock and lease come and go      *)
(* together, that nothing was granted for a place not yet taken, and that  *)
(* a pushed run has neither lock nor lease.                                *)
(***************************************************************************)
RunShape(r) ==
    /\ runs[r].attempts = granted[r]
    /\ runs[r].lockedBy # Null =>
          /\ runs[r].lockedBy = granted[r]
          /\ runs[r].status = "running"
    /\ runs[r].lockedBy = Null <=> runs[r].leaseExpiresAt = Null
    /\ runs[r].status = "absent" => granted[r] = 0
    /\ runs[r].status = "queued" => granted[r] < MaxAttempts
    /\ r \in inline => runs[r].status = "running" /\ runs[r].lockedBy = Null

StateShape(s) ==
    syncState[s].run # Null => syncState[s].grant <= granted[syncState[s].run]

IInv ==
    /\ TypeOK
    /\ \A r \in RunIds : RunShape(r)
    /\ \A s \in Connections \X SourceObjects : StateShape(s)

LEMMA NoRunIsRun == NoRun \in Run /\ Unwritten \in Writer
<1>1. (CHOOSE c \in Connections : TRUE) \in Connections
  BY ConstantsAssumption
<1>2. (CHOOSE k \in Keys : TRUE) \in Keys
  BY ConstantsAssumption
<1> QED
  BY <1>1, <1>2 DEF NoRun, Run, Unwritten, Writer, OrNull, Null, Triggers,
                    RunStatuses

LEMMA InitIInv == Init => IInv
<1> SUFFICES ASSUME Init PROVE IInv
  OBVIOUS
<1>1. TypeOK
  BY NoRunIsRun DEF Init, TypeOK, ConnStatuses
<1>2. ASSUME NEW r \in RunIds PROVE RunShape(r)
  BY ConstantsAssumption DEF Init, RunShape, NoRun, Null
<1>3. ASSUME NEW s \in Connections \X SourceObjects PROVE StateShape(s)
  BY DEF Init, StateShape, Unwritten, Null
<1> QED
  BY <1>1, <1>2, <1>3 DEF IInv

LEMMA CreateIInv ==
    ASSUME IInv,
           NEW r \in RunIds, NEW c \in Connections, NEW t \in Triggers,
           NEW k \in Keys, NEW status \in {"queued", "running"},
           CreateSyncRun(r, c, t, k, status),
           NEW newInline \in SUBSET RunIds,
           inline' = newInline,
           newInline \in {inline, inline \cup {r}},
           newInline # inline => status = "running",
           UNCHANGED <<now, granted, connStatus, syncState>>
    PROVE  IInv'
<1>0. runs[r].status = "absent"
  <2>1. r \in Nat
    BY ConstantsAssumption
  <2> QED
    BY <2>1 DEF CreateSyncRun, NextPlace, Created
<1>1. NewRun(c, t, k, status) \in Run
  BY DEF NewRun, Run, OrNull, Null, RunStatuses, IInv, TypeOK
<1>2. TypeOK'
  BY <1>1 DEF IInv, TypeOK, CreateSyncRun
<1>3. ASSUME NEW q \in RunIds PROVE RunShape(q)'
  <2>1. CASE q = r
    BY <1>0, <2>1, ConstantsAssumption
       DEF IInv, TypeOK, CreateSyncRun, RunShape, NewRun, Null
  <2>2. CASE q # r
    BY <2>2 DEF IInv, TypeOK, CreateSyncRun, RunShape
  <2> QED
    BY <2>1, <2>2
<1>4. ASSUME NEW s \in Connections \X SourceObjects PROVE StateShape(s)'
  BY DEF IInv, StateShape
<1> QED
  BY <1>2, <1>3, <1>4 DEF IInv

LEMMA EndIngestIInv ==
    ASSUME IInv, NEW r \in RunIds, FinishIngest(r) \/ AbortIngest(r)
    PROVE  IInv'
<1>1. PICK new \in Run :
        /\ runs' = [runs EXCEPT ![r] = new]
        /\ new.status \in {"success", "failed"}
        /\ new.attempts = runs[r].attempts
        /\ new.lockedBy = runs[r].lockedBy
        /\ new.leaseExpiresAt = runs[r].leaseExpiresAt
  <2>0. runs[r] \in Run /\ now \in Nat
    BY DEF IInv, TypeOK
  <2>1. CASE FinishIngest(r)
    <3> DEFINE new == [runs[r] EXCEPT !.status = "success",
                                      !.endedAt = runs[r].availableAt]
    <3>1. new \in Run
      BY <2>0 DEF Run, RunStatuses, OrNull
    <3> QED
      BY <2>0, <2>1, <3>1 DEF FinishIngest, Run
  <2>2. CASE AbortIngest(r)
    <3> DEFINE new == [runs[r] EXCEPT !.status = "failed", !.endedAt = now,
                                      !.availableAt = now]
    <3>1. new \in Run
      BY <2>0 DEF Run, RunStatuses, OrNull
    <3> QED
      BY <2>0, <2>2, <3>1 DEF AbortIngest, Run
  <2> QED
    BY <2>1, <2>2
<1>2. /\ r \in inline /\ inline' = inline \ {r}
      /\ UNCHANGED <<now, granted, syncState>>
  BY DEF FinishIngest, AbortIngest
<1>3. connStatus' \in [Connections -> ConnStatuses]
  BY DEF IInv, TypeOK, FinishIngest, AbortIngest, ConnStatuses
<1>4. TypeOK'
  BY <1>1, <1>2, <1>3 DEF IInv, TypeOK
<1>5. ASSUME NEW q \in RunIds PROVE RunShape(q)'
  <2>1. CASE q = r
    BY <1>1, <1>2, <2>1 DEF IInv, TypeOK, RunShape
  <2>2. CASE q # r
    BY <1>1, <1>2, <2>2 DEF IInv, TypeOK, RunShape
  <2> QED
    BY <2>1, <2>2
<1>6. ASSUME NEW s \in Connections \X SourceObjects PROVE StateShape(s)'
  BY <1>2 DEF IInv, StateShape
<1> QED
  BY <1>4, <1>5, <1>6 DEF IInv

LEMMA ClaimIInv ==
    ASSUME IInv, NEW S \in SUBSET RunIds, NEW limit \in Limits,
           NEW lease \in LeaseTimes, ClaimSyncRuns(S, limit, lease)
    PROVE  IInv'
<1>0. \A r \in S : Claimable(r)
  BY DEF ClaimSyncRuns, Batch
<1>1. ASSUME NEW r \in S
      PROVE  /\ runs'[r] = [runs[r] EXCEPT !.status = "running",
                                           !.attempts = @ + 1,
                                           !.lockedBy = granted[r] + 1,
                                           !.leaseExpiresAt = now + lease]
             /\ granted'[r] = granted[r] + 1
  BY <1>1 DEF ClaimSyncRuns
<1>2. ASSUME NEW r \in RunIds \ S
      PROVE  runs'[r] = runs[r] /\ granted'[r] = granted[r]
  BY <1>2 DEF ClaimSyncRuns
<1>3. now + lease \in Nat /\ lease # 0
  BY ConstantsAssumption DEF IInv, TypeOK
<1>4. TypeOK'
  <2>1. ASSUME NEW r \in RunIds PROVE runs'[r] \in Run /\ granted'[r] \in Nat
    <3>1. CASE r \in S
      <4>1. /\ runs[r] \in Run /\ runs[r].attempts + 1 \in Nat
            /\ granted[r] + 1 \in Nat
        BY DEF IInv, TypeOK, Run
      <4> QED
        BY <1>1, <1>3, <3>1, <4>1 DEF Run, RunStatuses, OrNull
    <3>2. CASE r \notin S
      BY <1>2, <3>2 DEF IInv, TypeOK
    <3> QED
      BY <3>1, <3>2
  <2>2. runs' \in [RunIds -> Run] /\ granted' \in [RunIds -> Nat]
    BY <2>1 DEF ClaimSyncRuns
  <2> QED
    BY <2>2 DEF IInv, TypeOK, ClaimSyncRuns
<1>5. ASSUME NEW r \in RunIds PROVE RunShape(r)'
  <2>1. CASE r \in S
    <3>1. runs[r].status = "queued" \/ runs[r].leaseExpiresAt # Null
      BY <1>0, <2>1 DEF Claimable, LeaseLapsed
    <3>2. r \notin inline
      BY <3>1 DEF IInv, RunShape
    <3>3. /\ runs[r] \in Run /\ granted[r] \in Nat
          /\ runs[r].attempts = granted[r]
      BY DEF IInv, TypeOK, RunShape
    <3>4. /\ runs'[r].status = "running"
          /\ runs'[r].attempts = runs[r].attempts + 1
          /\ runs'[r].lockedBy = granted[r] + 1
          /\ runs'[r].leaseExpiresAt = now + lease
      BY <1>1, <2>1, <3>3 DEF Run
    <3>5. granted'[r] = granted[r] + 1 /\ r \notin inline'
      BY <1>1, <2>1, <3>2 DEF ClaimSyncRuns
    <3> QED
      BY <1>3, <3>3, <3>4, <3>5 DEF RunShape, Null
  <2>2. CASE r \notin S
    BY <1>2, <2>2 DEF IInv, RunShape, ClaimSyncRuns
  <2> QED
    BY <2>1, <2>2
<1>6. ASSUME NEW s \in Connections \X SourceObjects PROVE StateShape(s)'
  <2>1. syncState' = syncState /\ syncState[s] \in Writer
    BY DEF ClaimSyncRuns, IInv, TypeOK
  <2>2. ASSUME NEW r \in RunIds PROVE granted'[r] >= granted[r]
    <3>1. granted[r] \in Nat
      BY DEF IInv, TypeOK
    <3>2. granted'[r] = granted[r] + 1 \/ granted'[r] = granted[r]
      BY <1>1, <1>2
    <3> QED
      BY <3>1, <3>2
  <2>3. syncState[s].run # Null =>
            /\ syncState[s].run \in RunIds
            /\ syncState[s].grant <= granted[syncState[s].run]
    BY <2>1 DEF IInv, StateShape, Writer, OrNull
  <2> QED
    BY <1>4, <2>1, <2>2, <2>3 DEF IInv, TypeOK, StateShape, Writer
<1> QED
  BY <1>4, <1>5, <1>6 DEF IInv

LEMMA RefreshedLeaseType ==
    ASSUME TypeOK, NEW r \in RunIds
    PROVE  /\ RefreshedLease(r) \in OrNull(Nat)
           /\ RefreshedLease(r) = Null <=> runs[r].leaseExpiresAt = Null
           /\ RefreshedLease(r) >= runs[r].leaseExpiresAt
BY ConstantsAssumption
   DEF TypeOK, Run, RefreshedLease, LaterOf, OrNull, Null

LEMMA OwnerIsNewest ==
    ASSUME IInv, NEW r \in RunIds, NEW n, OwnedByWorker(r, n)
    PROVE  n = granted[r] /\ r \notin inline /\ runs[r].leaseExpiresAt # Null
BY DEF IInv, RunShape, OwnedByWorker

LEMMA ReadIInv ==
    ASSUME IInv, NEW r \in RunIds, NEW n \in 1 .. granted[r], ReadForRun(r, n)
    PROVE  IInv'
<1>1. TypeOK'
  BY RefreshedLeaseType DEF IInv, TypeOK, ReadForRun, Run
<1>2. ASSUME NEW q \in RunIds PROVE RunShape(q)'
  BY RefreshedLeaseType DEF IInv, TypeOK, ReadForRun, Run, RunShape
<1>3. ASSUME NEW s \in Connections \X SourceObjects PROVE StateShape(s)'
  BY DEF IInv, StateShape, ReadForRun
<1> QED
  BY <1>1, <1>2, <1>3 DEF IInv

LEMMA UpsertIInv ==
    ASSUME IInv, NEW r \in RunIds, NEW n \in 1 .. granted[r],
           NEW o \in SourceObjects, UpsertSyncState(r, n, o)
    PROVE  IInv'
<1>0. <<runs[r].conn, o>> \in Connections \X SourceObjects
  BY DEF IInv, TypeOK, Run
<1>1. TypeOK'
  <2>1. [run |-> r, grant |-> n] \in Writer
    BY DEF IInv, TypeOK, Writer, OrNull
  <2> QED
    BY <2>1, RefreshedLeaseType DEF IInv, TypeOK, UpsertSyncState, Run
<1>2. ASSUME NEW q \in RunIds PROVE RunShape(q)'
  BY RefreshedLeaseType DEF IInv, TypeOK, UpsertSyncState, Run, RunShape
<1>3. ASSUME NEW s \in Connections \X SourceObjects PROVE StateShape(s)'
  <2>1. CASE s = <<runs[r].conn, o>>
    BY <1>0, <2>1 DEF IInv, TypeOK, StateShape, UpsertSyncState
  <2>2. CASE s # <<runs[r].conn, o>>
    BY <2>2 DEF IInv, TypeOK, StateShape, UpsertSyncState
  <2> QED
    BY <2>1, <2>2
<1> QED
  BY <1>1, <1>2, <1>3 DEF IInv

LEMMA SettledRun ==
    ASSUME TypeOK, NEW run \in Run, NEW status \in RunStatuses, NEW at \in Nat
    PROVE  LET done == Settled(run, status, at) IN
           /\ done \in Run
           /\ done.status = status
           /\ done.attempts = run.attempts
           /\ done.lockedBy = Null
           /\ done.leaseExpiresAt = Null
BY DEF TypeOK, Run, Settled, OrNull, Null

\* A report of a run's owner: the run is settled, nothing else of the table or
\* of the sync states changes.
LEMMA SettleIInv ==
    ASSUME IInv, NEW r \in RunIds, r \notin inline,
           NEW status \in {"queued", "success", "failed"}, NEW at \in Nat,
           status = "queued" => runs[r].attempts < MaxAttempts,
           runs' = [runs EXCEPT ![r] = Settled(@, status, at)],
           connStatus' \in [Connections -> ConnStatuses],
           UNCHANGED <<now, granted, inline, syncState>>
    PROVE  IInv'
<1>1. /\ runs[r] \in Run /\ runs[r].attempts = granted[r]
      /\ granted[r] \in Nat /\ status \in RunStatuses
  BY DEF IInv, TypeOK, RunShape, RunStatuses
<1>2. LET done == Settled(runs[r], status, at) IN
      /\ runs' = [runs EXCEPT ![r] = done]
      /\ done \in Run
      /\ done.status = status
      /\ done.attempts = granted[r]
      /\ done.lockedBy = Null
      /\ done.leaseExpiresAt = Null
  BY <1>1, SettledRun DEF IInv
<1>3. TypeOK'
  BY <1>2 DEF IInv, TypeOK
<1>4. ASSUME NEW q \in RunIds PROVE RunShape(q)'
  <2>1. CASE q = r
    BY <1>1, <1>2, <2>1 DEF IInv, TypeOK, RunShape
  <2>2. CASE q # r
    BY <1>2, <2>2 DEF IInv, TypeOK, RunShape
  <2> QED
    BY <2>1, <2>2
<1>5. ASSUME NEW s \in Connections \X SourceObjects PROVE StateShape(s)'
  BY DEF IInv, StateShape
<1> QED
  BY <1>3, <1>4, <1>5 DEF IInv

LEMMA ReportIInv ==
    ASSUME IInv, NEW r \in RunIds, NEW n \in 1 .. granted[r],
           \/ MarkCompleted(r, n)
           \/ \E retryable \in BOOLEAN, delay \in RetryDelays :
                 MarkFailed(r, n, retryable, delay)
    PROVE  IInv'
<1>0. r \notin inline
  BY OwnerIsNewest DEF MarkCompleted, MarkFailed
<1>1. now \in Nat /\ connStatus \in [Connections -> ConnStatuses]
  BY DEF IInv, TypeOK
<1>2. CASE MarkCompleted(r, n)
  <2>1. connStatus' \in [Connections -> ConnStatuses]
    BY <1>1, <1>2 DEF MarkCompleted, ConnStatuses
  <2> QED
    BY <1>0, <1>1, <1>2, <2>1, SettleIInv DEF MarkCompleted
<1>3. ASSUME NEW retryable \in BOOLEAN, NEW delay \in RetryDelays,
             MarkFailed(r, n, retryable, delay)
      PROVE  IInv'
  <2>0. now + delay \in Nat
    BY <1>1, ConstantsAssumption
  <2>1. connStatus' \in [Connections -> ConnStatuses]
    BY <1>1, <1>3 DEF MarkFailed
  <2>2. CASE WillRetry(r, retryable)
    <3>1. /\ runs' = [runs EXCEPT ![r] = Settled(@, "queued", now + delay)]
          /\ runs[r].attempts < MaxAttempts
      BY <1>3, <2>2 DEF MarkFailed, WillRetry
    <3> QED
      BY <1>0, <1>3, <2>0, <2>1, <3>1, SettleIInv DEF MarkFailed
  <2>3. CASE ~WillRetry(r, retryable)
    <3>1. runs' = [runs EXCEPT ![r] = Settled(@, "failed", now)]
      BY <1>3, <2>3 DEF MarkFailed
    <3> QED
      BY <1>0, <1>1, <1>3, <2>1, <3>1, SettleIInv DEF MarkFailed
  <2> QED
    BY <2>2, <2>3
<1> QED
  BY <1>2, <1>3

LEMMA NextIInv == IInv /\ [Next]_vars => IInv'
<1> SUFFICES ASSUME IInv, [Next]_vars PROVE IInv'
  OBVIOUS
<1>1. ASSUME NEW r \in RunIds, NEW c \in Connections, NEW k \in Keys,
             \/ \E t \in PullTriggers : TriggerSync(r, c, t, k)
             \/ BeginIngest(r, c, k)
             \/ RefuseIngest(r, c, k)
      PROVE  IInv'
  <2>1. ASSUME NEW t \in PullTriggers, TriggerSync(r, c, t, k) PROVE IInv'
    <3>1. t \in Triggers /\ inline \in SUBSET RunIds
      BY DEF Triggers, IInv, TypeOK
    <3>2. /\ CreateSyncRun(r, c, t, k, "queued")
          /\ UNCHANGED <<now, granted, inline, connStatus, syncState>>
      BY <2>1 DEF TriggerSync
    <3> QED
      BY <3>1, <3>2, CreateIInv
  <2>2. CASE BeginIngest(r, c, k) \/ RefuseIngest(r, c, k)
    <3>1. "webhook" \in Triggers /\ inline \in SUBSET RunIds
      BY DEF Triggers, IInv, TypeOK
    <3>2. /\ CreateSyncRun(r, c, "webhook", k, "running")
          /\ inline' \in {inline, inline \cup {r}}
          /\ inline' \in SUBSET RunIds
          /\ UNCHANGED <<now, granted, connStatus, syncState>>
      BY <2>2, <3>1 DEF BeginIngest, RefuseIngest
    <3> QED
      BY <3>1, <3>2, CreateIInv
  <2> QED
    BY <1>1, <2>1, <2>2
<1>2. ASSUME NEW c \in Connections, NEW s \in PatchStatuses,
             SetConnectionStatus(c, s)
      PROVE  IInv'
  <2>1. s \in ConnStatuses
    BY ConstantsAssumption DEF ConnStatuses
  <2> QED
    BY <1>2, <2>1
       DEF SetConnectionStatus, IInv, TypeOK, RunShape, StateShape
<1>3. CASE Tick
  BY <1>3 DEF Tick, IInv, TypeOK, RunShape, StateShape
<1>4. CASE UNCHANGED vars
  BY <1>4 DEF vars, IInv, TypeOK, RunShape, StateShape
<1> QED
  BY <1>1, <1>2, <1>3, <1>4, EndIngestIInv, ClaimIInv, ReadIInv, UpsertIInv,
     ReportIInv
  DEF Next

\* IInv holds in every reachable state.
THEOREM Invariance == Spec => []IInv
BY InitIInv, NextIInv, PTL DEF Spec

\* Every reachable state of the run table, the clock and the sync states is
\* well typed, whatever the connections, callers, leases and delays.
THEOREM TypeCorrect == Spec => []TypeOK
<1>1. IInv => TypeOK
  BY DEF IInv
<1> QED
  BY <1>1, Invariance, PTL

\* The lock and budget invariants, from the inductive one.
THEOREM LockSafety == Spec => []LockIsNewestGrant
<1>1. IInv => LockIsNewestGrant
  BY DEF IInv, RunShape, LockIsNewestGrant
<1> QED
  BY <1>1, Invariance, PTL

THEOREM BudgetSafety == Spec => []RetryBudget
<1>1. IInv => RetryBudget
  BY DEF IInv, RunShape, RetryBudget
<1> QED
  BY <1>1, Invariance, PTL

-----------------------------------------------------------------------------
(***************************************************************************)
(* What one step can do to one run.  Every property of steps below is a    *)
(* case analysis over these six.                                           *)
(***************************************************************************)
Untouched(r) == runs'[r] = runs[r] /\ granted'[r] = granted[r]

Placed(r) ==
    /\ runs[r].status = "absent"
    /\ runs'[r].status \in {"queued", "running"}
    /\ runs'[r].lockedBy = Null /\ runs'[r].leaseExpiresAt = Null
    /\ granted'[r] = granted[r]

Ended(r) ==
    /\ r \in inline
    /\ runs'[r].status \in {"success", "failed"}
    /\ granted'[r] = granted[r]

Claimed(r) ==
    /\ Claimable(r)
    /\ granted'[r] = granted[r] + 1
    /\ runs'[r].status = "running"
    /\ runs'[r].lockedBy = granted[r] + 1
    /\ runs'[r].leaseExpiresAt > now

Refreshed(r) ==
    /\ OwnedByWorker(r, granted[r])
    /\ runs'[r].status = "running"
    /\ runs'[r].lockedBy = runs[r].lockedBy
    /\ runs'[r].leaseExpiresAt = RefreshedLease(r)
    /\ granted'[r] = granted[r]

Reported(r) ==
    /\ OwnedByWorker(r, granted[r])
    /\ \/ runs'[r].status \in {"success", "failed"}
       \/ runs'[r].status = "queued" /\ granted[r] < MaxAttempts
    /\ runs'[r].lockedBy = Null
    /\ granted'[r] = granted[r]

RunStep(r) ==
    \/ Untouched(r) \/ Placed(r) \/ Ended(r)
    \/ Claimed(r) \/ Refreshed(r) \/ Reported(r)

LEMMA CreateStep ==
    ASSUME IInv, NEW r \in RunIds, NEW c \in Connections, NEW t, NEW k,
           NEW status \in {"queued", "running"},
           CreateSyncRun(r, c, t, k, status), UNCHANGED granted
    PROVE  Placed(r) /\ \A q \in RunIds \ {r} : Untouched(q)
<1>1. runs[r].status = "absent"
  <2>1. r \in Nat
    BY ConstantsAssumption
  <2> QED
    BY <2>1 DEF CreateSyncRun, NextPlace, Created
<1> QED
  BY <1>1 DEF CreateSyncRun, NewRun, Placed, Untouched, IInv, TypeOK

LEMMA ClaimStep ==
    ASSUME IInv, NEW S \in SUBSET RunIds, NEW limit \in Limits,
           NEW lease \in LeaseTimes, ClaimSyncRuns(S, limit, lease)
    PROVE  /\ \A r \in S : Claimed(r)
           /\ \A r \in RunIds \ S : Untouched(r)
<1>1. \A r \in S : Claimable(r)
  BY DEF ClaimSyncRuns, Batch
<1>2. now + lease > now
  BY ConstantsAssumption DEF IInv, TypeOK
<1>3. ASSUME NEW r \in S PROVE Claimed(r)
  <2>1. /\ runs[r] \in Run
        /\ runs'[r] = [runs[r] EXCEPT !.status = "running",
                                      !.attempts = @ + 1,
                                      !.lockedBy = granted[r] + 1,
                                      !.leaseExpiresAt = now + lease]
        /\ granted'[r] = granted[r] + 1
    BY <1>3 DEF ClaimSyncRuns, IInv, TypeOK
  <2> QED
    BY <1>1, <1>2, <2>1 DEF Claimed, Run
<1>4. ASSUME NEW r \in RunIds \ S PROVE Untouched(r)
  BY <1>4 DEF ClaimSyncRuns, Untouched
<1> QED
  BY <1>3, <1>4

LEMMA WorkerStep ==
    ASSUME IInv, NEW r \in RunIds, NEW n \in 1 .. granted[r]
    PROVE  /\ \/ ReadForRun(r, n)
              \/ \E o \in SourceObjects : UpsertSyncState(r, n, o)
              => Refreshed(r) /\ \A q \in RunIds \ {r} : Untouched(q)
           /\ \/ MarkCompleted(r, n)
              \/ \E retryable \in BOOLEAN, delay \in RetryDelays :
                    MarkFailed(r, n, retryable, delay)
              => Reported(r) /\ \A q \in RunIds \ {r} : Untouched(q)
<1>0. /\ runs \in [RunIds -> Run] /\ runs[r] \in Run
      /\ runs[r].attempts = granted[r] /\ now \in Nat
  BY DEF IInv, TypeOK, RunShape
<1>1. OwnedByWorker(r, n) => n = granted[r] /\ runs[r].status = "running"
  BY OwnerIsNewest DEF OwnedByWorker
<1>2. ASSUME \/ ReadForRun(r, n)
             \/ \E o \in SourceObjects : UpsertSyncState(r, n, o)
      PROVE  Refreshed(r) /\ \A q \in RunIds \ {r} : Untouched(q)
  <2>1. /\ OwnedByWorker(r, n)
        /\ runs' = [runs EXCEPT ![r].leaseExpiresAt = RefreshedLease(r)]
        /\ UNCHANGED granted
    BY <1>2 DEF ReadForRun, UpsertSyncState
  <2> QED
    BY <1>0, <1>1, <2>1 DEF Refreshed, Untouched, Run
<1>3. ASSUME NEW status \in RunStatuses, NEW at \in Nat,
             runs' = [runs EXCEPT ![r] = Settled(@, status, at)],
             OwnedByWorker(r, n), UNCHANGED granted,
             \/ status \in {"success", "failed"}
             \/ status = "queued" /\ granted[r] < MaxAttempts
      PROVE  Reported(r) /\ \A q \in RunIds \ {r} : Untouched(q)
  <2>1. runs'[r].status = status /\ runs'[r].lockedBy = Null
    BY <1>0, <1>3, SettledRun DEF IInv
  <2> QED
    BY <1>0, <1>1, <1>3, <2>1 DEF Reported, Untouched
<1>4. MarkCompleted(r, n) =>
          Reported(r) /\ \A q \in RunIds \ {r} : Untouched(q)
  BY <1>0, <1>3 DEF MarkCompleted, RunStatuses
<1>5. ASSUME NEW retryable \in BOOLEAN, NEW delay \in RetryDelays,
             MarkFailed(r, n, retryable, delay)
      PROVE  Reported(r) /\ \A q \in RunIds \ {r} : Untouched(q)
  <2>1. now + delay \in Nat
    BY <1>0, ConstantsAssumption
  <2>2. CASE WillRetry(r, retryable)
    BY <1>0, <1>3, <1>5, <2>1, <2>2 DEF MarkFailed, WillRetry, RunStatuses
  <2>3. CASE ~WillRetry(r, retryable)
    BY <1>0, <1>3, <1>5, <2>3 DEF MarkFailed, RunStatuses
  <2> QED
    BY <2>2, <2>3
<1> QED
  BY <1>2, <1>4, <1>5

LEMMA EndIngestStep ==
    ASSUME IInv, NEW r \in RunIds, FinishIngest(r) \/ AbortIngest(r)
    PROVE  Ended(r) /\ \A q \in RunIds \ {r} : Untouched(q)
<1>1. runs \in [RunIds -> Run] /\ runs[r] \in Run
  BY DEF IInv, TypeOK
<1>2. CASE FinishIngest(r)
  BY <1>1, <1>2 DEF FinishIngest, Ended, Untouched, Run
<1>3. CASE AbortIngest(r)
  BY <1>1, <1>3 DEF AbortIngest, Ended, Untouched, Run
<1> QED
  BY <1>2, <1>3

LEMMA NextRunStep ==
    ASSUME IInv, [Next]_vars, NEW r \in RunIds
    PROVE  RunStep(r)
<1>1. ASSUME NEW q \in RunIds, NEW c \in Connections, NEW k \in Keys,
             \/ \E t \in PullTriggers : TriggerSync(q, c, t, k)
             \/ BeginIngest(q, c, k)
             \/ RefuseIngest(q, c, k)
      PROVE  RunStep(r)
  <2>1. \/ \E t \in PullTriggers : CreateSyncRun(q, c, t, k, "queued")
        \/ CreateSyncRun(q, c, "webhook", k, "running")
    BY <1>1 DEF TriggerSync, BeginIngest, RefuseIngest
  <2>2. UNCHANGED granted
    BY <1>1 DEF TriggerSync, BeginIngest, RefuseIngest
  <2> QED
    BY <2>1, <2>2, CreateStep DEF RunStep
<1>2. ASSUME NEW q \in RunIds, NEW n \in 1 .. granted[q],
             \/ ReadForRun(q, n)
             \/ \E o \in SourceObjects : UpsertSyncState(q, n, o)
             \/ MarkCompleted(q, n)
             \/ \E retryable \in BOOLEAN, delay \in RetryDelays :
                   MarkFailed(q, n, retryable, delay)
      PROVE  RunStep(r)
  BY <1>2, WorkerStep DEF RunStep
<1>3. ASSUME NEW S \in SUBSET RunIds, NEW limit \in Limits,
             NEW lease \in LeaseTimes, ClaimSyncRuns(S, limit, lease)
      PROVE  RunStep(r)
  BY <1>3, ClaimStep DEF RunStep
<1>4. ASSUME NEW q \in RunIds, FinishIngest(q) \/ AbortIngest(q)
      PROVE  RunStep(r)
  BY <1>4, EndIngestStep DEF RunStep
<1>5. ASSUME NEW c \in Connections, NEW s \in PatchStatuses,
             SetConnectionStatus(c, s)
      PROVE  RunStep(r)
  BY <1>5 DEF SetConnectionStatus, RunStep, Untouched
<1>6. CASE Tick \/ UNCHANGED vars
  BY <1>6 DEF Tick, vars, RunStep, Untouched
<1> QED
  BY <1>1, <1>2, <1>3, <1>4, <1>5, <1>6 DEF Next

\* A finished run is never run, retried or reported again.
THEOREM FinishedRunsStay == Spec => TerminalIsFinal
<1>1. ASSUME IInv, [Next]_vars, NEW r \in RunIds,
             runs[r].status \in {"success", "failed"}
      PROVE  runs'[r] = runs[r]
  <2>1. RunStep(r)
    BY <1>1, NextRunStep
  <2>2. RunShape(r)
    BY <1>1 DEF IInv
  <2> QED
    BY <1>1, <2>1, <2>2
       DEF RunStep, Untouched, Placed, Ended, Claimed, Claimable, Refreshed,
           Reported, OwnedByWorker, RunShape
<1>2. IInv /\ [Next]_vars =>
        [\A r \in RunIds :
           runs[r].status \in {"success", "failed"} => runs'[r] = runs[r]]_vars
  BY <1>1
<1> QED
  BY <1>2, Invariance, PTL DEF Spec, TerminalIsFinal

\* Refreshing extends a lease and never shortens it, whatever lease was granted.
THEOREM LeaseGrows == Spec => LeaseNeverShortened
<1>1. ASSUME IInv, [Next]_vars, NEW r \in RunIds,
             runs[r].lockedBy # Null, runs'[r].lockedBy = runs[r].lockedBy
      PROVE  runs'[r].leaseExpiresAt >= runs[r].leaseExpiresAt
  <2>1. RunStep(r) /\ RunShape(r)
    BY <1>1, NextRunStep DEF IInv
  <2>2. /\ runs[r].leaseExpiresAt \in Int
        /\ RefreshedLease(r) >= runs[r].leaseExpiresAt
        /\ granted[r] \in Nat
    BY <1>1, RefreshedLeaseType DEF IInv, TypeOK, Run, OrNull, Null
  <2>3. ~Placed(r) /\ ~Claimed(r) /\ ~Reported(r) /\ ~Ended(r)
    BY <1>1, <2>1, <2>2 DEF Placed, Claimed, Reported, Ended, RunShape, Null
  <2>4. CASE Untouched(r)
    BY <2>2, <2>4 DEF Untouched
  <2>5. CASE Refreshed(r)
    BY <2>2, <2>5 DEF Refreshed
  <2> QED
    BY <2>1, <2>3, <2>4, <2>5 DEF RunStep
<1>2. IInv /\ [Next]_vars =>
        [\A r \in RunIds :
           /\ runs[r].lockedBy # Null
           /\ runs'[r].lockedBy = runs[r].lockedBy
           => runs'[r].leaseExpiresAt >= runs[r].leaseExpiresAt]_vars
  BY <1>1
<1> QED
  BY <1>2, Invariance, PTL DEF Spec, LeaseNeverShortened

\* No worker loses its lock to another one before its lease is over.
THEOREM LockNotStolen == Spec => LockPassesAfterLease
<1>1. ASSUME IInv, [Next]_vars, NEW r \in RunIds,
             runs[r].lockedBy # Null,
             runs'[r].lockedBy \notin {Null, runs[r].lockedBy}
      PROVE  runs[r].leaseExpiresAt <= now
  <2>1. RunStep(r) /\ RunShape(r)
    BY <1>1, NextRunStep DEF IInv
  <2>2. ~Placed(r) /\ ~Refreshed(r) /\ ~Reported(r) /\ ~Untouched(r)
    BY <1>1 DEF Placed, Refreshed, Reported, Untouched
  <2>3. ~Ended(r)
    BY <1>1, <2>1 DEF Ended, RunShape
  <2> QED
    BY <1>1, <2>1, <2>2, <2>3
       DEF RunStep, Claimed, Claimable, LeaseLapsed, RunShape
<1>2. IInv /\ [Next]_vars =>
        [\A r \in RunIds :
           /\ runs[r].lockedBy # Null
           /\ runs'[r].lockedBy \notin {Null, runs[r].lockedBy}
           => runs[r].leaseExpiresAt <= now]_vars
  BY <1>1
<1> QED
  BY <1>2, Invariance, PTL DEF Spec, LockPassesAfterLease

\* A worker that lost its run cannot overwrite the sync state its successor
\* wrote: the writer of a sync state is the newest grant of its run.
THEOREM CursorFencing == Spec => StateWritesInGrantOrder
<1>1. ASSUME IInv, [Next]_vars, NEW s \in Connections \X SourceObjects,
             syncState'[s].run = syncState[s].run
      PROVE  syncState'[s].grant >= syncState[s].grant
  <2>1. syncState[s] \in Writer /\ syncState[s].grant \in Nat
    BY <1>1 DEF IInv, TypeOK, Writer
  <2>2. ASSUME NEW r \in RunIds, NEW n \in 1 .. granted[r],
               NEW o \in SourceObjects, UpsertSyncState(r, n, o)
        PROVE  syncState'[s].grant >= syncState[s].grant
    <3>1. CASE s = <<runs[r].conn, o>>
      <4>1. syncState'[s] = [run |-> r, grant |-> n]
        BY <1>1, <2>2, <3>1 DEF UpsertSyncState, IInv, TypeOK
      <4>2. n = granted[r] /\ r # Null
        BY <1>1, <2>2, OwnerIsNewest, ConstantsAssumption
           DEF UpsertSyncState, Null
      <4>3. syncState[s].grant <= granted[r]
        BY <1>1, <4>1, <4>2 DEF IInv, StateShape
      <4> QED
        BY <4>1, <4>2, <4>3
    <3>2. CASE s # <<runs[r].conn, o>>
      BY <1>1, <2>1, <2>2, <3>2 DEF UpsertSyncState, IInv, TypeOK
    <3> QED
      BY <3>1, <3>2
  <2>3. CASE UNCHANGED syncState
    BY <2>1, <2>3
  <2> QED
    BY <1>1, <2>2, <2>3
       DEF Next, vars, TriggerSync, BeginIngest, RefuseIngest, FinishIngest,
           AbortIngest, ClaimSyncRuns, ReadForRun, MarkCompleted, MarkFailed,
           SetConnectionStatus, Tick
<1>2. IInv /\ [Next]_vars =>
        [\A s \in Connections \X SourceObjects :
           syncState'[s].run = syncState[s].run =>
             syncState'[s].grant >= syncState[s].grant]_vars
  BY <1>1
<1> QED
  BY <1>2, Invariance, PTL DEF Spec, StateWritesInGrantOrder

-----------------------------------------------------------------------------
(* Refinement: SyncRuns implements SyncQueue *)

Phase == [r \in RunIds |-> PhaseOf(r)]

LEMMA SamePhase ==
    ASSUME NEW r \in RunIds, runs'[r] = runs[r], now' = now
    PROVE  PhaseOf(r)' = PhaseOf(r)
BY DEF PhaseOf, LeaseLapsed

\* One run changes its phase and time stands still.
LEMMA OnePhase ==
    ASSUME NEW r \in RunIds, now' = now, NEW p, PhaseOf(r)' = p,
           \A q \in RunIds \ {r} : Untouched(q)
    PROVE  Phase' = [Phase EXCEPT ![r] = p]
BY SamePhase DEF Phase, Untouched

LEMMA OwnedIsHeld ==
    ASSUME IInv, NEW r \in RunIds, NEW n, OwnedByWorker(r, n)
    PROVE  PhaseOf(r) = "held" /\ n = granted[r]
BY OwnerIsNewest DEF OwnedByWorker, PhaseOf

LEMMA RefreshKeepsPhase ==
    ASSUME IInv, NEW r \in RunIds, Refreshed(r), now' = now
    PROVE  PhaseOf(r)' = "held" /\ PhaseOf(r) = "held"
<1>1. /\ PhaseOf(r) = "held" /\ runs[r].leaseExpiresAt # Null
      /\ ~LeaseLapsed(r) /\ now \in Nat
      /\ runs[r].leaseExpiresAt \in OrNull(Nat)
  BY OwnedIsHeld, OwnerIsNewest DEF Refreshed, OwnedByWorker, IInv, TypeOK, Run
<1>2. /\ RefreshedLease(r) \in OrNull(Nat) /\ RefreshedLease(r) # Null
      /\ RefreshedLease(r) >= runs[r].leaseExpiresAt
  BY <1>1, RefreshedLeaseType DEF IInv
<1>3. RefreshedLease(r) > now
  BY <1>1, <1>2 DEF LeaseLapsed, OrNull, Null
<1>4. /\ runs'[r].leaseExpiresAt = RefreshedLease(r)
      /\ runs'[r].status = "running"
  BY <1>1 DEF Refreshed, OwnedByWorker, PhaseOf, IInv, TypeOK, Run
<1>5. LeaseLapsed(r)' = FALSE /\ runs'[r].leaseExpiresAt # Null
  BY <1>2, <1>3, <1>4 DEF LeaseLapsed, OrNull, Null, IInv, TypeOK
<1> QED
  BY <1>1, <1>4, <1>5 DEF PhaseOf

LEMMA CreateRefines ==
    ASSUME IInv, NEW r \in RunIds, NEW c \in Connections, NEW k \in Keys,
           \/ \E t \in PullTriggers : TriggerSync(r, c, t, k)
           \/ BeginIngest(r, c, k)
           \/ RefuseIngest(r, c, k)
    PROVE  Queue!QueueNext
<1>1. /\ \/ \E t \in PullTriggers : CreateSyncRun(r, c, t, k, "queued")
         \/ CreateSyncRun(r, c, "webhook", k, "running")
      /\ UNCHANGED <<now, granted, syncState>>
  BY DEF TriggerSync, BeginIngest, RefuseIngest
<1>2. Placed(r) /\ \A q \in RunIds \ {r} : Untouched(q)
  BY <1>1, CreateStep
<1>3. PhaseOf(r) = "absent" /\ PhaseOf(r)' \in {"queued", "inline"}
  BY <1>2 DEF Placed, PhaseOf
<1>4. Phase' = [Phase EXCEPT ![r] = PhaseOf(r)']
  BY <1>1, <1>2, OnePhase
<1>5. Queue!Submit(r)
  BY <1>1, <1>3, <1>4 DEF Queue!Submit, Phase
<1> QED
  BY <1>5 DEF Queue!QueueNext

LEMMA ClaimRefines ==
    ASSUME IInv, NEW S \in SUBSET RunIds, NEW limit \in Limits,
           NEW lease \in LeaseTimes, ClaimSyncRuns(S, limit, lease)
    PROVE  Queue!QueueNext
<1>1. /\ \A r \in S : Claimed(r)
      /\ \A r \in RunIds \ S : Untouched(r)
      /\ UNCHANGED <<now, syncState>>
  BY ClaimStep DEF ClaimSyncRuns
<1>2. ASSUME NEW r \in S
      PROVE  PhaseOf(r) \in {"queued", "lapsed"} /\ PhaseOf(r)' = "held"
  <2>1. Claimed(r) /\ now' = now /\ now \in Nat
    BY <1>1 DEF IInv, TypeOK
  <2>2. PhaseOf(r) \in {"queued", "lapsed"}
    BY <2>1 DEF Claimed, Claimable, LeaseLapsed, PhaseOf
  <2>3. /\ runs'[r].leaseExpiresAt > now /\ runs'[r].status = "running"
        /\ runs'[r].leaseExpiresAt \in OrNull(Nat)
    <3>1. TypeOK'
      BY ClaimIInv DEF IInv
    <3> QED
      BY <2>1, <3>1 DEF Claimed, TypeOK, Run
  <2>4. LeaseLapsed(r)' = FALSE /\ runs'[r].leaseExpiresAt # Null
    BY <2>1, <2>3 DEF LeaseLapsed, OrNull, Null
  <2> QED
    BY <2>2, <2>3, <2>4 DEF PhaseOf
<1>3. Phase' = [r \in RunIds |-> IF r \in S THEN "held" ELSE Phase[r]]
  BY <1>1, <1>2, SamePhase DEF Phase, Untouched
<1>4. granted' = [r \in RunIds |-> IF r \in S THEN granted[r] + 1
                                              ELSE granted[r]]
  BY DEF ClaimSyncRuns
<1>5. Queue!Grant(S)
  BY <1>1, <1>2, <1>3, <1>4 DEF Queue!Grant, Phase
<1> QED
  BY <1>5 DEF Queue!QueueNext

LEMMA EndIngestRefines ==
    ASSUME IInv, NEW r \in RunIds, FinishIngest(r) \/ AbortIngest(r)
    PROVE  Queue!QueueNext
<1>1. Ended(r) /\ \A q \in RunIds \ {r} : Untouched(q)
  BY EndIngestStep
<1>2. UNCHANGED <<now, granted, syncState>>
  BY DEF FinishIngest, AbortIngest
<1>3. PhaseOf(r) = "inline" /\ PhaseOf(r)' \in {"done", "dead"}
  BY <1>1 DEF Ended, PhaseOf, IInv, RunShape
<1>4. Phase' = [Phase EXCEPT ![r] = PhaseOf(r)']
  BY <1>1, <1>2, OnePhase
<1>5. Queue!FinishInline(r, PhaseOf(r)')
  BY <1>2, <1>3, <1>4 DEF Queue!FinishInline, Phase
<1> QED
  BY <1>3, <1>5 DEF Queue!QueueNext, Queue!Phases

LEMMA ReportRefines ==
    ASSUME IInv, NEW r \in RunIds, NEW n \in 1 .. granted[r],
           \/ MarkCompleted(r, n)
           \/ \E retryable \in BOOLEAN, delay \in RetryDelays :
                 MarkFailed(r, n, retryable, delay)
    PROVE  Queue!QueueNext
<1>1. Reported(r) /\ \A q \in RunIds \ {r} : Untouched(q)
  BY WorkerStep
<1>2. UNCHANGED <<now, granted, syncState>>
  BY DEF MarkCompleted, MarkFailed
<1>3. /\ PhaseOf(r) = "held"
      /\ \/ PhaseOf(r)' \in {"done", "dead"}
         \/ PhaseOf(r)' = "queued" /\ granted[r] < MaxAttempts
  BY <1>1, OwnedIsHeld DEF Reported, PhaseOf
<1>4. Phase' = [Phase EXCEPT ![r] = PhaseOf(r)']
  BY <1>1, <1>2, OnePhase
<1>5. Queue!Report(r, PhaseOf(r)')
  BY <1>2, <1>3, <1>4 DEF Queue!Report, Phase
<1> QED
  BY <1>3, <1>5 DEF Queue!QueueNext, Queue!Phases

LEMMA ReadRefines ==
    ASSUME IInv, NEW r \in RunIds, NEW n \in 1 .. granted[r], ReadForRun(r, n)
    PROVE  UNCHANGED <<Phase, granted, syncState>>
<1>1. /\ Refreshed(r) /\ \A q \in RunIds \ {r} : Untouched(q)
      /\ UNCHANGED <<now, granted, syncState>>
  BY WorkerStep DEF ReadForRun
<1>2. PhaseOf(r)' = PhaseOf(r)
  BY <1>1, RefreshKeepsPhase
<1>3. Phase' = Phase
  BY <1>1, <1>2, SamePhase DEF Phase, Untouched
<1> QED
  BY <1>1, <1>3

LEMMA UpsertRefines ==
    ASSUME IInv, NEW r \in RunIds, NEW n \in 1 .. granted[r],
           NEW o \in SourceObjects, UpsertSyncState(r, n, o)
    PROVE  Queue!QueueNext
<1>1. /\ Refreshed(r) /\ \A q \in RunIds \ {r} : Untouched(q)
      /\ UNCHANGED <<now, granted>>
  BY WorkerStep DEF UpsertSyncState
<1>2. PhaseOf(r)' = PhaseOf(r) /\ PhaseOf(r) = "held"
  BY <1>1, RefreshKeepsPhase
<1>3. Phase' = Phase
  BY <1>1, <1>2, SamePhase DEF Phase, Untouched
<1>4. n = granted[r]
  BY OwnedIsHeld DEF UpsertSyncState
<1>5. <<runs[r].conn, o>> \in Connections \X SourceObjects
  BY DEF IInv, TypeOK, Run
<1>6. Queue!Write(r, <<runs[r].conn, o>>)
  BY <1>1, <1>2, <1>3, <1>4 DEF Queue!Write, UpsertSyncState, Phase
<1> QED
  BY <1>5, <1>6 DEF Queue!QueueNext

LEMMA TickRefines ==
    ASSUME IInv, Tick
    PROVE  Queue!QueueNext
<1> DEFINE S == {r \in RunIds : PhaseOf(r) = "held" /\ PhaseOf(r)' # "held"}
<1>1. UNCHANGED <<runs, granted, syncState>> /\ now' = now + 1 /\ now \in Nat
  BY DEF Tick, IInv, TypeOK
<1>2. ASSUME NEW r \in RunIds
      PROVE  PhaseOf(r)' = IF r \in S THEN "lapsed" ELSE PhaseOf(r)
  <2>1. /\ runs[r].leaseExpiresAt \in OrNull(Nat)
        /\ runs[r].status \in RunStatuses
    BY DEF IInv, TypeOK, Run
  <2>2. LeaseLapsed(r) => LeaseLapsed(r)'
    BY <1>1, <2>1 DEF LeaseLapsed, OrNull, Null
  <2>3. PhaseOf(r)' \in {PhaseOf(r), "lapsed"}
    BY <1>1, <2>1, <2>2 DEF PhaseOf, RunStatuses
  <2>4. PhaseOf(r)' # PhaseOf(r) => PhaseOf(r) = "held"
    BY <1>1, <2>1, <2>2 DEF PhaseOf, RunStatuses
  <2> QED
    BY <2>3, <2>4
<1>3. Phase' = [r \in RunIds |-> IF r \in S THEN "lapsed" ELSE Phase[r]]
  BY <1>2 DEF Phase
<1>4. S \in SUBSET RunIds /\ Queue!Lapse(S)
  BY <1>1, <1>3 DEF Queue!Lapse, Phase
<1> QED
  BY <1>4 DEF Queue!QueueNext

LEMMA InitRefines == Init => Queue!QueueInit
BY DEF Init, NoRun, PhaseOf, Unwritten, Null, Queue!QueueInit

LEMMA NextRefines ==
    IInv /\ [Next]_vars => [Queue!QueueNext]_(Queue!queueVars)
<1> SUFFICES ASSUME IInv, [Next]_vars
             PROVE  Queue!QueueNext \/ UNCHANGED <<Phase, granted, syncState>>
  BY DEF Queue!queueVars, Phase
<1>1. CASE UNCHANGED vars
  BY <1>1 DEF vars, Phase, PhaseOf, LeaseLapsed
<1>2. ASSUME NEW c \in Connections, NEW s \in PatchStatuses,
             SetConnectionStatus(c, s)
      PROVE  UNCHANGED <<Phase, granted, syncState>>
  BY <1>2 DEF SetConnectionStatus, Phase, PhaseOf, LeaseLapsed
<1> QED
  BY <1>1, <1>2, CreateRefines, ClaimRefines, EndIngestRefines, ReportRefines,
     ReadRefines, UpsertRefines, TickRefines
  DEF Next

\* The run table with its clock, leases and lock tokens implements the
\* abstract queue: every step is a step of SyncQueue or invisible to it.
THEOREM Refinement == Spec => ImplementsQueue
BY InitRefines, NextRefines, Invariance, PTL
   DEF Spec, ImplementsQueue, Queue!QueueSpec

-----------------------------------------------------------------------------
(* Retries wait *)

\* Whatever the table holds of an earlier attempt's report, a run waiting for
\* its retry is due no sooner than the shortest delay after it, and a run
\* granted again was granted no sooner.
Waited(r, t) == \E delay \in RetryDelays : t >= runs[r].endedAt + delay

Waits(r) ==
    runs[r].endedAt # Null =>
        /\ runs[r].status = "queued" => Waited(r, runs[r].availableAt)
        /\ runs[r].status = "running" => Waited(r, now)

LEMMA ClaimableWaited ==
    ASSUME IInv, NEW r \in RunIds, Waits(r), Claimable(r),
           runs[r].endedAt # Null
    PROVE  Waited(r, now)
<1>1. /\ runs[r].availableAt \in Nat /\ runs[r].endedAt \in Nat /\ now \in Nat
      /\ RetryDelays \subseteq Nat
  BY ConstantsAssumption DEF IInv, TypeOK, Run, OrNull
<1>2. CASE runs[r].status = "running"
  BY <1>2 DEF Waits
<1>3. CASE runs[r].status = "queued" /\ runs[r].availableAt <= now
  BY <1>1, <1>3 DEF Waits, Waited
<1> QED
  BY <1>2, <1>3 DEF Claimable

LEMMA NextWaits ==
    ASSUME IInv, [Next]_vars, NEW r \in RunIds, Waits(r)
    PROVE  Waits(r)'
<1>1. /\ runs[r] \in Run /\ now \in Nat /\ now' \in Nat /\ now' >= now
      /\ RetryDelays \subseteq Nat
  <2>1. TypeOK /\ TypeOK'
    BY NextIInv DEF IInv
  <2>2. now' = now \/ now' = now + 1
    BY DEF Next, vars, TriggerSync, BeginIngest, RefuseIngest, FinishIngest,
           AbortIngest, ClaimSyncRuns, ReadForRun, UpsertSyncState,
           MarkCompleted, MarkFailed, SetConnectionStatus, Tick
  <2> QED
    BY <2>1, <2>2, ConstantsAssumption DEF TypeOK
<1>2. CASE runs'[r] = runs[r]
  BY <1>1, <1>2 DEF Waits, Waited, Run, OrNull, Null
<1>3. CASE runs'[r].endedAt = Null
  BY <1>3 DEF Waits
<1>4. CASE runs'[r].status \in {"success", "failed"}
  BY <1>4 DEF Waits
<1>5. ASSUME NEW c \in Connections, NEW q \in RunIds, NEW k \in Keys,
             \/ \E t \in PullTriggers : TriggerSync(q, c, t, k)
             \/ BeginIngest(q, c, k) \/ RefuseIngest(q, c, k)
      PROVE  Waits(r)'
  BY <1>2, <1>3, <1>5
     DEF TriggerSync, BeginIngest, RefuseIngest, CreateSyncRun, NewRun, IInv,
         TypeOK
<1>6. ASSUME NEW q \in RunIds, FinishIngest(q) \/ AbortIngest(q)
      PROVE  Waits(r)'
  <2>1. CASE q = r
    <3>1. CASE FinishIngest(q)
      BY <1>1, <1>4, <2>1, <3>1 DEF FinishIngest, IInv, TypeOK, Run
    <3>2. CASE AbortIngest(q)
      BY <1>1, <1>4, <2>1, <3>2 DEF AbortIngest, IInv, TypeOK, Run
    <3> QED
      BY <1>6, <3>1, <3>2
  <2>2. CASE q # r
    BY <1>2, <1>6, <2>2 DEF FinishIngest, AbortIngest, IInv, TypeOK
  <2> QED
    BY <2>1, <2>2
<1>7. ASSUME NEW S \in SUBSET RunIds, NEW limit \in Limits,
             NEW lease \in LeaseTimes, ClaimSyncRuns(S, limit, lease)
      PROVE  Waits(r)'
  <2>1. CASE r \in S
    <3>1. Claimable(r)
      BY <1>7, <2>1 DEF ClaimSyncRuns, Batch
    <3>2. /\ runs'[r].endedAt = runs[r].endedAt
          /\ runs'[r].status = "running" /\ now' = now
      BY <1>1, <1>7, <2>1 DEF ClaimSyncRuns, Run
    <3> QED
      BY <3>1, <3>2, ClaimableWaited DEF Waits, Waited
  <2>2. CASE r \notin S
    BY <1>2, <1>7, <2>2 DEF ClaimSyncRuns
  <2> QED
    BY <2>1, <2>2
<1>8. ASSUME NEW q \in RunIds, NEW n \in 1 .. granted[q],
             \/ ReadForRun(q, n)
             \/ \E o \in SourceObjects : UpsertSyncState(q, n, o)
      PROVE  Waits(r)'
  <2>1. CASE q = r
    <3>0. /\ runs' = [runs EXCEPT ![r].leaseExpiresAt = RefreshedLease(r)]
          /\ runs[r].status = "running" /\ now' = now
      BY <1>8, <2>1 DEF ReadForRun, UpsertSyncState, OwnedByWorker
    <3>1. /\ runs'[r].endedAt = runs[r].endedAt
          /\ runs'[r].status = runs[r].status
      BY <1>1, <3>0 DEF IInv, TypeOK, Run
    <3> QED
      BY <3>0, <3>1 DEF Waits, Waited
  <2>2. CASE q # r
    BY <1>2, <1>8, <2>2 DEF ReadForRun, UpsertSyncState, IInv, TypeOK
  <2> QED
    BY <2>1, <2>2
<1>9. ASSUME NEW q \in RunIds, NEW n \in 1 .. granted[q], MarkCompleted(q, n)
      PROVE  Waits(r)'
  BY <1>1, <1>2, <1>4, <1>9 DEF MarkCompleted, Settled, IInv, TypeOK, Run
<1>10. ASSUME NEW q \in RunIds, NEW n \in 1 .. granted[q],
              NEW retryable \in BOOLEAN, NEW delay \in RetryDelays,
              MarkFailed(q, n, retryable, delay)
       PROVE  Waits(r)'
  <2>1. CASE q = r /\ WillRetry(r, retryable)
    <3>1. /\ runs'[r].endedAt = now /\ runs'[r].status = "queued"
          /\ runs'[r].availableAt = now + delay
      BY <1>1, <1>10, <2>1 DEF MarkFailed, Settled, IInv, TypeOK, Run
    <3> QED
      BY <1>1, <3>1 DEF Waits, Waited
  <2>2. CASE q = r /\ ~WillRetry(r, retryable)
    BY <1>1, <1>4, <1>10, <2>2 DEF MarkFailed, Settled, IInv, TypeOK, Run
  <2>3. CASE q # r
    BY <1>2, <1>10, <2>3 DEF MarkFailed, IInv, TypeOK
  <2> QED
    BY <2>1, <2>2, <2>3
<1>11. ASSUME NEW c \in Connections, NEW s \in PatchStatuses,
              SetConnectionStatus(c, s)
       PROVE  Waits(r)'
  BY <1>2, <1>11 DEF SetConnectionStatus
<1>12. CASE Tick
  BY <1>2, <1>12 DEF Tick
<1>13. CASE UNCHANGED vars
  BY <1>2, <1>13 DEF vars
<1> QED
  BY <1>5, <1>6, <1>7, <1>8, <1>9, <1>10, <1>11, <1>12, <1>13 DEF Next

\* A failed attempt is repeated only after the delay its report asked for, or
\* a shorter one the code allows: no reclaim, and no early claim, skips it.
THEOREM RetriesWait == Spec => RetryWaits
<1> DEFINE AllWait == \A r \in RunIds : Waits(r)
<1>1. Init => AllWait
  BY DEF Init, NoRun, Waits
<1>2. IInv /\ AllWait /\ [Next]_vars => AllWait'
  BY NextWaits
<1>3. ASSUME IInv, AllWait, [Next]_vars, NEW r \in RunIds,
             granted'[r] # granted[r], runs[r].endedAt # Null
      PROVE  \E delay \in RetryDelays : now >= runs[r].endedAt + delay
  <2>1. Claimed(r)
    BY <1>3, NextRunStep
       DEF IInv, RunStep, Untouched, Placed, Ended, Refreshed, Reported
  <2> QED
    BY <1>3, <2>1, ClaimableWaited DEF Claimed, Waited
<1>4. IInv /\ AllWait /\ [Next]_vars =>
        [\A r \in RunIds :
           /\ granted'[r] # granted[r]
           /\ runs[r].endedAt # Null
           => \E delay \in RetryDelays : now >= runs[r].endedAt + delay]_vars
  BY <1>3
<1> HIDE DEF AllWait
<1> QED
  BY <1>1, <1>2, <1>4, Invariance, PTL DEF Spec, RetryWaits

-----------------------------------------------------------------------------
(* One run for a key *)

SameKey(q, r) ==
    /\ runs[q].conn = runs[r].conn
    /\ runs[q].trigger = runs[r].trigger
    /\ runs[q].key = runs[r].key

Renamed(r) ==
    \/ Created(r)' # Created(r)
    \/ runs'[r].conn # runs[r].conn
    \/ runs'[r].trigger # runs[r].trigger
    \/ runs'[r].key # runs[r].key

\* An update of a created run that leaves its identity alone renames nothing.
LEMMA UpdateKeepsNames ==
    ASSUME runs \in [RunIds -> Run], NEW q \in RunIds, NEW new,
           runs' = [runs EXCEPT ![q] = new],
           runs[q].status # "absent", new.status # "absent",
           new.conn = runs[q].conn, new.trigger = runs[q].trigger,
           new.key = runs[q].key, NEW r \in RunIds
    PROVE  ~Renamed(r)
<1>1. CASE r = q
  BY <1>1 DEF Renamed, Created
<1>2. CASE r # q
  BY <1>2 DEF Renamed, Created
<1> QED
  BY <1>1, <1>2

LEMMA OnlyCreationNames ==
    ASSUME IInv, [Next]_vars, NEW r \in RunIds, Renamed(r)
    PROVE  \E c \in Connections, t \in Triggers, k \in Keys,
              status \in {"queued", "running"} : CreateSyncRun(r, c, t, k, status)
<1>1. runs \in [RunIds -> Run]
  BY DEF IInv, TypeOK
<1>2. ASSUME NEW c \in Connections, NEW q \in RunIds, NEW k \in Keys,
             NEW t \in Triggers, NEW status \in {"queued", "running"},
             CreateSyncRun(q, c, t, k, status)
      PROVE  q = r
  BY <1>1, <1>2 DEF CreateSyncRun, Renamed, Created
<1>3. ASSUME NEW c \in Connections, NEW q \in RunIds, NEW k \in Keys,
             \/ \E t \in PullTriggers : TriggerSync(q, c, t, k)
             \/ BeginIngest(q, c, k) \/ RefuseIngest(q, c, k)
      PROVE  \E t \in Triggers, status \in {"queued", "running"} :
                /\ CreateSyncRun(q, c, t, k, status) /\ q = r
  BY <1>2, <1>3 DEF TriggerSync, BeginIngest, RefuseIngest, Triggers
<1>4. ASSUME NEW q \in RunIds, FinishIngest(q) \/ AbortIngest(q) PROVE FALSE
  <2>1. runs[q].status = "running"
    BY <1>4 DEF IInv, RunShape, FinishIngest, AbortIngest
  <2>2. CASE FinishIngest(q)
    <3> DEFINE new == [runs[q] EXCEPT !.status = "success",
                                      !.endedAt = runs[q].availableAt]
    <3>1. runs' = [runs EXCEPT ![q] = new]
      BY <2>2 DEF FinishIngest
    <3>2. /\ new.status # "absent" /\ new.conn = runs[q].conn
          /\ new.trigger = runs[q].trigger /\ new.key = runs[q].key
      BY <1>1 DEF Run
    <3> QED
      BY <1>1, <2>1, <3>1, <3>2, UpdateKeepsNames
  <2>3. CASE AbortIngest(q)
    <3> DEFINE new == [runs[q] EXCEPT !.status = "failed", !.endedAt = now,
                                      !.availableAt = now]
    <3>1. runs' = [runs EXCEPT ![q] = new]
      BY <2>3 DEF AbortIngest
    <3>2. /\ new.status # "absent" /\ new.conn = runs[q].conn
          /\ new.trigger = runs[q].trigger /\ new.key = runs[q].key
      BY <1>1 DEF Run
    <3> QED
      BY <1>1, <2>1, <3>1, <3>2, UpdateKeepsNames
  <2> QED
    BY <1>4, <2>2, <2>3
<1>5. ASSUME NEW S \in SUBSET RunIds, NEW limit \in Limits,
             NEW lease \in LeaseTimes, ClaimSyncRuns(S, limit, lease)
      PROVE  FALSE
  <2>1. \A q \in S : Created(q)
    BY <1>5 DEF ClaimSyncRuns, Batch, Claimable, Created
  <2> QED
    BY <1>1, <1>5, <2>1 DEF ClaimSyncRuns, Renamed, Created, Run
<1>6. ASSUME NEW q \in RunIds, NEW n \in 1 .. granted[q],
             \/ ReadForRun(q, n)
             \/ \E o \in SourceObjects : UpsertSyncState(q, n, o)
      PROVE  FALSE
  <2> DEFINE new == [runs[q] EXCEPT !.leaseExpiresAt = RefreshedLease(q)]
  <2>1. runs' = [runs EXCEPT ![q] = new] /\ runs[q].status = "running"
    BY <1>1, <1>6 DEF ReadForRun, UpsertSyncState, OwnedByWorker
  <2>2. /\ new.status # "absent" /\ new.conn = runs[q].conn
        /\ new.trigger = runs[q].trigger /\ new.key = runs[q].key
    BY <1>1, <2>1 DEF Run
  <2> QED
    BY <1>1, <2>1, <2>2, UpdateKeepsNames
<1>7. ASSUME NEW q \in RunIds, NEW n \in 1 .. granted[q],
             \/ MarkCompleted(q, n)
             \/ \E retryable \in BOOLEAN, delay \in RetryDelays :
                   MarkFailed(q, n, retryable, delay)
      PROVE  FALSE
  <2>1. PICK status, at :
          /\ status \in {"queued", "success", "failed"}
          /\ runs' = [runs EXCEPT ![q] = Settled(runs[q], status, at)]
    BY <1>1, <1>7 DEF MarkCompleted, MarkFailed
  <2> DEFINE new == Settled(runs[q], status, at)
  <2>2. /\ new.status # "absent" /\ new.conn = runs[q].conn
        /\ new.trigger = runs[q].trigger /\ new.key = runs[q].key
    BY <1>1, <2>1 DEF Settled, Run
  <2>3. runs[q].status = "running"
    BY <1>7 DEF MarkCompleted, MarkFailed, OwnedByWorker
  <2> HIDE DEF new
  <2>4. runs' = [runs EXCEPT ![q] = new]
    BY <2>1 DEF new
  <2> QED
    BY <1>1, <2>2, <2>3, <2>4, UpdateKeepsNames
<1>8. CASE UNCHANGED runs
  BY <1>8 DEF Renamed, Created
<1> QED
  BY <1>3, <1>4, <1>5, <1>6, <1>7, <1>8
     DEF Next, vars, SetConnectionStatus, Tick

LEMMA NextOneRunPerKey ==
    ASSUME IInv, OneRunPerKey, [Next]_vars
    PROVE  OneRunPerKey'
<1> SUFFICES ASSUME NEW q \in RunIds, NEW r \in RunIds, q # r,
                    Created(q)', Created(r)', SameKey(q, r)'
             PROVE  FALSE
  BY DEF OneRunPerKey, SameKey
<1>1. ASSUME NEW a \in RunIds, NEW b \in RunIds, a # b, Renamed(a),
             Created(b)', SameKey(a, b)'
      PROVE  FALSE
  <2>1. PICK c \in Connections, t \in Triggers, k \in Keys,
             status \in {"queued", "running"} : CreateSyncRun(a, c, t, k, status)
    BY <1>1, OnlyCreationNames
  <2>2. runs' = [runs EXCEPT ![a] = NewRun(c, t, k, status)]
    BY <2>1 DEF CreateSyncRun
  <2>3. runs'[a] = NewRun(c, t, k, status) /\ runs'[b] = runs[b]
    BY <1>1, <2>2 DEF IInv, TypeOK
  <2>4. b \in Replayed(c, t, k)
    BY <1>1, <2>3 DEF Replayed, SameKey, NewRun, Created
  <2> QED
    BY <2>1, <2>4 DEF CreateSyncRun
<1>2. ~Renamed(q) /\ ~Renamed(r)
  BY <1>1 DEF SameKey
<1>3. Created(q) /\ Created(r) /\ SameKey(q, r)
  BY <1>2 DEF Renamed, SameKey
<1> QED
  BY <1>3 DEF OneRunPerKey, SameKey

\* An idempotency key never has two runs, so a repeated trigger or a repeated
\* push is answered by the run the first one made.
THEOREM KeysAreSingle == Spec => []OneRunPerKey
<1>1. Init => OneRunPerKey
  BY DEF Init, NoRun, OneRunPerKey, Created
<1>2. IInv /\ OneRunPerKey /\ [Next]_vars => OneRunPerKey'
  BY NextOneRunPerKey
<1> QED
  BY <1>1, <1>2, Invariance, PTL DEF Spec

\* A key names one run, and that run is given out within its budget, for every
\* number of runs and attempts.
THEOREM RunsSound == Spec => []RunsAreSound
BY KeysAreSingle, BudgetSafety, PTL DEF RunsAreSound

\* Locks and cursors belong to the newest grant of a run, for every number of
\* workers, grants and cursors.
THEOREM GrantsFenced == Spec => GrantsAreFenced
BY LockSafety, CursorFencing DEF GrantsAreFenced

\* A lease lasts as long as it was granted or extended for.
THEOREM LeasesHonoured == Spec => LeaseIsHonoured
BY LeaseGrows, LockNotStolen DEF LeaseIsHonoured

\* A worker has its run for its lease and no longer, whoever else calls.
THEOREM LocksSound == Spec => LocksAreSound
BY GrantsFenced, LeasesHonoured DEF LocksAreSound

\* The end that was reported for a run, or the delay of its retry, stands.
THEOREM ReportsKept == Spec => ReportsAreKept
BY FinishedRunsStay, RetriesWait DEF ReportsAreKept
=============================================================================
