----------------------------- MODULE Onboarding -----------------------------
(***************************************************************************)
(* An onboarding case of app-api-ts: rows in Postgres that project a       *)
(* process instance of Camunda, and the requests that change both.         *)
(*                                                                         *)
(* Every request, reads included, runs synchronizeOnboardingCaseProjection *)
(* in its transaction: it reads the case, then Camunda, then the tasks,    *)
(* and writes them all.  Transactions are at Read Committed: a statement   *)
(* reads what is committed, and the rows of a case stay locked from the    *)
(* first write to the end, the calls to Camunda in between included.       *)
(*                                                                         *)
(* The tasks of the process come one after the other; the last two are     *)
(* execute-activation and close-hypercare.  Camunda's search shows what    *)
(* its engine did with a delay.  Statuses "blocked" and "in_progress" of   *)
(* a case, which differ by its blockers, are "open".                       *)
(***************************************************************************)
EXTENDS Integers, FiniteSets

CONSTANTS
    Sessions,  \* requests that may be in progress at once
    NTasks,    \* tasks of the process
    MaxSaves,  \* bound on the drafts saved
    MaxFaults  \* bound on crashes and failed calls to Camunda

ASSUME OnboardingAssumption ==
    /\ NTasks \in Nat /\ NTasks > 2
    /\ {MaxSaves, MaxFaults} \subseteq Nat
    /\ IsFiniteSet(Sessions) /\ "none" \notin Sessions

VARIABLES
    engine,  \* Camunda: the process instance
    index,   \* Camunda: what its search shows of it
    db,      \* Postgres: the committed rows of the case
    work,    \* the rows as the transaction that holds their locks sees them,
             \* or db
    lock,    \* that transaction
    sess,    \* the requests
    saves,   \* drafts saved so far
    faults,  \* crashes and failed calls so far
    clobbered, \* history: a transaction that wrote what another had replaced
               \* since it was read has committed
    broken,  \* history: tasks completed by a transaction that did not commit
    loose    \* history: what failed calls left undone

history == <<clobbered, broken, loose>>
vars == <<engine, index, db, work, lock, sess, saves, faults, history>>

Tasks == 1 .. NTasks
ExecuteActivation == NTasks - 1
NoOne == "none"

Process == [ state : {"none", "active", "completed", "canceled"},
             done : 0 .. NTasks ]

Row == [ status : {"todo", "in_progress", "done", "blocked"},
         key : BOOLEAN,        \* workflowTaskKey is known
         draft : 0 .. MaxSaves, \* the last save that the row has kept
         payload : BOOLEAN ]   \* completionPayload is there

Fresh == [ status |-> "todo", key |-> FALSE, draft |-> 0, payload |-> FALSE ]

Case == [ exists : BOOLEAN,
          status : {"open", "ready", "active", "completed", "cancelled"},
          rows : [Tasks -> Row],
          events : SUBSET Tasks ] \* those with a task_completed event

NoCase == [ exists |-> FALSE, status |-> "open", rows |-> [t \in Tasks |-> Fresh],
            events |-> {} ]

Ops == {"none", "create", "view", "save", "complete", "cancel"}

\* The places of a sync are case, projection, rows and write.
Session == [ op : Ops, task : Tasks,
             at : {"begin", "insert", "case", "projection", "rows", "write",
                   "edit", "engine", "mark", "commit", "compensate"},
             again : BOOLEAN,    \* it is the second sync
             status : {"open", "ready", "active", "completed", "cancelled"},
             seen : Process,
             rows : [Tasks -> Row],
             applied : BOOLEAN,  \* Camunda has carried out its command
             stale : BOOLEAN ]   \* another committed between a read and its write

NoProcess == [ state |-> "none", done |-> 0 ]

Idle == [ op |-> "none", task |-> 1, at |-> "begin", again |-> FALSE,
          status |-> "open", seen |-> NoProcess, rows |-> NoCase.rows,
          applied |-> FALSE, stale |-> FALSE ]

TypeOK ==
    /\ engine \in Process /\ index \in Process
    /\ db \in Case /\ work \in Case
    /\ lock \in Sessions \cup {NoOne}
    /\ lock # NoOne => sess[lock].op # "none" /\ sess[lock].at # "begin"
    /\ sess \in [Sessions -> Session]
    /\ saves \in 0 .. MaxSaves /\ faults \in 0 .. MaxFaults
    /\ clobbered \in BOOLEAN /\ broken \subseteq Tasks
    /\ loose \subseteq {"start", "cancel", "case"}

Goes(s, r) == sess' = [sess EXCEPT ![s] = r]
Working(s, op) == sess[s].op = op
Free(s) == lock \in {NoOne, s}

\* What a statement of s reads.
View(s) == IF lock = s THEN work ELSE db

Fault == faults < MaxFaults /\ faults' = faults + 1
-----------------------------------------------------------------------------
(* The projection *)

\* State of the user task t, as the search shows process p.
UserTask(p, t) ==
    IF t <= p.done THEN "COMPLETED"
    ELSE IF t # p.done + 1 \/ p.state \in {"none", "completed"} THEN "none"
    ELSE IF p.state = "canceled" THEN "CANCELED" ELSE "CREATED"

\* Seeded fault: the details of the task are written anew.
ProjectedOnly(row, state) ==
    [ Fresh EXCEPT
      !.status = CASE state = "COMPLETED" -> "done"
                   [] state = "CANCELED" -> "blocked"
                   [] state = "CREATED" -> "in_progress"
                   [] state = "none" -> IF row.status = "done" THEN "done" ELSE "todo",
      !.key = row.key \/ state # "none" ]

\* The row of a task, with mapCamundaTaskStateToStatus.
Projected(row, state) ==
    [ row EXCEPT
      !.status = CASE state = "COMPLETED" -> "done"
                   [] state = "CANCELED" -> "blocked"
                   [] state = "CREATED" -> "in_progress"
                   [] state = "none" -> IF row.status = "done" THEN "done" ELSE "todo",
      !.key = row.key \/ state # "none" ]

Done(rows) == {t \in Tasks : rows[t].status = "done"}

\* Seeded fault: what the tasks say comes before the cancellation.
SnapshotOfTasks(rows, current) ==
    IF current = "completed" \/ Done(rows) = Tasks THEN "completed"
    ELSE IF current = "cancelled" THEN "cancelled"
    ELSE IF ExecuteActivation \in Done(rows) THEN "active"
    ELSE IF 1 .. NTasks - 2 \subseteq Done(rows) THEN "ready" ELSE "open"

\* caseStatus of computeCaseProjectionSnapshot.
Snapshot(rows, current) ==
    IF current = "cancelled" THEN "cancelled"
    ELSE IF current = "completed" \/ Done(rows) = Tasks THEN "completed"
    ELSE IF ExecuteActivation \in Done(rows) THEN "active"
    ELSE IF 1 .. NTasks - 2 \subseteq Done(rows) THEN "ready" ELSE "open"

\* What a sync writes: from what it has read, over what is there.
Synced(s) ==
    LET r == sess[s]
        rows == [t \in Tasks |-> Projected(r.rows[t], UserTask(r.seen, t))]
    IN [View(s) EXCEPT !.rows = rows, !.status = Snapshot(rows, r.status)]
-----------------------------------------------------------------------------
(* The end of a transaction *)

\* The others that have begun to read for a sync have read what is replaced.
Outdated(s) ==
    [r \in Sessions |->
        IF r = s THEN Idle
        ELSE [sess[r] EXCEPT !.stale =
                 @ \/ sess[r].at \in {"projection", "rows", "write"}]]

Commit(s) ==
    /\ sess[s].at = "commit"
    /\ db' = work
    /\ lock' = NoOne
    /\ sess' = Outdated(s)
    /\ clobbered' = (clobbered \/ sess[s].stale)
    /\ UNCHANGED <<engine, index, work, saves, faults, broken, loose>>

\* Seeded fault: a failed transaction keeps its locks.
RollbackLocked(s) ==
    /\ Goes(s, Idle)
    /\ lock' = lock
    /\ broken' = IF Working(s, "complete") /\ sess[s].applied
                 THEN broken \cup {sess[s].task} ELSE broken
    /\ work' = IF lock = s THEN db ELSE work
    /\ UNCHANGED <<db, saves, clobbered>>

\* ROLLBACK: Camunda keeps what it was told.
Rollback(s) ==
    /\ Goes(s, Idle)
    /\ lock' = IF lock = s THEN NoOne ELSE lock
    /\ broken' = IF Working(s, "complete") /\ sess[s].applied
                 THEN broken \cup {sess[s].task} ELSE broken
    /\ work' = IF lock = s THEN db ELSE work
    /\ UNCHANGED <<db, saves, clobbered>>

\* What is left undone when s ends without its command being undone.
Leaves(s) ==
    IF ~sess[s].applied THEN {}
    ELSE IF Working(s, "create") THEN {"start"}
    ELSE IF Working(s, "cancel") THEN {"case"} ELSE {}

\* The process of app-api-ts or its database session ends, or COMMIT fails,
\* which is outside the try of createOnboardingCase.
Crash(s) ==
    /\ Fault
    /\ ~Working(s, "none")
    /\ Rollback(s)
    /\ loose' = loose \cup Leaves(s)
    /\ UNCHANGED <<engine, index>>

\* A step of s throws: createOnboardingCase goes on to its catch.
Throws(s) ==
    IF Working(s, "create") /\ sess[s].applied
    THEN /\ Goes(s, [sess[s] EXCEPT !.at = "compensate"])
         /\ UNCHANGED <<db, work, lock, saves, history>>
    ELSE Rollback(s) /\ loose' = loose \cup Leaves(s)

\* Seeded fault: the catch of createOnboardingCase only throws again.
CompensateNot(s) ==
    /\ sess[s].at = "compensate"
    /\ Rollback(s)
    /\ UNCHANGED <<engine, index, faults, loose>>

\* The catch of createOnboardingCase; an error of cancelWorkflow is dropped.
Compensate(s) ==
    /\ sess[s].at = "compensate"
    /\ Rollback(s)
    /\ \/ /\ engine' = [engine EXCEPT !.state = "canceled"]
          /\ UNCHANGED <<faults, loose>>
       \/ /\ Fault /\ loose' = loose \cup {"start"}
          /\ UNCHANGED engine
    /\ UNCHANGED index
-----------------------------------------------------------------------------
(* synchronizeOnboardingCaseProjection *)

ReadCase(s) ==
    /\ sess[s].at = "case"
    /\ Goes(s, [sess[s] EXCEPT !.at = "projection", !.status = View(s).status,
                               !.stale = @ /\ lock = s])
    /\ UNCHANGED <<engine, index, db, work, lock, saves, faults, history>>

\* readProjection; without it a read answers from the rows as they are.
ReadProjection(s) ==
    /\ sess[s].at = "projection"
    /\ \/ /\ Goes(s, [sess[s] EXCEPT !.at = "rows", !.seen = index])
          /\ UNCHANGED <<db, work, lock, saves, faults, history>>
       \/ Fault /\ Throws(s)
    /\ UNCHANGED <<engine, index>>

ReadRows(s) ==
    /\ sess[s].at = "rows"
    /\ Goes(s, [sess[s] EXCEPT !.at = "write", !.rows = View(s).rows])
    /\ UNCHANGED <<engine, index, db, work, lock, saves, faults, history>>

\* updateTaskProjection and updateCaseProjection wait for the locks, not for
\* what the reads before them have missed.
WriteRows(s) ==
    LET more == sess[s].op \in {"save", "complete"} /\ ~sess[s].again IN
    /\ sess[s].at = "write"
    /\ Free(s)
    /\ lock' = s
    /\ work' = Synced(s)
    /\ Goes(s, [sess[s] EXCEPT !.at = IF more THEN "edit" ELSE "commit",
                               !.status = Idle.status, !.seen = Idle.seen,
                               !.rows = Idle.rows])
    /\ UNCHANGED <<engine, index, db, saves, faults, history>>
-----------------------------------------------------------------------------
(* Requests *)

\* withOrganizationWriteScope or withAdminReadScope, then readCaseById.
Begin(s, op, t) ==
    /\ Working(s, "none") /\ db.exists
    /\ op \in {"view", "save", "complete"}
    /\ op = "view" => t = 1
    /\ op = "save" =>
          saves + Cardinality({r \in Sessions : Working(r, "save") /\ ~sess[r].again})
              < MaxSaves
    /\ Goes(s, [Idle EXCEPT !.op = op, !.task = t, !.at = "case"])
    /\ UNCHANGED <<engine, index, db, work, lock, saves, faults, history>>

\* saveOnboardingCaseTaskDraft after its first sync.
SaveDraft(s) ==
    LET t == sess[s].task IN
    /\ sess[s].at = "edit" /\ Working(s, "save")
    /\ saves' = saves + 1
    /\ work' = [work EXCEPT !.rows[t].draft = saves + 1]
    /\ Goes(s, [sess[s] EXCEPT !.at = "case", !.again = TRUE])
    /\ UNCHANGED <<engine, index, db, lock, faults, history>>

\* completeOnboardingCaseTask after its first sync, up to the calls to Camunda.
SavePayload(s) ==
    LET t == sess[s].task
        row == work.rows[t]
    IN
    /\ sess[s].at = "edit" /\ Working(s, "complete")
    /\ \/ /\ row.status # "done" /\ row.key
          /\ work' = [work EXCEPT !.rows[t].payload = TRUE]
          /\ Goes(s, [sess[s] EXCEPT !.at = "engine"])
          /\ UNCHANGED <<db, lock, saves, history>>
       \/ /\ row.status = "done" \/ ~row.key
          /\ Rollback(s)
          /\ UNCHANGED loose
    /\ UNCHANGED <<engine, index, faults>>

\* What completing the current task makes of the process.
Advanced ==
    [ state |-> IF engine.done + 1 = NTasks THEN "completed" ELSE "active",
      done |-> engine.done + 1 ]

\* completeWorkflowTask: Camunda refuses a task that is not the current one.
\* The event is inserted before the second sync.
CompleteTask(s) ==
    LET t == sess[s].task
        accepts == engine.state = "active" /\ t = engine.done + 1
    IN
    /\ sess[s].at = "engine"
    /\ \/ /\ accepts
          /\ engine' = Advanced
          /\ work' = [work EXCEPT !.events = @ \cup {t}]
          /\ Goes(s, [sess[s] EXCEPT !.at = "case", !.again = TRUE,
                                     !.applied = TRUE])
          /\ UNCHANGED <<db, lock, saves, faults, history>>
       \/ /\ ~accepts
          /\ Rollback(s)
          /\ UNCHANGED <<engine, faults, loose>>
       \/ /\ Fault
          /\ Rollback(s)
          /\ UNCHANGED <<engine, loose>>
    /\ UNCHANGED index

\* The answer of completeUserTask is lost.
CompleteTaskUnheard(s) ==
    /\ sess[s].at = "engine"
    /\ engine.state = "active" /\ sess[s].task = engine.done + 1
    /\ Fault
    /\ engine' = Advanced
    /\ Goes(s, Idle)
    /\ lock' = NoOne
    /\ work' = db
    /\ broken' = broken \cup {sess[s].task}
    /\ UNCHANGED <<index, db, saves, clobbered, loose>>

\* cancelOnboardingCase up to cancelWorkflow, whose errors are dropped.
BeginCancel(s) ==
    /\ Working(s, "none") /\ db.exists
    /\ db.status # "cancelled"
    /\ \/ /\ engine.state = "active"
          /\ engine' = [engine EXCEPT !.state = "canceled"]
          /\ Goes(s, [Idle EXCEPT !.op = "cancel", !.at = "mark", !.applied = TRUE])
          /\ UNCHANGED <<faults, loose>>
       \/ /\ engine.state # "active"
          /\ Goes(s, [Idle EXCEPT !.op = "cancel", !.at = "mark"])
          /\ UNCHANGED <<engine, faults, loose>>
       \/ /\ engine.state = "active" /\ Fault
          /\ Goes(s, [Idle EXCEPT !.op = "cancel", !.at = "mark"])
          /\ loose' = loose \cup {"cancel"}
          /\ UNCHANGED engine
    /\ UNCHANGED <<index, db, work, lock, saves, clobbered, broken>>

\* markOpenTasksBlocked and updateCaseLifecycleState.
MarkCancelled(s) ==
    /\ sess[s].at = "mark"
    /\ Free(s)
    /\ lock' = s
    /\ work' = [View(s) EXCEPT
           !.status = "cancelled",
           !.rows = [t \in Tasks |->
               IF @[t].status = "done" THEN @[t] ELSE [@[t] EXCEPT !.status = "blocked"]]]
    /\ Goes(s, [sess[s] EXCEPT !.at = "case"])
    /\ UNCHANGED <<engine, index, db, saves, faults, history>>

\* createOnboardingCase up to startOnboardingWorkflow.
StartWorkflow(s) ==
    /\ Working(s, "none") /\ engine.state = "none" /\ ~db.exists
    /\ engine' = [NoProcess EXCEPT !.state = "active"]
    /\ \/ /\ Goes(s, [Idle EXCEPT !.op = "create", !.at = "insert",
                                  !.applied = TRUE])
          /\ UNCHANGED <<faults, loose>>
       \/ /\ Fault
          /\ loose' = loose \cup {"start"}
          /\ UNCHANGED sess
    /\ UNCHANGED <<index, db, work, lock, saves, clobbered, broken>>

\* The insertions, which may be refused.
InsertCase(s) ==
    /\ sess[s].at = "insert"
    /\ \/ /\ work' = [NoCase EXCEPT !.exists = TRUE]
          /\ lock' = s
          /\ Goes(s, [sess[s] EXCEPT !.at = "case"])
          /\ UNCHANGED <<db, saves, faults, history>>
       \/ Fault /\ Throws(s)
    /\ UNCHANGED <<engine, index>>

\* Camunda's exporter catches up.
Export ==
    /\ index # engine
    /\ index' = engine
    /\ UNCHANGED <<engine, db, work, lock, sess, saves, faults, history>>
-----------------------------------------------------------------------------
Init ==
    /\ engine = NoProcess /\ index = NoProcess
    /\ db = NoCase /\ work = NoCase /\ lock = NoOne
    /\ sess = [s \in Sessions |-> Idle]
    /\ saves = 0 /\ faults = 0
    /\ clobbered = FALSE /\ broken = {} /\ loose = {}

Next ==
    \/ Export
    \/ \E s \in Sessions :
          \/ StartWorkflow(s) \/ InsertCase(s) \/ Compensate(s)
          \/ \E op \in Ops, t \in Tasks : Begin(s, op, t)
          \/ ReadCase(s) \/ ReadProjection(s) \/ ReadRows(s) \/ WriteRows(s)
          \/ SaveDraft(s) \/ SavePayload(s)
          \/ CompleteTask(s) \/ CompleteTaskUnheard(s)
          \/ BeginCancel(s) \/ MarkCancelled(s)
          \/ Commit(s) \/ Crash(s)

Spec == Init /\ [][Next]_vars
-----------------------------------------------------------------------------
(* Properties *)

\* A task shown as done has the payload it was completed with and its event,
\* though Camunda cannot be told within the transaction that keeps them:
\* unless that transaction was lost after Camunda had completed the task, or a
\* sync wrote the row as it was before (completeOnboardingCaseTask).
CompletionIsRecorded ==
    \A t \in Done(db.rows) \ broken :
        clobbered \/ (db.rows[t].payload /\ t \in db.events)

\* The status of a case is the one its tasks give it, or it was cancelled or
\* completed: whatever syncs overlap, none commits rows and a status that come
\* from different readings (synchronizeOnboardingCaseProjection).
StatusMatchesTasks ==
    db.exists => db.status \in {Snapshot(db.rows, "open"), "cancelled", "completed"}

\* Case and process agree once no request is between the two: no process
\* without a case, none that survives its case, no case that survives its
\* process, unless a failed call or a crash left it so.
SystemsAgree ==
    /\ (engine.state = "active" /\ ~db.exists) =>
           "start" \in loose \/ \E s \in Sessions : Working(s, "create")
    /\ (engine.state = "active" /\ db.status = "cancelled") => "cancel" \in loose
    /\ (engine.state = "canceled" /\ db.exists /\ db.status # "cancelled") =>
           \/ "case" \in loose \/ clobbered
           \/ \E s \in Sessions : Working(s, "cancel")

\* What the case tells is so, in its tasks and in Camunda.
CaseIsTrue == StatusMatchesTasks /\ SystemsAgree

\* What a request commits takes nothing back, unless another one committed
\* while it was reading: a done task stays done, a cancelled case cancelled,
\* and neither a payload nor a newer draft is lost.
NothingIsTakenBack ==
    [][ \/ clobbered'
        \/ /\ db.status = "cancelled" => db'.status = "cancelled"
           /\ \A t \in Tasks :
                 /\ db.rows[t].status = "done" => db'.rows[t].status = "done"
                 /\ db.rows[t].payload => db'.rows[t].payload
                 /\ db'.rows[t].draft >= db.rows[t].draft ]_vars
=============================================================================
