----------------------------- MODULE DecisionOps -----------------------------
(***************************************************************************)
(* The DecisionOps runtime of app-api-ts for one recommendation: its       *)
(* approvals, the dispatch of its action, and the revisions of its ledger  *)
(* entry, all rows of PostgreSQL.                                          *)
(*                                                                         *)
(* Each call of decidePersistentApproval, -ActionDispatch, -ActionFallback *)
(* or -Ledger is a transaction of withTransaction: BEGIN, a SELECT or an   *)
(* UPDATE at a time, COMMIT.  The isolation level is the default one, Read *)
(* Committed: a SELECT sees what is committed at that moment, an UPDATE    *)
(* waits while another transaction has the row, and then overwrites what   *)
(* that one wrote.  No SELECT is FOR UPDATE and no UPDATE looks at what it *)
(* overwrites.                                                             *)
(*                                                                         *)
(* A call that the rules refuse rolls back having written nothing: it is   *)
(* no action here.  Abstracted: actors, roles, permissions and reasons,    *)
(* which only refuse calls; error codes, so that every failure may be      *)
(* retryable; amounts, and the binding constraints, which follow from      *)
(* what is kept.  The destination requires a human fallback on failure, as *)
(* in every action template.                                               *)
(***************************************************************************)
EXTENDS Integers, FiniteSets, Sequences

CONSTANTS
    Sessions,     \* connections of the pool that calls may have at once
    NSteps,       \* approvals of the recommendation, in the order of steps
    MaxAttempts,  \* maxAttempts of the retry policy
    Validations,  \* validation statuses that finance gives
    MaxRevisions, \* bound on the revisions of the ledger entry
    MaxCommits    \* bound on the calls that commit

ASSUME NStepsAssumption == NSteps \in Nat \ {0}

ASSUME MaxAttemptsAssumption == MaxAttempts \in Nat \ {0}

ASSUME MaxRevisionsAssumption == MaxRevisions \in Nat \ {0}

ASSUME MaxCommitsAssumption == MaxCommits \in Nat

ASSUME ValidationsAssumption == "estimated" \in Validations

VARIABLES
    approvals,  \* the committed status of each approval
    action,     \* the committed record of the dispatch
    ledger,     \* the committed revisions of the ledger entry
    session,    \* the transaction of each connection
    raced,      \* history: some transaction has committed though a row it
                \* had read had been changed by another
    commits     \* how many calls have committed

vars == <<approvals, action, ledger, session, raced, commits>>

tables == <<approvals, action, ledger>>

Steps == 1 .. NSteps

ApprovalStatus == {"requested", "granted", "rejected", "canceled"}

\* ACTION_TRANSITIONS.
Transitions ==
    [pending      |-> {"dispatched", "failed", "canceled"},
     dispatched   |-> {"acknowledged", "failed", "canceled"},
     acknowledged |-> {},
     failed       |-> {"retried", "canceled"},
     retried      |-> {"dispatched", "failed", "canceled"},
     canceled     |-> {}]

ActionStatus == DOMAIN Transitions

Outcomes == ActionStatus \ {"pending"}

LedgerStatus == {"open", "measuring", "closed", "recalculated"}

\* The status of a dispatch is that of its last attempt.
Status(a) ==
    IF a.attempts = <<>> THEN "pending" ELSE a.attempts[Len(a.attempts)]

\* getExecutionAttemptCount: a marker of a retry is no execution.
Executions(a) ==
    Cardinality({i \in DOMAIN a.attempts : a.attempts[i] # "retried"})

ShouldRetry(a) == Status(a) = "failed" /\ Executions(a) < MaxAttempts

Allows(a, op) ==
    \/ op \in Transitions[Status(a)] /\ (op = "retried" => ShouldRetry(a))
    \/ op = "prepare" /\ Status(a) \in {"failed", "retried"}
    \/ op = "execute" /\ a.fallback = "prepared"

WithAttempt(a, status) ==
    [attempts |-> Append(a.attempts, status),
     fallback |-> IF status = "acknowledged" THEN "not_needed"
                                             ELSE a.fallback]

Applied(a, op) ==
    CASE op = "prepare" -> [a EXCEPT !.fallback = "prepared"]
      [] op = "execute" -> [a EXCEPT !.fallback = "executed"]
      [] OTHER          -> WithAttempt(a, op)

\* The approvals after a decision on one of them: a rejection cancels those
\* still requested.
\* Seeded fault: a rejection leaves the other approvals requested.
DecidedAlone(read, step, outcome) == [read EXCEPT ![step] = outcome]

Decided(read, step, outcome) ==
    [i \in Steps |->
        CASE i = step -> outcome
          [] i # step /\ outcome = "rejected" /\ read[i] = "requested" ->
                "canceled"
          [] OTHER -> read[i]]

\* cancelPendingActionForRejection
\* Seeded fault: it cancels the dispatch as of its creation.
RejectedActionAnew(a) == [a EXCEPT !.attempts = <<"canceled">>]

RejectedAction(a) ==
    IF Status(a) = "pending" THEN WithAttempt(a, "canceled") ELSE a

\* buildLedgerApprovalSummaries: only a decision makes a summary.
\* Seeded fault: every approval makes one.
SummaryOfAll(appr) == appr

Summary(appr) ==
    [i \in Steps |->
        IF appr[i] \in {"granted", "rejected"} THEN appr[i] ELSE "none"]

LedgerAllows(e, op) ==
    IF op = "close" THEN e.status \in {"open", "measuring"}
                    ELSE e.status \in {"closed", "recalculated"}

\* A ledger entry after a call of decidePersistentLedger.
LedgerApplied(e, op, validation) ==
    [e EXCEPT !.validation = validation,
              !.status = CASE op = "close"       -> "closed"
                           [] op = "recalculate" -> "recalculated"
                           [] OTHER              -> @]

-----------------------------------------------------------------------------
(* Transactions.                                                           *)

NoCall == [kind |-> "none"]

Calls == {NoCall}
    \cup [kind : {"approval"}, step : Steps, outcome : {"granted", "rejected"}]
    \cup [kind : {"action"}]
    \cup [kind : {"ledger"}, op : {"close", "recalculate", "validate"}]

NewAction == [attempts |-> <<>>, fallback |-> "not_needed"]

\* What initializePersistentDecisionOpsRuntime inserts.
NewEntry == [status |-> "open", validation |-> "estimated",
             approvals |-> [i \in Steps |-> "none"], action |-> "pending"]

\* A connection without a transaction.  approvals, action and entry are what
\* the call has read and will write; next is the approval to save, revision
\* the revision of entry; locks are the rows it has written; seen are the
\* tables it has read; stale: one of those has changed since.
NoTx == [pc |-> "idle", call |-> NoCall,
         approvals |-> [i \in Steps |-> "requested"], next |-> 1,
         action |-> NewAction, revision |-> 1, entry |-> NewEntry,
         locks |-> {}, seen |-> {}, stale |-> FALSE]

At(s, pc) == session[s].pc = pc

MayBegin(s) == At(s, "idle") /\ commits < MaxCommits

\* No other transaction has the row: an UPDATE of it need not wait.
Free(s, row) == \A t \in Sessions \ {s} : row \notin session[t].locks

\* The approvals are saved in the order of their steps.
\* Seeded fault: the approval of the call is saved first.
OwnRowFirst(s, n) == ((session[s].call.step + n - 2) % NSteps) + 1

RowAt(s, n) == n

\* The row that the next statement of a connection writes.
Wanted(s) ==
    CASE At(s, "saveApprovals") ->
            {<<"approvals", RowAt(s, session[s].next)>>}
      [] At(s, "saveAction")    -> {<<"action", 1>>}
      [] At(s, "saveLedger")    -> {<<"ledger", session[s].revision>>}
      [] OTHER                  -> {}

Write(s, row, pc) ==
    /\ Free(s, row)
    /\ session' = [session EXCEPT ![s].pc = pc, ![s].locks = @ \cup {row}]

Rejects(s) ==
    session[s].call.kind = "approval" /\ session[s].call.outcome = "rejected"

Recalculates(s) ==
    session[s].call.kind = "ledger" /\ session[s].call.op = "recalculate"

\* decidePersistentApproval: the approval is read and the decision applied.
BeginApproval(s, i, outcome) ==
    /\ MayBegin(s)
    /\ approvals[i] = "requested"
    /\ session' = [session EXCEPT ![s] =
            [NoTx EXCEPT !.pc = "readApprovals", !.seen = {"approvals"},
                         !.call = [kind |-> "approval", step |-> i,
                                   outcome |-> outcome]]]
    /\ UNCHANGED <<tables, raced, commits>>

ReadApprovals(s) ==
    /\ At(s, "readApprovals")
    /\ LET call == session[s].call
       IN  session' = [session EXCEPT
                ![s].pc = "saveApprovals",
                ![s].approvals = Decided(approvals, call.step, call.outcome)]
    /\ UNCHANGED <<tables, raced, commits>>

\* Every approval of the recommendation is saved, changed or not.
SaveApproval(s) ==
    LET n   == session[s].next
        row == <<"approvals", RowAt(s, n)>>
    IN  /\ At(s, "saveApprovals")
        /\ Free(s, row)
        /\ session' = [session EXCEPT
                ![s].locks = @ \cup {row},
                ![s].next = n + 1,
                ![s].pc = IF n = NSteps THEN "readAction" ELSE @]
        /\ UNCHANGED <<tables, raced, commits>>

ReadAction(s) ==
    /\ At(s, "readAction")
    /\ session' = [session EXCEPT
            ![s].pc = IF Rejects(s) THEN "saveAction" ELSE "readLedger",
            ![s].action = IF Rejects(s) THEN RejectedAction(action)
                                        ELSE action,
            ![s].seen = @ \cup {"action"}]
    /\ UNCHANGED <<tables, raced, commits>>

\* decidePersistentActionDispatch and decidePersistentActionFallback: neither
\* looks at the approvals.
BeginAction(s, op) ==
    /\ MayBegin(s)
    /\ Allows(action, op)
    /\ session' = [session EXCEPT ![s] =
            [NoTx EXCEPT !.pc = "saveAction", !.seen = {"action"},
                         !.call = [kind |-> "action"],
                         !.action = Applied(action, op)]]
    /\ UNCHANGED <<tables, raced, commits>>

SaveAction(s) ==
    /\ At(s, "saveAction")
    /\ Write(s, <<"action", 1>>, "readLedger")
    /\ UNCHANGED <<tables, raced, commits>>

\* The latest revision as the call will save it: syncLedgerDecisionState for
\* an approval, syncLedgerForAction for a dispatch.
Synced(s, e) ==
    LET status == Status(session[s].action)
    IN  IF session[s].call.kind = "approval"
        THEN [e EXCEPT !.approvals = Summary(session[s].approvals),
                       !.action = status]
        ELSE [e EXCEPT !.action = status,
                       !.status = IF status = "acknowledged" /\ @ = "open"
                                  THEN "measuring" ELSE @]

ReadLedger(s) ==
    /\ At(s, "readLedger")
    /\ session' = [session EXCEPT
            ![s].pc = "saveLedger",
            ![s].revision = Len(ledger),
            ![s].entry = Synced(s, ledger[Len(ledger)]),
            ![s].seen = @ \cup {"ledger"}]
    /\ UNCHANGED <<tables, raced, commits>>

\* decidePersistentLedger
BeginLedger(s, op, validation) ==
    LET latest   == ledger[Len(ledger)]
        revision == IF op = "recalculate" THEN Len(ledger) + 1
                                          ELSE Len(ledger)
    IN  /\ MayBegin(s)
        /\ LedgerAllows(latest, op)
        /\ revision <= MaxRevisions
        /\ session' = [session EXCEPT ![s] =
                [NoTx EXCEPT !.pc = "saveLedger", !.seen = {"ledger"},
                             !.call = [kind |-> "ledger", op |-> op],
                             !.revision = revision,
                             !.entry = LedgerApplied(latest, op, validation)]]
        /\ UNCHANGED <<tables, raced, commits>>

\* The unique index on (ledger_id, revision) refuses the INSERT of a revision
\* that there is.
Duplicate(s) == Recalculates(s) /\ session[s].revision \in DOMAIN ledger

SaveLedger(s) ==
    /\ At(s, "saveLedger")
    /\ ~ Duplicate(s)
    /\ Write(s, <<"ledger", session[s].revision>>, "commit")
    /\ UNCHANGED <<tables, raced, commits>>

Tables(locks) == {row[1] : row \in locks}

\* COMMIT: what the transaction has written is seen by the others.
Commit(s) ==
    LET tx      == session[s]
        written == Tables(tx.locks)
    IN  /\ At(s, "commit")
        /\ approvals' = IF "approvals" \in written THEN tx.approvals
                                                   ELSE approvals
        /\ action' = IF "action" \in written THEN tx.action ELSE action
        /\ ledger' = IF tx.revision > Len(ledger)
                     THEN Append(ledger, tx.entry)
                     ELSE [ledger EXCEPT ![tx.revision] = tx.entry]
        /\ raced' = (raced \/ tx.stale)
        /\ commits' = commits + 1
        /\ session' = [t \in Sessions |->
                IF t = s THEN NoTx
                ELSE [session[t] EXCEPT
                        !.stale = @ \/ session[t].seen \cap written # {}]]

\* ROLLBACK: a statement fails, the INSERT of a revision there is among them,
\* or the process or its connection ends.
Rollback(s) ==
    /\ ~ At(s, "idle")
    /\ session' = [session EXCEPT ![s] = NoTx]
    /\ UNCHANGED <<tables, raced, commits>>

Init ==
    /\ approvals = [i \in Steps |-> "requested"]
    /\ action = NewAction
    /\ ledger = <<NewEntry>>
    /\ session = [s \in Sessions |-> NoTx]
    /\ raced = FALSE
    /\ commits = 0

Next ==
    \E s \in Sessions :
        \/ \E i \in Steps, outcome \in {"granted", "rejected"} :
                BeginApproval(s, i, outcome)
        \/ ReadApprovals(s) \/ SaveApproval(s) \/ ReadAction(s)
        \/ \E op \in Outcomes \cup {"prepare", "execute"} : BeginAction(s, op)
        \/ SaveAction(s) \/ ReadLedger(s)
        \/ \E op \in {"close", "recalculate", "validate"}, v \in Validations :
                BeginLedger(s, op, v)
        \/ SaveLedger(s) \/ Commit(s) \/ Rollback(s)

Spec == Init /\ [][Next]_vars

-----------------------------------------------------------------------------
(* Properties.                                                             *)

Actions == [attempts : Seq(Outcomes),
            fallback : {"not_needed", "prepared", "executed"}]

Entries == [status : LedgerStatus, validation : Validations,
            approvals : [Steps -> {"none", "granted", "rejected"}],
            action : ActionStatus]

Rows == (({"approvals"} \X Steps) \cup ({"action"} \X {1}))
            \cup ({"ledger"} \X (1 .. MaxRevisions))

Txs ==
    [pc : {"idle", "readApprovals", "saveApprovals", "readAction",
           "saveAction", "readLedger", "saveLedger", "commit"},
     call : Calls, approvals : [Steps -> ApprovalStatus],
     next : 1 .. NSteps + 1, action : Actions, revision : 1 .. MaxRevisions,
     entry : Entries, locks : SUBSET Rows,
     seen : SUBSET {"approvals", "action", "ledger"}, stale : BOOLEAN]

\* Type correctness of the rows and of the transactions on them: in
\* particular, a ledger entry lists decisions only.
TypeOK ==
    /\ approvals \in [Steps -> ApprovalStatus]
    /\ action \in Actions
    /\ ledger \in Seq(Entries) /\ Len(ledger) \in 1 .. MaxRevisions
    /\ session \in [Sessions -> Txs]
    /\ raced \in BOOLEAN
    /\ commits \in Nat

\* The transactions of the four calls take their rows in one order, so no
\* set of them wait on each other, and PostgreSQL never has to break a
\* deadlock: of any waiting transactions, some one waits for none of them.
NoCircularWait ==
    \A waiting \in (SUBSET Sessions) \ {{}} :
        \E s \in waiting : \A t \in waiting \ {s} :
            Wanted(s) \cap session[t].locks = {}

\* The attempts of a dispatch are a path of ACTION_TRANSITIONS, and it was
\* retried within its retry policy, whatever calls overwrite each other:
\* appendAttemptInternal and shouldRetryActionDispatch look at one version
\* of the record, and a lost update loses attempts but mixes none.
AttemptsAreLegal ==
    LET a == action.attempts
    IN  /\ \A i \in DOMAIN a :
                a[i] \in Transitions[IF i = 1 THEN "pending" ELSE a[i - 1]]
        /\ \A i \in DOMAIN a : a[i] = "retried" =>
                Executions([action EXCEPT !.attempts = SubSeq(a, 1, i)])
                    < MaxAttempts

\* A rejection leaves no approval to be decided, and a dispatch that was never
\* attempted is canceled with it for good (ACTION_TRANSITIONS).  One that was
\* attempted before is left as it is: cancelPendingActionForRejection looks at
\* pending ones only, so a failed one may be retried and go out.
RejectionCloses ==
    (\E i \in Steps : approvals[i] = "rejected") =>
        /\ action.attempts # <<>>
        /\ \A i \in Steps : approvals[i] # "requested"

\* The latest revision tells the decisions and the state of the dispatch,
\* and a decision is measured as soon as its dispatch is acknowledged.
LedgerMirrors ==
    LET latest == ledger[Len(ledger)]
    IN  /\ latest.action = Status(action)
        /\ latest.approvals = Summary(approvals)
        /\ latest.status = "open" => Status(action) # "acknowledged"

\* The three tables agree, unless calls have raced: no transaction has
\* committed on a row that another had changed since it was read.
TablesAgree == raced \/ (RejectionCloses /\ LedgerMirrors)

\* What the tables tell of a recommendation is a course it can have taken, in
\* each table and between them.
RecordsAreSound == AttemptsAreLegal /\ TablesAgree

\* A recalculation that commits adds a revision, even when two of them race:
\* the unique index makes one of them fail, and neither is lost.
RecalculationAdds ==
    \A s \in Sessions :
        At(s, "commit") /\ Recalculates(s) /\ session'[s].pc = "idle"
            => ledger' = ledger \/ Len(ledger') = Len(ledger) + 1

\* A decision is final, and an attempt that was recorded stays on record.
DecisionsAreFinal ==
    \A i \in Steps : approvals[i] # "requested" => approvals'[i] = approvals[i]

AttemptsOnlyGrow ==
    /\ Len(action'.attempts) >= Len(action.attempts)
    /\ SubSeq(action'.attempts, 1, Len(action.attempts)) = action.attempts

\* A lost update: a transaction commits on what was replaced since it read it.
LosesUpdate ==
    \E s \in Sessions :
        At(s, "commit") /\ session[s].stale /\ session'[s].pc = "idle"

\* What one call has committed no later call undoes, but one that had read it
\* before: an earlier race does not excuse the commits that come after it.
CommittedIsKept ==
    [][RecalculationAdds /\ (LosesUpdate \/ (DecisionsAreFinal /\ AttemptsOnlyGrow))
      ]_vars

=============================================================================
