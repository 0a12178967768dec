-------------------------- MODULE DecisionOpsProofs --------------------------
(* Theorems about DecisionOps, for every value of its constants. *)
EXTENDS DecisionOps, WellFoundedInduction, TLAPS

(***************************************************************************)
(* The inductive invariant.                                                *)
(*                                                                         *)
(* Legal is AttemptsAreLegal of any record, since it has to hold of those  *)
(* that transactions are about to save.                                    *)
(***************************************************************************)
Legal(a) ==
    /\ \A i \in DOMAIN a.attempts :
          a.attempts[i] \in
              Transitions[IF i = 1 THEN "pending" ELSE a.attempts[i - 1]]
    /\ \A i \in DOMAIN a.attempts : a.attempts[i] = "retried" =>
          Executions([a EXCEPT !.attempts = SubSeq(a.attempts, 1, i)])
              < MaxAttempts

Rejecting(call) == call.kind = "approval" /\ call.outcome = "rejected"

Recalculating(call) == call.kind = "ledger" /\ call.op = "recalculate"

WritesAction(call) == call.kind = "action" \/ Rejecting(call)

ReadLast == {"saveLedger", "commit"}

\* The rows a transaction has written, which it holds until it ends.
Held(tx) ==
    (IF tx.call.kind = "approval"
     THEN {<<"approvals", i>> : i \in {j \in Steps : j < tx.next}} ELSE {})
    \cup (IF WritesAction(tx.call) /\ tx.pc \in {"readLedger"} \cup ReadLast
          THEN {<<"action", 1>>} ELSE {})
    \cup (IF tx.pc = "commit" THEN {<<"ledger", tx.revision>>} ELSE {})

\* Where a call of each kind can be, and what it has read and written there.
CourseOK(tx) ==
    /\ tx.pc = "idle" <=> tx.call.kind = "none"
    /\ tx.pc \in {"readApprovals", "saveApprovals", "readAction"} =>
            tx.call.kind = "approval"
    /\ tx.pc = "saveAction" => WritesAction(tx.call)
    /\ tx.call.kind = "ledger" => tx.pc \in ReadLast
    /\ tx.call.kind = "approval" =>
            CASE tx.pc = "readApprovals" -> tx.next = 1
              [] tx.pc = "saveApprovals" -> tx.next \in Steps
              [] OTHER                   -> tx.next = NSteps + 1
    /\ tx.locks = Held(tx)
    /\ tx.call.kind = "approval" => "approvals" \in tx.seen
    /\ \/ tx.call.kind = "action"
       \/ tx.pc \in {"saveAction", "readLedger"}
       \/ tx.call.kind = "approval" /\ tx.pc \in ReadLast
       => "action" \in tx.seen
    /\ tx.pc \in ReadLast => "ledger" \in tx.seen

\* The revision a transaction saves is the latest at most, or a new one that
\* no other can save meanwhile.
RevisionOK(tx, led) ==
    tx.pc \in ReadLast =>
        IF Recalculating(tx.call)
        THEN tx.revision <= Len(led) + 1
                /\ (tx.pc = "commit" => tx.revision = Len(led) + 1)
        ELSE tx.revision <= Len(led)

SyncedBy(tx, e) ==
    LET status == Status(tx.action)
    IN  IF tx.call.kind = "approval"
        THEN [e EXCEPT !.approvals = Summary(tx.approvals), !.action = status]
        ELSE [e EXCEPT !.action = status,
                       !.status = IF status = "acknowledged" /\ @ = "open"
                                  THEN "measuring" ELSE @]

Ops == Outcomes \cup {"prepare", "execute"}

\* What a transaction will save follows from the tables as they are: so it is
\* until one of those it has read changes.
FollowsFrom(tx, appr, act, led) ==
    /\ tx.call.kind = "approval" =>
          /\ appr[tx.call.step] = "requested"
          /\ tx.pc # "readApprovals" =>
                tx.approvals = Decided(appr, tx.call.step, tx.call.outcome)
          /\ tx.pc \in {"saveAction", "readLedger"} \cup ReadLast =>
                tx.action = IF Rejecting(tx.call) THEN RejectedAction(act)
                                                  ELSE act
    /\ tx.call.kind = "action" =>
          \E op \in Ops : Allows(act, op) /\ tx.action = Applied(act, op)
    /\ tx.pc \in ReadLast =>
          IF tx.call.kind = "ledger"
          THEN /\ tx.revision =
                      IF Recalculating(tx.call) THEN Len(led) + 1 ELSE Len(led)
               /\ \E v \in Validations :
                     tx.entry = LedgerApplied(led[Len(led)], tx.call.op, v)
          ELSE tx.revision = Len(led) /\ tx.entry = SyncedBy(tx, led[Len(led)])

TxOK(tx, appr, act, led) ==
    /\ tx \in Txs
    /\ CourseOK(tx)
    /\ Legal(tx.action)
    /\ RevisionOK(tx, led)
    /\ ~tx.stale => FollowsFrom(tx, appr, act, led)

LocksApart ==
    \A s, t \in Sessions : s # t => session[s].locks \cap session[t].locks = {}

IInv ==
    /\ TypeOK
    /\ Legal(action)
    /\ TablesAgree
    /\ \A s \in Sessions : TxOK(session[s], approvals, action, ledger)
    /\ LocksApart

-----------------------------------------------------------------------------
(* The record of the dispatch *)

LEMMA StatusType == ASSUME NEW a \in Actions PROVE Status(a) \in ActionStatus
<1>1. a.attempts \in Seq(Outcomes)
  BY DEF Actions
<1>2. Outcomes \subseteq ActionStatus /\ "pending" \in ActionStatus
  BY DEF Outcomes, ActionStatus, Transitions
<1>3. CASE a.attempts = <<>>
  BY <1>2, <1>3 DEF Status
<1>4. CASE a.attempts # <<>>
  <2>1. a.attempts[Len(a.attempts)] \in Outcomes
    BY <1>1, <1>4
  <2> QED
    BY <2>1, <1>2, <1>4 DEF Status
<1> QED
  BY <1>3, <1>4

LEMMA NewActionOK == NewAction \in Actions /\ Legal(NewAction)
<1>1. NewAction \in Actions
  BY DEF NewAction, Actions
<1>2. NewAction.attempts = <<>> /\ DOMAIN NewAction.attempts = {}
  BY DEF NewAction
<1> QED
  BY <1>1, <1>2 DEF Legal

\* A change of the fallback leaves the attempts a path of the transitions.
LEMMA SameAttemptsLegal ==
    ASSUME NEW a \in Actions, Legal(a), NEW b \in Actions,
           b.attempts = a.attempts
    PROVE  Legal(b)
<1>1. ASSUME NEW i \in DOMAIN b.attempts, b.attempts[i] = "retried"
      PROVE  Executions([b EXCEPT !.attempts = SubSeq(b.attempts, 1, i)])
                = Executions([a EXCEPT !.attempts = SubSeq(a.attempts, 1, i)])
  <2>1. /\ [b EXCEPT !.attempts = SubSeq(b.attempts, 1, i)].attempts
            = SubSeq(b.attempts, 1, i)
        /\ [a EXCEPT !.attempts = SubSeq(a.attempts, 1, i)].attempts
            = SubSeq(b.attempts, 1, i)
    BY DEF Actions
  <2> QED
    BY <2>1 DEF Executions
<1> QED
  BY <1>1 DEF Legal

\* An attempt that the transitions allow makes a longer path of them.
LEMMA WithAttemptOK ==
    ASSUME NEW a \in Actions, Legal(a), NEW st \in Outcomes,
           st \in Transitions[Status(a)],
           st = "retried" => Executions(a) < MaxAttempts
    PROVE  /\ WithAttempt(a, st) \in Actions
           /\ Legal(WithAttempt(a, st))
           /\ Status(WithAttempt(a, st)) = st
<1> DEFINE s == a.attempts
           b == WithAttempt(a, st)
           n == Len(s) + 1
<1>1. s \in Seq(Outcomes) /\ Len(s) \in Nat
  BY DEF Actions
<1>2. b.attempts = Append(s, st)
  BY DEF WithAttempt
<1>3. b \in Actions
  <2>1. Append(s, st) \in Seq(Outcomes)
    BY <1>1
  <2>2. a.fallback \in {"not_needed", "prepared", "executed"}
    BY DEF Actions
  <2> QED
    BY <2>1, <2>2 DEF WithAttempt, Actions
<1>4. /\ DOMAIN b.attempts = 1 .. n
      /\ \A i \in DOMAIN s : b.attempts[i] = s[i]
      /\ b.attempts[n] = st
      /\ DOMAIN s = 1 .. Len(s)
      /\ Len(b.attempts) = n /\ b.attempts # <<>>
  BY <1>1, <1>2
<1>5. Status(b) = st
  BY <1>4 DEF Status
<1>6. ASSUME NEW i \in DOMAIN b.attempts
      PROVE  b.attempts[i] \in
                Transitions[IF i = 1 THEN "pending" ELSE b.attempts[i - 1]]
  <2>1. CASE i \in DOMAIN s
    <3>1. i = 1 \/ i - 1 \in DOMAIN s
      BY <2>1, <1>1, <1>4
    <3>2. (IF i = 1 THEN "pending" ELSE b.attempts[i - 1])
            = (IF i = 1 THEN "pending" ELSE s[i - 1])
      BY <3>1, <1>4
    <3> QED
      BY <2>1, <3>2, <1>4 DEF Legal
  <2>2. CASE i = n
    <3>1. (IF i = 1 THEN "pending" ELSE b.attempts[i - 1]) = Status(a)
      <4>1. CASE s = <<>>
        BY <4>1, <2>2, <1>1 DEF Status
      <4>2. CASE s # <<>>
        <5>1. Len(s) \in DOMAIN s /\ n - 1 = Len(s) /\ n # 1
          BY <4>2, <1>1
        <5> QED
          BY <4>2, <5>1, <2>2, <1>4 DEF Status
      <4> QED
        BY <4>1, <4>2
    <3> QED
      BY <3>1, <2>2, <1>4
  <2> QED
    BY <2>1, <2>2, <1>1, <1>4
<1>7. ASSUME NEW i \in DOMAIN b.attempts, b.attempts[i] = "retried"
      PROVE  Executions([b EXCEPT !.attempts = SubSeq(b.attempts, 1, i)])
                < MaxAttempts
  <2> DEFINE c == [b EXCEPT !.attempts = SubSeq(b.attempts, 1, i)]
             d == [a EXCEPT !.attempts = SubSeq(s, 1, i)]
  <2>1. c.attempts = SubSeq(b.attempts, 1, i)
    BY <1>3 DEF Actions
  <2>2. CASE i \in DOMAIN s
    <3>1. d.attempts = SubSeq(s, 1, i)
      BY DEF Actions
    <3>2. SubSeq(Append(s, st), 1, i) = SubSeq(s, 1, i)
      BY <2>2, <1>1
    <3>3. Executions(c) = Executions(d)
      BY <2>1, <3>1, <3>2, <1>2 DEF Executions
    <3>4. Executions(d) < MaxAttempts
      BY <2>2, <1>4, <1>7 DEF Legal
    <3> QED
      BY <3>3, <3>4
  <2>3. CASE i = n
    <3>1. c.attempts = Append(s, st) /\ st = "retried"
      BY <2>1, <2>3, <1>1, <1>2, <1>4, <1>7
    <3>2. {k \in DOMAIN c.attempts : c.attempts[k] # "retried"}
            = {k \in DOMAIN s : s[k] # "retried"}
      <4>1. /\ DOMAIN c.attempts = DOMAIN s \cup {n}
            /\ c.attempts[n] = "retried"
            /\ \A k \in DOMAIN s : c.attempts[k] = s[k]
        BY <3>1, <1>1, <1>2, <1>4
      <4> HIDE DEF c
      <4> QED
        BY <4>1
    <3>3. Executions(c) = Executions(a)
      BY <3>2 DEF Executions
    <3> QED
      BY <3>1, <3>3
  <2> QED
    BY <2>2, <2>3, <1>1, <1>4
<1> QED
  BY <1>3, <1>5, <1>6, <1>7 DEF Legal

LEMMA AppliedOK ==
    ASSUME NEW a \in Actions, Legal(a), NEW op \in Ops, Allows(a, op)
    PROVE  Applied(a, op) \in Actions /\ Legal(Applied(a, op))
<1>1. Status(a) \in ActionStatus
  BY StatusType
<1>2. CASE op \in {"prepare", "execute"}
  <2>1. Applied(a, op) \in Actions /\ Applied(a, op).attempts = a.attempts
    BY <1>2 DEF Applied, Actions
  <2> QED
    BY <2>1, SameAttemptsLegal
<1>3. CASE op \notin {"prepare", "execute"}
  <2>1. op \in Transitions[Status(a)] /\ (op = "retried" => ShouldRetry(a))
    BY <1>3 DEF Allows
  <2>2. op \in Outcomes /\ Applied(a, op) = WithAttempt(a, op)
    BY <1>3 DEF Ops, Applied
  <2> QED
    BY <2>1, <2>2, WithAttemptOK DEF ShouldRetry
<1> QED
  BY <1>2, <1>3

LEMMA RejectedActionOK ==
    ASSUME NEW a \in Actions, Legal(a)
    PROVE  /\ RejectedAction(a) \in Actions
           /\ Legal(RejectedAction(a))
           /\ Status(RejectedAction(a)) # "pending"
<1>1. CASE Status(a) = "pending"
  <2>1. "canceled" \in Outcomes /\ "canceled" \in Transitions[Status(a)]
    BY <1>1 DEF Outcomes, ActionStatus, Transitions
  <2>2. RejectedAction(a) = WithAttempt(a, "canceled")
    BY <1>1 DEF RejectedAction
  <2> QED
    BY <2>1, <2>2, WithAttemptOK
<1>2. CASE Status(a) # "pending"
  BY <1>2 DEF RejectedAction
<1> QED
  BY <1>1, <1>2

\* Attempts are only added.
Extends(b, a) ==
    /\ Len(b.attempts) >= Len(a.attempts)
    /\ SubSeq(b.attempts, 1, Len(a.attempts)) = a.attempts

LEMMA ExtendsSelf == ASSUME NEW a \in Actions PROVE Extends(a, a)
<1>1. a.attempts \in Seq(Outcomes)
  BY DEF Actions
<1> QED
  BY <1>1 DEF Extends

LEMMA WithAttemptExtends ==
    ASSUME NEW a \in Actions, NEW st \in Outcomes
    PROVE  Extends(WithAttempt(a, st), a)
<1>1. a.attempts \in Seq(Outcomes)
  BY DEF Actions
<1>2. WithAttempt(a, st).attempts = Append(a.attempts, st)
  BY DEF WithAttempt
<1>3. SubSeq(Append(a.attempts, st), 1, Len(a.attempts)) = a.attempts
  BY <1>1
<1> QED
  BY <1>1, <1>2, <1>3 DEF Extends

LEMMA AppliedExtends ==
    ASSUME NEW a \in Actions, NEW op \in Ops
    PROVE  Extends(Applied(a, op), a)
<1>1. CASE op \in {"prepare", "execute"}
  <2>1. Applied(a, op).attempts = a.attempts
    BY <1>1 DEF Applied, Actions
  <2> QED
    BY <2>1, ExtendsSelf DEF Extends
<1>2. CASE op \notin {"prepare", "execute"}
  BY <1>2, WithAttemptExtends DEF Ops, Applied
<1> QED
  BY <1>1, <1>2

LEMMA RejectedActionExtends ==
    ASSUME NEW a \in Actions
    PROVE  Extends(RejectedAction(a), a)
<1>1. "canceled" \in Outcomes
  BY DEF Outcomes, ActionStatus, Transitions
<1> QED
  BY <1>1, WithAttemptExtends, ExtendsSelf DEF RejectedAction

-----------------------------------------------------------------------------
(* Steps of one transaction, which change no table *)

PCs == {"idle", "readApprovals", "saveApprovals", "readAction",
        "saveAction", "readLedger", "saveLedger", "commit"}

LEMMA CallKinds ==
    ASSUME NEW call \in Calls
    PROVE  /\ call.kind \in {"none", "approval", "action", "ledger"}
           /\ call.kind = "approval" => /\ call.step \in Steps
                                        /\ call.outcome \in {"granted", "rejected"}
           /\ call.kind = "ledger" =>
                call.op \in {"close", "recalculate", "validate"}
BY DEF Calls, NoCall

LEMMA StepsAreNat == Steps \subseteq Nat /\ 1 \in Steps /\ NSteps \in Steps
                     /\ \A i \in Steps : 1 <= i /\ i <= NSteps
BY NStepsAssumption DEF Steps

LEMMA NewEntryOK == NewEntry \in Entries
BY ValidationsAssumption
   DEF NewEntry, Entries, LedgerStatus, ActionStatus, Transitions

\* A connection without a transaction satisfies what is asked of one.
LEMMA NoTxOK ==
    ASSUME NEW appr, NEW act, NEW led
    PROVE  NoTx \in Txs /\ TxOK(NoTx, appr, act, led) /\ NoTx.locks = {}
<1>1. NoTx \in Txs
  <2>1. NoCall \in Calls
    BY DEF Calls
  <2>2. 1 \in 1 .. MaxRevisions /\ 1 \in 1 .. NSteps + 1
    BY MaxRevisionsAssumption, NStepsAssumption
  <2>3. [i \in Steps |-> "requested"] \in [Steps -> ApprovalStatus]
    BY DEF ApprovalStatus
  <2> QED
    BY <2>1, <2>2, <2>3, NewActionOK, NewEntryOK DEF NoTx, Txs
<1>2. /\ NoTx.pc = "idle" /\ NoTx.call.kind = "none" /\ NoTx.locks = {}
      /\ NoTx.action = NewAction /\ NoTx.seen = {} /\ NoTx.stale = FALSE
  BY DEF NoTx, NoCall
<1>3. ~WritesAction(NoTx.call) /\ Held(NoTx) = {}
  BY <1>2 DEF WritesAction, Rejecting, Held
<1>4. CourseOK(NoTx)
  BY <1>2, <1>3 DEF CourseOK, ReadLast
<1>5. RevisionOK(NoTx, led) /\ FollowsFrom(NoTx, appr, act, led)
  BY <1>2 DEF RevisionOK, FollowsFrom, ReadLast
<1> QED
  BY <1>1, <1>2, <1>4, <1>5, NewActionOK DEF TxOK

LEMMA InitIInv == Init => IInv
<1> SUFFICES ASSUME Init PROVE IInv
  OBVIOUS
<1>1. TypeOK
  <2>1. approvals \in [Steps -> ApprovalStatus]
    BY DEF Init, ApprovalStatus
  <2>2. action \in Actions
    BY NewActionOK DEF Init
  <2>3. ledger \in Seq(Entries) /\ Len(ledger) \in 1 .. MaxRevisions
    BY NewEntryOK, MaxRevisionsAssumption DEF Init
  <2>4. session \in [Sessions -> Txs]
    BY NoTxOK DEF Init
  <2> QED
    BY <2>1, <2>2, <2>3, <2>4 DEF Init, TypeOK
<1>2. TablesAgree
  <2>1. \A i \in Steps : approvals[i] = "requested"
    BY DEF Init
  <2>2. action.attempts = <<>> /\ Status(action) = "pending"
    BY DEF Init, NewAction, Status
  <2>3. ledger[Len(ledger)] = NewEntry
    BY DEF Init
  <2>4. Summary(approvals) = [i \in Steps |-> "none"]
    BY <2>1 DEF Summary
  <2>5. LedgerMirrors
    BY <2>2, <2>3, <2>4 DEF LedgerMirrors, NewEntry
  <2>6. RejectionCloses
    BY <2>1 DEF RejectionCloses
  <2> QED
    BY <2>5, <2>6 DEF TablesAgree
<1>3. \A s \in Sessions : session[s] = NoTx
  BY DEF Init
<1> QED
  BY <1>1, <1>2, <1>3, NewActionOK, NoTxOK DEF IInv, Init, LocksApart

\* A step of one transaction that changes no table keeps the invariant, when
\* the transaction it makes is sound and takes no row of another.
LEMMA OneTx ==
    ASSUME IInv, NEW s \in Sessions, NEW tx,
           session' = [session EXCEPT ![s] = tx],
           UNCHANGED <<tables, raced, commits>>,
           TxOK(tx, approvals, action, ledger),
           \A t \in Sessions \ {s} : tx.locks \cap session[t].locks = {}
    PROVE  IInv'
<1>1. UNCHANGED <<approvals, action, ledger, raced, commits>>
  BY DEF tables
<1>2. session \in [Sessions -> Txs]
  BY DEF IInv, TypeOK
<1>3. /\ session'[s] = tx
      /\ \A t \in Sessions \ {s} : session'[t] = session[t]
  BY <1>2
<1>4. TypeOK'
  <2>1. tx \in Txs
    BY DEF TxOK
  <2>2. session' \in [Sessions -> Txs]
    BY <1>2, <2>1
  <2> QED
    BY <1>1, <2>2 DEF IInv, TypeOK
<1>5. Legal(action') /\ TablesAgree'
  BY <1>1 DEF IInv, TablesAgree, RejectionCloses, LedgerMirrors
<1>6. \A t \in Sessions : TxOK(session'[t], approvals', action', ledger')
  <2>1. \A t \in Sessions : TxOK(session'[t], approvals, action, ledger)
    BY <1>3, Zenon DEF IInv
  <2> QED
    BY <1>1, <2>1
<1>7. LocksApart'
  BY <1>3 DEF IInv, LocksApart
<1> QED
  BY <1>4, <1>5, <1>6, <1>7 DEF IInv

LEMMA BeginApprovalIInv ==
    ASSUME IInv, NEW s \in Sessions, NEW i \in Steps,
           NEW outcome \in {"granted", "rejected"}, BeginApproval(s, i, outcome)
    PROVE  IInv'
<1> DEFINE call == [kind |-> "approval", step |-> i, outcome |-> outcome]
           tx == [NoTx EXCEPT !.pc = "readApprovals", !.seen = {"approvals"},
                              !.call = call]
<1>1. session' = [session EXCEPT ![s] = tx]
  BY DEF BeginApproval
<1>2. NoTx \in Txs /\ call \in Calls
  BY NoTxOK DEF Calls
<1>3. tx \in Txs
  BY <1>2 DEF Txs
<1>4. /\ tx.pc = "readApprovals" /\ tx.call = call /\ tx.seen = {"approvals"}
      /\ tx.locks = {} /\ tx.next = 1 /\ tx.action = NewAction
  BY DEF NoTx
<1>5. call.kind = "approval" /\ call.step = i
  OBVIOUS
<1> HIDE DEF tx, call
<1>6. Held(tx) = {}
  BY <1>4, <1>5, StepsAreNat DEF Held, ReadLast
<1>7. CourseOK(tx)
  BY <1>4, <1>5, <1>6 DEF CourseOK, ReadLast
<1>8. RevisionOK(tx, ledger)
  BY <1>4 DEF RevisionOK, ReadLast
<1>9. FollowsFrom(tx, approvals, action, ledger)
  BY <1>4, <1>5 DEF FollowsFrom, ReadLast, BeginApproval
<1>10. TxOK(tx, approvals, action, ledger)
  BY <1>3, <1>4, <1>7, <1>8, <1>9, NewActionOK DEF TxOK
<1> QED
  BY <1>1, <1>4, <1>10, OneTx DEF BeginApproval

LEMMA DecidedType ==
    ASSUME NEW appr \in [Steps -> ApprovalStatus], NEW i \in Steps,
           NEW outcome \in {"granted", "rejected"}
    PROVE  Decided(appr, i, outcome) \in [Steps -> ApprovalStatus]
BY DEF Decided, ApprovalStatus

LEMMA ReadApprovalsIInv ==
    ASSUME IInv, NEW s \in Sessions, ReadApprovals(s)
    PROVE  IInv'
<1> DEFINE old == session[s]
           call == old.call
           decided == Decided(approvals, call.step, call.outcome)
           tx == [old EXCEPT !.pc = "saveApprovals", !.approvals = decided]
<1>1. /\ session \in [Sessions -> Txs] /\ old \in Txs
      /\ approvals \in [Steps -> ApprovalStatus]
      /\ TxOK(old, approvals, action, ledger)
  BY DEF IInv, TypeOK
<1>2. session' = [session EXCEPT ![s] = tx]
  BY <1>1 DEF ReadApprovals
<1>3. old.pc = "readApprovals" /\ call.kind = "approval" /\ old.next = 1
  BY <1>1 DEF ReadApprovals, At, TxOK, CourseOK
<1>4. call \in Calls /\ call.step \in Steps
      /\ call.outcome \in {"granted", "rejected"}
  <2>1. call \in Calls
    BY <1>1 DEF Txs
  <2> QED
    BY <2>1, <1>3, CallKinds
<1>5. tx \in Txs
  <2>1. decided \in [Steps -> ApprovalStatus]
    BY <1>1, <1>4, DecidedType
  <2> HIDE DEF decided
  <2> QED
    BY <2>1, <1>1 DEF Txs
<1>6. /\ tx.pc = "saveApprovals" /\ tx.approvals = decided
      /\ tx.call = call /\ tx.next = 1 /\ tx.seen = old.seen
      /\ tx.locks = old.locks /\ tx.action = old.action
      /\ tx.stale = old.stale
  BY <1>1, <1>3 DEF Txs
<1> HIDE DEF tx, decided
<1>7. Held(tx) = Held(old)
  BY <1>3, <1>6 DEF Held, ReadLast
<1>8. CourseOK(tx)
  BY <1>1, <1>3, <1>6, <1>7, StepsAreNat DEF TxOK, CourseOK, ReadLast
<1>9. RevisionOK(tx, ledger)
  BY <1>6 DEF RevisionOK, ReadLast
<1>10. ~tx.stale => FollowsFrom(tx, approvals, action, ledger)
  BY <1>1, <1>3, <1>6 DEF TxOK, FollowsFrom, ReadLast, decided
<1>11. TxOK(tx, approvals, action, ledger)
  BY <1>1, <1>5, <1>6, <1>8, <1>9, <1>10 DEF TxOK
<1>12. \A t \in Sessions \ {s} : tx.locks \cap session[t].locks = {}
  BY <1>6 DEF IInv, LocksApart
<1> QED
  BY <1>2, <1>11, <1>12, OneTx DEF ReadApprovals

\* What every step starts from.
LEMMA TxFacts ==
    ASSUME IInv, NEW s \in Sessions
    PROVE  /\ session \in [Sessions -> Txs] /\ session[s] \in Txs
           /\ TxOK(session[s], approvals, action, ledger)
           /\ CourseOK(session[s]) /\ session[s].locks = Held(session[s])
           /\ session[s].call \in Calls
BY DEF IInv, TypeOK, TxOK, CourseOK, Txs

LEMMA LedgerFacts ==
    ASSUME IInv
    PROVE  /\ ledger \in Seq(Entries)
           /\ Len(ledger) \in Nat /\ 1 <= Len(ledger)
           /\ Len(ledger) <= MaxRevisions
           /\ DOMAIN ledger = 1 .. Len(ledger)
           /\ ledger[Len(ledger)] \in Entries
<1>1. ledger \in Seq(Entries) /\ Len(ledger) \in 1 .. MaxRevisions
  BY DEF IInv, TypeOK
<1> QED
  BY <1>1, MaxRevisionsAssumption

LEMMA SaveApprovalIInv ==
    ASSUME IInv, NEW s \in Sessions, SaveApproval(s)
    PROVE  IInv'
<1> DEFINE old == session[s]
           n == old.next
           row == <<"approvals", n>>
           pc == IF n = NSteps THEN "readAction" ELSE old.pc
           tx == [old EXCEPT !.locks = @ \cup {row}, !.next = n + 1,
                             !.pc = pc]
<1>1. /\ session \in [Sessions -> Txs] /\ old \in Txs /\ CourseOK(old)
      /\ TxOK(old, approvals, action, ledger) /\ old.locks = Held(old)
  BY TxFacts
<1>2. session' = [session EXCEPT ![s] = tx]
  BY <1>1 DEF SaveApproval, RowAt
<1>3. /\ old.pc = "saveApprovals" /\ old.call.kind = "approval"
      /\ n \in Steps
  BY <1>1 DEF SaveApproval, At, CourseOK
<1>4. /\ n \in Nat /\ n + 1 \in 1 .. NSteps + 1
      /\ n # NSteps => n + 1 \in Steps
  BY <1>3, NStepsAssumption DEF Steps
<1>5. tx \in Txs
  <2>1. row \in Rows
    BY <1>3 DEF Rows
  <2>2. pc \in PCs
    BY <1>3 DEF PCs
  <2> HIDE DEF row, pc
  <2> QED
    BY <1>1, <1>4, <2>1, <2>2 DEF Txs, PCs
<1>6. /\ tx.pc = IF n = NSteps THEN "readAction" ELSE "saveApprovals"
      /\ tx.next = n + 1 /\ tx.locks = old.locks \cup {row}
      /\ tx.call = old.call /\ tx.seen = old.seen /\ tx.stale = old.stale
      /\ tx.action = old.action /\ tx.approvals = old.approvals
  BY <1>1, <1>3 DEF Txs
<1> HIDE DEF tx
<1>7. Held(tx) = Held(old) \cup {row}
  <2>1. {<<"approvals", i>> : i \in {j \in Steps : j < n + 1}}
            = {<<"approvals", i>> : i \in {j \in Steps : j < n}} \cup {row}
    <3>1. {j \in Steps : j < n + 1} = {j \in Steps : j < n} \cup {n}
      <4>1. \A j \in Nat : j < n + 1 <=> j < n \/ j = n
        BY <1>4
      <4> HIDE DEF n
      <4> QED
        BY <4>1, <1>3, StepsAreNat
    <3> QED
      BY <3>1
  <2>2. Held(old) = {<<"approvals", i>> : i \in {j \in Steps : j < n}}
    BY <1>3 DEF Held, ReadLast
  <2>3. Held(tx) = {<<"approvals", i>> : i \in {j \in Steps : j < n + 1}}
    BY <1>3, <1>6 DEF Held, ReadLast
  <2> QED
    BY <2>1, <2>2, <2>3
<1>8. CourseOK(tx)
  BY <1>1, <1>3, <1>4, <1>6, <1>7 DEF CourseOK, ReadLast
<1>9. RevisionOK(tx, ledger)
  BY <1>6 DEF RevisionOK, ReadLast
<1>10. ~tx.stale => FollowsFrom(tx, approvals, action, ledger)
  BY <1>1, <1>3, <1>6 DEF TxOK, FollowsFrom, ReadLast
<1>11. TxOK(tx, approvals, action, ledger)
  BY <1>1, <1>5, <1>6, <1>8, <1>9, <1>10 DEF TxOK
<1>12. \A t \in Sessions \ {s} : tx.locks \cap session[t].locks = {}
  BY <1>6 DEF IInv, LocksApart, SaveApproval, RowAt, Free
<1> QED
  BY <1>2, <1>11, <1>12, OneTx DEF SaveApproval

LEMMA ReadActionIInv ==
    ASSUME IInv, NEW s \in Sessions, ReadAction(s)
    PROVE  IInv'
<1> DEFINE old == session[s]
           pc == IF Rejecting(old.call) THEN "saveAction" ELSE "readLedger"
           act == IF Rejecting(old.call) THEN RejectedAction(action) ELSE action
           tx == [old EXCEPT !.pc = pc, !.action = act,
                             !.seen = @ \cup {"action"}]
<1>1. /\ session \in [Sessions -> Txs] /\ old \in Txs /\ CourseOK(old)
      /\ TxOK(old, approvals, action, ledger) /\ old.locks = Held(old)
  BY TxFacts
<1>2. session' = [session EXCEPT ![s] = tx]
  BY <1>1 DEF ReadAction, Rejects, Rejecting
<1>3. /\ old.pc = "readAction" /\ old.call.kind = "approval"
      /\ old.next = NSteps + 1
  BY <1>1 DEF ReadAction, At, CourseOK
<1>4. act \in Actions /\ Legal(act)
  BY RejectedActionOK DEF IInv, TypeOK
<1>5. tx \in Txs
  <2>1. pc \in PCs
    BY DEF PCs
  <2> HIDE DEF act, pc
  <2> QED
    BY <1>1, <1>4, <2>1 DEF Txs, PCs
<1>6. /\ tx.pc = pc /\ tx.action = act /\ tx.seen = old.seen \cup {"action"}
      /\ tx.next = old.next /\ tx.locks = old.locks /\ tx.call = old.call
      /\ tx.stale = old.stale /\ tx.approvals = old.approvals
  BY <1>1 DEF Txs
<1> HIDE DEF tx, act
<1>7. Held(tx) = Held(old)
  BY <1>3, <1>6 DEF Held, ReadLast, WritesAction
<1>8. CourseOK(tx)
  BY <1>1, <1>3, <1>6, <1>7 DEF CourseOK, ReadLast, WritesAction
<1>9. RevisionOK(tx, ledger)
  BY <1>6 DEF RevisionOK, ReadLast
<1>10. ~tx.stale => FollowsFrom(tx, approvals, action, ledger)
  BY <1>1, <1>3, <1>6 DEF TxOK, FollowsFrom, ReadLast, act
<1>11. TxOK(tx, approvals, action, ledger)
  BY <1>4, <1>5, <1>6, <1>8, <1>9, <1>10 DEF TxOK
<1>12. \A t \in Sessions \ {s} : tx.locks \cap session[t].locks = {}
  BY <1>6 DEF IInv, LocksApart
<1> QED
  BY <1>2, <1>11, <1>12, OneTx DEF ReadAction

LEMMA BeginActionIInv ==
    ASSUME IInv, NEW s \in Sessions, NEW op \in Ops, BeginAction(s, op)
    PROVE  IInv'
<1> DEFINE call == [kind |-> "action"]
           act == Applied(action, op)
           tx == [NoTx EXCEPT !.pc = "saveAction", !.seen = {"action"},
                              !.call = call, !.action = act]
<1>1. session' = [session EXCEPT ![s] = tx]
  BY DEF BeginAction
<1>2. NoTx \in Txs /\ call \in Calls /\ call.kind = "action"
  BY NoTxOK DEF Calls
<1>3. act \in Actions /\ Legal(act)
  BY AppliedOK DEF IInv, TypeOK, BeginAction
<1>4. tx \in Txs
  <2> HIDE DEF act, call
  <2> QED
    BY <1>2, <1>3 DEF Txs
<1>5. /\ tx.pc = "saveAction" /\ tx.call = call /\ tx.seen = {"action"}
      /\ tx.locks = {} /\ tx.action = act
  BY DEF NoTx
<1> HIDE DEF tx, call, act
<1>6. Held(tx) = {}
  BY <1>2, <1>5 DEF Held, ReadLast
<1>7. CourseOK(tx)
  BY <1>2, <1>5, <1>6 DEF CourseOK, ReadLast, WritesAction
<1>8. RevisionOK(tx, ledger)
  BY <1>5 DEF RevisionOK, ReadLast
<1>9. FollowsFrom(tx, approvals, action, ledger)
  BY <1>2, <1>5 DEF FollowsFrom, ReadLast, BeginAction, act
<1>10. TxOK(tx, approvals, action, ledger)
  BY <1>3, <1>4, <1>5, <1>7, <1>8, <1>9 DEF TxOK
<1> QED
  BY <1>1, <1>5, <1>10, OneTx DEF BeginAction

LEMMA SaveActionIInv ==
    ASSUME IInv, NEW s \in Sessions, SaveAction(s)
    PROVE  IInv'
<1> DEFINE old == session[s]
           row == <<"action", 1>>
           tx == [old EXCEPT !.pc = "readLedger", !.locks = @ \cup {row}]
<1>1. /\ session \in [Sessions -> Txs] /\ old \in Txs /\ CourseOK(old)
      /\ TxOK(old, approvals, action, ledger) /\ old.locks = Held(old)
      /\ old.call \in Calls
  BY TxFacts
<1>2. session' = [session EXCEPT ![s] = tx]
  BY <1>1 DEF SaveAction, Write
<1>3. old.pc = "saveAction" /\ WritesAction(old.call)
  BY <1>1 DEF SaveAction, At, CourseOK
<1>4. tx \in Txs
  <2>1. row \in Rows
    BY DEF Rows
  <2> QED
    BY <1>1, <2>1 DEF Txs
<1>5. /\ tx.pc = "readLedger" /\ tx.locks = old.locks \cup {row}
      /\ tx.next = old.next /\ tx.call = old.call /\ tx.seen = old.seen
      /\ tx.stale = old.stale /\ tx.action = old.action
      /\ tx.approvals = old.approvals
  BY <1>1 DEF Txs
<1> HIDE DEF tx
<1>6. Held(tx) = Held(old) \cup {row}
  BY <1>3, <1>5 DEF Held, ReadLast
<1>7. CourseOK(tx)
  BY <1>1, <1>3, <1>5, <1>6 DEF CourseOK, ReadLast, WritesAction
<1>8. RevisionOK(tx, ledger)
  BY <1>5 DEF RevisionOK, ReadLast
<1>9. ~tx.stale => FollowsFrom(tx, approvals, action, ledger)
  BY <1>1, <1>3, <1>5 DEF TxOK, FollowsFrom, ReadLast
<1>10. TxOK(tx, approvals, action, ledger)
  BY <1>1, <1>4, <1>5, <1>7, <1>8, <1>9 DEF TxOK
<1>11. \A t \in Sessions \ {s} : tx.locks \cap session[t].locks = {}
  BY <1>5 DEF IInv, LocksApart, SaveAction, Write, Free
<1> QED
  BY <1>2, <1>10, <1>11, OneTx DEF SaveAction

LEMMA SyncedType ==
    ASSUME NEW tx \in Txs, NEW e \in Entries
    PROVE  SyncedBy(tx, e) \in Entries
<1>1. Status(tx.action) \in ActionStatus
  BY StatusType DEF Txs
<1>2. Summary(tx.approvals) \in [Steps -> {"none", "granted", "rejected"}]
  BY DEF Summary
<1>3. "measuring" \in LedgerStatus
  BY DEF LedgerStatus
<1> HIDE DEF Status, Summary
<1> QED
  BY <1>1, <1>2, <1>3 DEF SyncedBy, Entries

LEMMA ReadLedgerIInv ==
    ASSUME IInv, NEW s \in Sessions, ReadLedger(s)
    PROVE  IInv'
<1> DEFINE old == session[s]
           entry == SyncedBy(old, ledger[Len(ledger)])
           tx == [old EXCEPT !.pc = "saveLedger", !.revision = Len(ledger),
                             !.entry = entry, !.seen = @ \cup {"ledger"}]
<1>1. /\ session \in [Sessions -> Txs] /\ old \in Txs /\ CourseOK(old)
      /\ TxOK(old, approvals, action, ledger) /\ old.locks = Held(old)
      /\ old.call \in Calls
  BY TxFacts
<1>2. session' = [session EXCEPT ![s] = tx]
  BY <1>1 DEF ReadLedger, Synced, SyncedBy
<1>3. old.pc = "readLedger" /\ old.call.kind \in {"approval", "action"}
  BY <1>1, CallKinds DEF ReadLedger, At, CourseOK, ReadLast
<1>4. tx \in Txs
  <2>1. entry \in Entries
    BY <1>1, LedgerFacts, SyncedType
  <2>2. Len(ledger) \in 1 .. MaxRevisions
    BY DEF IInv, TypeOK
  <2> HIDE DEF entry
  <2> QED
    BY <1>1, <2>1, <2>2 DEF Txs
<1>5. /\ tx.pc = "saveLedger" /\ tx.locks = old.locks
      /\ tx.next = old.next /\ tx.call = old.call
      /\ tx.seen = old.seen \cup {"ledger"}
      /\ tx.stale = old.stale /\ tx.action = old.action
      /\ tx.approvals = old.approvals
      /\ tx.revision = Len(ledger) /\ tx.entry = entry
  BY <1>1 DEF Txs
<1> HIDE DEF tx, entry
<1>6. Held(tx) = Held(old)
  BY <1>3, <1>5 DEF Held, ReadLast
<1>7. CourseOK(tx)
  BY <1>1, <1>3, <1>5, <1>6 DEF CourseOK, ReadLast
<1>8. RevisionOK(tx, ledger)
  BY <1>3, <1>5, LedgerFacts DEF RevisionOK, ReadLast, Recalculating
<1>9. ~tx.stale => FollowsFrom(tx, approvals, action, ledger)
  <2>1. tx.entry = SyncedBy(tx, ledger[Len(ledger)])
    BY <1>5 DEF entry, SyncedBy
  <2> QED
    BY <1>1, <1>3, <1>5, <2>1 DEF TxOK, FollowsFrom, ReadLast
<1>10. TxOK(tx, approvals, action, ledger)
  BY <1>1, <1>4, <1>5, <1>7, <1>8, <1>9 DEF TxOK
<1>11. \A t \in Sessions \ {s} : tx.locks \cap session[t].locks = {}
  BY <1>5 DEF IInv, LocksApart
<1> QED
  BY <1>2, <1>10, <1>11, OneTx DEF ReadLedger

LEMMA LedgerAppliedType ==
    ASSUME NEW e \in Entries, NEW op \in {"close", "recalculate", "validate"},
           NEW v \in Validations
    PROVE  LedgerApplied(e, op, v) \in Entries
BY DEF LedgerApplied, Entries, LedgerStatus

LEMMA BeginLedgerIInv ==
    ASSUME IInv, NEW s \in Sessions,
           NEW op \in {"close", "recalculate", "validate"},
           NEW v \in Validations, BeginLedger(s, op, v)
    PROVE  IInv'
<1> DEFINE call == [kind |-> "ledger", op |-> op]
           revision == IF op = "recalculate" THEN Len(ledger) + 1
                                             ELSE Len(ledger)
           entry == LedgerApplied(ledger[Len(ledger)], op, v)
           tx == [NoTx EXCEPT !.pc = "saveLedger", !.seen = {"ledger"},
                              !.call = call, !.revision = revision,
                              !.entry = entry]
<1>1. session' = [session EXCEPT ![s] = tx]
  BY DEF BeginLedger
<1>2. NoTx \in Txs /\ call \in Calls /\ call.kind = "ledger" /\ call.op = op
  BY NoTxOK DEF Calls
<1>3. entry \in Entries
  BY LedgerFacts, LedgerAppliedType
<1>4. revision \in 1 .. MaxRevisions
  BY LedgerFacts, MaxRevisionsAssumption DEF BeginLedger
<1>5. tx \in Txs
  <2> HIDE DEF entry, revision, call
  <2> QED
    BY <1>2, <1>3, <1>4 DEF Txs
<1>6. /\ tx.pc = "saveLedger" /\ tx.call = call /\ tx.seen = {"ledger"}
      /\ tx.locks = {} /\ tx.action = NewAction /\ tx.revision = revision
      /\ tx.entry = entry
  BY DEF NoTx
<1> HIDE DEF tx, call, entry
<1>7. Held(tx) = {}
  BY <1>2, <1>6 DEF Held, WritesAction, Rejecting
<1>8. CourseOK(tx)
  BY <1>2, <1>6, <1>7 DEF CourseOK, ReadLast
<1>9. RevisionOK(tx, ledger)
  BY <1>2, <1>6, LedgerFacts DEF RevisionOK, ReadLast, Recalculating
<1>10. FollowsFrom(tx, approvals, action, ledger)
  BY <1>2, <1>6 DEF FollowsFrom, ReadLast, Recalculating, entry
<1>11. TxOK(tx, approvals, action, ledger)
  BY <1>5, <1>6, <1>8, <1>9, <1>10, NewActionOK DEF TxOK
<1> QED
  BY <1>1, <1>6, <1>11, OneTx DEF BeginLedger

LEMMA SaveLedgerIInv ==
    ASSUME IInv, NEW s \in Sessions, SaveLedger(s)
    PROVE  IInv'
<1> DEFINE old == session[s]
           row == <<"ledger", old.revision>>
           tx == [old EXCEPT !.pc = "commit", !.locks = @ \cup {row}]
<1>1. /\ session \in [Sessions -> Txs] /\ old \in Txs /\ CourseOK(old)
      /\ TxOK(old, approvals, action, ledger) /\ old.locks = Held(old)
      /\ old.call \in Calls
  BY TxFacts
<1>2. session' = [session EXCEPT ![s] = tx]
  BY <1>1 DEF SaveLedger, Write
<1>3. /\ old.pc = "saveLedger" /\ old.revision \in 1 .. MaxRevisions
      /\ Recalculating(old.call) => old.revision \notin DOMAIN ledger
  BY <1>1 DEF SaveLedger, At, Txs, Duplicate, Recalculates, Recalculating
<1>4. tx \in Txs
  <2>1. row \in Rows
    BY <1>3 DEF Rows
  <2> QED
    BY <1>1, <2>1 DEF Txs
<1>5. /\ tx.pc = "commit" /\ tx.locks = old.locks \cup {row}
      /\ tx.next = old.next /\ tx.call = old.call /\ tx.seen = old.seen
      /\ tx.stale = old.stale /\ tx.action = old.action
      /\ tx.approvals = old.approvals /\ tx.revision = old.revision
      /\ tx.entry = old.entry
  BY <1>1 DEF Txs
<1> HIDE DEF tx
<1>6. Held(tx) = Held(old) \cup {row}
  BY <1>3, <1>5 DEF Held, ReadLast
<1>7. CourseOK(tx)
  BY <1>1, <1>3, <1>5, <1>6 DEF CourseOK, ReadLast
<1>8. RevisionOK(tx, ledger)
  <2>1. Recalculating(old.call) => old.revision = Len(ledger) + 1
    <3>1. RevisionOK(old, ledger)
      BY <1>1 DEF TxOK
    <3> QED
      BY <3>1, <1>3, LedgerFacts, MaxRevisionsAssumption
         DEF RevisionOK, ReadLast
  <2> QED
    BY <1>1, <1>3, <1>5, <2>1, LedgerFacts DEF TxOK, RevisionOK, ReadLast
<1>9. ~tx.stale => FollowsFrom(tx, approvals, action, ledger)
  BY <1>1, <1>3, <1>5 DEF TxOK, FollowsFrom, ReadLast, SyncedBy
<1>10. TxOK(tx, approvals, action, ledger)
  BY <1>1, <1>4, <1>5, <1>7, <1>8, <1>9 DEF TxOK
<1>11. \A t \in Sessions \ {s} : tx.locks \cap session[t].locks = {}
  BY <1>5 DEF IInv, LocksApart, SaveLedger, Write, Free
<1> QED
  BY <1>2, <1>10, <1>11, OneTx DEF SaveLedger

LEMMA RollbackIInv ==
    ASSUME IInv, NEW s \in Sessions, Rollback(s)
    PROVE  IInv'
BY NoTxOK, OneTx DEF Rollback

-----------------------------------------------------------------------------
(* A commit, which shows what its transaction has written to the others *)

Written(s) == Tables(session[s].locks)

\* The tables that a transaction at its commit has written.
LEMMA WrittenTables ==
    ASSUME IInv, NEW s \in Sessions, Commit(s)
    PROVE  /\ "ledger" \in Written(s)
           /\ "approvals" \in Written(s) <=> session[s].call.kind = "approval"
           /\ "action" \in Written(s) <=> WritesAction(session[s].call)
<1> DEFINE tx == session[s]
           Appr == IF tx.call.kind = "approval"
                   THEN {<<"approvals", i>> : i \in {j \in Steps : j < tx.next}}
                   ELSE {}
           Act == IF WritesAction(tx.call) THEN {<<"action", 1>>} ELSE {}
           Led == {<<"ledger", tx.revision>>}
<1>1. /\ tx.pc = "commit" /\ CourseOK(tx) /\ tx.locks = Held(tx)
  BY TxFacts DEF Commit, At
<1>2. tx.locks = Appr \cup Act \cup Led
  BY <1>1 DEF Held, ReadLast
<1>3. Written(s) = {row[1] : row \in Appr} \cup {row[1] : row \in Act}
                    \cup {row[1] : row \in Led}
  BY <1>2 DEF Written, Tables
<1>4. {row[1] : row \in Led} = {"ledger"}
  OBVIOUS
<1>5. {row[1] : row \in Act} = IF WritesAction(tx.call) THEN {"action"} ELSE {}
  <2>1. CASE WritesAction(tx.call)
    BY <2>1
  <2>2. CASE ~WritesAction(tx.call)
    BY <2>2
  <2> QED
    BY <2>1, <2>2
<1>6. {row[1] : row \in Appr}
        = IF tx.call.kind = "approval" THEN {"approvals"} ELSE {}
  <2>1. CASE tx.call.kind = "approval"
    <3>1. tx.next = NSteps + 1
      BY <1>1, <2>1 DEF CourseOK
    <3>2. \A j \in Steps : j < tx.next
      <4>1. \A j \in Nat : j <= NSteps => j < NSteps + 1
        BY NStepsAssumption
      <4> QED
        BY <3>1, <4>1, StepsAreNat
    <3>3. Appr = {<<"approvals", i>> : i \in Steps}
      BY <2>1, <3>2
    <3>4. <<"approvals", 1>> \in Appr /\ \A row \in Appr : row[1] = "approvals"
      BY <3>3, StepsAreNat
    <3> HIDE DEF Appr
    <3>5. {row[1] : row \in Appr} = {"approvals"}
      <4>1. <<"approvals", 1>>[1] = "approvals"
        OBVIOUS
      <4> QED
        BY <3>4, <4>1
    <3> QED
      BY <2>1, <3>5
  <2>2. CASE tx.call.kind # "approval"
    BY <2>2
  <2> QED
    BY <2>1, <2>2
<1> HIDE DEF Appr, Act, Led
<1> QED
  BY <1>3, <1>4, <1>5, <1>6

\* What a commit makes of the tables.
LEMMA CommitTables ==
    ASSUME IInv, NEW s \in Sessions, Commit(s)
    PROVE  LET tx == session[s] IN
           /\ approvals' = IF tx.call.kind = "approval" THEN tx.approvals
                                                        ELSE approvals
           /\ action' = IF WritesAction(tx.call) THEN tx.action ELSE action
           /\ ledger' \in Seq(Entries) /\ Len(ledger') \in 1 .. MaxRevisions
           /\ IF Recalculating(tx.call)
              THEN /\ tx.revision = Len(ledger) + 1
                   /\ Len(ledger') = Len(ledger) + 1
                   /\ ledger'[Len(ledger) + 1] = tx.entry
              ELSE /\ tx.revision \in 1 .. Len(ledger)
                   /\ Len(ledger') = Len(ledger)
                   /\ ledger'[tx.revision] = tx.entry
                   /\ \A i \in 1 .. Len(ledger) :
                         i # tx.revision => ledger'[i] = ledger[i]
<1> DEFINE tx == session[s]
<1>1. /\ tx \in Txs /\ tx.pc = "commit" /\ RevisionOK(tx, ledger)
      /\ tx.entry \in Entries /\ tx.revision \in 1 .. MaxRevisions
  BY TxFacts DEF Commit, At, TxOK, Txs
<1>2. /\ approvals' = IF tx.call.kind = "approval" THEN tx.approvals
                                                   ELSE approvals
      /\ action' = IF WritesAction(tx.call) THEN tx.action ELSE action
  BY WrittenTables DEF Commit, Written
<1>3. /\ ledger' = IF tx.revision > Len(ledger)
                   THEN Append(ledger, tx.entry)
                   ELSE [ledger EXCEPT ![tx.revision] = tx.entry]
  BY DEF Commit
<1>4. /\ ledger \in Seq(Entries) /\ Len(ledger) \in Nat /\ 1 <= Len(ledger)
      /\ Len(ledger) <= MaxRevisions /\ DOMAIN ledger = 1 .. Len(ledger)
  BY LedgerFacts
<1>5. CASE Recalculating(tx.call)
  <2>1. tx.revision = Len(ledger) + 1
    BY <1>1, <1>5 DEF RevisionOK, ReadLast
  <2>2. ledger' = Append(ledger, tx.entry)
    BY <1>3, <1>4, <2>1
  <2> HIDE DEF tx
  <2>3. /\ ledger' \in Seq(Entries) /\ Len(ledger') = Len(ledger) + 1
        /\ ledger'[Len(ledger) + 1] = tx.entry
    BY <1>1, <1>4, <2>2
  <2>4. Len(ledger') \in 1 .. MaxRevisions
    BY <1>1, <1>4, <2>1, <2>3
  <2> QED
    BY <1>2, <1>5, <2>1, <2>3, <2>4 DEF tx
<1>6. CASE ~Recalculating(tx.call)
  <2>1. tx.revision \in 1 .. Len(ledger)
    BY <1>1, <1>4, <1>6, MaxRevisionsAssumption DEF RevisionOK, ReadLast
  <2>2. ledger' = [ledger EXCEPT ![tx.revision] = tx.entry]
    <3>1. ~(tx.revision > Len(ledger))
      BY <1>4, <2>1
    <3> QED
      BY <1>3, <3>1
  <2> HIDE DEF tx
  <2>3. /\ ledger' \in Seq(Entries) /\ Len(ledger') = Len(ledger)
        /\ ledger'[tx.revision] = tx.entry
        /\ \A i \in 1 .. Len(ledger) :
                i # tx.revision => ledger'[i] = ledger[i]
    BY <1>1, <1>4, <2>1, <2>2
  <2>4. Len(ledger') \in 1 .. MaxRevisions
    BY <1>4, <2>3, MaxRevisionsAssumption
  <2> QED
    BY <1>2, <1>6, <2>1, <2>3, <2>4 DEF tx
<1> QED
  BY <1>5, <1>6

\* A commit of a transaction that is not stale writes what follows from the
\* tables, and leaves them in agreement.
LEMMA CommitAgrees ==
    ASSUME IInv, NEW s \in Sessions, Commit(s)
    PROVE  TablesAgree'
<1> DEFINE tx == session[s]
           latest == ledger[Len(ledger)]
<1>1. CASE raced'
  BY <1>1 DEF TablesAgree
<1>2. CASE ~raced'
  <2>1. RejectionCloses /\ LedgerMirrors /\ ~tx.stale
    BY <1>2 DEF IInv, TablesAgree, Commit
  <2>2. /\ FollowsFrom(tx, approvals, action, ledger) /\ tx.pc = "commit"
        /\ tx \in Txs /\ tx.call \in Calls
    BY <2>1, TxFacts DEF TxOK, Commit, At
  <2>3. /\ approvals \in [Steps -> ApprovalStatus] /\ action \in Actions
        /\ Legal(action) /\ latest \in Entries
    BY LedgerFacts DEF IInv, TypeOK
  <2>4. tx.call.kind \in {"approval", "action", "ledger"}
    BY <2>2, TxFacts, CallKinds DEF CourseOK
  <2>5. /\ latest.action = Status(action)
        /\ latest.approvals = Summary(approvals)
        /\ latest.status = "open" => Status(action) # "acknowledged"
    BY <2>1 DEF LedgerMirrors
  <2>6. CASE tx.call.kind = "approval"
    <3> DEFINE step == tx.call.step
               outcome == tx.call.outcome
    <3>1. /\ step \in Steps /\ outcome \in {"granted", "rejected"}
          /\ ~Recalculating(tx.call)
          /\ WritesAction(tx.call) <=> outcome = "rejected"
          /\ Rejecting(tx.call) <=> outcome = "rejected"
      BY <2>2, <2>6, CallKinds DEF Recalculating, WritesAction, Rejecting
    <3>2. /\ approvals[step] = "requested"
          /\ tx.approvals = Decided(approvals, step, outcome)
          /\ tx.action = IF outcome = "rejected" THEN RejectedAction(action)
                                                 ELSE action
          /\ tx.revision = Len(ledger) /\ tx.entry = SyncedBy(tx, latest)
      BY <2>2, <2>6, <3>1 DEF FollowsFrom, ReadLast
    <3>3. /\ approvals' = Decided(approvals, step, outcome)
          /\ action' = tx.action
          /\ ledger'[Len(ledger')] = SyncedBy(tx, latest)
      BY <2>6, <3>1, <3>2, CommitTables
    <3>4. RejectionCloses'
      <4>1. CASE outcome = "rejected"
        <5>1. Status(action') # "pending"
          BY <4>1, <3>2, <3>3, <2>3, RejectedActionOK
        <5>2. \A i \in Steps : approvals'[i] # "requested"
          BY <4>1, <3>1, <3>3, <2>3 DEF Decided
        <5> QED
          BY <5>1, <5>2 DEF RejectionCloses, Status
      <4>2. CASE outcome = "granted"
        <5>1. \A i \in Steps : approvals[i] # "rejected"
          BY <2>1, <3>1, <3>2 DEF RejectionCloses
        <5>2. \A i \in Steps : approvals'[i] # "rejected"
          BY <4>2, <5>1, <3>3 DEF Decided
        <5> QED
          BY <5>2 DEF RejectionCloses
      <4> QED
        BY <3>1, <4>1, <4>2
    <3>5. LedgerMirrors'
      <4>1. Summary(tx.approvals)= Summary(approvals')
        BY <3>2, <3>3
      <4>2. /\ SyncedBy(tx, latest).action = Status(action')
            /\ SyncedBy(tx, latest).approvals = Summary(approvals')
            /\ SyncedBy(tx, latest).status = latest.status
        BY <2>3, <2>6, <3>3, <4>1 DEF SyncedBy, Entries
      <4>3. Status(action') = "acknowledged" => Status(action) = "acknowledged"
        <5>1. "canceled" \in Outcomes
          BY DEF Outcomes, ActionStatus, Transitions
        <5>2. Status(action) = "pending" => /\ "canceled" \in Transitions[Status(action)]
          BY DEF Transitions
        <5>3. Status(action) = "pending" =>
                    Status(WithAttempt(action, "canceled")) = "canceled"
          BY <2>3, <5>1, <5>2, WithAttemptOK
        <5> QED
          BY <3>2, <3>3, <5>3 DEF RejectedAction
      <4> QED
        BY <2>5, <3>3, <4>2, <4>3 DEF LedgerMirrors
    <3> QED
      BY <3>4, <3>5 DEF TablesAgree
  <2>7. CASE tx.call.kind = "action"
    <3>1. WritesAction(tx.call) /\ ~Recalculating(tx.call)
      BY <2>7 DEF WritesAction, Recalculating
    <3>2. PICK op \in Ops : Allows(action, op) /\ tx.action = Applied(action, op)
      BY <2>2, <2>7 DEF FollowsFrom
    <3>3. tx.revision = Len(ledger) /\ tx.entry = SyncedBy(tx, latest)
      BY <2>2, <2>7 DEF FollowsFrom, ReadLast
    <3>4. /\ approvals' = approvals /\ action' = tx.action
          /\ ledger'[Len(ledger')] = SyncedBy(tx, latest)
      BY <2>7, <3>1, <3>3, CommitTables
    <3>5. action.attempts # <<>> => action'.attempts # <<>>
      <4>1. CASE op \in {"prepare", "execute"}
        BY <4>1, <2>3, <3>2, <3>4 DEF Applied, Actions
      <4>2. CASE op \notin {"prepare", "execute"}
        <5>1. op \in Outcomes /\ action'.attempts = Append(action.attempts, op)
          BY <4>2, <3>2, <3>4 DEF Ops, Applied, WithAttempt
        <5>2. action.attempts \in Seq(Outcomes)
          BY <2>3 DEF Actions
        <5> QED
          BY <5>1, <5>2
      <4> QED
        BY <4>1, <4>2
    <3>6. RejectionCloses'
      BY <2>1, <3>4, <3>5 DEF RejectionCloses
    <3>7. /\ SyncedBy(tx, latest).action = Status(action')
          /\ SyncedBy(tx, latest).approvals = latest.approvals
          /\ SyncedBy(tx, latest).status
                = IF Status(action') = "acknowledged" /\ latest.status = "open"
                  THEN "measuring" ELSE latest.status
      BY <2>3, <2>7, <3>4 DEF SyncedBy, Entries
    <3>8. LedgerMirrors'
      BY <2>5, <3>4, <3>7 DEF LedgerMirrors
    <3> QED
      BY <3>6, <3>8 DEF TablesAgree
  <2>8. CASE tx.call.kind = "ledger"
    <3>1. ~WritesAction(tx.call)
      BY <2>8 DEF WritesAction, Rejecting
    <3>2. /\ tx.revision =
                IF Recalculating(tx.call) THEN Len(ledger) + 1 ELSE Len(ledger)
          /\ \E v \in Validations : tx.entry = LedgerApplied(latest, tx.call.op, v)
      BY <2>2, <2>8 DEF FollowsFrom, ReadLast
    <3>3. PICK v \in Validations : tx.entry = LedgerApplied(latest, tx.call.op, v)
      BY <3>2
    <3>4. /\ approvals' = approvals /\ action' = action
          /\ ledger'[Len(ledger')] = tx.entry
      BY <2>8, <3>1, <3>2, CommitTables
    <3>5. RejectionCloses'
      BY <2>1, <3>4 DEF RejectionCloses
    <3>6. /\ tx.entry.action = latest.action
          /\ tx.entry.approvals = latest.approvals
          /\ tx.entry.status = "open" => latest.status = "open"
      BY <2>3, <3>3 DEF LedgerApplied, Entries
    <3>7. LedgerMirrors'
      BY <2>5, <3>4, <3>6 DEF LedgerMirrors
    <3> QED
      BY <3>5, <3>7 DEF TablesAgree
  <2> QED
    BY <2>4, <2>6, <2>7, <2>8
<1> QED
  BY <1>1, <1>2

\* What a commit leaves of the other transactions: those that have read a
\* table it wrote are stale, and of the others nothing depends on it.
LEMMA CommitOthers ==
    ASSUME IInv, NEW s \in Sessions, Commit(s), NEW t \in Sessions \ {s}
    PROVE  /\ TxOK(session'[t], approvals', action', ledger')
           /\ session'[t].locks = session[t].locks
           /\ session'[t].pc = session[t].pc
<1> DEFINE tx == session[t]
           stale == tx.stale \/ tx.seen \cap Written(s) # {}
           new == [tx EXCEPT !.stale = stale]
<1>1. /\ tx \in Txs /\ CourseOK(tx) /\ TxOK(tx, approvals, action, ledger)
      /\ RevisionOK(tx, ledger) /\ tx.locks = Held(tx) /\ tx.call \in Calls
  BY TxFacts DEF TxOK
<1>2. session'[t] = new
  BY DEF Commit, Written
<1>3. /\ new.pc = tx.pc /\ new.call = tx.call /\ new.next = tx.next
      /\ new.locks = tx.locks /\ new.seen = tx.seen
      /\ new.action = tx.action /\ new.approvals = tx.approvals
      /\ new.revision = tx.revision /\ new.entry = tx.entry
      /\ new.stale = stale /\ new \in Txs
  <2>1. stale \in BOOLEAN
    BY <1>1 DEF Txs
  <2> HIDE DEF stale
  <2> QED
    BY <1>1, <2>1 DEF Txs
<1> HIDE DEF new, stale
<1>4. Held(new) = Held(tx)
  BY <1>3 DEF Held
<1>5. CourseOK(new)
  BY <1>1, <1>3, <1>4 DEF CourseOK
<1>6. RevisionOK(new, ledger')
  <2>1. Len(ledger') \in Nat /\ Len(ledger) \in Nat /\ tx.revision \in Nat
        /\ Len(ledger) <= Len(ledger')
    BY <1>1, CommitTables, LedgerFacts, MaxRevisionsAssumption DEF Txs
  <2>2. CASE Recalculating(tx.call) /\ tx.pc = "commit"
    <3>1. tx.revision = Len(ledger) + 1
      BY <1>1, <2>2 DEF RevisionOK, ReadLast
    <3>2. <<"ledger", tx.revision>> \in tx.locks
      BY <1>1, <2>2 DEF Held
    <3>3. session[s].pc = "commit" /\ session[s].locks = Held(session[s])
      BY TxFacts DEF Commit, At
    <3>4. <<"ledger", session[s].revision>> \in session[s].locks
      BY <3>3 DEF Held
    <3>5. session[s].revision # tx.revision
      BY <3>2, <3>4 DEF IInv, LocksApart
    <3>6. ~Recalculating(session[s].call)
      BY <3>1, <3>5, CommitTables
    <3>7. Len(ledger') = Len(ledger)
      BY <3>6, CommitTables
    <3> QED
      BY <1>3, <2>1, <2>2, <3>1, <3>7 DEF RevisionOK
  <2>3. CASE ~(Recalculating(tx.call) /\ tx.pc = "commit")
    BY <1>1, <1>3, <2>1, <2>3 DEF RevisionOK
  <2> QED
    BY <2>2, <2>3
<1>7. ~new.stale => FollowsFrom(new, approvals', action', ledger')
  <2> SUFFICES ASSUME ~new.stale
               PROVE  FollowsFrom(new, approvals', action', ledger')
    OBVIOUS
  <2>1. ~tx.stale /\ tx.seen \cap Written(s) = {}
    BY <1>3 DEF stale
  <2>2. FollowsFrom(tx, approvals, action, ledger)
    BY <1>1, <2>1 DEF TxOK
  <2>3. tx.pc \notin ReadLast
    BY <1>1, <2>1, WrittenTables DEF CourseOK
  <2>4. tx.call.kind = "approval" => approvals' = approvals
    <3>1. tx.call.kind = "approval" => "approvals" \notin Written(s)
      BY <1>1, <2>1 DEF CourseOK
    <3> QED
      BY <3>1, WrittenTables, CommitTables
  <2>5. tx.call.kind = "action" \/ tx.pc \in {"saveAction", "readLedger"}
            => action' = action
    <3>1. tx.call.kind = "action" \/ tx.pc \in {"saveAction", "readLedger"}
            => "action" \notin Written(s)
      BY <1>1, <2>1 DEF CourseOK
    <3> QED
      BY <3>1, WrittenTables, CommitTables
  <2> QED
    BY <1>3, <2>2, <2>3, <2>4, <2>5 DEF FollowsFrom
<1>8. TxOK(new, approvals', action', ledger')
  BY <1>1, <1>3, <1>5, <1>6, <1>7 DEF TxOK
<1> QED
  BY <1>2, <1>3, <1>8

LEMMA CommitIInv ==
    ASSUME IInv, NEW s \in Sessions, Commit(s)
    PROVE  IInv'
<1>1. session'[s] = NoTx /\ DOMAIN session' = Sessions
  BY DEF Commit
<1>2. \A t \in Sessions : TxOK(session'[t], approvals', action', ledger')
  BY <1>1, NoTxOK, CommitOthers
<1>3. TypeOK'
  <2>1. session' \in [Sessions -> Txs]
    <3>1. \A t \in Sessions : session'[t] \in Txs
      BY <1>2 DEF TxOK
    <3>2. session' = [t \in Sessions |-> session'[t]]
      BY DEF Commit
    <3> QED
      BY <3>1, <3>2
  <2>2. approvals' \in [Steps -> ApprovalStatus] /\ action' \in Actions
    BY CommitTables, TxFacts DEF IInv, TypeOK, Txs
  <2>3. ledger' \in Seq(Entries) /\ Len(ledger') \in 1 .. MaxRevisions
    BY CommitTables
  <2>4. raced' \in BOOLEAN /\ commits' \in Nat
    BY TxFacts DEF IInv, TypeOK, Commit, Txs
  <2> QED
    BY <2>1, <2>2, <2>3, <2>4 DEF TypeOK
<1>4. Legal(action')
  BY CommitTables, TxFacts DEF IInv, TxOK
<1>5. LocksApart'
  BY <1>1, NoTxOK, CommitOthers DEF IInv, LocksApart
<1> QED
  BY <1>2, <1>3, <1>4, <1>5, CommitAgrees DEF IInv

LEMMA NextIInv == IInv /\ [Next]_vars => IInv'
<1> SUFFICES ASSUME IInv, [Next]_vars PROVE IInv'
  OBVIOUS
<1>1. CASE UNCHANGED vars
  BY <1>1 DEF vars, IInv, TypeOK, TablesAgree, RejectionCloses, LedgerMirrors,
              LocksApart
<1>2. ASSUME NEW s \in Sessions, NEW i \in Steps,
             NEW outcome \in {"granted", "rejected"},
             BeginApproval(s, i, outcome)
      PROVE  IInv'
  BY <1>2, BeginApprovalIInv
<1>3. ASSUME NEW s \in Sessions,
             \/ ReadApprovals(s) \/ SaveApproval(s) \/ ReadAction(s)
             \/ SaveAction(s) \/ ReadLedger(s) \/ SaveLedger(s)
             \/ Commit(s) \/ Rollback(s)
      PROVE  IInv'
  BY <1>3, ReadApprovalsIInv, SaveApprovalIInv, ReadActionIInv,
     SaveActionIInv, ReadLedgerIInv, SaveLedgerIInv, CommitIInv, RollbackIInv
<1>4. ASSUME NEW s \in Sessions, NEW op \in Ops, BeginAction(s, op)
      PROVE  IInv'
  BY <1>4, BeginActionIInv
<1>5. ASSUME NEW s \in Sessions, NEW v \in Validations,
             NEW op \in {"close", "recalculate", "validate"},
             BeginLedger(s, op, v)
      PROVE  IInv'
  BY <1>5, BeginLedgerIInv
<1>6. CASE Next
  BY <1>2, <1>3, <1>4, <1>5, <1>6 DEF Next, Ops
<1> QED
  BY <1>1, <1>6

LEMMA Invariance == Spec => []IInv
BY InitIInv, NextIInv, PTL DEF Spec

-----------------------------------------------------------------------------
(* What follows from the invariant *)

(* The rows, and the transactions on them, are of their types in every     *)
(* state: in particular an entry of the ledger lists decisions only.       *)
THEOREM TypeCorrect == Spec => []TypeOK
<1>1. IInv => TypeOK
  BY DEF IInv
<1> QED
  BY <1>1, Invariance, PTL

(* In every state the attempts of the dispatch are a path of               *)
(* ACTION_TRANSITIONS within the retry policy, and unless transactions have *)
(* raced, approvals, dispatch and ledger agree: whatever calls overlap in  *)
(* withTransaction.                                                        *)
THEOREM RecordsSound == Spec => []RecordsAreSound
<1>1. IInv => RecordsAreSound
  BY DEF IInv, Legal, RecordsAreSound, AttemptsAreLegal
<1> QED
  BY <1>1, Invariance, PTL

\* A set of naturals that is not empty has a least element.
LEMMA LeastOf ==
    ASSUME NEW S \in SUBSET Nat, S # {}
    PROVE  \E p \in S : \A q \in S : p <= q
<1>1. PICK m \in S : \A k \in S : <<k, m>> \notin OpToRel(<, Nat)
  BY WFMin, NatLessThanWellFounded, Zenon
<1>2. \A k \in S : ~(k < m)
  BY <1>1, Zenon DEF OpToRel
<1>3. ASSUME NEW k \in S PROVE m <= k
  <2>1. k \in Nat /\ m \in Nat /\ ~(k < m)
    BY <1>1, <1>2
  <2> QED
    BY <2>1
<1> QED
  BY <1>3

Saving == {"saveApprovals", "saveAction", "saveLedger"}

\* The place of the row that a transaction is about to write in the order in
\* which all of them take their rows.
Place(tx) ==
    CASE tx.pc = "saveApprovals" -> tx.next
      [] tx.pc = "saveAction"    -> NSteps + 1
      [] OTHER                   -> NSteps + 2

\* A transaction holds only rows that come before the one it wants.
LEMMA HoldsOnlyEarlier ==
    ASSUME IInv, NEW s \in Sessions, NEW t \in Sessions,
           session[s].pc \in Saving, session[t].pc \in Saving,
           Place(session[t]) <= Place(session[s])
    PROVE  Wanted(s) \cap session[t].locks = {}
<1> DEFINE x == session[s]
           y == session[t]
<1>1. /\ CourseOK(x) /\ CourseOK(y) /\ y.locks = Held(y)
      /\ x.call \in Calls /\ y.call \in Calls
  BY TxFacts
<1>2. /\ x.pc = "saveApprovals" => x.call.kind = "approval" /\ x.next \in Steps
      /\ y.pc = "saveApprovals" => y.call.kind = "approval" /\ y.next \in Steps
  BY <1>1 DEF CourseOK
<1>3. Wanted(s) = CASE x.pc = "saveApprovals" -> {<<"approvals", x.next>>}
                    [] x.pc = "saveAction"    -> {<<"action", 1>>}
                    [] OTHER                  -> {<<"ledger", x.revision>>}
  BY DEF Wanted, At, RowAt, Saving
<1>4. ASSUME NEW row \in Wanted(s), row \in y.locks
      PROVE  FALSE
  <2>1. CASE row[1] = "ledger"
    <3>1. row \notin Held(y)
      BY <2>1 DEF Held, Saving
    <3> QED
      BY <3>1, <1>1, <1>4
  <2>2. CASE row[1] = "action"
    <3>1. x.pc = "saveAction"
      BY <2>2, <1>3 DEF Saving
    <3>2. y.pc = "saveLedger"
      BY <2>2, <1>1, <1>4 DEF Held, Saving, ReadLast
    <3> QED
      BY <3>1, <3>2, NStepsAssumption DEF Place
  <2>3. CASE row[1] = "approvals"
    <3>1. x.pc = "saveApprovals" /\ row = <<"approvals", x.next>>
      BY <2>3, <1>3 DEF Saving
    <3>2. PICK i \in Steps : i < y.next /\ row = <<"approvals", i>>
                             /\ y.call.kind = "approval"
      BY <2>3, <1>1, <1>4 DEF Held
    <3>3. i = x.next
      BY <3>1, <3>2
    <3>4. x.next \in Nat /\ x.next <= NSteps
      BY <1>2, <3>1, StepsAreNat
    <3>5. CASE y.pc = "saveApprovals"
      <4>1. y.next \in Nat /\ y.next <= x.next
        BY <1>2, <3>1, <3>5, StepsAreNat DEF Place
      <4> QED
        BY <4>1, <3>2, <3>3, <3>4
    <3>6. CASE y.pc # "saveApprovals"
      BY <3>1, <3>4, <3>6, NStepsAssumption DEF Place
    <3> QED
      BY <3>5, <3>6
  <2> QED
    BY <2>1, <2>2, <2>3, <1>3
<1> QED
  BY <1>4

(* The transactions of the four calls never wait on each other in a cycle: *)
(* all of them take the rows of approvals, dispatch and ledger in that     *)
(* order, and approvals in the order of their steps, so that of any of     *)
(* them the one that is furthest waits for none of the others.             *)
THEOREM NoDeadlock == Spec => []NoCircularWait
<1>1. ASSUME IInv PROVE NoCircularWait
  <2> SUFFICES ASSUME NEW waiting \in SUBSET Sessions, waiting # {}
               PROVE  \E s \in waiting : \A t \in waiting \ {s} :
                            Wanted(s) \cap session[t].locks = {}
    BY DEF NoCircularWait
  <2>1. CASE \E s \in waiting : session[s].pc \notin Saving
    <3>1. PICK s \in waiting : session[s].pc \notin Saving
      BY <2>1
    <3>2. Wanted(s) = {}
      BY <3>1 DEF Wanted, At, Saving
    <3> QED
      BY <3>1, <3>2
  <2>2. CASE \A s \in waiting : session[s].pc \in Saving
    <3> DEFINE Left(s) == NSteps + 2 - Place(session[s])
               S == {Left(s) : s \in waiting}
    <3>1. ASSUME NEW s \in waiting
          PROVE  Place(session[s]) \in Nat /\ Left(s) \in Nat
      <4>1. session[s].pc = "saveApprovals" => session[s].next \in Steps
        BY <1>1, TxFacts DEF CourseOK
      <4>2. Place(session[s]) \in Nat /\ Place(session[s]) <= NSteps + 2
        BY <4>1, StepsAreNat, NStepsAssumption DEF Place
      <4> QED
        BY <4>2, NStepsAssumption
    <3>2. S \in SUBSET Nat /\ S # {}
      BY <3>1
    <3>3. PICK m \in S : \A k \in S : m <= k
      <4> HIDE DEF S
      <4> QED
        BY <3>2, LeastOf
    <3>4. PICK s \in waiting : m = Left(s)
      OBVIOUS
    <3>5. ASSUME NEW t \in waiting
          PROVE  Place(session[t]) <= Place(session[s])
      <4>1. Left(s) <= Left(t)
        BY <3>3, <3>4
      <4> QED
        BY <4>1, <3>1, NStepsAssumption
    <3> QED
      BY <1>1, <2>2, <3>5, HoldsOnlyEarlier
  <2> QED
    BY <2>1, <2>2
<1> QED
  BY <1>1, Invariance, PTL

-----------------------------------------------------------------------------
(* What a step may do to the tables *)

\* Only a commit changes a table.
LEMMA OnlyCommitWrites ==
    ASSUME [Next]_vars
    PROVE  UNCHANGED <<tables, raced, commits>> \/ \E s \in Sessions : Commit(s)
BY DEF Next, vars, tables, BeginApproval, ReadApprovals, SaveApproval,
       ReadAction, BeginAction, SaveAction, ReadLedger, BeginLedger,
       SaveLedger, Rollback

LEMMA CommitAdds ==
    ASSUME IInv, NEW s \in Sessions, Commit(s)
    PROVE  RecalculationAdds
<1> SUFFICES ASSUME NEW t \in Sessions, At(t, "commit"), Recalculates(t),
                    session'[t].pc = "idle"
             PROVE  Len(ledger') = Len(ledger) + 1
  BY DEF RecalculationAdds
<1>1. t = s
  BY CommitOthers DEF At
<1> QED
  BY <1>1, CommitTables DEF Recalculates, Recalculating

LEMMA CommitKeeps ==
    ASSUME IInv, NEW s \in Sessions, Commit(s), ~session[s].stale
    PROVE  DecisionsAreFinal /\ AttemptsOnlyGrow
<1> DEFINE tx == session[s]
<1>1. /\ FollowsFrom(tx, approvals, action, ledger) /\ tx.pc = "commit"
      /\ tx \in Txs /\ tx.call \in Calls
  BY TxFacts DEF TxOK, Commit, At
<1>2. approvals \in [Steps -> ApprovalStatus] /\ action \in Actions
  BY DEF IInv, TypeOK
<1>3. DecisionsAreFinal
  <2>1. CASE tx.call.kind = "approval"
    <3>1. /\ approvals[tx.call.step] = "requested"
          /\ approvals' = Decided(approvals, tx.call.step, tx.call.outcome)
      BY <1>1, <2>1, CommitTables DEF FollowsFrom
    <3> QED
      BY <3>1 DEF DecisionsAreFinal, Decided
  <2>2. CASE tx.call.kind # "approval"
    BY <2>2, CommitTables DEF DecisionsAreFinal
  <2> QED
    BY <2>1, <2>2
<1>4. Extends(action', action)
  <2>1. CASE ~WritesAction(tx.call)
    BY <2>1, <1>2, CommitTables, ExtendsSelf
  <2>2. CASE tx.call.kind = "action"
    <3>1. PICK op \in Ops : tx.action = Applied(action, op)
      BY <1>1, <2>2 DEF FollowsFrom
    <3>2. action' = tx.action
      BY <2>2, CommitTables DEF WritesAction
    <3> QED
      BY <3>1, <3>2, <1>2, AppliedExtends
  <2>3. CASE Rejecting(tx.call)
    <3>1. tx.action = RejectedAction(action)
      BY <1>1, <2>3 DEF FollowsFrom, ReadLast, Rejecting
    <3>2. action' = tx.action
      BY <2>3, CommitTables DEF WritesAction
    <3> QED
      BY <3>1, <3>2, <1>2, RejectedActionExtends
  <2> QED
    BY <2>1, <2>2, <2>3 DEF WritesAction
<1> QED
  BY <1>3, <1>4 DEF Extends, AttemptsOnlyGrow

(* No step undoes what a call has committed: a recalculation that commits   *)
(* adds a revision even when two of them race, a decision is final and no   *)
(* attempt of the dispatch is lost, but to a transaction that had read the  *)
(* row before it changed.                                                   *)
THEOREM CommittedKept == Spec => CommittedIsKept
<1> DEFINE Kept == /\ RecalculationAdds
                   /\ LosesUpdate \/ (DecisionsAreFinal /\ AttemptsOnlyGrow)
<1>1. ASSUME IInv, [Next]_vars PROVE Kept
  <2>1. CASE UNCHANGED <<tables, raced, commits>>
    <3>1. approvals' = approvals /\ action' = action /\ ledger' = ledger
      BY <2>1 DEF tables
    <3>2. action \in Actions
      BY <1>1 DEF IInv, TypeOK
    <3>3. DecisionsAreFinal /\ RecalculationAdds
      BY <3>1 DEF DecisionsAreFinal, RecalculationAdds
    <3>4. AttemptsOnlyGrow
      BY <3>1, <3>2, ExtendsSelf DEF Extends, AttemptsOnlyGrow
    <3> QED
      BY <3>3, <3>4
  <2>2. CASE \E s \in Sessions : Commit(s)
    <3>1. PICK s \in Sessions : Commit(s)
      BY <2>2
    <3>2. CASE session[s].stale
      <4>1. session'[s].pc = "idle" /\ At(s, "commit")
        BY <3>1 DEF Commit, NoTx
      <4> QED
        BY <1>1, <3>1, <3>2, <4>1, CommitAdds DEF LosesUpdate
    <3>3. CASE ~session[s].stale
      BY <1>1, <3>1, <3>3, CommitAdds, CommitKeeps
    <3> QED
      BY <3>2, <3>3
  <2> QED
    BY <1>1, <2>1, <2>2, OnlyCommitWrites
<1>2. IInv /\ [Next]_vars => [Kept]_vars
  BY <1>1
<1> QED
  BY <1>2, Invariance, PTL DEF Spec, CommittedIsKept

=============================================================================
