-------------------------- MODULE OnboardingProofs --------------------------
(* Theorems about Onboarding, for every value of its constants. *)
EXTENDS Onboarding, FiniteSetTheorems, TLAPS

(***************************************************************************)
(* The inductive invariant has a part for each thing that the properties   *)
(* rest on; every part is a predicate of the pieces of the state it is     *)
(* about.                                                                  *)
(***************************************************************************)

\* Where a request is says what it is.
PlaceOK(r) ==
    /\ r.op = "none" <=> r.at = "begin"
    /\ r.op = "none" => r = Idle
    /\ r.at \in {"insert", "compensate"} => r.op = "create"
    /\ r.at = "mark" => r.op = "cancel"
    /\ r.at = "engine" => r.op = "complete"
    /\ r.at = "edit" => r.op \in {"save", "complete"}
    /\ r.at \in {"edit", "engine"} => ~r.again
    /\ r.again => r.op \in {"save", "complete"}
    /\ r.op = "create" => r.applied
    /\ r.op = "complete" => (r.applied <=> r.again)
    /\ r.op \in {"view", "save"} => ~r.applied

\* The requests that hold the locks of the case.
Holds(r) ==
    \/ r.at \in {"edit", "engine", "commit"}
    \/ r.again
    \/ r.op = "cancel" /\ r.at # "mark"
    \/ r.op = "create" /\ r.at \notin {"insert", "compensate"}

LocksOK ==
    \A s \in Sessions :
        /\ PlaceOK(sess[s])
        /\ Holds(sess[s]) => lock = s
        /\ lock = s => Holds(sess[s]) \/ sess[s].at = "compensate"

\* One request creates the case, with the process, and the others come later.
LifeOK ==
    /\ engine.state = "none" =>
          /\ engine = NoProcess /\ db = NoCase /\ work = NoCase
          /\ \A s \in Sessions : sess[s] = Idle
    /\ ~db.exists => db = NoCase
    /\ \A s \in Sessions :
          /\ sess[s].op = "create" => engine.state = "active" /\ ~db.exists
          /\ sess[s].op \notin {"none", "create"} => db.exists
    /\ \A r, s \in Sessions :
          sess[r].op = "create" /\ sess[s].op = "create" => r = s
    /\ lock # NoOne => work.exists

\* No draft is counted twice, and the search shows the past.
CountsOK ==
    /\ saves + Cardinality({s \in Sessions : Working(s, "save") /\ ~sess[s].again})
          <= MaxSaves
    /\ index.done <= engine.done

\* What rows can tell: tasks that the search has shown, drafts that were saved.
RowsOK(rows, shown, saved) ==
    /\ Done(rows) \subseteq 1 .. shown
    /\ \A t \in Tasks : rows[t].draft <= saved

Matches(case) == case.status \in {Snapshot(case.rows, "open"), "cancelled", "completed"}

TablesOK ==
    /\ RowsOK(db.rows, index.done, saves) /\ Matches(db)
    /\ RowsOK(work.rows, index.done, saves) /\ Matches(work)
    /\ \A s \in Sessions : /\ RowsOK(sess[s].rows, index.done, saves)
                           /\ sess[s].seen.done <= index.done

\* What a request has read for its sync is what is there, unless it has no
\* lock yet and another one has committed since.
Current(r, view) ==
    /\ r.at \in {"projection", "rows", "write"} => r.status = view.status
    /\ r.at \in {"rows", "write"} => Done(view.rows) \subseteq 1 .. r.seen.done
    /\ r.at = "write" => r.rows = view.rows

ReadsOK ==
    \A s \in Sessions :
        lock = s \/ ~sess[s].stale => Current(sess[s], View(s))

\* Nothing of old is taken back in new.
Keeps(old, new) ==
    /\ old.status = "cancelled" => new.status = "cancelled"
    /\ old.events \subseteq new.events
    /\ \A t \in Tasks :
          /\ old.rows[t].status = "done" => new.rows[t].status = "done"
          /\ old.rows[t].payload => new.rows[t].payload
          /\ new.rows[t].draft >= old.rows[t].draft

WorkKeeps == lock # NoOne /\ ~sess[lock].stale => Keeps(db, work)

\* The completion of t is recorded in case.
Records(case, t) == case.rows[t].payload /\ t \in case.events

Completes(s, t) == sess[s].op = "complete" /\ sess[s].again /\ sess[s].task = t

RecordsOK ==
    /\ \A t \in 1 .. engine.done :
          \/ clobbered \/ t \in broken \/ Records(db, t)
          \/ \E s \in Sessions : Completes(s, t)
    /\ CompletionIsRecorded
    /\ \A s \in Sessions :
          /\ sess[s].at = "engine" => work.rows[sess[s].task].payload
          /\ \A t \in Tasks : Completes(s, t) => Records(work, t)
    /\ lock # NoOne =>
          \A t \in Done(work.rows) \ broken :
              clobbered \/ sess[lock].stale \/ Records(work, t)

\* Who cancels the case has canceled the process, or could not.
ProcessGone == engine.state # "active" \/ "cancel" \in loose

CancelsOK ==
    /\ db.status = "cancelled" \/ work.status = "cancelled" => ProcessGone
    /\ \A s \in Sessions :
          /\ sess[s].status = "cancelled" \/ sess[s].op = "cancel" => ProcessGone
          /\ sess[s].op = "cancel" /\ sess[s].at # "mark" =>
                work.status = "cancelled"
    /\ (engine.state = "active" /\ ~db.exists) =>
          "start" \in loose \/ \E s \in Sessions : sess[s].op = "create"
    /\ (engine.state = "canceled" /\ db.exists /\ db.status # "cancelled") =>
          \/ "case" \in loose \/ clobbered
          \/ \E s \in Sessions : sess[s].op = "cancel" /\ sess[s].applied

IInv ==
    /\ TypeOK
    /\ LocksOK
    /\ LifeOK
    /\ CountsOK
    /\ TablesOK
    /\ ReadsOK
    /\ WorkKeeps
    /\ RecordsOK
    /\ CancelsOK

-----------------------------------------------------------------------------
(* Rows, statuses and projections *)

Statuses == {"open", "ready", "active", "completed", "cancelled"}

LEMMA TasksOK ==
    /\ Tasks \subseteq Nat /\ ExecuteActivation \in Tasks /\ 1 \in Tasks
    /\ \A n \in 0 .. NTasks : n \in Nat
BY OnboardingAssumption DEF Tasks, ExecuteActivation

LEMMA NoCaseOK ==
    /\ NoCase \in Case /\ NoCase.exists = FALSE /\ NoCase.status = "open"
    /\ NoCase.events = {} /\ NoCase.rows \in [Tasks -> Row]
    /\ \A t \in Tasks : NoCase.rows[t] = Fresh
    /\ Fresh \in Row /\ Fresh.status = "todo" /\ Fresh.draft = 0
    /\ Fresh.payload = FALSE
    /\ Done(NoCase.rows) = {}
BY OnboardingAssumption DEF NoCase, Case, Fresh, Row, Done

LEMMA IdleOK ==
    /\ Idle \in Session
    /\ Idle.op = "none" /\ Idle.at = "begin" /\ ~Idle.again /\ ~Idle.applied
    /\ ~Idle.stale /\ Idle.status = "open" /\ Idle.seen = NoProcess
    /\ Idle.rows = NoCase.rows
    /\ NoProcess \in Process /\ NoProcess.state = "none" /\ NoProcess.done = 0
<1>1. NoProcess \in Process /\ NoProcess.state = "none" /\ NoProcess.done = 0
  BY OnboardingAssumption DEF NoProcess, Process
<1>2. Idle \in Session
  BY <1>1, NoCaseOK, TasksOK DEF Idle, Session, Ops
<1> QED
  BY <1>1, <1>2 DEF Idle

LEMMA SnapshotOK ==
    ASSUME NEW rows, NEW current \in Statuses
    PROVE  /\ Snapshot(rows, current) \in Statuses
           /\ Snapshot(rows, current)
                 \in {Snapshot(rows, "open"), "cancelled", "completed"}
           /\ Snapshot(rows, current) = "cancelled" <=> current = "cancelled"
BY DEF Snapshot, Statuses

LEMMA ProjectedOK ==
    ASSUME NEW row \in Row, NEW p \in Process, NEW t \in Tasks
    PROVE  LET new == Projected(row, UserTask(p, t)) IN
           /\ new \in Row
           /\ new.payload = row.payload /\ new.draft = row.draft
           /\ t <= p.done => new.status = "done"
           /\ new.status = "done" => t <= p.done \/ row.status = "done"
<1> DEFINE state == UserTask(p, t)
           new == Projected(row, state)
<1>1. /\ state \in {"COMPLETED", "none", "CANCELED", "CREATED"}
      /\ state = "COMPLETED" <=> t <= p.done
  BY DEF UserTask
<1> HIDE DEF state
<1>2. /\ new \in Row /\ new.payload = row.payload /\ new.draft = row.draft
      /\ new.status = CASE state = "COMPLETED" -> "done"
                        [] state = "CANCELED" -> "blocked"
                        [] state = "CREATED" -> "in_progress"
                        [] state = "none" ->
                              IF row.status = "done" THEN "done" ELSE "todo"
  BY <1>1 DEF Projected, Row
<1> HIDE DEF new
<1>3. /\ t <= p.done => new.status = "done"
      /\ new.status = "done" => t <= p.done \/ row.status = "done"
  BY <1>1, <1>2
<1> QED
  BY <1>2, <1>3 DEF new, state

\* Where the bound of what is shown only grows, rows stay within it.
LEMMA RowsOKGrows ==
    ASSUME NEW rows \in [Tasks -> Row], NEW n \in Nat, NEW m \in Nat, n <= m,
           NEW v \in Nat, NEW w \in Nat, v <= w, RowsOK(rows, n, v)
    PROVE  RowsOK(rows, m, w)
<1>1. \A t \in Tasks : rows[t].draft \in Nat
  BY OnboardingAssumption DEF Row
<1>2. 1 .. n \subseteq 1 .. m
  OBVIOUS
<1> QED
  BY <1>1, <1>2 DEF RowsOK

LEMMA KeepsChains ==
    ASSUME NEW a \in Case, NEW b \in Case, NEW c \in Case,
           Keeps(a, b), Keeps(b, c)
    PROVE  Keeps(a, c)
<1>1. \A t \in Tasks : /\ a.rows[t].draft \in Nat /\ b.rows[t].draft \in Nat
                       /\ c.rows[t].draft \in Nat
  BY OnboardingAssumption DEF Case, Row
<1>2. ASSUME NEW t \in Tasks PROVE c.rows[t].draft >= a.rows[t].draft
  <2>1. c.rows[t].draft >= b.rows[t].draft /\ b.rows[t].draft >= a.rows[t].draft
    BY DEF Keeps
  <2> QED
    BY <1>1, <2>1
<1> QED
  BY <1>2 DEF Keeps

LEMMA KeepsRecords ==
    ASSUME NEW a, NEW b, Keeps(a, b), NEW t \in Tasks, Records(a, t)
    PROVE  Records(b, t)
BY DEF Keeps, Records

-----------------------------------------------------------------------------
(* What a sync writes *)

LEMMA SyncedOK ==
    ASSUME IInv, NEW s \in Sessions, sess[s].at = "write"
    PROVE  LET r == sess[s]
               w == Synced(s)
           IN  /\ w \in Case /\ w.exists = View(s).exists
               /\ w.events = View(s).events
               /\ RowsOK(w.rows, index.done, saves) /\ Matches(w)
               /\ w.status = "cancelled" <=> r.status = "cancelled"
               /\ lock = s \/ ~r.stale => Keeps(View(s), w)
               /\ \A t \in Done(w.rows) : t <= r.seen.done \/ t \in Done(r.rows)
               /\ \A t \in Tasks : w.rows[t].payload = r.rows[t].payload
<1> DEFINE r == sess[s]
           v == View(s)
           rows == [t \in Tasks |-> Projected(r.rows[t], UserTask(r.seen, t))]
           w == Synced(s)
<1>1. /\ r \in Session /\ r.rows \in [Tasks -> Row] /\ r.seen \in Process
      /\ r.status \in Statuses /\ v \in Case /\ index.done \in 0 .. NTasks
      /\ saves \in Nat
  BY OnboardingAssumption DEF IInv, TypeOK, Session, View, Statuses, Process
<1>2. w = [v EXCEPT !.rows = rows, !.status = Snapshot(rows, r.status)]
  BY DEF Synced
<1>3. /\ r.at = "write" /\ RowsOK(r.rows, index.done, saves)
      /\ r.seen.done <= index.done
      /\ lock = s \/ ~r.stale => Current(r, v)
  BY DEF IInv, TablesOK, ReadsOK
<1> HIDE DEF r, v
<1>4. \A t \in Tasks : /\ rows[t] = Projected(r.rows[t], UserTask(r.seen, t))
                       /\ r.rows[t] \in Row
  BY <1>1
<1>5. DOMAIN rows = Tasks
  OBVIOUS
<1> HIDE DEF rows
<1>6. \A t \in Tasks :
         /\ rows[t] \in Row
         /\ rows[t].payload = r.rows[t].payload /\ rows[t].draft = r.rows[t].draft
         /\ t <= r.seen.done => rows[t].status = "done"
         /\ rows[t].status = "done" =>
               t <= r.seen.done \/ r.rows[t].status = "done"
  BY <1>1, <1>4, ProjectedOK
<1>7. rows \in [Tasks -> Row]
  <2>1. rows = [t \in Tasks |-> rows[t]]
    BY DEF rows
  <2> QED
    BY <1>6, <2>1
<1>8. /\ Snapshot(rows, r.status) \in Statuses
      /\ Snapshot(rows, r.status)
            \in {Snapshot(rows, "open"), "cancelled", "completed"}
      /\ Snapshot(rows, r.status) = "cancelled" <=> r.status = "cancelled"
  BY <1>1, SnapshotOK
<1>9. /\ w \in Case /\ w.exists = v.exists /\ w.events = v.events
      /\ w.rows = rows /\ w.status = Snapshot(rows, r.status)
  BY <1>1, <1>2, <1>7, <1>8 DEF Case, Statuses
<1> HIDE DEF w
<1>10. \A t \in Done(rows) : t <= r.seen.done \/ t \in Done(r.rows)
  BY <1>6 DEF Done
<1>11. RowsOK(rows, index.done, saves)
  <2>1. ASSUME NEW t \in Done(rows) PROVE t \in 1 .. index.done
    <3>1. t \in 1 .. NTasks
      BY <2>1 DEF Done, Tasks
    <3>2. r.seen.done \in 0 .. NTasks
      BY <1>1 DEF Process
    <3>3. CASE t <= r.seen.done
      BY <1>1, <1>3, <3>1, <3>2, <3>3, OnboardingAssumption
    <3>4. CASE t \in Done(r.rows)
      BY <1>3, <3>4 DEF RowsOK
    <3> QED
      BY <1>10, <2>1, <3>3, <3>4
  <2>2. \A t \in Tasks : rows[t].draft <= saves
    BY <1>3, <1>6 DEF RowsOK
  <2> QED
    BY <2>1, <2>2 DEF RowsOK
<1>12. ASSUME lock = s \/ ~r.stale PROVE Keeps(v, w)
  <2>1. /\ r.status = v.status /\ Done(v.rows) \subseteq 1 .. r.seen.done
        /\ r.rows = v.rows
    BY <1>3, <1>12 DEF Current
  <2>2. ASSUME NEW t \in Tasks
        PROVE  /\ v.rows[t].status = "done" => rows[t].status = "done"
               /\ v.rows[t].payload => rows[t].payload
               /\ rows[t].draft >= v.rows[t].draft
    <3>1. rows[t].draft = v.rows[t].draft /\ v.rows[t].draft \in Nat
      BY <1>4, <1>6, <2>1, OnboardingAssumption DEF Row
    <3>2. ASSUME v.rows[t].status = "done" PROVE rows[t].status = "done"
      <4>1. t \in 1 .. r.seen.done
        BY <2>1, <3>2 DEF Done
      <4> QED
        BY <1>6, <4>1
    <3> QED
      BY <1>6, <2>1, <3>1, <3>2
  <2> QED
    BY <1>8, <1>9, <2>1, <2>2 DEF Keeps
<1>13. Matches(w)
  BY <1>8, <1>9 DEF Matches
<1> QED
  BY <1>6, <1>8, <1>9, <1>10, <1>11, <1>12, <1>13 DEF r, v, w

-----------------------------------------------------------------------------
(* The inductive invariant is preserved *)

\* One request changes.
LEMMA OneRequest ==
    ASSUME TypeOK, NEW s \in Sessions, NEW r, Goes(s, r)
    PROVE  /\ sess'[s] = r
           /\ \A c \in Sessions \ {s} : sess'[c] = sess[c]
           /\ r \in Session => sess' \in [Sessions -> Session]
BY DEF Goes, TypeOK

LEMMA NoOneApart == NoOne \notin Sessions
BY OnboardingAssumption DEF NoOne

\* A request moves on between the tables, without touching them.
LEMMA MoveIInv ==
    ASSUME IInv, NEW s \in Sessions, NEW r \in Session, Goes(s, r),
           UNCHANGED <<engine, index, db, work, lock, saves, clobbered, broken>>,
           faults' \in 0 .. MaxFaults,
           loose \subseteq loose', loose' \subseteq {"start", "cancel", "case"},
           r.op = sess[s].op, r.task = sess[s].task, r.again = sess[s].again,
           r.applied = sess[s].applied, r.op # "none",
           sess[s].at # "mark", r.at \notin {"begin", "mark", "engine"},
           PlaceOK(r), Holds(r) => lock = s,
           lock = s => Holds(r) \/ r.at = "compensate",
           lock = s => r.stale = sess[s].stale,
           RowsOK(r.rows, index.done, saves), r.seen.done <= index.done,
           lock = s \/ ~r.stale => Current(r, View(s)),
           r.status = "cancelled" => ProcessGone
    PROVE  IInv'
<1>0. /\ sess'[s] = r /\ \A c \in Sessions \ {s} : sess'[c] = sess[c]
      /\ sess' \in [Sessions -> Session]
  BY OneRequest DEF IInv
<1>1. \A c \in Sessions : /\ sess'[c].op = sess[c].op
                          /\ sess'[c].task = sess[c].task
                          /\ sess'[c].again = sess[c].again
                          /\ sess'[c].applied = sess[c].applied
  BY <1>0
<1>2. TypeOK'
  BY <1>0, NoOneApart DEF IInv, TypeOK
<1>3. LocksOK'
  BY <1>0 DEF IInv, LocksOK
<1>4. LifeOK'
  BY <1>0, <1>1, IdleOK DEF IInv, LifeOK
<1>5. CountsOK'
  <2>1. {c \in Sessions : sess'[c].op = "save" /\ ~sess'[c].again}
          = {c \in Sessions : sess[c].op = "save" /\ ~sess[c].again}
    BY <1>1
  <2> QED
    BY <2>1 DEF IInv, CountsOK, Working
<1>6. TablesOK'
  BY <1>0 DEF IInv, TablesOK
<1>7. ReadsOK'
  BY <1>0 DEF IInv, ReadsOK, View
<1>8. WorkKeeps'
  BY <1>0 DEF IInv, TypeOK, WorkKeeps
<1>9. RecordsOK'
  <2>1. \A c \in Sessions, t \in Tasks : Completes(c, t)' <=> Completes(c, t)
    BY <1>1 DEF Completes
  <2>2. \A t \in 1 .. engine.done :
          \/ clobbered \/ t \in broken \/ Records(db, t)
          \/ \E c \in Sessions : Completes(c, t)'
    BY <1>1 DEF IInv, RecordsOK, Completes
  <2>3. CompletionIsRecorded'
    BY DEF IInv, RecordsOK, CompletionIsRecorded
  <2>4. \A c \in Sessions :
          /\ sess'[c].at = "engine" => work.rows[sess'[c].task].payload
          /\ \A t \in Tasks : Completes(c, t)' => Records(work, t)
    BY <1>0, <2>1 DEF IInv, RecordsOK
  <2>5. lock # NoOne =>
          \A t \in Done(work.rows) \ broken :
              clobbered \/ sess'[lock].stale \/ Records(work, t)
    BY <1>0 DEF IInv, TypeOK, RecordsOK
  <2> QED
    BY <2>2, <2>3, <2>4, <2>5 DEF RecordsOK
<1>10. CancelsOK'
  <2>1. ProcessGone => ProcessGone'
    BY DEF ProcessGone
  <2>2. \A c \in Sessions :
           /\ sess'[c].status = "cancelled" \/ sess'[c].op = "cancel" => ProcessGone'
           /\ sess'[c].op = "cancel" /\ sess'[c].at # "mark" =>
                 work'.status = "cancelled"
    BY <1>0, <2>1 DEF IInv, CancelsOK
  <2> QED
    BY <1>1, <2>1, <2>2 DEF IInv, CancelsOK
<1> QED
  BY <1>2, <1>3, <1>4, <1>5, <1>6, <1>7, <1>8, <1>9, <1>10 DEF IInv

LEMMA ReadIInv ==
    ASSUME IInv, NEW s \in Sessions, ReadCase(s) \/ ReadRows(s)
    PROVE  IInv'
<1>0. /\ sess[s] \in Session /\ PlaceOK(sess[s]) /\ View(s) \in Case
      /\ Holds(sess[s]) => lock = s
      /\ lock = s => Holds(sess[s]) \/ sess[s].at = "compensate"
  BY DEF IInv, TypeOK, LocksOK, View
<1>1. /\ RowsOK(sess[s].rows, index.done, saves)
      /\ RowsOK(View(s).rows, index.done, saves)
      /\ sess[s].seen.done <= index.done
  BY DEF IInv, TablesOK, View
<1>2. lock = s \/ ~sess[s].stale => Current(sess[s], View(s))
  BY DEF IInv, ReadsOK
<1>3. sess[s].status = "cancelled" => ProcessGone
  BY DEF IInv, CancelsOK
<1>4. View(s).status = "cancelled" => ProcessGone
  BY DEF IInv, CancelsOK, View
<1>5. faults \in 0 .. MaxFaults /\ loose \subseteq {"start", "cancel", "case"}
  BY DEF IInv, TypeOK
<1>6. CASE ReadCase(s)
  <2> DEFINE r == [sess[s] EXCEPT !.at = "projection", !.status = View(s).status,
                                  !.stale = @ /\ lock = s]
  <2>1. /\ r \in Session
        /\ r.op = sess[s].op /\ r.task = sess[s].task /\ r.again = sess[s].again
        /\ r.applied = sess[s].applied /\ r.at = "projection"
        /\ r.status = View(s).status /\ r.rows = sess[s].rows
        /\ r.seen = sess[s].seen
        /\ lock = s => r.stale = sess[s].stale
    BY <1>0 DEF Session, Case
  <2>2. Goes(s, r) /\ sess[s].at = "case"
        /\ UNCHANGED <<engine, index, db, work, lock, saves, faults, history>>
    BY <1>6 DEF ReadCase
  <2> HIDE DEF r
  <2>3. PlaceOK(r) /\ r.op # "none"
    BY <1>0, <2>1, <2>2 DEF PlaceOK
  <2>4. /\ Holds(r) <=> Holds(sess[s])
    BY <1>0, <2>1, <2>2 DEF Holds, PlaceOK
  <2>5. Current(r, View(s))
    BY <2>1 DEF Current
  <2> QED
    BY <1>0, <1>1, <1>4, <1>5, <2>1, <2>2, <2>3, <2>4, <2>5, MoveIInv DEF history
<1>7. CASE ReadRows(s)
  <2> DEFINE r == [sess[s] EXCEPT !.at = "write", !.rows = View(s).rows]
  <2>1. /\ r \in Session
        /\ r.op = sess[s].op /\ r.task = sess[s].task /\ r.again = sess[s].again
        /\ r.applied = sess[s].applied /\ r.at = "write"
        /\ r.status = sess[s].status /\ r.rows = View(s).rows
        /\ r.seen = sess[s].seen /\ r.stale = sess[s].stale
    BY <1>0 DEF Session, Case
  <2>2. Goes(s, r) /\ sess[s].at = "rows"
        /\ UNCHANGED <<engine, index, db, work, lock, saves, faults, history>>
    BY <1>7 DEF ReadRows
  <2> HIDE DEF r
  <2>3. PlaceOK(r) /\ r.op # "none"
    BY <1>0, <2>1, <2>2 DEF PlaceOK
  <2>4. /\ Holds(r) <=> Holds(sess[s])
    BY <1>0, <2>1, <2>2 DEF Holds, PlaceOK
  <2>5. lock = s \/ ~r.stale => Current(r, View(s))
    BY <1>2, <2>1, <2>2 DEF Current
  <2> QED
    BY <1>0, <1>1, <1>3, <1>5, <2>1, <2>2, <2>3, <2>4, <2>5, MoveIInv DEF history
<1> QED
  BY <1>6, <1>7

LEMMA CountsStay ==
    ASSUME CountsOK, UNCHANGED saves, index'.done <= engine'.done,
           \A c \in Sessions : sess'[c].op = "save" /\ ~sess'[c].again
                                  <=> sess[c].op = "save" /\ ~sess[c].again
    PROVE  CountsOK'
<1>1. {c \in Sessions : sess'[c].op = "save" /\ ~sess'[c].again}
        = {c \in Sessions : sess[c].op = "save" /\ ~sess[c].again}
  OBVIOUS
<1> QED
  BY <1>1 DEF CountsOK, Working

\* A request that has the locks, or gets them, writes the case.
LEMMA HoldIInv ==
    ASSUME IInv, NEW s \in Sessions, NEW r \in Session, NEW w \in Case,
           Goes(s, r), Free(s), lock' = s, work' = w,
           UNCHANGED <<engine, index, db, faults, clobbered, broken, loose>>,
           saves' \in 0 .. MaxSaves, saves <= saves', CountsOK',
           r.op = sess[s].op, r.task = sess[s].task, r.op # "none",
           r.applied = sess[s].applied, r.stale = sess[s].stale,
           r.op = "complete" => r.again = sess[s].again,
           PlaceOK(r), Holds(r),
           RowsOK(r.rows, index.done, saves'), r.seen.done <= index.done,
           r.status = "cancelled" => ProcessGone,
           w.exists, RowsOK(w.rows, index.done, saves'), Matches(w),
           lock = s \/ ~r.stale => Keeps(View(s), w),
           Current(r, w),
           r.at = "engine" => w.rows[r.task].payload,
           \A t \in Done(w.rows) \ broken :
              clobbered \/ r.stale \/ Records(w, t),
           w.status = "cancelled" => ProcessGone,
           r.op = "cancel" => w.status = "cancelled"
    PROVE  IInv'
<1>0. /\ sess'[s] = r /\ \A c \in Sessions \ {s} : sess'[c] = sess[c]
      /\ sess' \in [Sessions -> Session]
  BY OneRequest DEF IInv
<1>1. \A c \in Sessions : /\ sess'[c].op = sess[c].op
                          /\ sess'[c].task = sess[c].task
                          /\ sess'[c].applied = sess[c].applied
                          /\ sess[c].op = "complete" =>
                                sess'[c].again = sess[c].again
  BY <1>0
<1>2. /\ s # NoOne /\ lock \in {s, NoOne}
      /\ \A c \in Sessions \ {s} : lock # c /\ lock' # c /\ ~Holds(sess[c])
  BY NoOneApart DEF Free, IInv, LocksOK
<1>3. /\ sess[s] \in Session /\ db \in Case /\ work \in Case
      /\ saves \in Nat /\ saves' \in Nat /\ index.done \in Nat
  BY OnboardingAssumption DEF IInv, TypeOK, Process
<1>4. TypeOK'
  <2>1. r.at # "begin"
    BY DEF PlaceOK
  <2> QED
    BY <1>0, <1>2, <2>1 DEF IInv, TypeOK
<1>5. LocksOK'
  BY <1>0, <1>2 DEF IInv, LocksOK
<1>6. LifeOK'
  <2>1. sess[s] # Idle
    BY IdleOK
  <2> QED
    BY <1>0, <1>1, <1>2, <2>1 DEF IInv, LifeOK
<1>7. TablesOK'
  <2>1. ASSUME NEW rows \in [Tasks -> Row], RowsOK(rows, index.done, saves)
        PROVE  RowsOK(rows, index.done, saves')
    BY <1>3, <2>1, RowsOKGrows
  <2>2. RowsOK(db.rows, index.done, saves') /\ Matches(db)
    BY <1>3, <2>1 DEF IInv, TablesOK, Case
  <2>3. ASSUME NEW c \in Sessions \ {s}
        PROVE  RowsOK(sess[c].rows, index.done, saves')
               /\ sess[c].seen.done <= index.done
    <3>1. sess[c].rows \in [Tasks -> Row]
      BY DEF IInv, TypeOK, Session
    <3> QED
      BY <2>1, <3>1 DEF IInv, TablesOK
  <2> QED
    BY <1>0, <2>2, <2>3 DEF TablesOK
<1>8. ReadsOK'
  <2>1. ASSUME NEW c \in Sessions \ {s}, ~sess[c].stale
        PROVE  Current(sess[c], db)
    BY <1>2, <2>1 DEF IInv, ReadsOK, View
  <2> QED
    BY <1>0, <1>2, <2>1 DEF ReadsOK, View
<1>9. WorkKeeps'
  <2>1. ASSUME ~r.stale PROVE Keeps(db, w)
    <3>1. CASE lock = s
      BY <1>2, <1>3, <2>1, <3>1, KeepsChains DEF IInv, WorkKeeps, View
    <3>2. CASE lock # s
      BY <2>1, <3>2 DEF View
    <3> QED
      BY <3>1, <3>2
  <2> QED
    BY <1>0, <2>1 DEF WorkKeeps
<1>10. RecordsOK'
  <2>1. \A c \in Sessions, t \in Tasks : Completes(c, t)' <=> Completes(c, t)
    BY <1>1 DEF Completes
  <2>2. \A t \in 1 .. engine.done :
          \/ clobbered \/ t \in broken \/ Records(db, t)
          \/ \E c \in Sessions : Completes(c, t)'
    BY <1>1 DEF IInv, RecordsOK, Completes
  <2>3. CompletionIsRecorded'
    BY DEF IInv, RecordsOK, CompletionIsRecorded
  <2>4. ASSUME NEW c \in Sessions, NEW t \in Tasks, Completes(c, t)
        PROVE  Records(w, t)
    <3>1. Holds(sess[c])
      BY <2>4 DEF Completes, Holds
    <3>2. c = s /\ lock = s
      BY <1>2, <3>1 DEF IInv, LocksOK
    <3> QED
      BY <2>4, <3>2, KeepsRecords DEF IInv, RecordsOK, View
  <2>5. ASSUME NEW c \in Sessions, sess'[c].at = "engine"
        PROVE  w.rows[sess'[c].task].payload
    <3>1. c = s
      BY <1>0, <1>2, <2>5 DEF Holds
    <3> QED
      BY <1>0, <2>5, <3>1
  <2>6. \A t \in Done(w.rows) \ broken :
            clobbered \/ sess'[s].stale \/ Records(w, t)
    BY <1>0
  <2> QED
    BY <2>1, <2>2, <2>3, <2>4, <2>5, <2>6 DEF RecordsOK
<1>11. CancelsOK'
  <2>1. ProcessGone' <=> ProcessGone
    BY DEF ProcessGone
  <2>2. ASSUME NEW c \in Sessions
        PROVE  /\ sess'[c].status = "cancelled" \/ sess'[c].op = "cancel" =>
                      ProcessGone
               /\ sess'[c].op = "cancel" /\ sess'[c].at # "mark" =>
                      w.status = "cancelled"
    <3>1. sess[c].op = "cancel" => ProcessGone
      BY DEF IInv, CancelsOK
    <3>2. c # s /\ sess[c].op = "cancel" => sess[c].at = "mark"
      BY <1>2 DEF Holds
    <3>3. sess[c].status = "cancelled" => ProcessGone
      BY DEF IInv, CancelsOK
    <3> QED
      BY <1>0, <1>1, <3>1, <3>2, <3>3
  <2>3. db.status = "cancelled" => ProcessGone
    BY DEF IInv, CancelsOK
  <2>4. (engine.state = "active" /\ ~db.exists) =>
          "start" \in loose \/ \E c \in Sessions : sess'[c].op = "create"
    BY <1>1 DEF IInv, CancelsOK
  <2>5. (engine.state = "canceled" /\ db.exists /\ db.status # "cancelled") =>
          \/ "case" \in loose \/ clobbered
          \/ \E c \in Sessions : sess'[c].op = "cancel" /\ sess'[c].applied
    BY <1>1 DEF IInv, CancelsOK
  <2> QED
    BY <2>1, <2>2, <2>3, <2>4, <2>5 DEF CancelsOK
<1> QED
  BY <1>4, <1>5, <1>6, <1>7, <1>8, <1>9, <1>10, <1>11 DEF IInv

LEMMA WriteRowsIInv ==
    ASSUME IInv, NEW s \in Sessions, WriteRows(s)
    PROVE  IInv'
<1> DEFINE more == sess[s].op \in {"save", "complete"} /\ ~sess[s].again
           r == [sess[s] EXCEPT !.at = IF more THEN "edit" ELSE "commit",
                                !.status = Idle.status, !.seen = Idle.seen,
                                !.rows = Idle.rows]
           w == Synced(s)
<1>0. /\ sess[s] \in Session /\ PlaceOK(sess[s]) /\ View(s) \in Case
      /\ Holds(sess[s]) => lock = s
      /\ saves \in 0 .. MaxSaves /\ index \in Process /\ engine \in Process
  BY DEF IInv, TypeOK, LocksOK, View
<1>1. /\ Goes(s, r) /\ Free(s) /\ lock' = s /\ work' = w
      /\ sess[s].at = "write"
      /\ UNCHANGED <<engine, index, db, saves, faults, history>>
  BY DEF WriteRows
<1>2. /\ r \in Session
      /\ r.op = sess[s].op /\ r.task = sess[s].task /\ r.again = sess[s].again
      /\ r.applied = sess[s].applied /\ r.stale = sess[s].stale
      /\ r.at = IF more THEN "edit" ELSE "commit"
      /\ r.status = "open" /\ r.rows = NoCase.rows /\ r.seen = NoProcess
  BY <1>0, IdleOK DEF Session
<1>3. /\ w \in Case /\ w.exists = View(s).exists
      /\ w.events = View(s).events
      /\ RowsOK(w.rows, index.done, saves) /\ Matches(w)
      /\ w.status = "cancelled" <=> sess[s].status = "cancelled"
      /\ lock = s \/ ~sess[s].stale => Keeps(View(s), w)
      /\ \A t \in Done(w.rows) :
            t <= sess[s].seen.done \/ t \in Done(sess[s].rows)
      /\ \A t \in Tasks : w.rows[t].payload = sess[s].rows[t].payload
  BY <1>1, SyncedOK
<1>4. PlaceOK(r) /\ Holds(r)
  BY <1>0, <1>1, <1>2 DEF PlaceOK, Holds
<1> HIDE DEF r, w, more
<1>5. CountsOK'
  <2>1. /\ sess'[s] = r /\ \A c \in Sessions \ {s} : sess'[c] = sess[c]
    BY <1>1, OneRequest DEF IInv
  <2> QED
    BY <1>1, <1>2, <2>1, CountsStay DEF IInv, CountsOK
<1>6. View(s).exists
  BY <1>0, <1>1, NoOneApart DEF IInv, LifeOK, View, PlaceOK, Holds
<1>7. RowsOK(r.rows, index.done, saves) /\ r.seen.done <= index.done
  <2>1. \A t \in Tasks : NoCase.rows[t].draft <= saves
    BY <1>0, NoCaseOK, OnboardingAssumption
  <2>2. 0 <= index.done
    BY <1>0, OnboardingAssumption DEF Process
  <2> QED
    BY <1>2, <2>1, <2>2, NoCaseOK, IdleOK DEF RowsOK
<1>8. r.at \notin {"projection", "rows", "write", "engine"}
  BY <1>2
<1>9. Current(r, w)
  BY <1>8 DEF Current
<1>10. ASSUME NEW t \in Done(w.rows) \ broken
       PROVE  clobbered \/ r.stale \/ Records(w, t)
  <2> SUFFICES ASSUME ~clobbered, ~sess[s].stale
               PROVE  Records(w, t)
    BY <1>2
  <2>1. /\ Done(View(s).rows) \subseteq 1 .. sess[s].seen.done
        /\ sess[s].rows = View(s).rows
    BY <1>1 DEF IInv, ReadsOK, Current
  <2>2. sess[s].seen.done <= index.done /\ index.done <= engine.done
    BY DEF IInv, TablesOK, CountsOK
  <2>3. t \in 1 .. engine.done /\ t \in Tasks
    <3>1. t \in 1 .. NTasks /\ t <= sess[s].seen.done
      BY <1>3, <2>1 DEF Done, Tasks
    <3>2. sess[s].seen.done \in Int /\ index.done \in Int /\ engine.done \in Int
      BY <1>0, OnboardingAssumption DEF Session, Process
    <3> QED
      BY <2>2, <3>1, <3>2, OnboardingAssumption DEF Tasks
  <2>4. Records(db, t) \/ \E c \in Sessions : Completes(c, t)
    BY <2>3 DEF IInv, RecordsOK
  <2>5. Records(View(s), t)
    <3>1. CASE Records(db, t)
      <4>1. CASE lock = s
        BY <2>3, <3>1, <4>1, KeepsRecords, NoOneApart DEF IInv, WorkKeeps, View
      <4>2. CASE lock # s
        BY <3>1, <4>2 DEF View
      <4> QED
        BY <4>1, <4>2
    <3>2. ASSUME NEW c \in Sessions, Completes(c, t)
          PROVE  Records(View(s), t)
      <4>1. lock = c
        BY <3>2 DEF IInv, LocksOK, Holds, Completes
      <4>2. c = s
        BY <1>1, <4>1, NoOneApart DEF Free
      <4> QED
        BY <2>3, <3>2, <4>1, <4>2 DEF IInv, RecordsOK, View
    <3> QED
      BY <2>4, <3>1, <3>2
  <2> QED
    BY <1>3, <2>1, <2>3, <2>5 DEF Records
<1>11. w.status = "cancelled" => ProcessGone
  BY <1>3 DEF IInv, CancelsOK
<1>12. ASSUME r.op = "cancel" PROVE w.status = "cancelled"
  <2>1. lock = s /\ work.status = "cancelled"
    BY <1>0, <1>1, <1>2, <1>12 DEF Holds, IInv, CancelsOK
  <2>2. sess[s].status = "cancelled"
    BY <1>1, <2>1 DEF IInv, ReadsOK, Current, View
  <2> QED
    BY <1>3, <2>2
<1>13. r.op # "none"
  BY <1>0, <1>1, <1>2 DEF PlaceOK
<1>14. /\ saves' \in 0 .. MaxSaves /\ saves <= saves'
       /\ RowsOK(r.rows, index.done, saves')
       /\ RowsOK(w.rows, index.done, saves')
  BY <1>0, <1>1, <1>3, <1>7, OnboardingAssumption
<1>15. /\ UNCHANGED <<engine, index, db, faults, clobbered, broken, loose>>
       /\ Free(s) /\ lock' = s /\ work' = w /\ Goes(s, r)
  BY <1>1 DEF history
<1>16. /\ r.status = "cancelled" => ProcessGone
       /\ r.at = "engine" => w.rows[r.task].payload
       /\ lock = s \/ ~r.stale => Keeps(View(s), w)
       /\ w \in Case /\ r \in Session /\ w.exists /\ Matches(w)
  BY <1>2, <1>3, <1>6, <1>8
<1> QED
  BY <1>2, <1>4, <1>5, <1>7, <1>9, <1>10, <1>11, <1>12, <1>13, <1>14, <1>15,
     <1>16, HoldIInv

\* A request that has the locks and edits the rows of the case: what it keeps of
\* them and what it is then.
LEMMA EditFacts ==
    ASSUME IInv, NEW s \in Sessions, sess[s].at \in {"edit", "engine"}
    PROVE  /\ sess[s] \in Session /\ PlaceOK(sess[s]) /\ sess[s].op # "none"
           /\ lock = s /\ View(s) = work /\ Free(s)
           /\ work \in Case /\ work.exists /\ Matches(work)
           /\ RowsOK(work.rows, index.done, saves)
           /\ RowsOK(sess[s].rows, index.done, saves)
           /\ sess[s].seen.done <= index.done
           /\ saves \in 0 .. MaxSaves /\ index.done \in Nat
           /\ sess[s].status = "cancelled" => ProcessGone
           /\ work.status = "cancelled" => ProcessGone
           /\ \A t \in Done(work.rows) \ broken :
                 clobbered \/ sess[s].stale \/ Records(work, t)
<1>1. lock = s /\ View(s) = work /\ PlaceOK(sess[s])
  BY DEF IInv, LocksOK, Holds, View
<1>2. sess[s].op # "none"
  BY <1>1 DEF PlaceOK
<1>3. \A t \in Done(work.rows) \ broken :
         clobbered \/ sess[s].stale \/ Records(work, t)
  BY <1>1, NoOneApart DEF IInv, RecordsOK
<1>4. work.exists
  BY <1>1, NoOneApart DEF IInv, LifeOK
<1> QED
  BY <1>1, <1>2, <1>3, <1>4, OnboardingAssumption
     DEF IInv, TypeOK, TablesOK, CancelsOK, Free, Process

LEMMA SaveDraftIInv ==
    ASSUME IInv, NEW s \in Sessions, SaveDraft(s)
    PROVE  IInv'
<1> DEFINE r == [sess[s] EXCEPT !.at = "case", !.again = TRUE]
           w == [work EXCEPT !.rows[sess[s].task].draft = saves + 1]
           Pending == {c \in Sessions : Working(c, "save") /\ ~sess[c].again}
           Left == {c \in Sessions : sess'[c].op = "save" /\ ~sess'[c].again}
<1>0. sess[s].at = "edit" /\ sess[s].op = "save"
  BY DEF SaveDraft, Working
<1>1. /\ sess[s] \in Session /\ PlaceOK(sess[s]) /\ sess[s].op # "none"
      /\ lock = s /\ View(s) = work /\ Free(s)
      /\ work \in Case /\ work.exists /\ Matches(work)
      /\ RowsOK(work.rows, index.done, saves)
      /\ RowsOK(sess[s].rows, index.done, saves)
      /\ sess[s].seen.done <= index.done
      /\ saves \in 0 .. MaxSaves /\ index.done \in Nat
      /\ sess[s].status = "cancelled" => ProcessGone
      /\ work.status = "cancelled" => ProcessGone
  BY <1>0, EditFacts
<1>2. \A t \in Done(work.rows) \ broken :
         clobbered \/ sess[s].stale \/ Records(work, t)
  BY <1>0, EditFacts
<1>3. /\ Goes(s, r) /\ work' = w /\ saves' = saves + 1 /\ lock' = s
      /\ UNCHANGED <<engine, index, db, faults, clobbered, broken, loose>>
  BY <1>1 DEF SaveDraft, history
<1>4. /\ r \in Session
      /\ r.op = sess[s].op /\ r.task = sess[s].task /\ r.again
      /\ r.applied = sess[s].applied /\ r.stale = sess[s].stale
      /\ r.at = "case" /\ r.status = sess[s].status
      /\ r.rows = sess[s].rows /\ r.seen = sess[s].seen
      /\ sess[s].task \in Tasks
  BY <1>1 DEF Session
<1>5. PlaceOK(r) /\ Holds(r) /\ Current(r, w)
  BY <1>0, <1>1, <1>4 DEF PlaceOK, Holds, Current
<1> HIDE DEF r
<1>6. CountsOK' /\ saves + 1 \in 0 .. MaxSaves
  <2>1. /\ sess'[s] = r /\ \A c \in Sessions \ {s} : sess'[c] = sess[c]
    BY <1>3, OneRequest DEF IInv
  <2>2. Left = Pending \ {s} /\ s \in Pending
    BY <1>0, <1>1, <1>4, <2>1 DEF PlaceOK, Working
  <2>3. IsFiniteSet(Pending)
    BY OnboardingAssumption, FS_Subset
  <2>4. saves + Cardinality(Pending) <= MaxSaves /\ index.done <= engine.done
    BY DEF IInv, CountsOK
  <2> HIDE DEF Left, Pending
  <2>5. /\ Cardinality(Left) = Cardinality(Pending) - 1
        /\ Cardinality(Pending) \in Nat /\ Cardinality(Left) \in Nat
    BY <2>2, <2>3, FS_RemoveElement, FS_CardinalityType, FS_Subset
  <2>6. saves + 1 + Cardinality(Left) <= MaxSaves /\ saves + 1 <= MaxSaves
    BY <1>1, <2>4, <2>5, OnboardingAssumption
  <2>7. CountsOK'
    BY <1>3, <2>4, <2>6 DEF CountsOK, Working, Left
  <2> QED
    BY <1>1, <2>6, <2>7, OnboardingAssumption
<1>7. /\ w \in Case /\ w.exists = work.exists /\ w.status = work.status
      /\ w.events = work.events
      /\ \A t \in Tasks :
            /\ w.rows[t].status = work.rows[t].status
            /\ w.rows[t].payload = work.rows[t].payload
            /\ w.rows[t].draft \in {work.rows[t].draft, saves + 1}
  <2>1. work.rows \in [Tasks -> Row]
    BY <1>1 DEF Case
  <2> DEFINE new == [work.rows[sess[s].task] EXCEPT !.draft = saves + 1]
  <2>2. /\ new \in Row /\ new.status = work.rows[sess[s].task].status
        /\ new.payload = work.rows[sess[s].task].payload
        /\ new.draft = saves + 1
    BY <1>4, <1>6, <2>1 DEF Row
  <2>3. w = [work EXCEPT !.rows = [work.rows EXCEPT ![sess[s].task] = new]]
    BY <1>1 DEF Case
  <2> HIDE DEF new, w
  <2>4. /\ w.rows = [work.rows EXCEPT ![sess[s].task] = new]
        /\ w.exists = work.exists /\ w.status = work.status
        /\ w.events = work.events
        /\ w \in Case
    BY <1>1, <1>4, <2>1, <2>2, <2>3 DEF Case
  <2> QED
    BY <1>4, <2>1, <2>2, <2>4
<1> HIDE DEF w
<1>8. \A t \in Tasks : work.rows[t].draft \in Nat /\ work.rows[t].draft <= saves
  BY <1>1, OnboardingAssumption DEF Case, Row, RowsOK
<1>9. Done(w.rows) = Done(work.rows)
  BY <1>7 DEF Done
<1>10. RowsOK(w.rows, index.done, saves + 1)
  <2>1. \A t \in Tasks : w.rows[t].draft <= saves + 1
    BY <1>1, <1>7, <1>8
  <2> QED
    BY <1>1, <1>9, <2>1 DEF RowsOK
<1>11. RowsOK(r.rows, index.done, saves + 1)
  <2>1. sess[s].rows \in [Tasks -> Row]
    BY <1>1 DEF Session
  <2> QED
    BY <1>1, <1>4, <2>1, RowsOKGrows
<1>12. Keeps(work, w)
  <2>1. \A t \in Tasks : w.rows[t].draft >= work.rows[t].draft
    BY <1>1, <1>7, <1>8
  <2> QED
    BY <1>7, <2>1 DEF Keeps
<1>13. Matches(w)
  BY <1>1, <1>7, <1>9 DEF Matches, Snapshot
<1>14. \A t \in Done(w.rows) \ broken : clobbered \/ r.stale \/ Records(w, t)
  BY <1>2, <1>4, <1>7, <1>9 DEF Records, Done
<1>15. saves <= saves'
  BY <1>1, <1>3
<1> QED
  BY <1>0, <1>1, <1>3, <1>4, <1>5, <1>6, <1>7, <1>10, <1>11, <1>12, <1>13,
     <1>14, <1>15, HoldIInv

LEMMA KeepPayloadIInv ==
    ASSUME IInv, NEW s \in Sessions, SavePayload(s), sess'[s].at = "engine"
    PROVE  IInv'
<1> DEFINE r == [sess[s] EXCEPT !.at = "engine"]
           w == [work EXCEPT !.rows[sess[s].task].payload = TRUE]
<1>0. sess[s].at = "edit" /\ sess[s].op = "complete"
  BY DEF SavePayload, Working
<1>1. /\ sess[s] \in Session /\ PlaceOK(sess[s]) /\ sess[s].op # "none"
      /\ lock = s /\ View(s) = work /\ Free(s)
      /\ work \in Case /\ work.exists /\ Matches(work)
      /\ RowsOK(work.rows, index.done, saves)
      /\ RowsOK(sess[s].rows, index.done, saves)
      /\ sess[s].seen.done <= index.done
      /\ saves \in 0 .. MaxSaves /\ index.done \in Nat
      /\ sess[s].status = "cancelled" => ProcessGone
      /\ work.status = "cancelled" => ProcessGone
  BY <1>0, EditFacts
<1>2. \A t \in Done(work.rows) \ broken :
         clobbered \/ sess[s].stale \/ Records(work, t)
  BY <1>0, EditFacts
<1>3. /\ Goes(s, r) /\ work' = w /\ saves' = saves /\ lock' = s
      /\ UNCHANGED <<engine, index, db, faults, clobbered, broken, loose>>
  <2>1. ~Rollback(s)
    <3>1. ASSUME Rollback(s) PROVE sess'[s] = Idle
      BY <3>1, OneRequest DEF Rollback, IInv
    <3> QED
      BY <3>1, IdleOK
  <2> QED
    BY <1>1, <2>1 DEF SavePayload, history
<1>4. /\ r \in Session
      /\ r.op = sess[s].op /\ r.task = sess[s].task /\ r.again = sess[s].again
      /\ r.applied = sess[s].applied /\ r.stale = sess[s].stale
      /\ r.at = "engine" /\ r.status = sess[s].status
      /\ r.rows = sess[s].rows /\ r.seen = sess[s].seen
      /\ sess[s].task \in Tasks
  BY <1>1 DEF Session
<1>5. PlaceOK(r) /\ Holds(r) /\ Current(r, w)
  BY <1>0, <1>1, <1>4 DEF PlaceOK, Holds, Current
<1> HIDE DEF r
<1>6. CountsOK'
  <2>1. /\ sess'[s] = r /\ \A c \in Sessions \ {s} : sess'[c] = sess[c]
    BY <1>3, OneRequest DEF IInv
  <2> QED
    BY <1>3, <1>4, <2>1, CountsStay DEF IInv, CountsOK
<1>7. /\ w \in Case /\ w.exists = work.exists /\ w.status = work.status
      /\ w.events = work.events /\ w.rows[sess[s].task].payload
      /\ \A t \in Tasks :
            /\ w.rows[t].status = work.rows[t].status
            /\ work.rows[t].payload => w.rows[t].payload
            /\ w.rows[t].draft = work.rows[t].draft
  <2>1. work.rows \in [Tasks -> Row]
    BY <1>1 DEF Case
  <2> DEFINE new == [work.rows[sess[s].task] EXCEPT !.payload = TRUE]
  <2>2. /\ new \in Row /\ new.status = work.rows[sess[s].task].status
        /\ new.payload = TRUE
        /\ new.draft = work.rows[sess[s].task].draft
    BY <1>4, <2>1 DEF Row
  <2>3. w = [work EXCEPT !.rows = [work.rows EXCEPT ![sess[s].task] = new]]
    BY <1>1 DEF Case
  <2> HIDE DEF new, w
  <2>4. /\ w.rows = [work.rows EXCEPT ![sess[s].task] = new]
        /\ w.exists = work.exists /\ w.status = work.status
        /\ w.events = work.events
        /\ w \in Case
    BY <1>1, <1>4, <2>1, <2>2, <2>3 DEF Case
  <2> QED
    BY <1>4, <2>1, <2>2, <2>4
<1> HIDE DEF w
<1>8. \A t \in Tasks : work.rows[t].draft \in Nat
  BY <1>1, OnboardingAssumption DEF Case, Row
<1>9. Done(w.rows) = Done(work.rows)
  BY <1>7 DEF Done
<1>10. RowsOK(w.rows, index.done, saves)
  BY <1>1, <1>7, <1>9 DEF RowsOK
<1>12. Keeps(work, w)
  BY <1>7, <1>8 DEF Keeps
<1>13. Matches(w)
  BY <1>1, <1>7, <1>9 DEF Matches, Snapshot
<1>14. \A t \in Done(w.rows) \ broken : clobbered \/ r.stale \/ Records(w, t)
  BY <1>2, <1>4, <1>7, <1>9 DEF Records, Done
<1>15. saves <= saves' /\ saves' \in 0 .. MaxSaves
       /\ RowsOK(w.rows, index.done, saves') /\ RowsOK(r.rows, index.done, saves')
  BY <1>1, <1>3, <1>4, <1>10
<1> QED
  BY <1>0, <1>1, <1>3, <1>4, <1>5, <1>6, <1>7, <1>12, <1>13,
     <1>14, <1>15, HoldIInv

LEMMA MarkCancelledIInv ==
    ASSUME IInv, NEW s \in Sessions, MarkCancelled(s)
    PROVE  IInv'
<1> DEFINE r == [sess[s] EXCEPT !.at = "case"]
           rows == [t \in Tasks |->
                      IF db.rows[t].status = "done" THEN db.rows[t]
                      ELSE [db.rows[t] EXCEPT !.status = "blocked"]]
           w == [db EXCEPT !.status = "cancelled", !.rows = rows]
<1>0. sess[s].at = "mark" /\ Free(s) /\ lock' = s
  BY DEF MarkCancelled
<1>1. /\ sess[s] \in Session /\ PlaceOK(sess[s]) /\ db \in Case
      /\ sess[s].op = "cancel" /\ ~sess[s].again
      /\ saves \in 0 .. MaxSaves
      /\ RowsOK(sess[s].rows, index.done, saves)
      /\ RowsOK(db.rows, index.done, saves)
      /\ sess[s].seen.done <= index.done
  BY <1>0 DEF IInv, TypeOK, LocksOK, PlaceOK, TablesOK
<1>2. lock # s /\ View(s) = db
  BY <1>0, <1>1 DEF IInv, LocksOK, Holds, View
<1>3. /\ Goes(s, r) /\ work' = w
      /\ UNCHANGED <<engine, index, db, saves, faults, clobbered, broken, loose>>
  BY <1>1, <1>2 DEF MarkCancelled, history, Case
<1>4. /\ r \in Session
      /\ r.op = sess[s].op /\ r.task = sess[s].task /\ r.again = sess[s].again
      /\ r.applied = sess[s].applied /\ r.stale = sess[s].stale
      /\ r.at = "case" /\ r.status = sess[s].status
      /\ r.rows = sess[s].rows /\ r.seen = sess[s].seen
  BY <1>1 DEF Session
<1>5. PlaceOK(r) /\ Holds(r) /\ Current(r, w)
  BY <1>0, <1>1, <1>4 DEF PlaceOK, Holds, Current
<1> HIDE DEF r
<1>6. CountsOK'
  <2>1. /\ sess'[s] = r /\ \A c \in Sessions \ {s} : sess'[c] = sess[c]
    BY <1>3, OneRequest DEF IInv
  <2> QED
    BY <1>3, <1>4, <2>1, CountsStay DEF IInv, CountsOK
<1>7. \A t \in Tasks : /\ db.rows[t] \in Row /\ rows[t] \in Row
                       /\ db.rows[t].status = "done" <=> rows[t].status = "done"
                       /\ rows[t].payload = db.rows[t].payload
                       /\ rows[t].draft = db.rows[t].draft
  <2>1. ASSUME NEW t \in Tasks
        PROVE  /\ db.rows[t] \in Row
               /\ rows[t] = IF db.rows[t].status = "done" THEN db.rows[t]
                            ELSE [db.rows[t] EXCEPT !.status = "blocked"]
    BY <1>1 DEF Case
  <2> HIDE DEF rows
  <2> QED
    BY <2>1 DEF Row
<1>8. rows \in [Tasks -> Row]
  <2>1. rows = [t \in Tasks |-> rows[t]]
    OBVIOUS
  <2> HIDE DEF rows
  <2> QED
    BY <1>7, <2>1
<1> HIDE DEF rows
<1>9. /\ w \in Case /\ w.exists = db.exists /\ w.status = "cancelled"
      /\ w.events = db.events /\ w.rows = rows
  BY <1>1, <1>8 DEF Case
<1> HIDE DEF w
<1>10. Done(w.rows) = Done(db.rows)
  BY <1>7, <1>9 DEF Done
<1>11. RowsOK(w.rows, index.done, saves)
  BY <1>1, <1>7, <1>9, <1>10 DEF RowsOK
<1>12. Keeps(db, w)
  <2>1. \A t \in Tasks : db.rows[t].draft \in Nat
    BY <1>1, OnboardingAssumption DEF Case, Row
  <2> QED
    BY <1>7, <1>9, <2>1 DEF Keeps
<1>13. \A t \in Done(w.rows) \ broken : clobbered \/ r.stale \/ Records(w, t)
  BY <1>7, <1>9, <1>10 DEF IInv, RecordsOK, CompletionIsRecorded, Records, Done
<1>14. saves <= saves' /\ saves' \in 0 .. MaxSaves
       /\ RowsOK(w.rows, index.done, saves') /\ RowsOK(r.rows, index.done, saves')
  BY <1>1, <1>3, <1>4, <1>11, OnboardingAssumption
<1>15. /\ ProcessGone /\ w.exists /\ Matches(w)
       /\ r.op # "none" /\ r.op # "complete" /\ r.at # "engine"
  BY <1>1, <1>4, <1>9 DEF IInv, LifeOK, CancelsOK, Matches
<1> QED
  BY <1>0, <1>1, <1>2, <1>3, <1>4, <1>5, <1>6, <1>9, <1>12, <1>13, <1>14,
     <1>15, HoldIInv

\* The creating request is alone: there is no case yet, and no other creation.
LEMMA CreateAlone ==
    ASSUME IInv, NEW s \in Sessions, sess[s].op = "create"
    PROVE  /\ \A c \in Sessions \ {s} : sess[c].op = "none" /\ ~Holds(sess[c])
           /\ lock \in {s, NoOne}
           /\ db = NoCase /\ ~db.exists
<1>1. \A c \in Sessions \ {s} : sess[c].op = "none"
  BY DEF IInv, LifeOK
<1>2. \A c \in Sessions \ {s} : sess[c] = Idle
  BY <1>1 DEF IInv, LocksOK, PlaceOK
<1> QED
  BY <1>1, <1>2, IdleOK DEF IInv, LifeOK, TypeOK, Holds

LEMMA InsertIInv ==
    ASSUME IInv, NEW s \in Sessions, InsertCase(s), lock' = s
    PROVE  IInv'
<1> DEFINE r == [sess[s] EXCEPT !.at = "case"]
           w == [NoCase EXCEPT !.exists = TRUE]
<1>0. sess[s].at = "insert"
  BY DEF InsertCase
<1>1. /\ sess[s] \in Session /\ PlaceOK(sess[s])
      /\ sess[s].op = "create" /\ ~sess[s].again /\ sess[s].applied
      /\ saves \in 0 .. MaxSaves /\ index.done \in Nat
      /\ RowsOK(sess[s].rows, index.done, saves)
      /\ sess[s].seen.done <= index.done
      /\ sess[s].status = "cancelled" => ProcessGone
  BY <1>0, OnboardingAssumption
     DEF IInv, TypeOK, LocksOK, PlaceOK, TablesOK, CancelsOK, Process
<1>2. lock = NoOne /\ db = NoCase /\ View(s) = db /\ Free(s)
  BY <1>0, <1>1, CreateAlone, NoOneApart DEF IInv, LocksOK, Holds, View, Free
<1>3. /\ Goes(s, r) /\ work' = w
      /\ UNCHANGED <<engine, index, db, saves, faults, clobbered, broken, loose>>
  <2>1. ~(Fault /\ Throws(s))
    BY <1>1, <1>2, NoOneApart DEF Throws, Working
  <2> QED
    BY <2>1 DEF InsertCase, history
<1>4. /\ r \in Session
      /\ r.op = sess[s].op /\ r.task = sess[s].task /\ r.again = sess[s].again
      /\ r.applied = sess[s].applied /\ r.stale = sess[s].stale
      /\ r.at = "case" /\ r.status = sess[s].status
      /\ r.rows = sess[s].rows /\ r.seen = sess[s].seen
  BY <1>1 DEF Session
<1>5. PlaceOK(r) /\ Holds(r) /\ Current(r, w)
  BY <1>0, <1>1, <1>4 DEF PlaceOK, Holds, Current
<1> HIDE DEF r
<1>6. CountsOK'
  <2>1. /\ sess'[s] = r /\ \A c \in Sessions \ {s} : sess'[c] = sess[c]
    BY <1>3, OneRequest DEF IInv
  <2> QED
    BY <1>3, <1>4, <2>1, CountsStay DEF IInv, CountsOK
<1>7. /\ w \in Case /\ w.exists /\ w.status = NoCase.status
      /\ w.events = NoCase.events /\ w.rows = NoCase.rows
  BY NoCaseOK DEF Case
<1> HIDE DEF w
<1>8. RowsOK(w.rows, index.done, saves) /\ Matches(w)
  BY <1>2, <1>7 DEF IInv, TablesOK, Matches
<1>9. Keeps(db, w)
  BY <1>2, <1>7, NoCaseOK DEF Keeps
<1>10. Done(w.rows) = {} /\ w.status # "cancelled"
  BY <1>7, NoCaseOK
<1>11. saves <= saves' /\ saves' \in 0 .. MaxSaves
       /\ RowsOK(w.rows, index.done, saves') /\ RowsOK(r.rows, index.done, saves')
  BY <1>1, <1>3, <1>4, <1>8, OnboardingAssumption
<1> QED
  BY <1>1, <1>2, <1>3, <1>4, <1>5, <1>6, <1>7, <1>8, <1>9, <1>10, <1>11, HoldIInv

-----------------------------------------------------------------------------
(* A transaction that ends without a commit *)

LEMMA CountsShrink ==
    ASSUME IInv, UNCHANGED saves, index'.done <= engine'.done,
           \A c \in Sessions : sess'[c].op = "save" /\ ~sess'[c].again
                                  => sess[c].op = "save" /\ ~sess[c].again
    PROVE  CountsOK'
<1> DEFINE Pending == {c \in Sessions : Working(c, "save") /\ ~sess[c].again}
           Left == {c \in Sessions : sess'[c].op = "save" /\ ~sess'[c].again}
<1>1. Left \subseteq Pending
  BY DEF Working
<1>2. IsFiniteSet(Pending)
  BY OnboardingAssumption, FS_Subset
<1>3. saves + Cardinality(Pending) <= MaxSaves /\ saves \in Nat
  BY OnboardingAssumption DEF IInv, TypeOK, CountsOK
<1> HIDE DEF Left, Pending
<1>4. /\ Cardinality(Left) <= Cardinality(Pending)
      /\ Cardinality(Left) \in Nat /\ Cardinality(Pending) \in Nat
  BY <1>1, <1>2, FS_Subset, FS_CardinalityType
<1>5. saves + Cardinality(Left) <= MaxSaves
  BY <1>3, <1>4, OnboardingAssumption
<1> QED
  BY <1>5 DEF CountsOK, Working, Left

LEMMA EndIInv ==
    ASSUME IInv, NEW s \in Sessions, sess[s].op # "none", Goes(s, Idle),
           lock' = IF lock = s THEN NoOne ELSE lock,
           work' = IF lock = s THEN db ELSE work,
           UNCHANGED <<index, db, saves, clobbered>>,
           faults' \in 0 .. MaxFaults,
           broken \subseteq broken', broken' \subseteq Tasks,
           sess[s].op = "complete" /\ sess[s].applied => sess[s].task \in broken',
           loose \subseteq loose', loose' \subseteq {"start", "cancel", "case"},
           sess[s].op = "create" =>
              engine'.state # "active" \/ "start" \in loose',
           sess[s].op = "cancel" /\ sess[s].applied => "case" \in loose',
           engine' \in Process, engine'.state # "none",
           engine.done <= engine'.done,
           \A t \in 1 .. engine'.done : t \in 1 .. engine.done \/ t \in broken',
           engine'.state = "active" => engine.state = "active",
           engine'.state = "canceled" => engine.state = "canceled" \/ ~db.exists
    PROVE  IInv'
<1>0. /\ sess'[s] = Idle /\ \A c \in Sessions \ {s} : sess'[c] = sess[c]
      /\ sess' \in [Sessions -> Session]
  BY OneRequest, IdleOK DEF IInv
<1>1. s # NoOne /\ \A c \in Sessions \ {s} : lock' = c <=> lock = c
  BY NoOneApart
<1>2. lock' # NoOne => lock' = lock /\ lock # s /\ lock \in Sessions
                       /\ work' = work /\ sess'[lock] = sess[lock]
  BY <1>0 DEF IInv, TypeOK
<1>3. /\ PlaceOK(Idle) /\ ~Holds(Idle)
  BY IdleOK DEF PlaceOK, Holds
<1>4. TypeOK'
  <2>1. /\ index \in Process /\ db \in Case /\ work' \in Case
        /\ lock' \in Sessions \cup {NoOne}
        /\ lock # NoOne => sess[lock].op # "none" /\ sess[lock].at # "begin"
        /\ saves \in 0 .. MaxSaves /\ clobbered \in BOOLEAN
    BY DEF IInv, TypeOK
  <2> QED
    BY <1>0, <1>2, <2>1 DEF TypeOK
<1>5. LocksOK'
  BY <1>0, <1>1, <1>3 DEF IInv, LocksOK
<1>6. \A c \in Sessions : sess'[c].op # "create"
  BY <1>0, IdleOK, CreateAlone DEF IInv, LifeOK
<1>7. LifeOK'
  <2>1. \A c \in Sessions : sess'[c].op \notin {"none", "create"} => db.exists
    BY <1>0, IdleOK DEF IInv, LifeOK
  <2> QED
    BY <1>2, <1>6, <2>1 DEF IInv, LifeOK
<1>8. CountsOK'
  <2>1. index.done <= engine'.done
    BY OnboardingAssumption DEF IInv, TypeOK, CountsOK, Process
  <2> QED
    BY <1>0, <2>1, IdleOK, CountsShrink
<1>9. TablesOK'
  <2>1. RowsOK(Idle.rows, index.done, saves) /\ Idle.seen.done <= index.done
    <3>1. index.done \in Nat /\ saves \in Nat
      BY OnboardingAssumption DEF IInv, TypeOK, Process
    <3> QED
      BY <3>1, IdleOK, NoCaseOK DEF RowsOK
  <2>2. work' = db \/ work' = work
    OBVIOUS
  <2> QED
    BY <1>0, <2>1, <2>2 DEF IInv, TablesOK
<1>10. ReadsOK'
  <2>1. ASSUME NEW c \in Sessions \ {s}, lock' = c \/ ~sess[c].stale
        PROVE  Current(sess'[c], View(c)')
    <3>1. Current(sess[c], View(c))
      BY <1>1, <2>1 DEF IInv, ReadsOK
    <3>2. View(c)' = View(c)
      BY <1>1, <1>2, NoOneApart DEF View
    <3> QED
      BY <1>0, <3>1, <3>2
  <2>2. Current(Idle, View(s)')
    BY IdleOK DEF Current
  <2> QED
    BY <1>0, <2>1, <2>2 DEF ReadsOK
<1>11. WorkKeeps'
  BY <1>2 DEF IInv, WorkKeeps
<1>12. RecordsOK'
  <2>1. \A c \in Sessions \ {s}, t \in Tasks : Completes(c, t)' <=> Completes(c, t)
    BY <1>0 DEF Completes
  <2>2. ASSUME NEW t \in 1 .. engine'.done
        PROVE  \/ clobbered \/ t \in broken' \/ Records(db, t)
               \/ \E c \in Sessions : Completes(c, t)'
    <3>1. CASE t \in 1 .. engine.done
      <4>1. \/ clobbered \/ t \in broken \/ Records(db, t)
            \/ \E c \in Sessions : Completes(c, t)
        BY <3>1 DEF IInv, RecordsOK
      <4>2. Completes(s, t) => t \in broken'
        BY DEF Completes, IInv, LocksOK, PlaceOK
      <4>3. \A c \in Sessions \ {s} : Completes(c, t) => Completes(c, t)'
        BY <1>0 DEF Completes
      <4> QED
        BY <4>1, <4>2, <4>3
    <3> QED
      BY <3>1
  <2>3. CompletionIsRecorded'
    BY DEF IInv, RecordsOK, CompletionIsRecorded
  <2>4. ASSUME NEW c \in Sessions
        PROVE  /\ sess'[c].at = "engine" => work'.rows[sess'[c].task].payload
               /\ \A t \in Tasks : Completes(c, t)' => Records(work, t)'
    <3>1. CASE c = s
      BY <1>0, <3>1, IdleOK DEF Completes
    <3>2. CASE c # s
      <4>1. Holds(sess[c]) => lock = c /\ work' = work
        BY <3>2 DEF IInv, LocksOK
      <4>2. sess'[c] = sess[c]
        BY <1>0, <3>2
      <4>3. sess[c].at = "engine" => Holds(sess[c])
        BY DEF Holds
      <4>4. \A t \in Tasks : Completes(c, t) => Holds(sess[c])
        BY DEF Completes, Holds
      <4> QED
        BY <2>1, <3>2, <4>1, <4>2, <4>3, <4>4 DEF IInv, RecordsOK, Records
    <3> QED
      BY <3>1, <3>2
  <2>5. lock' # NoOne =>
          \A t \in Done(work'.rows) \ broken' :
              clobbered \/ sess'[lock'].stale \/ Records(work, t)'
    BY <1>2 DEF IInv, RecordsOK, Records
  <2> QED
    BY <2>2, <2>3, <2>4, <2>5 DEF RecordsOK, Records
<1>13. CancelsOK'
  <2>1. ProcessGone => ProcessGone'
    BY DEF ProcessGone
  <2>2. ASSUME NEW c \in Sessions
        PROVE  /\ sess'[c].status = "cancelled" \/ sess'[c].op = "cancel" =>
                      ProcessGone'
               /\ sess'[c].op = "cancel" /\ sess'[c].at # "mark" =>
                      work'.status = "cancelled"
    <3>1. CASE c = s
      BY <1>0, <3>1, IdleOK
    <3>2. CASE c # s
      <4>1. sess'[c] = sess[c]
        BY <1>0, <3>2
      <4>2. sess[c].op = "cancel" /\ sess[c].at # "mark" =>
                lock = c /\ work' = work
        BY <3>2 DEF IInv, LocksOK, Holds
      <4> QED
        BY <2>1, <4>1, <4>2 DEF IInv, CancelsOK
    <3> QED
      BY <3>1, <3>2
  <2>3. db.status = "cancelled" \/ work'.status = "cancelled" => ProcessGone'
    BY <2>1 DEF IInv, CancelsOK
  <2>4. engine'.state = "active" /\ ~db.exists => "start" \in loose'
    <3>1. ASSUME ~db.exists PROVE sess[s].op = "create"
      BY <3>1 DEF IInv, LifeOK
    <3> QED
      BY <3>1
  <2>5. (engine'.state = "canceled" /\ db.exists /\ db.status # "cancelled") =>
          \/ "case" \in loose' \/ clobbered
          \/ \E c \in Sessions : sess'[c].op = "cancel" /\ sess'[c].applied
    BY <1>0 DEF IInv, CancelsOK
  <2> QED
    BY <2>2, <2>3, <2>4, <2>5 DEF CancelsOK
<1> QED
  BY <1>4, <1>5, <1>7, <1>8, <1>9, <1>10, <1>11, <1>12, <1>13 DEF IInv

\* The ways in which a request ends with a rollback and Camunda as it was.
LEMMA RollbackIInv ==
    ASSUME IInv, NEW s \in Sessions, sess[s].op # "none", Rollback(s),
           UNCHANGED <<engine, index>>, faults' \in 0 .. MaxFaults,
           loose' \subseteq {"start", "cancel", "case"},
           loose \cup Leaves(s) \subseteq loose'
    PROVE  IInv'
<1>0. /\ sess[s] \in Session /\ PlaceOK(sess[s]) /\ broken \subseteq Tasks
      /\ engine \in Process /\ sess[s].task \in Tasks
  BY DEF IInv, TypeOK, LocksOK, Session
<1>1. engine.state # "none"
  BY IdleOK DEF IInv, LifeOK
<1>2. broken \subseteq broken' /\ broken' \subseteq Tasks
      /\ (sess[s].op = "complete" /\ sess[s].applied =>
             sess[s].task \in broken')
  BY <1>0 DEF Rollback, Working
<1>3. /\ Goes(s, Idle) /\ lock' = IF lock = s THEN NoOne ELSE lock
      /\ work' = IF lock = s THEN db ELSE work
      /\ UNCHANGED <<db, saves, clobbered>>
  BY DEF Rollback
<1>4. /\ sess[s].op = "create" => "start" \in loose'
      /\ sess[s].op = "cancel" /\ sess[s].applied => "case" \in loose'
      /\ loose \subseteq loose'
  BY <1>0 DEF Leaves, Working, PlaceOK
<1>5. engine.done <= engine'.done
  BY <1>0, OnboardingAssumption DEF Process
<1> QED
  BY <1>0, <1>1, <1>2, <1>3, <1>4, <1>5, EndIInv

LEMMA LooseOK ==
    ASSUME IInv, NEW s \in Sessions
    PROVE  /\ loose \cup Leaves(s) \subseteq {"start", "cancel", "case"}
           /\ faults \in 0 .. MaxFaults
           /\ Fault => faults' \in 0 .. MaxFaults
BY OnboardingAssumption DEF IInv, TypeOK, Leaves, Fault

\* A step that throws ends its request, or sends a creation to its catch.
LEMMA ThrowsIInv ==
    ASSUME IInv, NEW s \in Sessions, sess[s].at \in {"insert", "projection"},
           Fault, Throws(s), UNCHANGED <<engine, index>>
    PROVE  IInv'
<1>0. /\ sess[s] \in Session /\ PlaceOK(sess[s])
      /\ Holds(sess[s]) => lock = s
      /\ lock = s => Holds(sess[s]) \/ sess[s].at = "compensate"
      /\ RowsOK(sess[s].rows, index.done, saves)
      /\ sess[s].seen.done <= index.done
      /\ sess[s].status = "cancelled" => ProcessGone
  BY DEF IInv, TypeOK, LocksOK, TablesOK, CancelsOK
<1>1. sess[s].op # "none"
  BY <1>0 DEF PlaceOK
<1>2. /\ loose \cup Leaves(s) \subseteq {"start", "cancel", "case"}
      /\ faults' \in 0 .. MaxFaults
  BY LooseOK
<1>3. CASE ~(Working(s, "create") /\ sess[s].applied)
  <2>1. Rollback(s) /\ loose' = loose \cup Leaves(s)
    BY <1>3 DEF Throws
  <2> QED
    BY <1>1, <1>2, <2>1, RollbackIInv
<1>4. CASE Working(s, "create") /\ sess[s].applied
  <2> DEFINE r == [sess[s] EXCEPT !.at = "compensate"]
  <2>1. /\ Goes(s, r) /\ UNCHANGED <<db, work, lock, saves, history>>
    BY <1>4 DEF Throws
  <2>2. /\ r \in Session
        /\ r.op = sess[s].op /\ r.task = sess[s].task /\ r.again = sess[s].again
        /\ r.applied = sess[s].applied /\ r.at = "compensate"
        /\ r.status = sess[s].status /\ r.rows = sess[s].rows
        /\ r.seen = sess[s].seen /\ r.stale = sess[s].stale
        /\ sess[s].op = "create"
    BY <1>0, <1>4 DEF Session, Working
  <2> HIDE DEF r
  <2>3. PlaceOK(r) /\ ~Holds(r) /\ Current(r, View(s))
    BY <1>0, <2>2 DEF PlaceOK, Holds, Current
  <2>4. UNCHANGED <<clobbered, broken, loose>>
    BY <2>1 DEF history
  <2>5. loose \subseteq loose' /\ loose' \subseteq {"start", "cancel", "case"}
    BY <1>2, <2>4
  <2> QED
    BY <1>0, <1>1, <1>2, <2>1, <2>2, <2>3, <2>4, <2>5, MoveIInv
<1> QED
  BY <1>3, <1>4

LEMMA ReadProjectionIInv ==
    ASSUME IInv, NEW s \in Sessions, ReadProjection(s)
    PROVE  IInv'
<1>0. /\ sess[s] \in Session /\ PlaceOK(sess[s]) /\ sess[s].at = "projection"
      /\ Holds(sess[s]) => lock = s
      /\ lock = s => Holds(sess[s]) \/ sess[s].at = "compensate"
      /\ RowsOK(sess[s].rows, index.done, saves)
      /\ RowsOK(View(s).rows, index.done, saves)
      /\ index \in Process
      /\ sess[s].status = "cancelled" => ProcessGone
      /\ lock = s \/ ~sess[s].stale => Current(sess[s], View(s))
  BY DEF IInv, TypeOK, LocksOK, TablesOK, CancelsOK, ReadsOK, View,
         ReadProjection
<1>1. CASE Fault /\ Throws(s)
  BY <1>0, <1>1, ThrowsIInv DEF ReadProjection
<1>2. CASE /\ Goes(s, [sess[s] EXCEPT !.at = "rows", !.seen = index])
           /\ UNCHANGED <<db, work, lock, saves, faults, history>>
  <2> DEFINE r == [sess[s] EXCEPT !.at = "rows", !.seen = index]
  <2>1. /\ r \in Session
        /\ r.op = sess[s].op /\ r.task = sess[s].task /\ r.again = sess[s].again
        /\ r.applied = sess[s].applied /\ r.at = "rows"
        /\ r.status = sess[s].status /\ r.rows = sess[s].rows
        /\ r.seen = index /\ r.stale = sess[s].stale
    BY <1>0 DEF Session
  <2>2. Goes(s, r)
    BY <1>2
  <2> HIDE DEF r
  <2>3. PlaceOK(r) /\ r.op # "none"
    BY <1>0, <2>1 DEF PlaceOK
  <2>4. Holds(r) <=> Holds(sess[s])
    BY <1>0, <2>1 DEF Holds, PlaceOK
  <2>5. lock = s \/ ~r.stale => Current(r, View(s))
    BY <1>0, <2>1 DEF Current, RowsOK
  <2>6. /\ UNCHANGED <<engine, index, db, work, lock, saves, clobbered, broken>>
        /\ faults' \in 0 .. MaxFaults
        /\ loose \subseteq loose' /\ loose' \subseteq {"start", "cancel", "case"}
    BY <1>2, LooseOK DEF ReadProjection, history
  <2>7. r.seen.done <= index.done
    BY <1>0, <2>1, OnboardingAssumption DEF Process
  <2> QED
    BY <1>0, <2>1, <2>2, <2>3, <2>4, <2>5, <2>6, <2>7, MoveIInv
<1> QED
  BY <1>1, <1>2 DEF ReadProjection

LEMMA InsertCaseIInv ==
    ASSUME IInv, NEW s \in Sessions, InsertCase(s)
    PROVE  IInv'
<1>1. sess[s].at = "insert" /\ UNCHANGED <<engine, index>>
      /\ (lock' = s \/ (Fault /\ Throws(s)))
  BY DEF InsertCase
<1> QED
  BY <1>1, InsertIInv, ThrowsIInv

LEMMA CrashIInv ==
    ASSUME IInv, NEW s \in Sessions, Crash(s)
    PROVE  IInv'
<1>1. /\ sess[s].op # "none" /\ Rollback(s) /\ UNCHANGED <<engine, index>>
      /\ Fault /\ loose' = loose \cup Leaves(s)
  BY DEF Crash, Working
<1> QED
  BY <1>1, LooseOK, RollbackIInv

LEMMA CompensateIInv ==
    ASSUME IInv, NEW s \in Sessions, Compensate(s)
    PROVE  IInv'
<1>0. /\ sess[s].op = "create" /\ sess[s].applied /\ engine \in Process
      /\ engine.state = "active" /\ ~db.exists /\ broken \subseteq Tasks
      /\ Rollback(s) /\ index' = index
  BY DEF IInv, TypeOK, LocksOK, PlaceOK, LifeOK, Compensate
<1>1. CASE UNCHANGED engine /\ Fault /\ loose' = loose \cup {"start"}
  <2>1. Leaves(s) = {"start"}
    BY <1>0 DEF Leaves, Working
  <2> QED
    BY <1>0, <1>1, <2>1, LooseOK, RollbackIInv
<1>2. CASE engine' = [engine EXCEPT !.state = "canceled"]
           /\ UNCHANGED <<faults, loose>>
  <2>1. engine' \in Process /\ engine'.state = "canceled"
        /\ engine'.done = engine.done /\ engine.done <= engine'.done
    BY <1>0, <1>2, OnboardingAssumption DEF Process
  <2>2. /\ Goes(s, Idle) /\ lock' = IF lock = s THEN NoOne ELSE lock
        /\ work' = IF lock = s THEN db ELSE work
        /\ UNCHANGED <<db, saves, clobbered>> /\ broken' = broken
    BY <1>0 DEF Rollback, Working
  <2> QED
    BY <1>0, <1>2, <2>1, <2>2, LooseOK, EndIInv
<1> QED
  BY <1>1, <1>2 DEF Compensate

LEMMA SavePayloadIInv ==
    ASSUME IInv, NEW s \in Sessions, SavePayload(s)
    PROVE  IInv'
<1>0. /\ sess[s].op = "complete" /\ sess[s].at = "edit"
      /\ ~sess[s].applied /\ sess[s] \in Session
  BY DEF SavePayload, Working, IInv, TypeOK, LocksOK, PlaceOK
<1>1. CASE Rollback(s) /\ UNCHANGED loose
  <2>1. Leaves(s) = {}
    BY <1>0 DEF Leaves
  <2>2. UNCHANGED <<engine, index, faults>>
    BY DEF SavePayload
  <2> QED
    BY <1>0, <1>1, <2>1, <2>2, LooseOK, RollbackIInv
<1>2. CASE ~(Rollback(s) /\ UNCHANGED loose)
  <2>1. Goes(s, [sess[s] EXCEPT !.at = "engine"])
    BY <1>2 DEF SavePayload
  <2>2. sess'[s].at = "engine"
    BY <1>0, <2>1, OneRequest DEF IInv, Session
  <2> QED
    BY <2>2, KeepPayloadIInv
<1> QED
  BY <1>1, <1>2

\* Camunda completes the task, and the request goes on to its second sync.
LEMMA AdvanceIInv ==
    ASSUME IInv, NEW s \in Sessions, sess[s].at = "engine",
           engine.state = "active", sess[s].task = engine.done + 1,
           engine' = Advanced,
           work' = [work EXCEPT !.events = @ \cup {sess[s].task}],
           Goes(s, [sess[s] EXCEPT !.at = "case", !.again = TRUE,
                                   !.applied = TRUE]),
           UNCHANGED <<index, db, lock, saves, faults, history>>
    PROVE  IInv'
<1> DEFINE r == [sess[s] EXCEPT !.at = "case", !.again = TRUE, !.applied = TRUE]
           t == sess[s].task
           w == [work EXCEPT !.events = @ \cup {t}]
<1>1. /\ sess[s] \in Session /\ PlaceOK(sess[s])
      /\ lock = s /\ work \in Case /\ work.exists /\ Matches(work)
      /\ \A u \in Done(work.rows) \ broken :
            clobbered \/ sess[s].stale \/ Records(work, u)
  BY EditFacts
<1>2. /\ r \in Session /\ r.op = sess[s].op /\ r.op = "complete"
      /\ r.task = t /\ t \in Tasks
      /\ r.again /\ r.applied /\ r.at = "case" /\ r.stale = sess[s].stale
      /\ r.status = sess[s].status /\ r.rows = sess[s].rows
      /\ r.seen = sess[s].seen /\ ~sess[s].again
  BY <1>1 DEF Session, PlaceOK
<1>3. /\ w \in Case /\ w.exists = work.exists /\ w.status = work.status
      /\ w.rows = work.rows /\ work.events \subseteq w.events /\ t \in w.events
  BY <1>1, <1>2 DEF Case
<1>4. /\ Goes(s, r) /\ work' = w
      /\ UNCHANGED <<clobbered, broken, loose>>
  BY DEF history
<1> HIDE DEF r, w
<1>5. /\ sess'[s] = r /\ \A c \in Sessions \ {s} : sess'[c] = sess[c]
      /\ sess' \in [Sessions -> Session]
  BY <1>2, <1>4, OneRequest DEF IInv
<1>6. /\ engine' \in Process /\ engine'.done = engine.done + 1
      /\ engine'.state \in {"active", "completed"}
      /\ engine.done \in Nat /\ index.done \in Nat /\ index.done <= engine.done
  BY <1>2, OnboardingAssumption
     DEF Advanced, Process, Tasks, IInv, TypeOK, CountsOK
<1>7. PlaceOK(r) /\ Holds(r)
  BY <1>1, <1>2 DEF PlaceOK, Holds
<1>8. /\ s # NoOne /\ db.exists
      /\ \A c \in Sessions \ {s} : lock # c /\ ~Holds(sess[c])
      /\ \A c \in Sessions : sess[c].op # "create" /\ sess'[c].op # "create"
  BY <1>1, <1>2, <1>5, NoOneApart DEF IInv, LocksOK, LifeOK
<1>9. TypeOK'
  BY <1>1, <1>2, <1>3, <1>4, <1>5, <1>6 DEF IInv, TypeOK, history
<1>10. LocksOK'
  BY <1>1, <1>5, <1>7, <1>8 DEF IInv, LocksOK
<1>11. LifeOK'
  BY <1>1, <1>2, <1>3, <1>4, <1>5, <1>6, <1>8 DEF IInv, LifeOK
<1>12. CountsOK'
  <2>1. index'.done <= engine'.done
    BY <1>6
  <2> QED
    BY <1>2, <1>5, <2>1, CountsStay DEF IInv
<1>13. TablesOK'
  BY <1>2, <1>3, <1>4, <1>5 DEF IInv, TablesOK, Matches
<1>14. ReadsOK'
  <2>1. ASSUME NEW c \in Sessions \ {s}, ~sess[c].stale
        PROVE  Current(sess[c], db)
    BY <1>8, <2>1 DEF IInv, ReadsOK, View
  <2>2. Current(r, w)
    BY <1>2 DEF Current
  <2> QED
    BY <1>1, <1>4, <1>5, <1>8, <2>1, <2>2 DEF ReadsOK, View
<1>15. WorkKeeps'
  <2>1. ASSUME ~sess[s].stale PROVE Keeps(db, w)
    <3>1. Keeps(db, work)
      BY <1>1, <1>8, <2>1 DEF IInv, WorkKeeps
    <3> QED
      BY <1>3, <3>1 DEF Keeps
  <2> QED
    BY <1>1, <1>2, <1>4, <1>5, <2>1 DEF WorkKeeps
<1>16. RecordsOK'
  <2>1. \A u \in Tasks : Records(work, u) => Records(w, u)
    BY <1>3 DEF Records
  <2>2. ASSUME NEW u \in Tasks, u = t PROVE Completes(s, u)' /\ Records(w, u)
    <3>1. work.rows[t].payload
      BY DEF IInv, RecordsOK
    <3> QED
      BY <1>2, <1>3, <1>5, <2>2, <3>1 DEF Completes, Records
  <2>3. ASSUME NEW u \in 1 .. engine'.done
        PROVE  \/ clobbered \/ u \in broken \/ Records(db, u)
               \/ \E c \in Sessions : Completes(c, u)'
    <3>1. CASE u = t
      BY <1>2, <2>2, <3>1
    <3>2. CASE u # t
      <4>1. u \in 1 .. engine.done
        BY <1>6, <3>2
      <4>2. \A c \in Sessions : Completes(c, u) => Completes(c, u)'
        BY <1>2, <1>5 DEF Completes
      <4> QED
        BY <4>1, <4>2 DEF IInv, RecordsOK
    <3> QED
      BY <3>1, <3>2
  <2>4. CompletionIsRecorded'
    BY <1>4 DEF IInv, RecordsOK, CompletionIsRecorded
  <2>5. ASSUME NEW c \in Sessions
        PROVE  /\ sess'[c].at # "engine"
               /\ \A u \in Tasks : Completes(c, u)' => Records(w, u)
    <3>1. CASE c = s
      BY <1>2, <1>5, <2>2, <3>1 DEF Completes
    <3>2. CASE c # s
      BY <1>5, <1>8, <3>2 DEF Completes, Holds
    <3> QED
      BY <3>1, <3>2
  <2>6. \A u \in Done(w.rows) \ broken :
            clobbered \/ r.stale \/ Records(w, u)
    BY <1>1, <1>2, <1>3, <2>1 DEF Done
  <2> QED
    BY <1>1, <1>4, <1>5, <2>3, <2>4, <2>5, <2>6 DEF RecordsOK, Records
<1>17. CancelsOK'
  <2>1. ProcessGone => ProcessGone'
    BY <1>4 DEF ProcessGone
  <2>2. \A c \in Sessions :
           /\ sess'[c].status = "cancelled" \/ sess'[c].op = "cancel" => ProcessGone'
           /\ sess'[c].op = "cancel" /\ sess'[c].at # "mark" =>
                 w.status = "cancelled"
    BY <1>2, <1>3, <1>5, <2>1 DEF IInv, CancelsOK
  <2>3. db.status = "cancelled" \/ w.status = "cancelled" => ProcessGone'
    BY <1>3, <2>1 DEF IInv, CancelsOK
  <2> QED
    BY <1>4, <1>6, <1>8, <2>2, <2>3 DEF CancelsOK
<1> QED
  BY <1>9, <1>10, <1>11, <1>12, <1>13, <1>14, <1>15, <1>16, <1>17 DEF IInv

LEMMA CompleteTaskIInv ==
    ASSUME IInv, NEW s \in Sessions, CompleteTask(s)
    PROVE  IInv'
<1> DEFINE accepts == engine.state = "active" /\ sess[s].task = engine.done + 1
<1>0. sess[s].at = "engine" /\ index' = index
  BY DEF CompleteTask
<1>1. /\ sess[s].op = "complete" /\ ~sess[s].applied /\ Leaves(s) = {}
  BY <1>0 DEF IInv, LocksOK, PlaceOK, Leaves
<1>2. CASE /\ accepts /\ engine' = Advanced
           /\ work' = [work EXCEPT !.events = @ \cup {sess[s].task}]
           /\ Goes(s, [sess[s] EXCEPT !.at = "case", !.again = TRUE,
                                      !.applied = TRUE])
           /\ UNCHANGED <<db, lock, saves, faults, history>>
  BY <1>0, <1>2, AdvanceIInv
<1>3. CASE Rollback(s) /\ UNCHANGED <<engine, loose>>
           /\ (UNCHANGED faults \/ Fault)
  BY <1>0, <1>1, <1>3, LooseOK, RollbackIInv
<1> QED
  BY <1>2, <1>3 DEF CompleteTask

LEMMA CompleteTaskUnheardIInv ==
    ASSUME IInv, NEW s \in Sessions, CompleteTaskUnheard(s)
    PROVE  IInv'
<1>0. /\ sess[s].at = "engine" /\ engine.state = "active"
      /\ sess[s].task = engine.done + 1 /\ engine' = Advanced
      /\ Goes(s, Idle) /\ lock' = NoOne /\ work' = db
      /\ broken' = broken \cup {sess[s].task}
      /\ UNCHANGED <<index, db, saves, clobbered, loose>>
      /\ faults' \in 0 .. MaxFaults
  BY LooseOK DEF CompleteTaskUnheard
<1>1. /\ lock = s /\ sess[s].op = "complete"
      /\ sess[s] \in Session /\ sess[s].task \in Tasks
      /\ broken \subseteq Tasks
      /\ loose \subseteq {"start", "cancel", "case"}
  BY <1>0 DEF IInv, TypeOK, LocksOK, PlaceOK, Holds, Session
<1>2. /\ engine' \in Process /\ engine'.done = engine.done + 1
      /\ engine'.state \in {"active", "completed"} /\ engine.done \in Nat
  BY <1>0, <1>1, OnboardingAssumption
     DEF Advanced, Process, Tasks, IInv, TypeOK
<1>3. \A u \in 1 .. engine'.done : u \in 1 .. engine.done \/ u \in broken'
  BY <1>0, <1>2
<1>4. /\ engine.done <= engine'.done
      /\ broken \subseteq broken' /\ broken' \subseteq Tasks
      /\ sess[s].task \in broken'
      /\ lock' = IF lock = s THEN NoOne ELSE lock
      /\ work' = IF lock = s THEN db ELSE work
  BY <1>0, <1>1, <1>2
<1> QED
  BY <1>0, <1>1, <1>2, <1>3, <1>4, EndIInv

\* A request begins on a case that exists.
LEMMA NewIInv ==
    ASSUME IInv, NEW s \in Sessions, sess[s].op = "none", db.exists,
           NEW r \in Session, Goes(s, r),
           UNCHANGED <<index, db, work, lock, saves, clobbered, broken>>,
           r.op \in {"view", "save", "complete", "cancel"},
           r.at \in {"case", "mark"}, r.at = "mark" <=> r.op = "cancel",
           ~r.again, ~r.stale, r.status = "open", r.seen = NoProcess,
           r.rows = NoCase.rows, r.op # "cancel" => ~r.applied,
           faults' \in 0 .. MaxFaults,
           loose \subseteq loose', loose' \subseteq {"start", "cancel", "case"},
           CountsOK', engine' \in Process, engine'.done = engine.done,
           engine'.state # "none",
           engine'.state = "active" => engine.state = "active",
           engine'.state = "canceled" => \/ engine.state = "canceled"
                                         \/ r.op = "cancel" /\ r.applied,
           r.op = "cancel" => ProcessGone'
    PROVE  IInv'
<1>0. /\ sess'[s] = r /\ \A c \in Sessions \ {s} : sess'[c] = sess[c]
      /\ sess' \in [Sessions -> Session]
  BY OneRequest DEF IInv
<1>1. sess[s] = Idle /\ lock # s /\ s # NoOne
  BY IdleOK, NoOneApart DEF IInv, LocksOK, PlaceOK, Holds
<1>2. PlaceOK(r) /\ ~Holds(r)
  BY DEF PlaceOK, Holds
<1>3. TypeOK'
  BY <1>0, <1>1 DEF IInv, TypeOK
<1>4. LocksOK'
  BY <1>0, <1>1, <1>2 DEF IInv, LocksOK
<1>5. LifeOK'
  BY <1>0, NoCaseOK DEF IInv, LifeOK
<1>6. TablesOK'
  <2>1. RowsOK(r.rows, index.done, saves) /\ r.seen.done <= index.done
    <3>1. index.done \in Nat /\ saves \in Nat
      BY OnboardingAssumption DEF IInv, TypeOK, Process
    <3> QED
      BY <3>1, IdleOK, NoCaseOK DEF RowsOK
  <2> QED
    BY <1>0, <2>1 DEF IInv, TablesOK
<1>7. ReadsOK'
  <2>1. Current(r, View(s)')
    BY DEF Current
  <2> QED
    BY <1>0, <2>1 DEF IInv, ReadsOK, View
<1>8. WorkKeeps'
  BY <1>0, <1>1 DEF IInv, TypeOK, WorkKeeps
<1>9. RecordsOK'
  <2>1. \A c \in Sessions, t \in Tasks : Completes(c, t)' <=> Completes(c, t)
    BY <1>0, <1>1, IdleOK DEF Completes
  <2>2. ASSUME NEW t \in 1 .. engine.done
        PROVE  \/ clobbered \/ t \in broken \/ Records(db, t)
               \/ \E c \in Sessions : Completes(c, t)'
    <3>1. \A c \in Sessions : Completes(c, t) => Completes(c, t)'
      BY <1>0, <1>1, IdleOK DEF Completes
    <3> QED
      BY <3>1 DEF IInv, RecordsOK
  <2>3. CompletionIsRecorded'
    BY DEF IInv, RecordsOK, CompletionIsRecorded
  <2>4. \A c \in Sessions :
          /\ sess'[c].at = "engine" => work.rows[sess'[c].task].payload
          /\ \A t \in Tasks : Completes(c, t)' => Records(work, t)
    BY <1>0, <2>1 DEF IInv, RecordsOK
  <2>5. lock # NoOne =>
          \A t \in Done(work.rows) \ broken :
              clobbered \/ sess'[lock].stale \/ Records(work, t)
    BY <1>0, <1>1 DEF IInv, TypeOK, RecordsOK
  <2> QED
    BY <2>2, <2>3, <2>4, <2>5 DEF RecordsOK
<1>10. CancelsOK'
  <2>1. ProcessGone => ProcessGone'
    BY DEF ProcessGone
  <2>2. \A c \in Sessions :
           /\ sess'[c].status = "cancelled" \/ sess'[c].op = "cancel" => ProcessGone'
           /\ sess'[c].op = "cancel" /\ sess'[c].at # "mark" =>
                 work.status = "cancelled"
    BY <1>0, <2>1 DEF IInv, CancelsOK
  <2>3. (engine'.state = "canceled" /\ db.exists /\ db.status # "cancelled") =>
          \/ "case" \in loose' \/ clobbered
          \/ \E c \in Sessions : sess'[c].op = "cancel" /\ sess'[c].applied
    <3>1. CASE r.op = "cancel" /\ r.applied
      BY <1>0, <3>1
    <3>2. CASE engine.state = "canceled"
      <4>1. \A c \in Sessions : sess[c].op = "cancel" => sess'[c] = sess[c]
        BY <1>0
      <4> QED
        BY <3>2, <4>1 DEF IInv, CancelsOK
    <3> QED
      BY <3>1, <3>2
  <2>4. db.status = "cancelled" \/ work.status = "cancelled" => ProcessGone'
    BY <2>1 DEF IInv, CancelsOK
  <2> QED
    BY <2>2, <2>3, <2>4 DEF CancelsOK
<1> QED
  BY <1>3, <1>4, <1>5, <1>6, <1>7, <1>8, <1>9, <1>10 DEF IInv

LEMMA BeginIInv ==
    ASSUME IInv, NEW s \in Sessions, NEW op \in Ops, NEW t \in Tasks,
           Begin(s, op, t)
    PROVE  IInv'
<1> DEFINE r == [Idle EXCEPT !.op = op, !.task = t, !.at = "case"]
           Pending == {c \in Sessions : Working(c, "save") /\ ~sess[c].again}
           Left == {c \in Sessions : sess'[c].op = "save" /\ ~sess'[c].again}
<1>0. /\ sess[s].op = "none" /\ db.exists /\ op \in {"view", "save", "complete"}
      /\ Goes(s, r)
      /\ op = "save" => saves + Cardinality(Pending) < MaxSaves
      /\ UNCHANGED <<engine, index, db, work, lock, saves, faults, history>>
  BY DEF Begin, Working
<1>1. /\ r \in Session /\ r.op = op /\ r.at = "case"
      /\ ~r.again /\ ~r.stale /\ ~r.applied /\ r.status = "open"
      /\ r.seen = NoProcess /\ r.rows = NoCase.rows
  BY IdleOK DEF Session
<1> HIDE DEF r
<1>2. /\ sess'[s] = r /\ \A c \in Sessions \ {s} : sess'[c] = sess[c]
  BY <1>0, OneRequest DEF IInv
<1>3. CountsOK'
  <2>1. CASE op # "save"
    BY <1>0, <1>1, <1>2, <2>1, CountsStay DEF IInv, CountsOK
  <2>2. CASE op = "save"
    <3>1. Left = Pending \cup {s} /\ s \notin Pending
      BY <1>0, <1>1, <1>2, <2>2 DEF Working
    <3>2. IsFiniteSet(Pending)
      BY OnboardingAssumption, FS_Subset
    <3>3. saves + Cardinality(Pending) < MaxSaves /\ saves \in Nat
          /\ index.done <= engine.done
      BY <1>0, <2>2, OnboardingAssumption DEF IInv, TypeOK, CountsOK
    <3> HIDE DEF Left, Pending
    <3>4. Cardinality(Left) = Cardinality(Pending) + 1
          /\ Cardinality(Pending) \in Nat
      BY <3>1, <3>2, FS_AddElement, FS_CardinalityType
    <3>5. saves + Cardinality(Left) <= MaxSaves
      BY <3>3, <3>4, OnboardingAssumption
    <3> QED
      BY <1>0, <3>3, <3>5 DEF CountsOK, Working, Left
  <2> QED
    BY <2>1, <2>2
<1>4. /\ engine \in Process /\ engine.state # "none"
      /\ faults \in 0 .. MaxFaults /\ loose \subseteq {"start", "cancel", "case"}
  BY <1>0, NoCaseOK DEF IInv, TypeOK, LifeOK
<1>5. /\ UNCHANGED <<engine, index, db, work, lock, saves, faults>>
      /\ UNCHANGED <<clobbered, broken, loose>>
  BY <1>0 DEF history
<1>6. r.op \in {"view", "save", "complete", "cancel"} /\ r.op # "cancel"
      /\ r.at \in {"case", "mark"} /\ r.at # "mark"
  BY <1>0, <1>1
<1> QED
  BY <1>0, <1>1, <1>3, <1>4, <1>5, <1>6, NewIInv

LEMMA BeginCancelIInv ==
    ASSUME IInv, NEW s \in Sessions, BeginCancel(s)
    PROVE  IInv'
<1>0. /\ sess[s].op = "none" /\ db.exists
      /\ UNCHANGED <<index, db, work, lock, saves, clobbered, broken>>
      /\ engine \in Process /\ engine.state # "none" /\ engine.done \in Int
      /\ index.done <= engine.done
      /\ faults \in 0 .. MaxFaults /\ loose \subseteq {"start", "cancel", "case"}
  BY NoCaseOK, OnboardingAssumption
     DEF BeginCancel, Working, IInv, TypeOK, LifeOK, CountsOK, Process
<1>1. ASSUME NEW r \in Session, Goes(s, r), r.op = "cancel", r.at = "mark",
             ~r.again, ~r.stale, r.status = "open", r.seen = NoProcess,
             r.rows = NoCase.rows,
             engine' \in Process, engine'.done = engine.done,
             engine'.state # "none", ProcessGone',
             engine'.state = "active" => engine.state = "active",
             engine'.state = "canceled" => engine.state = "canceled" \/ r.applied,
             faults' \in 0 .. MaxFaults, loose \subseteq loose',
             loose' \subseteq {"start", "cancel", "case"}
      PROVE  IInv'
  <2>1. CountsOK'
    <3>1. /\ sess'[s] = r /\ \A c \in Sessions \ {s} : sess'[c] = sess[c]
      BY <1>1, OneRequest DEF IInv
    <3>2. index'.done <= engine'.done
      BY <1>0, <1>1
    <3> QED
      BY <1>0, <1>1, <3>1, <3>2, CountsStay DEF IInv
  <2> QED
    BY <1>0, <1>1, <2>1, NewIInv
<1> DEFINE Cancels(r) ==
              /\ r \in Session /\ r.op = "cancel" /\ r.at = "mark"
              /\ ~r.again /\ ~r.stale /\ r.status = "open"
              /\ r.seen = NoProcess /\ r.rows = NoCase.rows
           told == [Idle EXCEPT !.op = "cancel", !.at = "mark", !.applied = TRUE]
           untold == [Idle EXCEPT !.op = "cancel", !.at = "mark"]
<1>2. Cancels(told) /\ told.applied /\ Cancels(untold)
  BY IdleOK DEF Session, Ops
<1> HIDE DEF told, untold
<1>3. CASE /\ engine.state = "active"
           /\ engine' = [engine EXCEPT !.state = "canceled"]
           /\ Goes(s, [Idle EXCEPT !.op = "cancel", !.at = "mark", !.applied = TRUE])
           /\ UNCHANGED <<faults, loose>>
  <2>1. /\ engine' \in Process /\ engine'.done = engine.done
        /\ engine'.state = "canceled" /\ ProcessGone'
    BY <1>0, <1>3 DEF Process, ProcessGone
  <2> QED
    BY <1>0, <1>1, <1>2, <1>3, <2>1 DEF told
<1>4. CASE /\ engine.state # "active"
           /\ Goes(s, [Idle EXCEPT !.op = "cancel", !.at = "mark"])
           /\ UNCHANGED <<engine, faults, loose>>
  <2>1. ProcessGone'
    BY <1>4 DEF ProcessGone
  <2> QED
    BY <1>0, <1>1, <1>2, <1>4, <2>1 DEF untold
<1>5. CASE /\ engine.state = "active" /\ Fault
           /\ Goes(s, [Idle EXCEPT !.op = "cancel", !.at = "mark"])
           /\ loose' = loose \cup {"cancel"}
           /\ UNCHANGED engine
  <2>1. ProcessGone'
    BY <1>5 DEF ProcessGone
  <2>2. faults' \in 0 .. MaxFaults /\ loose' \subseteq {"start", "cancel", "case"}
    BY <1>0, <1>5, LooseOK
  <2> QED
    BY <1>0, <1>1, <1>2, <1>5, <2>1, <2>2 DEF untold
<1> QED
  BY <1>3, <1>4, <1>5 DEF BeginCancel

\* The process is started while there is nothing else.
LEMMA StartWorkflowIInv ==
    ASSUME IInv, NEW s \in Sessions, StartWorkflow(s)
    PROVE  IInv'
<1> DEFINE r == [Idle EXCEPT !.op = "create", !.at = "insert", !.applied = TRUE]
<1>0. /\ engine = NoProcess /\ db = NoCase /\ work = NoCase
      /\ \A c \in Sessions : sess[c] = Idle
      /\ engine' = [NoProcess EXCEPT !.state = "active"]
      /\ UNCHANGED <<index, db, work, lock, saves, clobbered, broken>>
  BY DEF StartWorkflow, IInv, LifeOK
<1>1. /\ r \in Session /\ r.op = "create" /\ r.at = "insert" /\ r.applied
      /\ ~r.again /\ ~r.stale /\ r.status = "open"
      /\ r.seen = NoProcess /\ r.rows = NoCase.rows
  BY IdleOK DEF Session, Ops
<1> HIDE DEF r
<1>2. /\ loose \subseteq loose' /\ loose' \subseteq {"start", "cancel", "case"}
      /\ faults' \in 0 .. MaxFaults
      /\ \/ sess' = [sess EXCEPT ![s] = r]
         \/ sess' = sess /\ "start" \in loose'
  BY LooseOK DEF StartWorkflow, Goes, r, IInv, TypeOK
<1>3. /\ sess \in [Sessions -> Session]
      /\ sess' \in [Sessions -> Session]
      /\ \A c \in Sessions : sess'[c] \in {Idle, r}
      /\ \A c \in Sessions : sess'[c] = r => c = s
      /\ "start" \notin loose' => sess'[s] = r
  <2>1. sess \in [Sessions -> Session]
    BY DEF IInv, TypeOK
  <2>2. Idle # r
    BY <1>1, IdleOK
  <2> QED
    BY <1>0, <1>1, <1>2, <2>1, <2>2
<1>4. /\ lock = NoOne
      /\ PlaceOK(Idle) /\ PlaceOK(r) /\ ~Holds(Idle) /\ ~Holds(r)
  BY <1>0, <1>1, IdleOK DEF IInv, TypeOK, PlaceOK, Holds
<1>5. /\ engine' \in Process /\ engine'.state = "active"
      /\ engine'.done = 0 /\ engine.done = 0
      /\ index.done \in Nat /\ saves \in Nat
  BY <1>0, IdleOK, OnboardingAssumption DEF Process, IInv, TypeOK
<1>6. /\ Idle.rows = NoCase.rows /\ r.rows = NoCase.rows
      /\ Idle.seen = NoProcess /\ Idle.status = "open"
      /\ Idle.op = "none" /\ Idle.at = "begin" /\ ~Idle.again
      /\ NoProcess.done = 0
  BY <1>1, IdleOK
<1>7. TypeOK'
  BY <1>0, <1>2, <1>3, <1>4, <1>5 DEF IInv, TypeOK
<1>8. LocksOK'
  BY <1>0, <1>3, <1>4, NoOneApart DEF LocksOK
<1>9. LifeOK'
  <2>1. \A a, c \in Sessions :
           sess'[a].op = "create" /\ sess'[c].op = "create" => a = c
    BY <1>3, <1>6
  <2>2. \A c \in Sessions : sess'[c].op \in {"none", "create"}
    BY <1>1, <1>3, <1>6
  <2> QED
    BY <1>0, <1>4, <1>5, <2>1, <2>2, NoCaseOK DEF LifeOK
<1>10. CountsOK'
  <2>1. index'.done <= engine'.done
    BY <1>0, <1>5 DEF IInv, CountsOK
  <2>2. \A c \in Sessions : sess'[c].op # "save"
    BY <1>1, <1>3, <1>6
  <2> QED
    BY <1>0, <2>1, <2>2, CountsShrink
<1>11. TablesOK'
  <2>1. RowsOK(NoCase.rows, index.done, saves) /\ 0 <= index.done
    BY <1>5, NoCaseOK DEF RowsOK
  <2> QED
    BY <1>0, <1>1, <1>3, <1>6, <2>1 DEF IInv, TablesOK
<1>12. ReadsOK'
  <2>1. \A c \in Sessions : sess'[c].at \in {"begin", "insert"}
    BY <1>1, <1>3, <1>6
  <2> QED
    BY <2>1 DEF ReadsOK, Current
<1>13. WorkKeeps'
  BY <1>0, <1>4 DEF WorkKeeps
<1>14. RecordsOK'
  <2>1. \A c \in Sessions : sess'[c].at # "engine" /\ sess'[c].op # "complete"
    BY <1>1, <1>3, <1>6
  <2>2. Done(db'.rows) = {} /\ 1 .. engine'.done = {}
    BY <1>0, <1>5, NoCaseOK
  <2> QED
    BY <1>0, <1>4, <2>1, <2>2
       DEF RecordsOK, CompletionIsRecorded, Completes
<1>15. CancelsOK'
  <2>1. \A c \in Sessions : sess'[c].status = "open" /\ sess'[c].op # "cancel"
    BY <1>1, <1>3, <1>6
  <2>2. db'.status = "open" /\ work'.status = "open"
    BY <1>0, NoCaseOK
  <2>3. "start" \in loose' \/ \E c \in Sessions : sess'[c].op = "create"
    BY <1>1, <1>3
  <2> QED
    BY <1>5, <2>1, <2>2, <2>3 DEF CancelsOK
<1> QED
  BY <1>7, <1>8, <1>9, <1>10, <1>11, <1>12, <1>13, <1>14, <1>15 DEF IInv

LEMMA CommitIInv ==
    ASSUME IInv, NEW s \in Sessions, Commit(s)
    PROVE  IInv'
<1>0. /\ sess[s].at = "commit" /\ db' = work /\ lock' = NoOne
      /\ sess' = Outdated(s) /\ clobbered' = (clobbered \/ sess[s].stale)
      /\ UNCHANGED <<engine, index, work, saves, faults, broken, loose>>
  BY DEF Commit
<1>1. /\ sess[s] \in Session /\ PlaceOK(sess[s]) /\ sess[s].op # "none"
      /\ lock = s /\ s # NoOne /\ work.exists
      /\ db \in Case /\ work \in Case
  BY <1>0, NoOneApart DEF IInv, TypeOK, LocksOK, LifeOK, PlaceOK, Holds
<1>2. /\ sess'[s] = Idle
      /\ \A c \in Sessions \ {s} :
            sess'[c] = [sess[c] EXCEPT !.stale =
                           @ \/ sess[c].at \in {"projection", "rows", "write"}]
  BY <1>0 DEF Outdated
<1>3. ASSUME NEW c \in Sessions \ {s}
      PROVE  /\ sess[c] \in Session /\ sess'[c] \in Session
             /\ sess'[c].op = sess[c].op /\ sess'[c].task = sess[c].task
             /\ sess'[c].at = sess[c].at /\ sess'[c].again = sess[c].again
             /\ sess'[c].status = sess[c].status /\ sess'[c].seen = sess[c].seen
             /\ sess'[c].rows = sess[c].rows
             /\ sess'[c].applied = sess[c].applied
             /\ sess[c].at \in {"projection", "rows", "write"} => sess'[c].stale
             /\ sess[c] = Idle => sess'[c] = Idle
  <2>1. sess[c] \in Session
    BY DEF IInv, TypeOK
  <2>2. ASSUME sess[c] = Idle PROVE sess'[c] = Idle
    <3>1. sess'[c] = [sess[c] EXCEPT !.stale = FALSE]
      BY <1>2, <2>2, IdleOK
    <3>2. sess[c].stale = FALSE
      BY <2>2, IdleOK
    <3>3. [sess[c] EXCEPT !.stale = FALSE] = sess[c]
      BY <2>1, <3>2 DEF Session
    <3> QED
      BY <2>2, <3>1, <3>3
  <2> QED
    BY <1>2, <2>1, <2>2 DEF Session
<1>4. \A c \in Sessions \ {s} : ~Holds(sess[c]) /\ ~Holds(sess'[c])
  BY <1>1, <1>3 DEF IInv, LocksOK, Holds
<1>5. \A c \in Sessions : sess'[c].op # "create"
  <2>1. ASSUME NEW c \in Sessions \ {s} PROVE sess[c].op # "create"
    BY <1>1, <2>1, CreateAlone
  <2> QED
    BY <1>2, <1>3, <2>1, IdleOK
<1>6. \A c \in Sessions : sess'[c].op = "none" \/ sess'[c].op = sess[c].op
  BY <1>2, <1>3, IdleOK
<1>7. PlaceOK(Idle) /\ ~Holds(Idle)
  BY IdleOK DEF PlaceOK, Holds
<1>8. TypeOK'
  <2>1. sess' \in [Sessions -> Session]
    <3>1. sess' = [c \in Sessions |-> sess'[c]]
      BY <1>0 DEF Outdated
    <3>2. \A c \in Sessions : sess'[c] \in Session
      BY <1>2, <1>3, IdleOK
    <3> QED
      BY <3>1, <3>2
  <2>2. clobbered' \in BOOLEAN
    BY <1>0, <1>1 DEF IInv, TypeOK, Session
  <2> QED
    BY <1>0, <2>1, <2>2 DEF IInv, TypeOK
<1>9. LocksOK'
  <2>1. ASSUME NEW c \in Sessions \ {s} PROVE PlaceOK(sess'[c])
    <3>1. PlaceOK(sess[c])
      BY DEF IInv, LocksOK
    <3> QED
      BY <1>3, <3>1 DEF PlaceOK
  <2> QED
    BY <1>0, <1>2, <1>4, <1>7, <2>1, NoOneApart DEF LocksOK
<1>10. LifeOK'
  <2>1. engine.state # "none"
    BY <1>1, IdleOK DEF IInv, LifeOK
  <2> QED
    BY <1>0, <1>1, <1>5, <2>1 DEF LifeOK
<1>11. CountsOK'
  <2>1. index'.done <= engine'.done
    BY <1>0 DEF IInv, CountsOK
  <2>2. \A c \in Sessions : sess'[c].op = "save" /\ ~sess'[c].again
                              => sess[c].op = "save" /\ ~sess[c].again
    BY <1>2, <1>3, IdleOK
  <2> QED
    BY <1>0, <2>1, <2>2, CountsShrink
<1>12. TablesOK'
  <2>1. RowsOK(Idle.rows, index.done, saves) /\ Idle.seen.done <= index.done
    <3>1. index.done \in Nat /\ saves \in Nat
      BY OnboardingAssumption DEF IInv, TypeOK, Process
    <3> QED
      BY <3>1, IdleOK, NoCaseOK DEF RowsOK
  <2>2. \A c \in Sessions : /\ RowsOK(sess'[c].rows, index.done, saves)
                            /\ sess'[c].seen.done <= index.done
    BY <1>2, <1>3, <2>1 DEF IInv, TablesOK
  <2> QED
    BY <1>0, <2>2 DEF IInv, TablesOK
<1>13. ReadsOK'
  <2>1. ASSUME NEW c \in Sessions, ~sess'[c].stale
        PROVE  sess'[c].at \notin {"projection", "rows", "write"}
    BY <1>2, <1>3, <2>1, IdleOK
  <2> QED
    BY <1>0, <2>1, NoOneApart DEF ReadsOK, Current
<1>14. WorkKeeps'
  BY <1>0 DEF WorkKeeps
<1>15. ASSUME ~sess[s].stale PROVE Keeps(db, work)
  BY <1>1, <1>15 DEF IInv, WorkKeeps
<1>16. RecordsOK'
  <2>1. ASSUME NEW t \in 1 .. engine.done
        PROVE  clobbered' \/ t \in broken \/ Records(work, t)
    <3>1. t \in Tasks
      BY OnboardingAssumption DEF IInv, TypeOK, Process, Tasks
    <3>2. ASSUME NEW c \in Sessions, Completes(c, t) PROVE Records(work, t)
      <4>1. c = s
        BY <1>4, <3>2 DEF Completes, Holds
      <4> QED
        BY <3>1, <3>2, <4>1 DEF IInv, RecordsOK
    <3>3. ASSUME Records(db, t), ~sess[s].stale PROVE Records(work, t)
      BY <1>15, <3>1, <3>3, KeepsRecords
    <3> QED
      BY <1>0, <3>2, <3>3 DEF IInv, RecordsOK
  <2>2. \A t \in Done(work.rows) \ broken : clobbered' \/ Records(work, t)
    BY <1>0, <1>1 DEF IInv, RecordsOK
  <2>3. CompletionIsRecorded'
    BY <1>0, <2>2 DEF CompletionIsRecorded, Records
  <2>4. \A c \in Sessions : sess'[c].at # "engine"
                            /\ ~(sess'[c].op = "complete" /\ sess'[c].again)
    BY <1>2, <1>4, IdleOK DEF Holds
  <2> QED
    BY <1>0, <2>1, <2>3, <2>4 DEF RecordsOK, Completes, Records
<1>17. CancelsOK'
  <2>1. ProcessGone' <=> ProcessGone
    BY <1>0 DEF ProcessGone
  <2>2. \A c \in Sessions :
           /\ sess'[c].status = "cancelled" \/ sess'[c].op = "cancel" => ProcessGone
           /\ ~(sess'[c].op = "cancel" /\ sess'[c].at # "mark")
    <3>1. \A c \in Sessions \ {s} : ~(sess'[c].op = "cancel" /\ sess'[c].at # "mark")
      BY <1>4 DEF Holds
    <3> QED
      BY <1>2, <1>3, <3>1, IdleOK DEF IInv, CancelsOK
  <2>3. ASSUME engine.state = "canceled", work.status # "cancelled"
        PROVE  \/ "case" \in loose \/ clobbered'
               \/ \E c \in Sessions : sess'[c].op = "cancel" /\ sess'[c].applied
    <3>1. db.exists
      BY <1>1, <2>3 DEF IInv, LifeOK
    <3>2. db.status = "cancelled" => clobbered'
      BY <1>0, <1>15, <2>3 DEF Keeps
    <3>3. sess[s].op # "cancel"
      BY <1>0, <2>3 DEF IInv, CancelsOK
    <3>4. ASSUME NEW c \in Sessions, sess[c].op = "cancel", sess[c].applied
          PROVE  sess'[c].op = "cancel" /\ sess'[c].applied
      BY <1>3, <3>3, <3>4
    <3>5. CASE db.status # "cancelled"
      <4>1. \/ "case" \in loose \/ clobbered
            \/ \E c \in Sessions : sess[c].op = "cancel" /\ sess[c].applied
        BY <2>3, <3>1, <3>5 DEF IInv, CancelsOK
      <4> QED
        BY <1>0, <3>4, <4>1
    <3> QED
      BY <3>2, <3>5
  <2>4. work.status = "cancelled" => ProcessGone
    BY DEF IInv, CancelsOK
  <2> QED
    BY <1>0, <1>1, <2>1, <2>2, <2>3, <2>4 DEF CancelsOK
<1> QED
  BY <1>8, <1>9, <1>10, <1>11, <1>12, <1>13, <1>14, <1>16, <1>17 DEF IInv

LEMMA ExportIInv ==
    ASSUME IInv, Export
    PROVE  IInv'
<1>0. index' = engine
      /\ UNCHANGED <<engine, db, work, lock, sess, saves, faults>>
      /\ UNCHANGED <<clobbered, broken, loose>>
  BY DEF Export, history
<1>1. /\ index.done \in Nat /\ engine.done \in Nat /\ saves \in Nat
      /\ index.done <= engine.done /\ engine \in Process
      /\ db.rows \in [Tasks -> Row] /\ work.rows \in [Tasks -> Row]
      /\ \A c \in Sessions : sess[c].rows \in [Tasks -> Row]
                             /\ sess[c].seen.done \in Nat
  BY OnboardingAssumption
     DEF IInv, TypeOK, CountsOK, Process, Case, Session
<1>2. ASSUME NEW rows \in [Tasks -> Row], RowsOK(rows, index.done, saves)
      PROVE  RowsOK(rows, engine.done, saves)
  BY <1>1, <1>2, RowsOKGrows
<1>3. TablesOK'
  <2>1. \A c \in Sessions : RowsOK(sess[c].rows, engine.done, saves)
                            /\ sess[c].seen.done <= engine.done
    BY <1>1, <1>2 DEF IInv, TablesOK
  <2> QED
    BY <1>0, <1>1, <1>2, <2>1 DEF IInv, TablesOK
<1>4. TypeOK' /\ LocksOK' /\ LifeOK'
  BY <1>0, <1>1 DEF IInv, TypeOK, LocksOK, LifeOK
<1>5. CountsOK'
  BY <1>0, <1>1, CountsShrink
<1>6. ReadsOK' /\ WorkKeeps'
  BY <1>0 DEF IInv, ReadsOK, View, WorkKeeps
<1>7. RecordsOK'
  BY <1>0 DEF IInv, RecordsOK, CompletionIsRecorded, Completes
<1>8. CancelsOK'
  BY <1>0 DEF IInv, CancelsOK, ProcessGone
<1> QED
  BY <1>3, <1>4, <1>5, <1>6, <1>7, <1>8 DEF IInv

LEMMA StutterIInv ==
    ASSUME IInv, UNCHANGED vars
    PROVE  IInv'
<1>0. /\ UNCHANGED <<engine, index, db, work, lock, sess, saves, faults>>
      /\ UNCHANGED <<clobbered, broken, loose>>
  BY DEF vars, history
<1>1. TypeOK' /\ LocksOK' /\ LifeOK' /\ TablesOK'
  BY <1>0 DEF IInv, TypeOK, LocksOK, LifeOK, TablesOK
<1>2. CountsOK'
  <2>1. index'.done <= engine'.done
    BY <1>0 DEF IInv, CountsOK
  <2> QED
    BY <1>0, <2>1, CountsShrink
<1>3. ReadsOK' /\ WorkKeeps'
  BY <1>0 DEF IInv, ReadsOK, View, WorkKeeps
<1>4. RecordsOK' /\ CancelsOK'
  BY <1>0 DEF IInv, RecordsOK, CompletionIsRecorded, Completes, CancelsOK,
              ProcessGone
<1> QED
  BY <1>1, <1>2, <1>3, <1>4 DEF IInv

LEMMA InitIInv == Init => IInv
<1> SUFFICES ASSUME Init PROVE IInv
  OBVIOUS
<1>0. /\ engine = NoProcess /\ index = NoProcess
      /\ db = NoCase /\ work = NoCase /\ lock = NoOne
      /\ sess = [s \in Sessions |-> Idle]
      /\ saves = 0 /\ faults = 0
      /\ clobbered = FALSE /\ broken = {} /\ loose = {}
      /\ \A s \in Sessions : sess[s] = Idle
  BY DEF Init
<1>1. PlaceOK(Idle) /\ ~Holds(Idle)
  BY IdleOK DEF PlaceOK, Holds
<1>2. TypeOK
  <2>1. sess \in [Sessions -> Session]
    BY <1>0, IdleOK
  <2>2. 0 \in 0 .. MaxSaves /\ 0 \in 0 .. MaxFaults
    BY OnboardingAssumption
  <2>3. engine \in Process /\ index \in Process /\ db \in Case /\ work \in Case
    BY <1>0, IdleOK, NoCaseOK
  <2> QED
    BY <1>0, <2>1, <2>2, <2>3 DEF TypeOK
<1>3. LocksOK
  BY <1>0, <1>1, NoOneApart DEF LocksOK
<1>4. LifeOK
  BY <1>0, IdleOK, NoCaseOK DEF LifeOK
<1>5. CountsOK
  <2>1. {s \in Sessions : Working(s, "save") /\ ~sess[s].again} = {}
    BY <1>0, IdleOK DEF Working
  <2> QED
    BY <1>0, <2>1, IdleOK, FS_EmptySet, OnboardingAssumption DEF CountsOK
<1>6. TablesOK
  <2>1. RowsOK(NoCase.rows, 0, 0)
    BY NoCaseOK DEF RowsOK
  <2>2. Matches(NoCase)
    BY NoCaseOK, OnboardingAssumption, TasksOK DEF Matches, Snapshot, Tasks
  <2> QED
    BY <1>0, <2>1, <2>2, IdleOK DEF TablesOK
<1>7. ReadsOK /\ WorkKeeps
  BY <1>0, IdleOK DEF ReadsOK, WorkKeeps, Current
<1>8. RecordsOK
  <2>1. 1 .. engine.done = {} /\ Done(db.rows) = {}
    BY <1>0, IdleOK, NoCaseOK
  <2> QED
    BY <1>0, <2>1, IdleOK DEF RecordsOK, CompletionIsRecorded, Completes
<1>9. CancelsOK
  BY <1>0, IdleOK, NoCaseOK DEF CancelsOK
<1> QED
  BY <1>2, <1>3, <1>4, <1>5, <1>6, <1>7, <1>8, <1>9 DEF IInv

LEMMA NextIInv == IInv /\ [Next]_vars => IInv'
<1> SUFFICES ASSUME IInv, [Next]_vars PROVE IInv'
  OBVIOUS
<1>1. CASE UNCHANGED vars
  BY <1>1, StutterIInv
<1>2. CASE Export
  BY <1>2, ExportIInv
<1>3. ASSUME NEW s \in Sessions,
             \/ StartWorkflow(s) \/ InsertCase(s) \/ Compensate(s)
             \/ \E op \in Ops, t \in Tasks : Begin(s, op, t)
      PROVE  IInv'
  BY <1>3, StartWorkflowIInv, InsertCaseIInv, CompensateIInv, BeginIInv
<1>4. ASSUME NEW s \in Sessions,
             ReadCase(s) \/ ReadProjection(s) \/ ReadRows(s) \/ WriteRows(s)
      PROVE  IInv'
  BY <1>4, ReadIInv, ReadProjectionIInv, WriteRowsIInv
<1>5. ASSUME NEW s \in Sessions,
             \/ SaveDraft(s) \/ SavePayload(s)
             \/ CompleteTask(s) \/ CompleteTaskUnheard(s)
      PROVE  IInv'
  BY <1>5, SaveDraftIInv, SavePayloadIInv, CompleteTaskIInv,
     CompleteTaskUnheardIInv
<1>6. ASSUME NEW s \in Sessions,
             BeginCancel(s) \/ MarkCancelled(s) \/ Commit(s) \/ Crash(s)
      PROVE  IInv'
  BY <1>6, BeginCancelIInv, MarkCancelledIInv, CommitIInv, CrashIInv
<1> QED
  BY <1>1, <1>2, <1>3, <1>4, <1>5, <1>6 DEF Next

LEMMA Invariance == Spec => []IInv
BY InitIInv, NextIInv, PTL DEF Spec

-----------------------------------------------------------------------------
(* The theorems *)

\* Whatever requests overlap, fail or crash, the state keeps its type, and the
\* rows of the case are locked by a request that is in progress
\* (synchronizeOnboardingCaseProjection and its callers).
THEOREM TypeCorrect == Spec => []TypeOK
<1>1. IInv => TypeOK
  BY DEF IInv
<1> QED
  BY <1>1, Invariance, PTL

\* A task shown as done has the payload that it was completed with and its
\* event, unless the transaction that kept them was lost after Camunda had
\* completed the task, or an overlapping sync wrote the row back
\* (completeOnboardingCaseTask).
THEOREM CompletionRecorded == Spec => []CompletionIsRecorded
<1>1. IInv => CompletionIsRecorded
  BY DEF IInv, RecordsOK
<1> QED
  BY <1>1, Invariance, PTL

\* The committed status of a case is the one that its tasks give it, or a final
\* one, and the case and the process agree but for what a failed call or a
\* crash left undone (synchronizeOnboardingCaseProjection, cancelOnboardingCase,
\* createOnboardingCase).
THEOREM CaseTrue == Spec => []CaseIsTrue
<1>1. IInv => CaseIsTrue
  <2> SUFFICES ASSUME IInv PROVE StatusMatchesTasks /\ SystemsAgree
    BY DEF CaseIsTrue
  <2>1. StatusMatchesTasks
    BY DEF IInv, TablesOK, Matches, StatusMatchesTasks
  <2>2. (engine.state = "active" /\ ~db.exists) =>
           "start" \in loose \/ \E s \in Sessions : Working(s, "create")
    BY DEF IInv, CancelsOK, Working
  <2>3. (engine.state = "active" /\ db.status = "cancelled") => "cancel" \in loose
    BY DEF IInv, CancelsOK, ProcessGone
  <2>4. (engine.state = "canceled" /\ db.exists /\ db.status # "cancelled") =>
           \/ "case" \in loose \/ clobbered
           \/ \E s \in Sessions : Working(s, "cancel")
    BY DEF IInv, CancelsOK, Working
  <2> QED
    BY <2>1, <2>2, <2>3, <2>4 DEF SystemsAgree
<1> QED
  BY <1>1, Invariance, PTL

\* Only a commit changes what is committed.
LEMMA OnlyCommits ==
    ASSUME Next, db' # db
    PROVE  \E s \in Sessions : Commit(s)
BY DEF Next, Export, StartWorkflow, InsertCase, Throws, Compensate, Rollback,
       Begin, ReadCase, ReadProjection, ReadRows, WriteRows, SaveDraft,
       SavePayload, CompleteTask, CompleteTaskUnheard, BeginCancel,
       MarkCancelled, Crash

\* What a request commits takes back nothing that is committed: neither a done
\* task, a cancellation, a payload nor a newer draft, unless another request
\* committed between its reads and its writes
\* (synchronizeOnboardingCaseProjection at Read Committed).
THEOREM NothingTakenBack == Spec => NothingIsTakenBack
<1> DEFINE Spared ==
      /\ db.status = "cancelled" => db'.status = "cancelled"
      /\ \A t \in Tasks :
            /\ db.rows[t].status = "done" => db'.rows[t].status = "done"
            /\ db.rows[t].payload => db'.rows[t].payload
            /\ db'.rows[t].draft >= db.rows[t].draft
<1>1. ASSUME IInv, Next PROVE clobbered' \/ Spared
  <2>1. CASE db' = db
    <3>1. \A t \in Tasks : db.rows[t].draft \in Nat
      BY <1>1, OnboardingAssumption DEF IInv, TypeOK, Case, Row
    <3> QED
      BY <2>1, <3>1
  <2>2. ASSUME NEW s \in Sessions, Commit(s) PROVE clobbered' \/ Spared
    <3>1. /\ sess[s].at = "commit" /\ db' = work
          /\ clobbered' = (clobbered \/ sess[s].stale)
      BY <2>2 DEF Commit
    <3>2. lock = s /\ s # NoOne
      BY <1>1, <3>1, NoOneApart DEF IInv, LocksOK, Holds
    <3>3. sess[s].stale \/ Keeps(db, work)
      BY <1>1, <3>2 DEF IInv, WorkKeeps
    <3> QED
      BY <3>1, <3>3 DEF Keeps
  <2> QED
    BY <1>1, <2>1, <2>2, OnlyCommits
<1>2. IInv /\ [Next]_vars => [clobbered' \/ Spared]_vars
  BY <1>1
<1> QED
  BY <1>2, Invariance, PTL DEF Spec, NothingIsTakenBack
=============================================================================
