-------------------------- MODULE SyncWorkerProofs --------------------------
(* Theorems about SyncWorker, for every value of its constants. *)
EXTENDS SyncWorker, TLAPS

(***************************************************************************)
(* The inductive invariant.                                                *)
(*                                                                         *)
(* An event in processing is one that a single worker has still to settle, *)
(* or one that a failure has left behind; what a worker has of it, and     *)
(* whether its rows are committed, follows from where the worker is.       *)
(***************************************************************************)

\* What a worker has of events or of files, at each of its places.
CourseOK(s) ==
    LET all == s.held \cup s.left IN
    /\ s.at \notin {"idle", "next"} => s.cur \in Runs
    /\ s.at \in {"pull", "drain", "ingest", "ack"} =>
            s.cur \notin SftpRuns /\ all \subseteq Events
    /\ s.at \in {"list", "read", "archive", "upsert"} =>
            s.cur \in SftpRuns /\ all \subseteq Files
    /\ s.at \in {"commit", "complete"} =>
            all \subseteq IF s.cur \in SftpRuns THEN Files ELSE Events
    /\ s.at \in {"error", "preflight"} => s.held = {} /\ s.left \subseteq Events
    /\ s.at \in {"plan", "pull", "list"} => s.held = {}
    /\ s.at \notin {"next", "ingest", "ack", "archive", "error"} => s.left = {}
    /\ s.at \in {"ack", "archive"} => s.left \subseteq s.held
    /\ s.at \in {"archive", "upsert"} => s.held \subseteq s.known

\* The events that a worker has still to settle.
Owns(s) ==
    {e \in Events : \/ s.at \in {"drain", "ingest", "commit"} /\ e \in s.held
                    \/ s.at \in {"ingest", "ack", "error"} /\ e \in s.left}

EventsOK ==
    /\ \A w \in Workers : \A e \in Owns(sess[w]) :
          /\ event[e] = "processing"
          /\ loaded[e] = IF sess[w].at = "ack" THEN 1 ELSE 0
    /\ \A v, w \in Workers : v # w => Owns(sess[v]) \cap Owns(sess[w]) = {}
    /\ \A e \in Events : event[e] = "processing" =>
          faults > 0 \/ \E w \in Workers : e \in Owns(sess[w])
    /\ \A w \in Workers : sess[w].at \in {"ack", "complete"} =>
          \A e \in Events \cap sess[w].held :
              event[e] = "processed" \/ e \in sess[w].left
    /\ EventsLoadedOnce

FilesOK ==
    /\ \A w \in Workers : \A f \in sess[w].known : loaded[f] > 0
    /\ NoFileLost

IInv ==
    /\ TypeOK
    /\ \A w \in Workers : CourseOK(sess[w])
    /\ EventsOK
    /\ FilesOK

\* For one connection with files and one run of it: no save of the sync state
\* takes back what another one has saved, and a file is moved away unless a
\* failure of that was noted.
Settling(w) ==
    /\ /\ sess[w].at \in {"list", "read", "commit", "archive", "upsert"}
       /\ sess[w].cur \in SftpRuns
       /\ run[sess[w].cur].status = "running" /\ run[sess[w].cur].owner = w
       => cursor \subseteq sess[w].known
    /\ sess[w].at \in {"archive", "upsert"} /\ ~sess[w].missed =>
          \A f \in sess[w].held : f \in sess[w].left \/ remote[f] = "archive"
    /\ sess[w].at = "complete" =>
          \A f \in Files \cap sess[w].held : remote[f] = "archive" \/ f \in cursor

FilesSettle == \A w \in Workers : Settling(w)

-----------------------------------------------------------------------------
(* Answers, and the steps of one worker *)

RunsTyped ==
    /\ run \in [Runs -> Run]
    /\ \A r \in Runs : run[r].status = "queued" => run[r].attempts < MaxAttempts

FaultsGrow == faults' \in 0 .. MaxFaults /\ faults <= faults'

LEMMA IdleOK ==
    /\ Idle \in Session /\ Idle.at = "idle" /\ Idle.held = {} /\ Idle.left = {}
    /\ Idle.known = {} /\ CourseOK(Idle) /\ Owns(Idle) = {}
BY DEF Idle, Session, Places, CourseOK, Owns

LEMMA FaultOK ==
    ASSUME IInv
    PROVE  /\ UNCHANGED faults => FaultsGrow
           /\ Fault => FaultsGrow /\ faults' > 0
BY WorkerAssumption DEF IInv, TypeOK, Fault, FaultsGrow

\* What is seen of a request that the receiver grants iff ok holds.
LEMMA AnswersOK ==
    ASSUME IInv, NEW ok \in BOOLEAN, NEW a \in Answers(ok), Counted(a)
    PROVE  /\ a.applied \in BOOLEAN /\ a.result \in {"done", "refused", "fault"}
           /\ a.applied => ok
           /\ a.result = "done" => ok /\ a.applied
           /\ a.result = "refused" => ~ok /\ ~a.applied
           /\ FaultsGrow
           /\ a.result = "fault" => faults' > 0
<1>1. faults \in Nat /\ MaxFaults \in Nat /\ faults <= MaxFaults
  BY WorkerAssumption DEF IInv, TypeOK
<1>2. CASE a = [applied |-> ok, result |-> IF ok THEN "done" ELSE "refused"]
  BY <1>1, <1>2 DEF Counted, FaultsGrow
<1>3. ASSUME faults < MaxFaults, NEW b \in {ok, FALSE},
             a = [applied |-> b, result |-> "fault"]
      PROVE  /\ a.applied \in BOOLEAN /\ a.result = "fault" /\ (a.applied => ok)
             /\ FaultsGrow /\ faults' > 0
  <2>0. a.applied = b /\ a.result = "fault"
    BY <1>3
  <2>1. /\ a.applied \in BOOLEAN /\ a.result = "fault" /\ (a.applied => ok)
    <3>1. CASE b = ok
      BY <2>0, <3>1
    <3>2. CASE b = FALSE
      BY <2>0, <3>2
    <3> QED
      BY <1>3, <3>1, <3>2
  <2>2. faults' = faults + 1
    BY <2>1 DEF Counted
  <2> QED
    BY <1>1, <1>3, <2>1, <2>2 DEF FaultsGrow
<1> QED
  BY <1>2, <1>3 DEF Answers

LEMMA OwnedType == \A w \in Workers : Owned(w) \in BOOLEAN
BY DEF Owned

\* One worker takes a step: what it has to keep of the events and of the files.
LEMMA StepIInv ==
    ASSUME IInv, NEW w \in Workers, NEW s \in Session, Goes(w, s), CourseOK(s),
           RunsTyped',
           event' \in [Events -> {"none", "pending", "processing", "processed",
                                  "failed"}],
           cursor' \subseteq Files, loaded' \in [Events \cup Files -> Nat],
           remote' \in [Files -> {"inbox", "archive"}], FaultsGrow,
           \A x \in Events \cup Files : loaded'[x] >= loaded[x],
           \A e \in Owns(s) : /\ event'[e] = "processing"
                              /\ loaded'[e] = IF s.at = "ack" THEN 1 ELSE 0,
           \A e \in Owns(s) \ Owns(sess[w]) : event[e] # "processing",
           \A e \in Events \ Owns(sess[w]) : event[e] = "processing" =>
                event'[e] = "processing" /\ loaded'[e] = loaded[e],
           \A e \in Events : event'[e] = "processing" =>
                \/ faults' > 0 \/ e \in Owns(s)
                \/ event[e] = "processing" /\ e \notin Owns(sess[w]),
           \A e \in Events : event[e] = "processed" => event'[e] = "processed",
           s.at \in {"ack", "complete"} => \A e \in Events \cap s.held :
                event'[e] = "processed" \/ e \in s.left,
           EventsLoadedOnce',
           \A f \in s.known : loaded'[f] > 0,
           NoFileLost'
    PROVE  IInv'
<1>0. /\ sess'[w] = s /\ \A v \in Workers \ {w} : sess'[v] = sess[v]
      /\ sess' \in [Workers -> Session]
  BY DEF IInv, TypeOK, Goes
<1>1. TypeOK'
  BY <1>0 DEF TypeOK, RunsTyped, FaultsGrow
<1>2. \A v \in Workers : CourseOK(sess'[v])
  BY <1>0 DEF IInv
<1>3. ASSUME NEW v \in Workers \ {w}, NEW e \in Owns(sess[v])
      PROVE  /\ e \in Events \ Owns(sess[w]) /\ e \notin Owns(s)
             /\ event[e] = "processing"
             /\ event'[e] = "processing" /\ loaded'[e] = loaded[e]
             /\ loaded[e] = IF sess[v].at = "ack" THEN 1 ELSE 0
  <2>1. e \in Events
    BY DEF Owns
  <2>2. event[e] = "processing" /\ loaded[e] = IF sess[v].at = "ack" THEN 1 ELSE 0
    BY DEF IInv, EventsOK
  <2>3. e \notin Owns(sess[w])
    BY DEF IInv, EventsOK
  <2> QED
    BY <2>1, <2>2, <2>3
<1>4. EventsOK'
  <2>1. ASSUME NEW v \in Workers, NEW e \in Owns(sess'[v])
        PROVE  /\ event'[e] = "processing"
               /\ loaded'[e] = IF sess'[v].at = "ack" THEN 1 ELSE 0
    BY <1>0, <1>3, <2>1
  <2>2. ASSUME NEW u \in Workers, NEW v \in Workers, u # v
        PROVE  Owns(sess'[u]) \cap Owns(sess'[v]) = {}
    <3>1. CASE u # w /\ v # w
      BY <1>0, <2>2, <3>1 DEF IInv, EventsOK
    <3>2. CASE u = w
      BY <1>0, <1>3, <2>2, <3>2
    <3>3. CASE v = w
      BY <1>0, <1>3, <2>2, <3>3
    <3> QED
      BY <3>1, <3>2, <3>3
  <2>3. ASSUME NEW e \in Events, event'[e] = "processing"
        PROVE  faults' > 0 \/ \E v \in Workers : e \in Owns(sess'[v])
    <3>1. CASE faults' > 0 \/ e \in Owns(s)
      BY <1>0, <3>1
    <3>2. CASE event[e] = "processing" /\ e \notin Owns(sess[w])
      <4>1. CASE faults > 0
        BY <4>1, WorkerAssumption DEF FaultsGrow, IInv, TypeOK
      <4>2. ASSUME NEW v \in Workers, e \in Owns(sess[v])
            PROVE  e \in Owns(sess'[v])
        BY <1>0, <3>2, <4>2
      <4> QED
        BY <3>2, <4>1, <4>2 DEF IInv, EventsOK
    <3> QED
      BY <2>3, <3>1, <3>2
  <2>4. ASSUME NEW v \in Workers, sess'[v].at \in {"ack", "complete"},
               NEW e \in Events \cap sess'[v].held
        PROVE  event'[e] = "processed" \/ e \in sess'[v].left
    <3>1. CASE v = w
      BY <1>0, <2>4, <3>1
    <3>2. CASE v # w
      <4>1. event[e] = "processed" \/ e \in sess[v].left
        BY <1>0, <2>4, <3>2 DEF IInv, EventsOK
      <4> QED
        BY <1>0, <3>2, <4>1
    <3> QED
      BY <3>1, <3>2
  <2> QED
    BY <2>1, <2>2, <2>3, <2>4 DEF EventsOK
<1>5. FilesOK'
  <2>1. ASSUME NEW v \in Workers, NEW f \in sess'[v].known
        PROVE  loaded'[f] > 0
    <3>1. CASE v = w
      BY <1>0, <2>1, <3>1
    <3>2. CASE v # w
      <4>1. f \in Files /\ loaded[f] > 0
        BY <1>0, <2>1, <3>2 DEF IInv, TypeOK, FilesOK, Session
      <4>2. loaded'[f] >= loaded[f] /\ loaded[f] \in Nat /\ loaded'[f] \in Nat
        BY <4>1 DEF IInv, TypeOK
      <4> QED
        BY <4>1, <4>2
    <3> QED
      BY <3>1, <3>2
  <2> QED
    BY <2>1 DEF FilesOK
<1> QED
  BY <1>1, <1>2, <1>4, <1>5 DEF IInv

\* A step that changes no table but that of the runs.
LEMMA QuietIInv ==
    ASSUME IInv, NEW w \in Workers, NEW s \in Session, Goes(w, s), CourseOK(s),
           RunsTyped', UNCHANGED <<event, cursor, loaded, remote>>, FaultsGrow,
           Owns(s) \subseteq Owns(sess[w]),
           Owns(s) = Owns(sess[w]) \/ faults' > 0,
           (s.at = "ack" <=> sess[w].at = "ack") \/ Owns(s) = {},
           s.at \in {"ack", "complete"} => \A e \in Events \cap s.held :
                event[e] = "processed" \/ e \in s.left,
           s.known \subseteq sess[w].known \cup cursor
    PROVE  IInv'
<1>1. \A e \in Owns(s) : /\ event[e] = "processing"
                         /\ loaded[e] = IF s.at = "ack" THEN 1 ELSE 0
  BY DEF IInv, EventsOK
<1>2. \A f \in s.known : loaded[f] > 0
  BY DEF IInv, TypeOK, FilesOK, NoFileLost
<1>3. \A x \in Events \cup Files : loaded[x] >= loaded[x]
  BY DEF IInv, TypeOK
<1>4. EventsLoadedOnce' /\ NoFileLost'
  BY DEF IInv, EventsOK, FilesOK, EventsLoadedOnce, NoFileLost
<1>5. /\ event' \in [Events -> {"none", "pending", "processing", "processed",
                                "failed"}]
      /\ cursor' \subseteq Files /\ loaded' \in [Events \cup Files -> Nat]
      /\ remote' \in [Files -> {"inbox", "archive"}]
  BY DEF IInv, TypeOK
<1>6. \A e \in Events : event'[e] = "processing" =>
          \/ faults' > 0 \/ e \in Owns(s)
          \/ event[e] = "processing" /\ e \notin Owns(sess[w])
  OBVIOUS
<1> QED
  BY <1>1, <1>2, <1>3, <1>4, <1>5, <1>6, StepIInv

\* The exception reaches the except block.
LEMMA RaisedOK ==
    ASSUME IInv, NEW w \in Workers, sess[w].at \notin {"idle", "next"},
           NEW events \in SUBSET Events, NEW retry \in BOOLEAN
    PROVE  LET s == Raised(w, events, retry) IN
           /\ s \in Session /\ CourseOK(s) /\ Owns(s) = events
           /\ s.at = "error" /\ s.known = sess[w].known
<1> DEFINE s == Raised(w, events, retry)
<1>1. sess[w] \in Session /\ CourseOK(sess[w])
  BY DEF IInv, TypeOK
<1>2. /\ s \in Session /\ s.at = "error" /\ s.held = {} /\ s.left = events
      /\ s.known = sess[w].known /\ s.cur = sess[w].cur
  BY <1>1 DEF Raised, At, Session, Places
<1> HIDE DEF s
<1>3. CourseOK(s) /\ Owns(s) = events
  BY <1>1, <1>2 DEF CourseOK, Owns
<1> QED
  BY <1>2, <1>3 DEF s

LEMMA RaiseIInv ==
    ASSUME IInv, NEW w \in Workers, sess[w].at \notin {"idle", "next"},
           NEW events \in SUBSET Events, NEW retry \in BOOLEAN,
           Goes(w, Raised(w, events, retry)), FaultsGrow,
           UNCHANGED <<run, event, cursor, loaded, remote>>,
           events \subseteq Owns(sess[w]),
           events = Owns(sess[w]) \/ faults' > 0,
           sess[w].at # "ack" \/ events = {}
    PROVE  IInv'
<1> DEFINE s == Raised(w, events, retry)
<1>1. /\ s \in Session /\ CourseOK(s) /\ Owns(s) = events
      /\ s.at = "error" /\ s.known = sess[w].known
  BY RaisedOK
<1>2. Goes(w, s) /\ RunsTyped'
  BY DEF IInv, TypeOK, RunsTyped
<1> HIDE DEF s
<1> QED
  BY <1>1, <1>2, QuietIInv

-----------------------------------------------------------------------------
(* The batch and the plan *)

LEMMA RunsStay ==
    ASSUME IInv, UNCHANGED run
    PROVE  RunsTyped'
BY DEF IInv, TypeOK, RunsTyped

LEMMA ClaimSyncRunsIInv ==
    ASSUME IInv, NEW w \in Workers, ClaimSyncRuns(w)
    PROVE  IInv'
<1>1. PICK S \in SUBSET Runs, a \in Answers(TRUE) :
        /\ run' = [r \in Runs |->
                     IF r \in S
                     THEN [ status |-> "running",
                            attempts |-> Least(run[r].attempts + 1, MaxAttempts),
                            owner |-> w, live |-> TRUE ]
                     ELSE run[r]]
        /\ Counted(a)
        /\ Goes(w, IF a.result = "done"
                   THEN [Idle EXCEPT !.at = "next", !.todo = S] ELSE Idle)
        /\ sess[w].at = "idle" /\ UNCHANGED <<event, cursor, loaded, remote>>
  BY DEF ClaimSyncRuns
<1>2. RunsTyped'
  <2>1. \A r \in Runs : run[r].attempts \in 0 .. MaxAttempts /\ run[r] \in Run
    BY DEF IInv, TypeOK, Run
  <2>2. \A r \in Runs : Least(run[r].attempts + 1, MaxAttempts) \in 0 .. MaxAttempts
    BY <2>1, WorkerAssumption DEF Least
  <2>3. \A r \in Runs : run'[r] \in Run
    BY <1>1, <2>1, <2>2 DEF Run
  <2>4. \A r \in Runs : run'[r].status = "queued" => run'[r] = run[r]
    BY <1>1
  <2> QED
    BY <1>1, <2>3, <2>4 DEF RunsTyped, IInv, TypeOK
<1>3. FaultsGrow
  BY <1>1, AnswersOK
<1>4. ASSUME NEW s \in Session, s.at \in {"idle", "next"}, s.held = {},
             s.left = {}, s.known = {}, Goes(w, s)
      PROVE  IInv'
  <2>1. CourseOK(s) /\ Owns(s) = {} /\ Owns(sess[w]) = {}
    BY <1>1, <1>4 DEF CourseOK, Owns
  <2> QED
    BY <1>1, <1>2, <1>3, <1>4, <2>1, QuietIInv
<1>5. [Idle EXCEPT !.at = "next", !.todo = S] \in Session
  BY IdleOK DEF Session, Places
<1>6. /\ [Idle EXCEPT !.at = "next", !.todo = S].at = "next"
      /\ [Idle EXCEPT !.at = "next", !.todo = S].held = {}
      /\ [Idle EXCEPT !.at = "next", !.todo = S].left = {}
      /\ [Idle EXCEPT !.at = "next", !.todo = S].known = {}
  BY DEF Idle
<1> QED
  BY <1>1, <1>4, <1>5, <1>6, IdleOK

LEMMA NextRunIInv ==
    ASSUME IInv, NEW w \in Workers, NextRun(w)
    PROVE  IInv'
<1>1. /\ sess[w] \in Session /\ sess[w].at = "next"
      /\ UNCHANGED <<run, event, cursor, loaded, remote, faults>>
      /\ RunsTyped' /\ FaultsGrow /\ Owns(sess[w]) = {}
  BY RunsStay, FaultOK DEF NextRun, IInv, TypeOK, Owns
<1>2. CASE Goes(w, Idle)
  BY <1>1, <1>2, IdleOK, QuietIInv
<1>3. ASSUME NEW r \in sess[w].todo,
             Goes(w, [Idle EXCEPT !.at = "plan", !.cur = r,
                                  !.todo = sess[w].todo \ {r}])
      PROVE  IInv'
  <2> DEFINE s == [Idle EXCEPT !.at = "plan", !.cur = r,
                               !.todo = sess[w].todo \ {r}]
  <2>1. r \in Runs
    BY <1>1 DEF Session
  <2>2. /\ s \in Session /\ s.at = "plan" /\ s.cur = r
        /\ s.held = {} /\ s.left = {} /\ s.known = {}
    BY <1>1, <2>1, IdleOK DEF Session, Places
  <2>3. Goes(w, s)
    BY <1>3
  <2> HIDE DEF s
  <2>4. CourseOK(s) /\ Owns(s) = {}
    BY <2>1, <2>2 DEF CourseOK, Owns
  <2> QED
    BY <1>1, <2>2, <2>3, <2>4, QuietIInv
<1> QED
  BY <1>2, <1>3 DEF NextRun

\* A call whose answer leads to s, or else to the except block.
LEMMA AfterCallIInv ==
    ASSUME IInv, NEW w \in Workers, sess[w].at \notin {"idle", "next"},
           NEW ok \in BOOLEAN, NEW a \in Answers(ok), Counted(a),
           NEW s, NEW events \in SUBSET Events, AfterCall(w, a, s, events),
           UNCHANGED <<run, event, cursor, loaded, remote>>,
           events = Owns(sess[w]), sess[w].at # "ack" \/ events = {},
           a.result = "done" =>
              /\ s \in Session /\ CourseOK(s) /\ Owns(s) = Owns(sess[w])
              /\ (s.at = "ack" <=> sess[w].at = "ack") \/ Owns(s) = {}
              /\ s.at \in {"ack", "complete"} => \A e \in Events \cap s.held :
                    event[e] = "processed" \/ e \in s.left
              /\ s.known \subseteq sess[w].known \cup cursor
    PROVE  IInv'
<1>1. FaultsGrow /\ RunsTyped'
  BY AnswersOK, RunsStay
<1>2. CASE a.result = "done"
  <2>1. Goes(w, s)
    BY <1>2 DEF AfterCall
  <2> QED
    BY <1>1, <1>2, <2>1, QuietIInv
<1>3. CASE a.result # "done"
  BY <1>1, <1>3, RaiseIInv DEF AfterCall
<1> QED
  BY <1>2, <1>3

LEMMA FetchPlanIInv ==
    ASSUME IInv, NEW w \in Workers, FetchPlan(w)
    PROVE  IInv'
<1> DEFINE s == IF OfSftp(w) THEN [At(w, "list") EXCEPT !.known = cursor]
                             ELSE At(w, "pull")
<1>1. PICK a \in Answers(Owned(w)) : Counted(a) /\ AfterCall(w, a, s, {})
  BY DEF FetchPlan
<1>2. /\ sess[w] \in Session /\ CourseOK(sess[w]) /\ sess[w].at = "plan"
      /\ UNCHANGED <<run, event, cursor, loaded, remote>> /\ cursor \subseteq Files
  BY DEF FetchPlan, IInv, TypeOK
<1>3. /\ s \in Session /\ s.cur = sess[w].cur
      /\ s.held = sess[w].held /\ s.left = sess[w].left
      /\ s.known \subseteq sess[w].known \cup cursor
      /\ s.at = IF sess[w].cur \in SftpRuns THEN "list" ELSE "pull"
  BY <1>2 DEF At, OfSftp, Session, Places
<1> HIDE DEF s
<1>4. CourseOK(s) /\ Owns(s) = {} /\ Owns(sess[w]) = {}
  BY <1>2, <1>3 DEF CourseOK, Owns
<1>5. s.at \notin {"ack", "complete"} /\ sess[w].at \notin {"ack", "idle", "next"}
  BY <1>2, <1>3
<1> QED
  BY <1>1, <1>2, <1>3, <1>4, <1>5, OwnedType, AfterCallIInv

-----------------------------------------------------------------------------
(* Raw events *)

\* Events arrive: those that were not known become pending.
LEMMA ArrivedOK ==
    ASSUME IInv, NEW S \in SUBSET {e \in Events : event[e] = "none"}, Arrived(S)
    PROVE  /\ event' \in [Events -> {"none", "pending", "processing",
                                     "processed", "failed"}]
           /\ \A e \in Events :
                 \/ event'[e] = event[e]
                 \/ event[e] = "none" /\ event'[e] = "pending"
           /\ UNCHANGED loaded => EventsLoadedOnce'
<1>1. event \in [Events -> {"none", "pending", "processing", "processed",
                            "failed"}]
  BY DEF IInv, TypeOK
<1>2. \A e \in Events : event'[e] = IF e \in S THEN "pending" ELSE event[e]
  BY DEF Arrived
<1>3. event' \in [Events -> {"none", "pending", "processing", "processed",
                             "failed"}]
  BY <1>1 DEF Arrived
<1>4. \A e \in Events : \/ event'[e] = event[e]
                        \/ event[e] = "none" /\ event'[e] = "pending"
  BY <1>2
<1>5. UNCHANGED loaded => EventsLoadedOnce'
  BY <1>4 DEF IInv, EventsOK, EventsLoadedOnce
<1> QED
  BY <1>3, <1>4, <1>5

LEMMA PullProviderEventsIInv ==
    ASSUME IInv, NEW w \in Workers, PullProviderEvents(w)
    PROVE  IInv'
<1>0. PICK S \in SUBSET {e \in Events : event[e] = "none"} :
        \E a \in Answers(S = {} \/ Owned(w)) :
            /\ Arrived(IF a.applied THEN S ELSE {})
            /\ Counted(a) /\ AfterCall(w, a, At(w, "drain"), {})
  BY DEF PullProviderEvents
<1>1. PICK a \in Answers(S = {} \/ Owned(w)) :
        /\ Arrived(IF a.applied THEN S ELSE {})
        /\ Counted(a) /\ AfterCall(w, a, At(w, "drain"), {})
  BY <1>0
<1>2. /\ sess[w] \in Session /\ CourseOK(sess[w]) /\ sess[w].at = "pull"
      /\ UNCHANGED <<run, cursor, loaded, remote>>
  BY DEF PullProviderEvents, IInv, TypeOK
<1>3. PICK s \in Session :
        /\ Goes(w, s) /\ CourseOK(s) /\ Owns(s) = {} /\ s.known = sess[w].known
        /\ s.at \in {"drain", "error"}
  <2> DEFINE s == At(w, "drain")
  <2>1. CASE a.result = "done"
    <3>1. /\ s \in Session /\ s.at = "drain" /\ s.cur = sess[w].cur
          /\ s.held = sess[w].held /\ s.left = sess[w].left
          /\ s.known = sess[w].known
      BY <1>2 DEF At, Session, Places
    <3>2. Goes(w, s)
      BY <1>1, <2>1 DEF AfterCall
    <3> HIDE DEF s
    <3>3. CourseOK(s) /\ Owns(s) = {}
      BY <1>2, <3>1 DEF CourseOK, Owns
    <3> QED
      BY <3>1, <3>2, <3>3
  <2>2. CASE a.result # "done"
    <3> DEFINE retry == a.result = "fault"
    <3>1. Goes(w, Raised(w, {}, retry))
      BY <1>1, <2>2 DEF AfterCall
    <3>2. retry \in BOOLEAN
      OBVIOUS
    <3> HIDE DEF retry
    <3> QED
      BY <1>2, <3>1, <3>2, RaisedOK
  <2> QED
    BY <2>1, <2>2
<1>4. /\ event' \in [Events -> {"none", "pending", "processing",
                                "processed", "failed"}]
      /\ \A e \in Events : \/ event'[e] = event[e]
                           \/ event[e] = "none" /\ event'[e] = "pending"
      /\ EventsLoadedOnce'
  BY <1>1, <1>2, ArrivedOK
<1>5. FaultsGrow /\ RunsTyped' /\ Owns(sess[w]) = {}
  BY <1>1, <1>2, AnswersOK, OwnedType, RunsStay DEF Owns
<1>6. /\ cursor' \subseteq Files /\ loaded' \in [Events \cup Files -> Nat]
      /\ remote' \in [Files -> {"inbox", "archive"}]
      /\ \A x \in Events \cup Files : loaded'[x] >= loaded[x]
      /\ \A f \in s.known : loaded'[f] > 0
      /\ NoFileLost'
  BY <1>2, <1>3 DEF IInv, TypeOK, FilesOK, NoFileLost
<1> QED
  BY <1>2, <1>3, <1>4, <1>5, <1>6, StepIInv

\* The tables of files and of runs, of steps that leave them.
LEMMA FilesStay ==
    ASSUME IInv, UNCHANGED <<run, cursor, loaded, remote>>
    PROVE  /\ RunsTyped' /\ cursor' \subseteq Files
           /\ loaded' \in [Events \cup Files -> Nat]
           /\ remote' \in [Files -> {"inbox", "archive"}]
           /\ \A x \in Events \cup Files : loaded'[x] >= loaded[x]
           /\ \A w \in Workers : \A f \in sess[w].known : loaded'[f] > 0
           /\ NoFileLost'
BY RunsStay DEF IInv, TypeOK, FilesOK, NoFileLost

LEMMA ClaimRawEventsIInv ==
    ASSUME IInv, NEW w \in Workers, ClaimRawEvents(w)
    PROVE  IInv'
<1> DEFINE pending == {e \in Events : event[e] = "pending"}
           to(S) == IF S = {} THEN At(w, "commit")
                    ELSE [At(w, "ingest") EXCEPT !.left = S]
<1>1. PICK S \in SUBSET pending, a \in Answers(TRUE) :
        /\ event' = [e \in Events |->
                       IF a.applied /\ e \in S THEN "processing" ELSE event[e]]
        /\ Counted(a)
        /\ AfterCall(w, a, to(S), sess[w].held)
  BY DEF ClaimRawEvents
<1>2. /\ sess[w] \in Session /\ CourseOK(sess[w]) /\ sess[w].at = "drain"
      /\ UNCHANGED <<run, cursor, loaded, remote>>
      /\ event \in [Events -> {"none", "pending", "processing", "processed",
                               "failed"}]
  BY DEF ClaimRawEvents, IInv, TypeOK
<1>3. /\ a.applied \in BOOLEAN /\ a.result \in {"done", "fault"}
      /\ a.result = "done" => a.applied
      /\ FaultsGrow /\ (a.result = "fault" => faults' > 0)
  BY <1>1, AnswersOK
<1>4. sess[w].held \subseteq Events /\ Owns(sess[w]) = sess[w].held
      /\ S \subseteq Events /\ \A e \in S : event[e] = "pending"
  BY <1>2 DEF CourseOK, Owns
<1>5. PICK s \in Session :
        /\ Goes(w, s) /\ CourseOK(s) /\ s.known = sess[w].known
        /\ s.at \in {"commit", "ingest", "error"}
        /\ \/ a.result = "done" /\ Owns(s) = sess[w].held \cup S
           \/ a.result = "fault" /\ Owns(s) = sess[w].held
  <2> DEFINE s == to(S)
  <2>1. CASE a.result = "done"
    <3>1. /\ s \in Session /\ s.cur = sess[w].cur /\ s.known = sess[w].known
          /\ s.held = sess[w].held
          /\ s.at = IF S = {} THEN "commit" ELSE "ingest"
          /\ s.left = IF S = {} THEN sess[w].left ELSE S
      BY <1>2, <1>4 DEF At, Session, Places
    <3>2. Goes(w, s)
      BY <1>1, <2>1 DEF AfterCall
    <3> HIDE DEF s
    <3>3. CourseOK(s) /\ Owns(s) = sess[w].held \cup S
      BY <1>2, <1>4, <3>1 DEF CourseOK, Owns
    <3> QED
      BY <2>1, <3>1, <3>2, <3>3
  <2>2. CASE a.result = "fault"
    <3>1. Goes(w, Raised(w, sess[w].held, TRUE))
      BY <1>1, <2>2 DEF AfterCall
    <3>2. LET r == Raised(w, sess[w].held, TRUE) IN
          /\ r \in Session /\ CourseOK(r) /\ Owns(r) = sess[w].held
          /\ r.at = "error" /\ r.known = sess[w].known
      BY <1>2, <1>4, RaisedOK
    <3> HIDE DEF s
    <3> QED
      BY <2>2, <3>1, <3>2
  <2> QED
    BY <1>3, <2>1, <2>2
<1>6. \A e \in Events : event'[e] = IF a.applied /\ e \in S THEN "processing"
                                                            ELSE event[e]
  BY <1>1
<1>7. event' \in [Events -> {"none", "pending", "processing", "processed",
                             "failed"}]
  BY <1>1, <1>2
<1>8. EventsLoadedOnce'
  BY <1>2, <1>4, <1>6 DEF IInv, EventsOK, EventsLoadedOnce
<1>9. \A e \in Owns(s) : event'[e] = "processing" /\ loaded'[e] = 0
  <2>1. \A e \in sess[w].held : event[e] = "processing" /\ loaded[e] = 0
    BY <1>2, <1>4 DEF IInv, EventsOK
  <2>2. \A e \in S : loaded[e] = 0
    BY <1>4 DEF IInv, EventsOK, EventsLoadedOnce
  <2> QED
    BY <1>2, <1>3, <1>4, <1>5, <1>6, <2>1, <2>2
<1>10. \A e \in Owns(s) \ Owns(sess[w]) : event[e] # "processing"
  BY <1>4, <1>5
<1>11. \A e \in Events : event'[e] = "processing" =>
          \/ faults' > 0 \/ e \in Owns(s)
          \/ event[e] = "processing" /\ e \notin Owns(sess[w])
  BY <1>3, <1>4, <1>5, <1>6
<1>12. /\ \A e \in Events \ Owns(sess[w]) : event[e] = "processing" =>
             event'[e] = "processing" /\ loaded'[e] = loaded[e]
       /\ \A e \in Events : event[e] = "processed" => event'[e] = "processed"
  BY <1>2, <1>4, <1>6
<1> QED
  BY <1>2, <1>3, <1>5, <1>7, <1>8, <1>9, <1>10, <1>11, <1>12, FilesStay, StepIInv

LEMMA IngestIInv ==
    ASSUME IInv, NEW w \in Workers, Ingest(w)
    PROVE  IInv'
<1> DEFINE claimed == sess[w].left
           all == sess[w].held \cup claimed
           s == [At(w, "drain") EXCEPT !.held = all, !.left = {}]
<1>1. /\ sess[w] \in Session /\ CourseOK(sess[w]) /\ sess[w].at = "ingest"
      /\ UNCHANGED <<run, event, cursor, loaded, remote>> /\ RunsTyped'
  BY RunsStay DEF Ingest, IInv, TypeOK
<1>2. all \subseteq Events /\ Owns(sess[w]) = all
  BY <1>1 DEF CourseOK, Owns
<1>3. CASE Goes(w, s) /\ UNCHANGED faults
  <2>1. /\ s \in Session /\ s.at = "drain" /\ s.cur = sess[w].cur
        /\ s.held = all /\ s.left = {} /\ s.known = sess[w].known
    BY <1>1, <1>2 DEF At, Session, Places
  <2>2. Goes(w, s) /\ FaultsGrow
    BY <1>3, FaultOK
  <2> HIDE DEF s
  <2>3. CourseOK(s) /\ Owns(s) = all
    BY <1>1, <1>2, <2>1 DEF CourseOK, Owns
  <2> QED
    BY <1>1, <1>2, <2>1, <2>2, <2>3, QuietIInv
<1>4. ASSUME NEW retry \in BOOLEAN, Goes(w, Raised(w, all, retry)), FaultsGrow
      PROVE  IInv'
  <2>1. all \in SUBSET Events
    BY <1>2
  <2> HIDE DEF all
  <2> QED
    BY <1>1, <1>2, <1>4, <2>1, RaiseIInv
<1> QED
  BY <1>3, <1>4, FaultOK DEF Ingest

LEMMA AckEventsIInv ==
    ASSUME IInv, NEW w \in Workers, AckEvents(w)
    PROVE  IInv'
<1>1. /\ sess[w] \in Session /\ CourseOK(sess[w]) /\ sess[w].at = "ack"
      /\ UNCHANGED <<run, cursor, loaded, remote>> /\ RunsTyped'
      /\ event \in [Events -> {"none", "pending", "processing", "processed",
                               "failed"}]
  BY RunsStay DEF AckEvents, IInv, TypeOK
<1>2. /\ sess[w].left \subseteq sess[w].held /\ sess[w].held \subseteq Events
      /\ Owns(sess[w]) = sess[w].left
      /\ \A e \in sess[w].left : event[e] = "processing" /\ loaded[e] = 1
      /\ \A e \in sess[w].held : event[e] = "processed" \/ e \in sess[w].left
  <2>1. /\ sess[w].left \subseteq sess[w].held /\ sess[w].held \subseteq Events
        /\ Owns(sess[w]) = sess[w].left
    BY <1>1 DEF CourseOK, Owns
  <2> QED
    BY <1>1, <2>1 DEF IInv, EventsOK
<1>3. CASE sess[w].left = {} /\ Goes(w, At(w, "complete"))
           /\ UNCHANGED <<event, faults>>
  <2> DEFINE s == At(w, "complete")
  <2>1. /\ s \in Session /\ s.at = "complete" /\ s.cur = sess[w].cur
        /\ s.held = sess[w].held /\ s.left = {} /\ s.known = sess[w].known
    BY <1>1, <1>3 DEF At, Session, Places
  <2>2. Goes(w, s) /\ FaultsGrow
    BY <1>3, FaultOK
  <2> HIDE DEF s
  <2>3. CourseOK(s) /\ Owns(s) = {} /\ Owns(sess[w]) = {}
    BY <1>1, <1>2, <1>3, <2>1 DEF CourseOK, Owns
  <2> QED
    BY <1>1, <1>2, <1>3, <2>1, <2>2, <2>3, QuietIInv
<1>4. ASSUME NEW e \in sess[w].left, NEW a \in Answers(event[e] = "processing"),
             IF a.applied THEN Processed(e) ELSE UNCHANGED event, Counted(a),
             AfterCall(w, a, [sess[w] EXCEPT !.left = @ \ {e}], {})
      PROVE  IInv'
  <2>1. /\ a.applied \in BOOLEAN /\ a.result \in {"done", "fault"}
        /\ a.result = "done" => a.applied
        /\ FaultsGrow /\ (a.result = "fault" => faults' > 0)
    BY <1>2, <1>4, AnswersOK
  <2>2. PICK s \in Session :
          /\ Goes(w, s) /\ CourseOK(s) /\ s.known = sess[w].known
          /\ \/ /\ a.result = "done" /\ s.at = "ack" /\ s.held = sess[w].held
                /\ s.left = sess[w].left \ {e} /\ Owns(s) = sess[w].left \ {e}
             \/ a.result = "fault" /\ s.at = "error" /\ Owns(s) = {}
    <3> DEFINE s == [sess[w] EXCEPT !.left = @ \ {e}]
    <3>1. CASE a.result = "done"
      <4>1. /\ s \in Session /\ s.at = "ack" /\ s.cur = sess[w].cur
            /\ s.held = sess[w].held /\ s.left = sess[w].left \ {e}
            /\ s.known = sess[w].known
        BY <1>1 DEF Session
      <4>2. Goes(w, s)
        BY <1>4, <3>1 DEF AfterCall
      <4> HIDE DEF s
      <4>3. CourseOK(s) /\ Owns(s) = sess[w].left \ {e}
        BY <1>1, <1>2, <4>1 DEF CourseOK, Owns
      <4> QED
        BY <3>1, <4>1, <4>2, <4>3
    <3>2. CASE a.result = "fault"
      <4>1. Goes(w, Raised(w, {}, TRUE))
        BY <1>4, <3>2 DEF AfterCall
      <4>2. LET r == Raised(w, {}, TRUE) IN
            /\ r \in Session /\ CourseOK(r) /\ Owns(r) = {}
            /\ r.at = "error" /\ r.known = sess[w].known
        BY <1>1, RaisedOK
      <4> HIDE DEF s
      <4> QED
        BY <3>2, <4>1, <4>2
    <3> QED
      BY <2>1, <3>1, <3>2
  <2>3. \A x \in Events : event'[x] = IF a.applied /\ x = e THEN "processed"
                                                            ELSE event[x]
    BY <1>1, <1>2, <1>4, <2>1 DEF Processed
  <2>4. event' \in [Events -> {"none", "pending", "processing", "processed",
                               "failed"}]
    BY <1>1, <1>4, <2>1 DEF Processed
  <2>5. EventsLoadedOnce'
    BY <1>1, <1>2, <2>3 DEF IInv, EventsOK, EventsLoadedOnce
  <2>6. \A x \in Owns(s) : /\ event'[x] = "processing"
                           /\ loaded'[x] = IF s.at = "ack" THEN 1 ELSE 0
    BY <1>1, <1>2, <2>2, <2>3
  <2>7. Owns(s) \subseteq Owns(sess[w])
    BY <1>2, <2>2
  <2>8. \A x \in Events \ Owns(sess[w]) : event[x] = "processing" =>
            event'[x] = "processing" /\ loaded'[x] = loaded[x]
    BY <1>1, <1>2, <2>3
  <2>9. \A x \in Events : event'[x] = "processing" =>
            \/ faults' > 0 \/ x \in Owns(s)
            \/ event[x] = "processing" /\ x \notin Owns(sess[w])
    BY <1>2, <2>1, <2>2, <2>3
  <2>10. /\ \A x \in Events : event[x] = "processed" => event'[x] = "processed"
         /\ s.at \in {"ack", "complete"} => \A x \in Events \cap s.held :
                event'[x] = "processed" \/ x \in s.left
    BY <1>2, <2>1, <2>2, <2>3
  <2> QED
    BY <1>1, <2>1, <2>2, <2>4, <2>5, <2>6, <2>7, <2>8, <2>9, <2>10, FilesStay,
       StepIInv
<1> QED
  BY <1>3, <1>4 DEF AckEvents

-----------------------------------------------------------------------------
(* Files *)

LEMMA ListFilesIInv ==
    ASSUME IInv, NEW w \in Workers, ListFiles(w)
    PROVE  IInv'
<1>1. /\ sess[w] \in Session /\ CourseOK(sess[w]) /\ sess[w].at = "list"
      /\ UNCHANGED <<run, event, cursor, loaded, remote>> /\ RunsTyped'
      /\ Owns(sess[w]) = {}
  BY RunsStay DEF ListFiles, IInv, TypeOK, Owns
<1>2. ASSUME NEW S \in SUBSET Files, UNCHANGED faults,
             Goes(w, [At(w, "read") EXCEPT !.held = S])
      PROVE  IInv'
  <2> DEFINE s == [At(w, "read") EXCEPT !.held = S]
  <2>1. /\ s \in Session /\ s.at = "read" /\ s.cur = sess[w].cur
        /\ s.held = S /\ s.left = sess[w].left /\ s.known = sess[w].known
    BY <1>1 DEF At, Session, Places
  <2>2. Goes(w, s) /\ FaultsGrow
    BY <1>2, FaultOK
  <2> HIDE DEF s
  <2>3. CourseOK(s) /\ Owns(s) = {}
    BY <1>1, <2>1 DEF CourseOK, Owns
  <2> QED
    BY <1>1, <2>1, <2>2, <2>3, QuietIInv
<1>3. CASE Fault /\ Goes(w, Raised(w, {}, FALSE))
  BY <1>1, <1>3, FaultOK, RaiseIInv
<1> QED
  BY <1>2, <1>3 DEF ListFiles

LEMMA ReadFilesIInv ==
    ASSUME IInv, NEW w \in Workers, ReadFiles(w)
    PROVE  IInv'
<1>1. /\ sess[w] \in Session /\ CourseOK(sess[w]) /\ sess[w].at = "read"
      /\ UNCHANGED <<run, event, cursor, loaded, remote>> /\ RunsTyped'
      /\ Owns(sess[w]) = {}
  BY RunsStay DEF ReadFiles, IInv, TypeOK, Owns
<1>2. CASE Goes(w, At(w, "commit")) /\ UNCHANGED faults
  <2> DEFINE s == At(w, "commit")
  <2>1. /\ s \in Session /\ s.at = "commit" /\ s.cur = sess[w].cur
        /\ s.held = sess[w].held /\ s.left = sess[w].left
        /\ s.known = sess[w].known
    BY <1>1 DEF At, Session, Places
  <2>2. Goes(w, s) /\ FaultsGrow
    BY <1>2, FaultOK
  <2> HIDE DEF s
  <2>3. CourseOK(s) /\ Owns(s) = {}
    BY <1>1, <2>1, WorkerAssumption DEF CourseOK, Owns
  <2> QED
    BY <1>1, <2>1, <2>2, <2>3, QuietIInv
<1>3. CASE Goes(w, Raised(w, {}, FALSE)) /\ FaultsGrow
  BY <1>1, <1>3, RaiseIInv
<1> QED
  BY <1>2, <1>3, FaultOK DEF ReadFiles

LEMMA CommitIInv ==
    ASSUME IInv, NEW w \in Workers, Commit(w)
    PROVE  IInv'
<1>1. /\ sess[w] \in Session /\ CourseOK(sess[w]) /\ sess[w].at = "commit"
      /\ UNCHANGED <<run, event, cursor, remote>> /\ RunsTyped'
      /\ loaded \in [Events \cup Files -> Nat] /\ cursor \subseteq Files
      /\ remote \in [Files -> {"inbox", "archive"}]
      /\ event \in [Events -> {"none", "pending", "processing", "processed",
                               "failed"}]
  BY RunsStay DEF Commit, IInv, TypeOK
<1>2. /\ sess[w].cur \in SftpRuns =>
            sess[w].held \subseteq Files /\ Owns(sess[w]) = {}
      /\ sess[w].cur \notin SftpRuns =>
            sess[w].held \subseteq Events /\ Owns(sess[w]) = sess[w].held
      /\ sess[w].left = {}
  BY <1>1, WorkerAssumption DEF CourseOK, Owns
<1>3. \A e \in Owns(sess[w]) : event[e] = "processing" /\ loaded[e] = 0
  BY <1>1 DEF IInv, EventsOK
<1> DEFINE sftp == sess[w].cur \in SftpRuns
           s == [At(w, IF OfSftp(w) THEN "archive" ELSE "ack")
                   EXCEPT !.left = sess[w].held,
                          !.known = IF OfSftp(w) THEN @ \cup sess[w].held ELSE @]
<1>4. CASE /\ loaded' = [x \in DOMAIN loaded |->
                            IF x \in sess[w].held THEN loaded[x] + 1 ELSE loaded[x]]
           /\ Goes(w, s) /\ UNCHANGED faults
  <2>1. /\ s \in Session /\ s.cur = sess[w].cur
        /\ s.held = sess[w].held /\ s.left = sess[w].held
        /\ s.at = IF sess[w].cur \in SftpRuns THEN "archive" ELSE "ack"
        /\ s.known = IF sess[w].cur \in SftpRuns
                     THEN sess[w].known \cup sess[w].held ELSE sess[w].known
    <3>1. CASE sess[w].cur \in SftpRuns
      BY <1>1, <1>2, <3>1 DEF At, OfSftp, Session, Places
    <3>2. CASE sess[w].cur \notin SftpRuns
      BY <1>1, <1>2, <3>2 DEF At, OfSftp, Session, Places
    <3> QED
      BY <3>1, <3>2
  <2>2. Goes(w, s) /\ FaultsGrow
    BY <1>4, FaultOK
  <2> HIDE DEF s
  <2>3. CourseOK(s)
    BY <1>1, <1>2, <2>1 DEF CourseOK
  <2>4. Owns(s) = Owns(sess[w])
    BY <1>1, <1>2, <2>1 DEF Owns
  <2>5. \A x \in Events \cup Files :
            loaded'[x] = IF x \in sess[w].held THEN loaded[x] + 1 ELSE loaded[x]
    BY <1>1, <1>4
  <2>6. /\ loaded' \in [Events \cup Files -> Nat]
        /\ \A x \in Events \cup Files : loaded'[x] >= loaded[x]
    BY <1>1, <1>4
  <2>7. \A e \in Owns(s) : /\ event'[e] = "processing"
                           /\ loaded'[e] = IF s.at = "ack" THEN 1 ELSE 0
    <3>1. CASE sess[w].cur \in SftpRuns
      BY <1>2, <2>4, <3>1
    <3>2. CASE sess[w].cur \notin SftpRuns
      BY <1>1, <1>2, <1>3, <2>1, <2>4, <2>5, <3>2
    <3> QED
      BY <3>1, <3>2
  <2>8. \A e \in Events \ Owns(sess[w]) :
            event'[e] = event[e] /\ loaded'[e] = loaded[e]
    BY <1>1, <1>2, <2>5, WorkerAssumption
  <2>9. EventsLoadedOnce'
    <3>1. ASSUME NEW e \in Events
          PROVE  /\ loaded'[e] <= 1
                 /\ event'[e] = "processed" => loaded'[e] = 1
                 /\ event'[e] \in {"none", "pending", "failed"} => loaded'[e] = 0
      <4>1. CASE e \in Owns(sess[w])
        BY <2>4, <2>7, <4>1
      <4>2. CASE e \notin Owns(sess[w])
        BY <2>8, <4>2 DEF IInv, EventsOK, EventsLoadedOnce
      <4> QED
        BY <4>1, <4>2
    <3> QED
      BY <3>1 DEF EventsLoadedOnce
  <2>10. \A f \in s.known : loaded'[f] > 0
    <3>1. sess[w].known \subseteq Files /\ \A f \in sess[w].known : loaded[f] > 0
      BY <1>1 DEF IInv, FilesOK, Session
    <3> QED
      BY <1>1, <1>2, <2>1, <2>5, <3>1
  <2>11. NoFileLost'
    BY <1>1, <2>5 DEF IInv, FilesOK, NoFileLost
  <2>12. /\ \A e \in Events : event'[e] = "processing" =>
                \/ faults' > 0 \/ e \in Owns(s)
                \/ event[e] = "processing" /\ e \notin Owns(sess[w])
         /\ \A e \in Events : event[e] = "processed" => event'[e] = "processed"
         /\ s.at \in {"ack", "complete"} => \A e \in Events \cap s.held :
                event'[e] = "processed" \/ e \in s.left
    BY <1>1, <2>1, <2>4
  <2>13. /\ event' \in [Events -> {"none", "pending", "processing", "processed",
                                   "failed"}]
         /\ cursor' \subseteq Files /\ remote' \in [Files -> {"inbox", "archive"}]
    BY <1>1
  <2> QED
    BY <1>1, <2>1, <2>2, <2>3, <2>4, <2>6, <2>7, <2>8, <2>9, <2>10, <2>11, <2>12,
       <2>13, StepIInv
<1>5. CASE /\ Fault
           /\ Goes(w, Raised(w, IF OfSftp(w) THEN {} ELSE sess[w].held, FALSE))
           /\ UNCHANGED loaded
  <2>1. Owns(sess[w]) = IF OfSftp(w) THEN {} ELSE sess[w].held
    BY <1>2 DEF OfSftp
  <2>2. Owns(sess[w]) \in SUBSET Events
    BY DEF Owns
  <2> QED
    BY <1>1, <1>5, <2>1, <2>2, FaultOK, RaiseIInv
<1> QED
  BY <1>4, <1>5 DEF Commit

LEMMA ArchiveFilesIInv ==
    ASSUME IInv, NEW w \in Workers, ArchiveFiles(w)
    PROVE  IInv'
<1>1. /\ sess[w] \in Session /\ CourseOK(sess[w]) /\ sess[w].at = "archive"
      /\ UNCHANGED <<run, event, cursor, loaded>> /\ RunsTyped'
      /\ remote \in [Files -> {"inbox", "archive"}]
  BY RunsStay DEF ArchiveFiles, IInv, TypeOK
<1>2. /\ Owns(sess[w]) = {} /\ sess[w].left \subseteq sess[w].held
      /\ sess[w].held \subseteq sess[w].known /\ sess[w].held \subseteq Files
      /\ \A f \in sess[w].known : loaded[f] > 0
  BY <1>1 DEF CourseOK, Owns, IInv, FilesOK
<1>3. CASE sess[w].left = {} /\ Goes(w, At(w, "upsert"))
           /\ UNCHANGED <<remote, faults>>
  <2> DEFINE s == At(w, "upsert")
  <2>1. /\ s \in Session /\ s.at = "upsert" /\ s.cur = sess[w].cur
        /\ s.held = sess[w].held /\ s.left = {} /\ s.known = sess[w].known
    BY <1>1, <1>3 DEF At, Session, Places
  <2>2. Goes(w, s) /\ FaultsGrow
    BY <1>3, FaultOK
  <2> HIDE DEF s
  <2>3. CourseOK(s) /\ Owns(s) = {}
    BY <1>1, <1>2, <2>1 DEF CourseOK, Owns
  <2> QED
    BY <1>1, <1>2, <1>3, <2>1, <2>2, <2>3, QuietIInv
<1>4. ASSUME NEW f \in sess[w].left, NEW a \in Answers(remote[f] = "inbox"),
             remote' = IF a.applied THEN [remote EXCEPT ![f] = "archive"]
                       ELSE remote,
             Counted(a),
             Goes(w, [sess[w] EXCEPT !.left = @ \ {f},
                                     !.missed = @ \/ a.result # "done"])
      PROVE  IInv'
  <2> DEFINE s == [sess[w] EXCEPT !.left = @ \ {f},
                                  !.missed = @ \/ a.result # "done"]
  <2>1. FaultsGrow /\ a.applied \in BOOLEAN
    BY <1>4, AnswersOK
  <2>3. /\ s \in Session /\ s.at = "archive" /\ s.cur = sess[w].cur
        /\ s.held = sess[w].held /\ s.left = sess[w].left \ {f}
        /\ s.known = sess[w].known
    BY <1>1 DEF Session
  <2>4. Goes(w, s)
    BY <1>4
  <2> HIDE DEF s
  <2>5. CourseOK(s) /\ Owns(s) = {}
    BY <1>1, <1>2, <2>3 DEF CourseOK, Owns
  <2>6. remote' \in [Files -> {"inbox", "archive"}]
    BY <1>1, <1>4, <2>1
  <2>7. NoFileLost'
    <3>1. \A g \in Files : remote'[g] = "archive" => remote[g] = "archive" \/ g = f
      BY <1>1, <1>4, <2>1
    <3>2. f \in Files /\ loaded[f] > 0
      BY <1>2
    <3> QED
      BY <1>1, <3>1, <3>2 DEF IInv, FilesOK, NoFileLost
  <2>8. /\ EventsLoadedOnce'
        /\ event' \in [Events -> {"none", "pending", "processing", "processed",
                                  "failed"}]
        /\ cursor' \subseteq Files /\ loaded' \in [Events \cup Files -> Nat]
        /\ \A x \in Events \cup Files : loaded'[x] >= loaded[x]
    BY <1>1 DEF IInv, TypeOK, EventsOK, EventsLoadedOnce
  <2>9. /\ \A g \in s.known : loaded'[g] > 0
        /\ s.at \notin {"ack", "complete"}
    BY <1>1, <1>2, <2>3
  <2> QED
    BY <1>1, <1>2, <2>1, <2>3, <2>4, <2>5, <2>6, <2>7, <2>8, <2>9, StepIInv
<1> QED
  BY <1>3, <1>4 DEF ArchiveFiles

LEMMA UpsertSyncStateIInv ==
    ASSUME IInv, NEW w \in Workers, UpsertSyncState(w)
    PROVE  IInv'
<1>1. /\ sess[w] \in Session /\ CourseOK(sess[w]) /\ sess[w].at = "upsert"
      /\ UNCHANGED <<run, event, loaded, remote>> /\ RunsTyped'
      /\ Owns(sess[w]) = {}
  BY RunsStay DEF UpsertSyncState, IInv, TypeOK, Owns
<1>2. PICK a \in Answers(Owned(w)) :
        /\ cursor' = IF a.applied THEN sess[w].known ELSE cursor
        /\ Counted(a)
        /\ Goes(w, At(w, "complete")) \/ Goes(w, Raised(w, {}, FALSE))
  BY DEF UpsertSyncState
<1>3. FaultsGrow
  BY <1>2, AnswersOK, OwnedType
<1>4. PICK s \in Session :
        /\ Goes(w, s) /\ CourseOK(s) /\ Owns(s) = {} /\ s.known = sess[w].known
        /\ \/ s.at = "error"
           \/ s.at = "complete" /\ Events \cap s.held = {}
  <2>1. CASE Goes(w, At(w, "complete"))
    <3> DEFINE s == At(w, "complete")
    <3>1. /\ s \in Session /\ s.at = "complete" /\ s.cur = sess[w].cur
          /\ s.held = sess[w].held /\ s.left = sess[w].left
          /\ s.known = sess[w].known
      BY <1>1 DEF At, Session, Places
    <3>2. Goes(w, s)
      BY <2>1
    <3> HIDE DEF s
    <3>3. CourseOK(s) /\ Owns(s) = {} /\ Events \cap s.held = {}
      BY <1>1, <3>1, WorkerAssumption DEF CourseOK, Owns
    <3> QED
      BY <3>1, <3>2, <3>3
  <2>2. CASE Goes(w, Raised(w, {}, FALSE))
    <3> DEFINE s == Raised(w, {}, FALSE)
    <3>1. /\ s \in Session /\ CourseOK(s) /\ Owns(s) = {}
          /\ s.at = "error" /\ s.known = sess[w].known
      BY <1>1, RaisedOK
    <3>2. Goes(w, s)
      BY <2>2
    <3> HIDE DEF s
    <3> QED
      BY <3>1, <3>2
  <2> QED
    BY <1>2, <2>1, <2>2
<1>5. /\ sess[w].known \subseteq Files /\ cursor \subseteq Files
      /\ \A f \in sess[w].known : loaded[f] > 0
  BY <1>1 DEF IInv, TypeOK, FilesOK, Session
<1>6. cursor' \subseteq Files /\ NoFileLost'
  BY <1>1, <1>2, <1>5 DEF IInv, FilesOK, NoFileLost
<1>7. /\ EventsLoadedOnce'
      /\ event' \in [Events -> {"none", "pending", "processing", "processed",
                                "failed"}]
      /\ remote' \in [Files -> {"inbox", "archive"}]
      /\ loaded' \in [Events \cup Files -> Nat]
      /\ \A x \in Events \cup Files : loaded'[x] >= loaded[x]
  BY <1>1 DEF IInv, TypeOK, EventsOK, EventsLoadedOnce
<1> QED
  BY <1>1, <1>3, <1>4, <1>5, <1>6, <1>7, StepIInv

-----------------------------------------------------------------------------
(* Reports *)

\* A run that has ended, or is queued again with attempts left.
LEMMA EndedOK ==
    ASSUME IInv, NEW r \in Runs, NEW status \in {"queued", "success", "failed"},
           status = "queued" => run[r].attempts < MaxAttempts, Ended(r, status)
    PROVE  RunsTyped'
<1>1. run \in [Runs -> Run]
  BY DEF IInv, TypeOK
<1>2. run' = [run EXCEPT ![r] = [run[r] EXCEPT !.status = status,
                                     !.owner = NoRun, !.live = FALSE]]
  BY <1>1 DEF Ended
<1>3. [run[r] EXCEPT !.status = status, !.owner = NoRun, !.live = FALSE] \in Run
  BY <1>1 DEF Run
<1>4. /\ run'[r].status = status /\ run'[r].attempts = run[r].attempts
      /\ \A q \in Runs \ {r} : run'[q] = run[q]
  BY <1>1, <1>2 DEF Run
<1> QED
  BY <1>1, <1>2, <1>3, <1>4 DEF IInv, TypeOK, RunsTyped

\* A worker that leaves its run with nothing to settle.
LEMMA LeaveIInv ==
    ASSUME IInv, NEW w \in Workers, RunsTyped', FaultsGrow,
           UNCHANGED <<event, cursor, loaded, remote>>, Owns(sess[w]) = {},
           NEW s \in Session, Goes(w, s), CourseOK(s), s.left = {},
           s.at \in {"idle", "next", "preflight"},
           s.known \subseteq sess[w].known
    PROVE  IInv'
<1>1. Owns(s) = {}
  BY DEF Owns
<1> QED
  BY <1>1, QuietIInv

LEMMA CompleteIInv ==
    ASSUME IInv, NEW w \in Workers, Complete(w)
    PROVE  IInv'
<1>1. /\ sess[w] \in Session /\ CourseOK(sess[w]) /\ sess[w].at = "complete"
      /\ UNCHANGED <<event, cursor, loaded, remote>> /\ Owns(sess[w]) = {}
  BY DEF Complete, IInv, TypeOK, Owns
<1>2. PICK a \in Answers(Owned(w)) :
        /\ IF a.applied THEN Ended(sess[w].cur, "success") ELSE UNCHANGED run
        /\ Counted(a) /\ AfterCall(w, a, At(w, "next"), {})
  BY DEF Complete
<1>3. FaultsGrow /\ a.applied \in BOOLEAN
  BY <1>2, AnswersOK, OwnedType
<1>4. sess[w].cur \in Runs /\ sess[w].left = {}
  BY <1>1 DEF CourseOK
<1>5. RunsTyped'
  BY <1>2, <1>3, <1>4, EndedOK, RunsStay
<1>6. CASE a.result = "done"
  <2> DEFINE s == At(w, "next")
  <2>1. /\ s \in Session /\ s.at = "next" /\ s.left = {}
        /\ s.known = sess[w].known
    BY <1>1, <1>4 DEF At, Session, Places
  <2>2. Goes(w, s)
    BY <1>2, <1>6 DEF AfterCall
  <2> HIDE DEF s
  <2>3. CourseOK(s)
    BY <2>1 DEF CourseOK
  <2> QED
    BY <1>1, <1>3, <1>5, <2>1, <2>2, <2>3, LeaveIInv
<1>7. CASE a.result # "done"
  <2> DEFINE retry == a.result = "fault"
             s == Raised(w, {}, retry)
  <2>1. Goes(w, s) /\ retry \in BOOLEAN
    BY <1>2, <1>7 DEF AfterCall
  <2> HIDE DEF retry
  <2>2. /\ s \in Session /\ CourseOK(s) /\ Owns(s) = {}
        /\ s.at = "error" /\ s.known = sess[w].known
    BY <1>1, <2>1, RaisedOK
  <2> HIDE DEF s
  <2> QED
    BY <1>1, <1>3, <1>5, <2>1, <2>2, QuietIInv
<1> QED
  BY <1>6, <1>7

LEMMA FailEventIInv ==
    ASSUME IInv, NEW w \in Workers, FailEvent(w)
    PROVE  IInv'
<1>1. /\ sess[w] \in Session /\ CourseOK(sess[w]) /\ sess[w].at = "error"
      /\ UNCHANGED <<run, cursor, loaded, remote>> /\ RunsTyped'
      /\ event \in [Events -> {"none", "pending", "processing", "processed",
                               "failed"}]
  BY RunsStay DEF FailEvent, IInv, TypeOK
<1>2. /\ sess[w].held = {} /\ sess[w].left \subseteq Events
      /\ Owns(sess[w]) = sess[w].left
      /\ \A e \in sess[w].left : event[e] = "processing" /\ loaded[e] = 0
  <2>1. /\ sess[w].held = {} /\ sess[w].left \subseteq Events
        /\ Owns(sess[w]) = sess[w].left
    BY <1>1 DEF CourseOK, Owns
  <2> QED
    BY <1>1, <2>1 DEF IInv, EventsOK
<1> DEFINE failed(a) == [At(w, "preflight") EXCEPT !.left = {},
                           !.retry = a.result = "fault"]
<1>3. PICK e \in sess[w].left : \E a \in Answers(event[e] = "processing") :
        /\ event' = IF a.applied THEN [event EXCEPT ![e] = "failed"] ELSE event
        /\ Counted(a)
        /\ Goes(w, IF a.result = "done" THEN [sess[w] EXCEPT !.left = @ \ {e}]
                   ELSE failed(a))
  BY DEF FailEvent
<1>4. PICK a \in Answers(event[e] = "processing") :
        /\ event' = IF a.applied THEN [event EXCEPT ![e] = "failed"] ELSE event
        /\ Counted(a)
        /\ Goes(w, IF a.result = "done" THEN [sess[w] EXCEPT !.left = @ \ {e}]
                   ELSE failed(a))
  BY <1>3
<1>5. /\ a.applied \in BOOLEAN /\ a.result \in {"done", "fault"}
      /\ a.result = "done" => a.applied
      /\ FaultsGrow /\ (a.result = "fault" => faults' > 0)
  BY <1>2, <1>4, AnswersOK
<1>6. PICK s \in Session :
        /\ Goes(w, s) /\ CourseOK(s) /\ s.known = sess[w].known
        /\ \/ /\ a.result = "done" /\ s.at = "error"
              /\ Owns(s) = sess[w].left \ {e}
           \/ a.result = "fault" /\ s.at = "preflight" /\ Owns(s) = {}
  <2>1. CASE a.result = "done"
    <3> DEFINE s == [sess[w] EXCEPT !.left = @ \ {e}]
    <3>1. /\ s \in Session /\ s.at = "error" /\ s.cur = sess[w].cur
          /\ s.held = {} /\ s.left = sess[w].left \ {e}
          /\ s.known = sess[w].known
      BY <1>1, <1>2 DEF Session
    <3>2. Goes(w, s)
      BY <1>4, <2>1
    <3> HIDE DEF s, failed
    <3>3. CourseOK(s) /\ Owns(s) = sess[w].left \ {e}
      BY <1>1, <1>2, <3>1 DEF CourseOK, Owns
    <3> QED
      BY <2>1, <3>1, <3>2, <3>3
  <2>2. CASE a.result = "fault"
    <3> DEFINE s == [At(w, "preflight") EXCEPT !.left = {}, !.retry = TRUE]
    <3>1. /\ s \in Session /\ s.at = "preflight" /\ s.cur = sess[w].cur
          /\ s.held = {} /\ s.left = {} /\ s.known = sess[w].known
      BY <1>1, <1>2 DEF At, Session, Places
    <3>2. Goes(w, s)
      BY <1>4, <2>2
    <3> HIDE DEF s, failed
    <3>3. CourseOK(s) /\ Owns(s) = {}
      BY <1>1, <3>1 DEF CourseOK, Owns
    <3> QED
      BY <2>2, <3>1, <3>2, <3>3
  <2> QED
    BY <1>5, <2>1, <2>2
<1> HIDE DEF failed
<1>7. \A x \in Events : event'[x] = IF a.applied /\ x = e THEN "failed"
                                                          ELSE event[x]
  BY <1>1, <1>2, <1>4, <1>5
<1>8. event' \in [Events -> {"none", "pending", "processing", "processed",
                             "failed"}]
  BY <1>1, <1>4, <1>5
<1>9. EventsLoadedOnce'
  BY <1>1, <1>2, <1>7 DEF IInv, EventsOK, EventsLoadedOnce
<1>10. \A x \in Owns(s) : event'[x] = "processing" /\ loaded'[x] = 0
  BY <1>1, <1>2, <1>6, <1>7
<1>11. Owns(s) \subseteq Owns(sess[w])
  BY <1>2, <1>6
<1>12. \A x \in Events \ Owns(sess[w]) : event[x] = "processing" =>
          event'[x] = "processing" /\ loaded'[x] = loaded[x]
  BY <1>1, <1>2, <1>7
<1>13. \A x \in Events : event'[x] = "processing" =>
          \/ faults' > 0 \/ x \in Owns(s)
          \/ event[x] = "processing" /\ x \notin Owns(sess[w])
  BY <1>2, <1>5, <1>6, <1>7
<1>14. \A x \in Events : event[x] = "processed" => event'[x] = "processed"
  BY <1>2, <1>7
<1>15. s.at \notin {"ack", "complete"}
  BY <1>6
<1> QED
  BY <1>1, <1>5, <1>6, <1>8, <1>9, <1>10, <1>11, <1>12, <1>13, <1>14, <1>15,
     FilesStay, StepIInv

LEMMA ReportFailureIInv ==
    ASSUME IInv, NEW w \in Workers, ReportFailure(w)
    PROVE  IInv'
<1>1. /\ sess[w] \in Session /\ CourseOK(sess[w])
      /\ sess[w].at \in {"error", "preflight"} /\ sess[w].left = {}
      /\ UNCHANGED <<event, cursor, loaded, remote>> /\ Owns(sess[w]) = {}
  BY DEF ReportFailure, IInv, TypeOK, Owns
<1>2. PICK a \in Answers(Owned(w)) :
        /\ IF a.applied
           THEN Ended(sess[w].cur, IF Requeued(w) THEN "queued" ELSE "failed")
           ELSE UNCHANGED run
        /\ Counted(a)
        /\ Goes(w, CASE a.result = "done" -> At(w, "next")
                     [] a.result # "done" /\ sess[w].at = "error" ->
                          [At(w, "preflight") EXCEPT !.retry = a.result = "fault"]
                     [] OTHER -> Idle)
  BY DEF ReportFailure
<1>3. FaultsGrow /\ a.applied \in BOOLEAN
  BY <1>2, AnswersOK, OwnedType
<1>4. sess[w].cur \in Runs /\ sess[w].held = {}
  BY <1>1 DEF CourseOK
<1>5. RunsTyped'
  <2>1. Requeued(w) => run[sess[w].cur].attempts < MaxAttempts
    BY DEF Requeued
  <2> QED
    BY <1>2, <1>3, <1>4, <2>1, EndedOK, RunsStay
<1>6. PICK s \in Session :
        /\ Goes(w, s) /\ s.at \in {"idle", "next", "preflight"}
        /\ s.cur \in Runs \/ s.at = "idle"
        /\ s.held = {} /\ s.left = {} /\ s.known \subseteq sess[w].known
  <2>1. CASE a.result = "done"
    <3> DEFINE s == At(w, "next")
    <3>1. Goes(w, s)
      BY <1>2, <2>1
    <3>2. /\ s \in Session /\ s.at = "next" /\ s.cur = sess[w].cur
          /\ s.held = {} /\ s.left = {} /\ s.known = sess[w].known
      BY <1>1, <1>4 DEF At, Session, Places
    <3> HIDE DEF s
    <3> QED
      BY <1>4, <3>1, <3>2
  <2>2. CASE a.result # "done" /\ sess[w].at = "error"
    <3> DEFINE retry == a.result = "fault"
               s == [At(w, "preflight") EXCEPT !.retry = retry]
    <3>1. Goes(w, s) /\ retry \in BOOLEAN
      BY <1>2, <2>2
    <3> HIDE DEF retry
    <3>2. /\ s \in Session /\ s.at = "preflight" /\ s.cur = sess[w].cur
          /\ s.held = {} /\ s.left = {} /\ s.known = sess[w].known
      BY <1>1, <1>4, <3>1 DEF At, Session, Places
    <3> HIDE DEF s
    <3> QED
      BY <1>4, <3>1, <3>2
  <2>3. CASE a.result # "done" /\ sess[w].at # "error"
    <3>1. Goes(w, Idle)
      BY <1>2, <2>3
    <3> QED
      BY <3>1, IdleOK
  <2> QED
    BY <2>1, <2>2, <2>3
<1>7. CourseOK(s)
  BY <1>6 DEF CourseOK
<1> QED
  BY <1>1, <1>3, <1>5, <1>6, <1>7, LeaveIInv

-----------------------------------------------------------------------------
(* The environment, and the invariant *)

LEMMA CrashIInv ==
    ASSUME IInv, NEW w \in Workers, Crash(w)
    PROVE  IInv'
<1>1. FaultsGrow /\ faults' > 0 /\ RunsTyped'
  BY FaultOK, RunsStay DEF Crash
<1>2. Goes(w, Idle) /\ UNCHANGED <<event, cursor, loaded, remote>>
  BY DEF Crash
<1>3. sess[w].at # "ack" \/ Owns(Idle) = {}
  BY IdleOK
<1> QED
  BY <1>1, <1>2, <1>3, IdleOK, QuietIInv

LEMMA LapseIInv ==
    ASSUME IInv, NEW r \in Runs, Lapse(r)
    PROVE  IInv'
<1>1. UNCHANGED <<event, cursor, loaded, remote, sess, faults>>
  BY DEF Lapse
<1>2. run \in [Runs -> Run] /\ run' = [run EXCEPT ![r].live = FALSE]
      /\ \A q \in Runs : run[q].status = "queued" => run[q].attempts < MaxAttempts
  BY DEF Lapse, IInv, TypeOK
<1>3. [run[r] EXCEPT !.live = FALSE] \in Run
  BY <1>2 DEF Run
<1>4. \A q \in Runs : /\ run'[q].status = run[q].status
                      /\ run'[q].attempts = run[q].attempts
  BY <1>2 DEF Run
<1>5. TypeOK'
  BY <1>1, <1>2, <1>3, <1>4 DEF IInv, TypeOK
<1>6. (\A w \in Workers : CourseOK(sess[w]))' /\ EventsOK' /\ FilesOK'
  BY <1>1 DEF IInv, EventsOK, FilesOK, EventsLoadedOnce, NoFileLost
<1> QED
  BY <1>5, <1>6 DEF IInv

LEMMA PushIInv ==
    ASSUME IInv, NEW e \in Events, Push(e)
    PROVE  IInv'
<1>1. UNCHANGED <<run, cursor, loaded, remote, sess, faults>>
  BY DEF Push
<1>2. /\ event' \in [Events -> {"none", "pending", "processing", "processed",
                                "failed"}]
      /\ \A x \in Events : \/ event'[x] = event[x]
                           \/ event[x] = "none" /\ event'[x] = "pending"
      /\ EventsLoadedOnce'
  BY <1>1, ArrivedOK DEF Push
<1>3. TypeOK' /\ (\A w \in Workers : CourseOK(sess[w]))' /\ FilesOK'
  BY <1>1, <1>2 DEF IInv, TypeOK, FilesOK, NoFileLost
<1>4. EventsOK'
  <2>1. \A w \in Workers : Owns(sess[w]) \subseteq Events
    BY DEF Owns
  <2>2. \A w \in Workers : \A x \in Owns(sess[w]) : event'[x] = event[x]
    BY <1>2, <2>1 DEF IInv, EventsOK
  <2>3. \A w \in Workers : \A x \in Owns(sess'[w]) :
           /\ event'[x] = "processing"
           /\ loaded'[x] = IF sess'[w].at = "ack" THEN 1 ELSE 0
    BY <1>1, <2>2 DEF IInv, EventsOK
  <2>4. \A x \in Events : event'[x] = "processing" =>
           faults' > 0 \/ \E w \in Workers : x \in Owns(sess'[w])
    BY <1>1, <1>2 DEF IInv, EventsOK
  <2>5. \A v, w \in Workers : v # w => Owns(sess'[v]) \cap Owns(sess'[w]) = {}
    BY <1>1 DEF IInv, EventsOK
  <2>6. \A w \in Workers : sess'[w].at \in {"ack", "complete"} =>
           \A x \in Events \cap sess'[w].held :
              event'[x] = "processed" \/ x \in sess'[w].left
    BY <1>1, <1>2 DEF IInv, EventsOK
  <2> QED
    BY <1>2, <2>3, <2>4, <2>5, <2>6 DEF EventsOK
<1> QED
  BY <1>3, <1>4 DEF IInv

LEMMA StutterIInv == IInv /\ UNCHANGED vars => IInv'
BY DEF vars, IInv, TypeOK, CourseOK, EventsOK, FilesOK, Owns, EventsLoadedOnce,
       NoFileLost

LEMMA InitIInv == Init => IInv
<1> SUFFICES ASSUME Init PROVE IInv
  OBVIOUS
<1>1. TypeOK
  BY WorkerAssumption, IdleOK DEF Init, TypeOK, Run
<1>2. \A w \in Workers : sess[w] = Idle
  BY DEF Init
<1>3. \A w \in Workers : CourseOK(sess[w])
  BY <1>2, IdleOK
<1>4. EventsOK
  BY <1>2, IdleOK DEF Init, EventsOK, EventsLoadedOnce
<1>5. FilesOK
  BY <1>2, IdleOK DEF Init, FilesOK, NoFileLost
<1> QED
  BY <1>1, <1>3, <1>4, <1>5 DEF IInv

LEMMA WorkIInv ==
    ASSUME IInv, NEW w \in Workers, Work(w)
    PROVE  IInv'
BY NextRunIInv, FetchPlanIInv, PullProviderEventsIInv, ClaimRawEventsIInv,
   IngestIInv, ListFilesIInv, ReadFilesIInv, CommitIInv, AckEventsIInv,
   ArchiveFilesIInv, UpsertSyncStateIInv, CompleteIInv, FailEventIInv,
   ReportFailureIInv DEF Work

LEMMA NextIInv == IInv /\ [Next]_vars => IInv'
BY WorkIInv, ClaimSyncRunsIInv, CrashIInv, LapseIInv, PushIInv, StutterIInv DEF Next

LEMMA Invariance == Spec => []IInv
BY InitIInv, NextIInv, PTL DEF Spec

-----------------------------------------------------------------------------
(* The files of one run *)

LEMMA GoesOK ==
    ASSUME IInv, NEW w \in Workers, NEW s, Goes(w, s)
    PROVE  sess'[w] = s /\ \A v \in Workers \ {w} : sess'[v] = sess[v]
BY DEF IInv, TypeOK, Goes

\* Nobody but w gets a run by the step.
RunsKept(w) ==
    \A r \in Runs : \A v \in Workers \ {w} :
        run'[r].status = "running" /\ run'[r].owner = v =>
            run[r].status = "running" /\ run[r].owner = v

\* What a step of w owes to the other workers.
LEMMA SettleStep ==
    ASSUME IInv, FilesSettle, NEW w \in Workers,
           \A v \in Workers \ {w} : sess'[v] = sess[v],
           RunsKept(w), cursor \subseteq cursor',
           \/ UNCHANGED cursor
           \/ \A r \in SftpRuns : \A v \in Workers \ {w} :
                 ~(run[r].status = "running" /\ run[r].owner = v),
           \A f \in Files : remote[f] = "archive" => remote'[f] = "archive",
           Settling(w)'
    PROVE  FilesSettle'
<1>1. ASSUME NEW v \in Workers \ {w}
      PROVE  Settling(v)'
  <2>1. sess'[v] = sess[v] /\ Settling(v) /\ CourseOK(sess[v])
    BY DEF IInv, FilesSettle
  <2>2. ASSUME sess[v].at \in {"list", "read", "commit", "archive", "upsert"},
               sess[v].cur \in SftpRuns,
               run'[sess[v].cur].status = "running",
               run'[sess[v].cur].owner = v
        PROVE  cursor' \subseteq sess[v].known
    <3>1. sess[v].cur \in Runs
      BY <2>2, WorkerAssumption
    <3>2. run[sess[v].cur].status = "running" /\ run[sess[v].cur].owner = v
      BY <2>2, <3>1 DEF RunsKept
    <3> QED
      BY <2>1, <2>2, <3>2 DEF Settling
  <2>3. ASSUME sess[v].at \in {"archive", "upsert"}, ~sess[v].missed,
               NEW f \in sess[v].held
        PROVE  f \in sess[v].left \/ remote'[f] = "archive"
    <3>1. f \in Files
      BY <2>1, <2>3 DEF CourseOK
    <3> QED
      BY <2>1, <2>3, <3>1 DEF Settling
  <2>4. ASSUME sess[v].at = "complete", NEW f \in Files \cap sess[v].held
        PROVE  remote'[f] = "archive" \/ f \in cursor'
    BY <2>1, <2>4 DEF Settling
  <2> QED
    BY <2>1, <2>2, <2>3, <2>4 DEF Settling
<1> QED
  BY <1>1 DEF FilesSettle

\* A step of w that leaves the sync state and the remote files.
LEMMA SettleQuiet ==
    ASSUME IInv, FilesSettle, NEW w \in Workers, NEW s, Goes(w, s),
           RunsKept(w), UNCHANGED <<cursor, remote>>, Settling(w)'
    PROVE  FilesSettle'
<1>1. \A v \in Workers \ {w} : sess'[v] = sess[v]
  BY GoesOK
<1>2. cursor \subseteq cursor'
  OBVIOUS
<1> QED
  BY <1>1, <1>2, SettleStep

\* So does one that takes w to a place where it has no files.
LEMMA SettleAway ==
    ASSUME IInv, FilesSettle, NEW w \in Workers, NEW s, Goes(w, s),
           RunsKept(w), UNCHANGED <<cursor, remote>>,
           s.at \notin {"list", "read", "commit", "archive", "upsert", "complete"}
    PROVE  FilesSettle'
<1>1. Settling(w)'
  BY GoesOK DEF Settling
<1> QED
  BY <1>1, SettleQuiet

LEMMA KeptOK ==
    ASSUME IInv, NEW w \in Workers
    PROVE  /\ UNCHANGED run => RunsKept(w)
           /\ \A r \in Runs : \A status \in {"queued", "success", "failed"} :
                 Ended(r, status) => RunsKept(w)
<1>1. UNCHANGED run => RunsKept(w)
  BY DEF RunsKept
<1>2. ASSUME NEW r \in Runs, NEW status \in {"queued", "success", "failed"},
             Ended(r, status)
      PROVE  RunsKept(w)
  <2>1. run \in [Runs -> Run]
    BY DEF IInv, TypeOK
  <2>2. run'[r].status = status /\ \A q \in Runs \ {r} : run'[q] = run[q]
    BY <1>2, <2>1 DEF Ended, Run
  <2> QED
    BY <2>2 DEF RunsKept
<1> QED
  BY <1>1, <1>2

\* The places that a call can lead to.
LEMMA PlacesOK ==
    ASSUME IInv, NEW w \in Workers
    PROVE  /\ sess[w] \in Session /\ CourseOK(sess[w]) /\ Idle.at = "idle"
           /\ \A place : /\ At(w, place).at = place
                         /\ At(w, place).held = sess[w].held
                         /\ At(w, place).left = sess[w].left
                         /\ At(w, place).cur = sess[w].cur
                         /\ At(w, place).known = sess[w].known
                         /\ At(w, place).missed = sess[w].missed
           /\ \A events, retry : Raised(w, events, retry).at = "error"
BY IdleOK DEF IInv, TypeOK, Session, At, Raised

LEMMA RaisedAt ==
    ASSUME IInv, NEW w \in Workers, NEW events, NEW retry \in BOOLEAN
    PROVE  Raised(w, events, retry).at = "error"
BY DEF IInv, TypeOK, Session, At, Raised

LEMMA ClaimSyncRunsSettle ==
    ASSUME IInv, FilesSettle, NEW w \in Workers, ClaimSyncRuns(w)
    PROVE  FilesSettle'
<1>1. PICK S \in SUBSET Runs, a \in Answers(TRUE) :
        /\ run' = [r \in Runs |->
                     IF r \in S
                     THEN [ status |-> "running",
                            attempts |-> Least(run[r].attempts + 1, MaxAttempts),
                            owner |-> w, live |-> TRUE ]
                     ELSE run[r]]
        /\ Goes(w, IF a.result = "done"
                   THEN [Idle EXCEPT !.at = "next", !.todo = S] ELSE Idle)
        /\ UNCHANGED <<cursor, remote>>
  BY DEF ClaimSyncRuns
<1>2. RunsKept(w)
  BY <1>1 DEF RunsKept
<1>3. [Idle EXCEPT !.at = "next", !.todo = S].at = "next" /\ Idle.at = "idle"
  BY DEF Idle
<1>4. PICK s : Goes(w, s) /\ s.at \in {"next", "idle"}
  BY <1>1, <1>3
<1> QED
  BY <1>1, <1>2, <1>4, SettleAway

\* The steps of a worker that has no files.
LEMMA OtherSettle ==
    ASSUME IInv, FilesSettle, NEW w \in Workers,
           \/ NextRun(w) \/ PullProviderEvents(w) \/ Ingest(w) \/ Complete(w)
           \/ FailEvent(w) \/ ReportFailure(w) \/ Crash(w)
    PROVE  FilesSettle'
<1> DEFINE Away(s) == s.at \notin {"list", "read", "commit", "archive", "upsert",
                                   "complete"}
<1>1. RunsKept(w) /\ UNCHANGED <<cursor, remote>>
  <2>1. CASE Complete(w)
    <3>1. sess[w].cur \in Runs
      BY <2>1, PlacesOK DEF Complete, CourseOK
    <3> QED
      BY <2>1, <3>1, KeptOK DEF Complete
  <2>2. CASE ReportFailure(w)
    <3>1. sess[w].cur \in Runs
      BY <2>2, PlacesOK DEF ReportFailure, CourseOK
    <3> QED
      BY <2>2, <3>1, KeptOK DEF ReportFailure
  <2> QED
    BY <2>1, <2>2, KeptOK DEF NextRun, PullProviderEvents, Ingest, FailEvent, Crash
<1>2. \E s : Goes(w, s) /\ Away(s)
  <2>1. CASE NextRun(w)
    <3>1. CASE Goes(w, Idle)
      BY <3>1, PlacesOK
    <3>2. ASSUME NEW r, Goes(w, [Idle EXCEPT !.at = "plan", !.cur = r,
                                             !.todo = sess[w].todo \ {r}])
          PROVE  \E s : Goes(w, s) /\ Away(s)
      <4>1. [Idle EXCEPT !.at = "plan", !.cur = r,
                         !.todo = sess[w].todo \ {r}].at = "plan"
        BY DEF Idle
      <4> QED
        BY <3>2, <4>1
    <3> QED
      BY <2>1, <3>1, <3>2 DEF NextRun
  <2>2. CASE PullProviderEvents(w)
    <3>1. PICK a : AfterCall(w, a, At(w, "drain"), {})
      BY <2>2 DEF PullProviderEvents
    <3>2. \E s : Goes(w, s) /\ s.at \in {"drain", "error"}
      BY <3>1, PlacesOK DEF AfterCall
    <3> QED
      BY <3>2
  <2>3. CASE Ingest(w)
    <3>1. \/ Goes(w, [At(w, "drain") EXCEPT
                        !.held = sess[w].held \cup sess[w].left, !.left = {}])
          \/ \E events, retry : Goes(w, Raised(w, events, retry))
      BY <2>3 DEF Ingest
    <3>2. [At(w, "drain") EXCEPT
             !.held = sess[w].held \cup sess[w].left, !.left = {}].at = "drain"
      BY PlacesOK DEF At, Session
    <3> QED
      BY <3>1, <3>2, PlacesOK
  <2>4. CASE Complete(w)
    <3>1. PICK a : AfterCall(w, a, At(w, "next"), {})
      BY <2>4 DEF Complete
    <3>2. \E s : Goes(w, s) /\ s.at \in {"next", "error"}
      BY <3>1, PlacesOK DEF AfterCall
    <3> QED
      BY <3>2
  <2>5. CASE FailEvent(w)
    <3>1. PICK e, retry :
            \/ Goes(w, [sess[w] EXCEPT !.left = @ \ {e}])
            \/ Goes(w, [At(w, "preflight") EXCEPT !.left = {}, !.retry = retry])
      BY <2>5 DEF FailEvent
    <3>2. /\ [sess[w] EXCEPT !.left = @ \ {e}].at = "error"
          /\ [At(w, "preflight") EXCEPT !.left = {}, !.retry = retry].at
                = "preflight"
      BY <2>5, PlacesOK DEF FailEvent, At, Session
    <3> QED
      BY <3>1, <3>2
  <2>6. CASE ReportFailure(w)
    <3>1. PICK retry :
            \/ Goes(w, At(w, "next")) \/ Goes(w, Idle)
            \/ Goes(w, [At(w, "preflight") EXCEPT !.retry = retry])
      BY <2>6 DEF ReportFailure
    <3>2. [At(w, "preflight") EXCEPT !.retry = retry].at = "preflight"
      BY PlacesOK DEF At, Session
    <3>3. CASE Goes(w, At(w, "next"))
      BY <3>3, PlacesOK
    <3>4. CASE Goes(w, Idle)
      BY <3>4, PlacesOK
    <3>5. CASE Goes(w, [At(w, "preflight") EXCEPT !.retry = retry])
      BY <3>2, <3>5
    <3> QED
      BY <3>1, <3>3, <3>4, <3>5
  <2>7. CASE Crash(w)
    BY <2>7, PlacesOK DEF Crash
  <2> QED
    BY <2>1, <2>2, <2>3, <2>4, <2>5, <2>6, <2>7
<1>3. PICK s : Goes(w, s) /\ Away(s)
  BY <1>2
<1> QED
  BY <1>1, <1>3, SettleAway

LEMMA EventsSettle ==
    ASSUME IInv, FilesSettle, NEW w \in Workers, ClaimRawEvents(w) \/ AckEvents(w)
    PROVE  FilesSettle'
<1>1. RunsKept(w) /\ UNCHANGED <<cursor, remote>>
  BY KeptOK DEF ClaimRawEvents, AckEvents
<1>2. sess[w].cur \notin SftpRuns /\ sess[w].held \subseteq Events
  BY PlacesOK DEF ClaimRawEvents, AckEvents, CourseOK
<1>3. PICK s : /\ Goes(w, s)
               /\ \/ s.at \in {"ingest", "ack", "error"}
                  \/ s.at = "commit" /\ s.cur \notin SftpRuns
                  \/ s.at = "complete" /\ s.held \subseteq Events
  <2>1. CASE ClaimRawEvents(w)
    <3>1. PICK S, a : AfterCall(w, a, IF S = {} THEN At(w, "commit")
                                      ELSE [At(w, "ingest") EXCEPT !.left = S],
                                sess[w].held)
      BY <2>1 DEF ClaimRawEvents
    <3>2. [At(w, "ingest") EXCEPT !.left = S].at = "ingest"
      BY PlacesOK DEF At, Session
    <3>3. CASE a.result = "done" /\ S = {}
      <4>1. Goes(w, At(w, "commit"))
        BY <3>1, <3>3 DEF AfterCall
      <4> QED
        BY <1>2, <4>1, PlacesOK
    <3>4. CASE a.result = "done" /\ S # {}
      <4>1. Goes(w, [At(w, "ingest") EXCEPT !.left = S])
        BY <3>1, <3>4 DEF AfterCall
      <4> QED
        BY <3>2, <4>1
    <3>5. CASE a.result # "done"
      <4>1. \E retry : Goes(w, Raised(w, sess[w].held, retry))
        BY <3>1, <3>5 DEF AfterCall
      <4> QED
        BY <4>1, PlacesOK
    <3> QED
      BY <3>3, <3>4, <3>5
  <2>2. CASE AckEvents(w)
    <3>1. \/ Goes(w, At(w, "complete"))
          \/ \E e, a : AfterCall(w, a, [sess[w] EXCEPT !.left = @ \ {e}], {})
      BY <2>2 DEF AckEvents
    <3>2. CASE Goes(w, At(w, "complete"))
      BY <1>2, <3>2, PlacesOK
    <3>3. ASSUME NEW e, NEW a,
                 AfterCall(w, a, [sess[w] EXCEPT !.left = @ \ {e}], {})
          PROVE  \E s : Goes(w, s) /\ s.at \in {"ack", "error"}
      <4>1. [sess[w] EXCEPT !.left = @ \ {e}].at = "ack"
        BY <2>2, PlacesOK DEF AckEvents, Session
      <4>2. CASE a.result = "done"
        BY <3>3, <4>1, <4>2 DEF AfterCall
      <4>3. CASE a.result # "done"
        BY <3>3, <4>3, PlacesOK DEF AfterCall
      <4> QED
        BY <4>2, <4>3
    <3> QED
      BY <3>1, <3>2, <3>3
  <2> QED
    BY <2>1, <2>2
<1>4. Settling(w)'
  BY <1>3, GoesOK, WorkerAssumption DEF Settling
<1> QED
  BY <1>1, <1>3, <1>4, SettleQuiet

LEMMA FetchPlanSettle ==
    ASSUME IInv, FilesSettle, NEW w \in Workers, FetchPlan(w)
    PROVE  FilesSettle'
<1>1. RunsKept(w) /\ UNCHANGED <<cursor, remote>>
  BY KeptOK DEF FetchPlan
<1>2. PICK a : AfterCall(w, a, IF OfSftp(w)
                               THEN [At(w, "list") EXCEPT !.known = cursor]
                               ELSE At(w, "pull"), {})
  BY DEF FetchPlan
<1>3. /\ [At(w, "list") EXCEPT !.known = cursor].at = "list"
      /\ [At(w, "list") EXCEPT !.known = cursor].known = cursor
  BY PlacesOK DEF At, Session
<1>4. PICK s : /\ Goes(w, s)
               /\ \/ s.at \in {"pull", "error"}
                  \/ s.at = "list" /\ s.known = cursor
  <2>1. CASE a.result = "done" /\ OfSftp(w)
    <3>1. Goes(w, [At(w, "list") EXCEPT !.known = cursor])
      BY <1>2, <2>1 DEF AfterCall
    <3> QED
      BY <1>3, <3>1
  <2>2. CASE a.result = "done" /\ ~OfSftp(w)
    <3>1. Goes(w, At(w, "pull"))
      BY <1>2, <2>2 DEF AfterCall
    <3> QED
      BY <3>1, PlacesOK
  <2>3. CASE a.result # "done"
    <3>1. \E retry : Goes(w, Raised(w, {}, retry))
      BY <1>2, <2>3 DEF AfterCall
    <3> QED
      BY <3>1, PlacesOK
  <2> QED
    BY <2>1, <2>2, <2>3
<1>5. Settling(w)'
  BY <1>1, <1>4, GoesOK DEF Settling
<1> QED
  BY <1>1, <1>4, <1>5, SettleQuiet

LEMMA ListFilesSettle ==
    ASSUME IInv, FilesSettle, NEW w \in Workers, ListFiles(w) \/ ReadFiles(w)
    PROVE  FilesSettle'
<1>1. RunsKept(w) /\ UNCHANGED <<run, cursor, remote>>
  BY KeptOK DEF ListFiles, ReadFiles
<1>2. /\ sess[w].at \in {"list", "read"} /\ Settling(w)
  BY DEF ListFiles, ReadFiles, FilesSettle
<1>3. PICK s : /\ Goes(w, s)
               /\ \/ s.at = "error"
                  \/ /\ s.at \in {"read", "commit"}
                     /\ s.cur = sess[w].cur /\ s.known = sess[w].known
  <2>1. CASE ListFiles(w)
    <3>1. \/ \E S : Goes(w, [At(w, "read") EXCEPT !.held = S])
          \/ Goes(w, Raised(w, {}, FALSE))
      BY <2>1 DEF ListFiles
    <3>2. \A S : /\ [At(w, "read") EXCEPT !.held = S].at = "read"
                 /\ [At(w, "read") EXCEPT !.held = S].cur = sess[w].cur
                 /\ [At(w, "read") EXCEPT !.held = S].known = sess[w].known
      BY PlacesOK DEF At, Session
    <3>3. Raised(w, {}, FALSE).at = "error"
      BY RaisedAt
    <3>4. CASE Goes(w, Raised(w, {}, FALSE))
      BY <3>3, <3>4
    <3> QED
      BY <3>1, <3>2, <3>4
  <2>2. CASE ReadFiles(w)
    <3> DEFINE c == At(w, "commit")
    <3>1. Goes(w, c) \/ Goes(w, Raised(w, {}, FALSE))
      BY <2>2 DEF ReadFiles
    <3>2. c.at = "commit" /\ c.cur = sess[w].cur /\ c.known = sess[w].known
      BY PlacesOK
    <3>3. Raised(w, {}, FALSE).at = "error"
      BY RaisedAt
    <3> HIDE DEF c
    <3> QED
      BY <3>1, <3>2, <3>3
  <2> QED
    BY <2>1, <2>2
<1>4. Settling(w)'
  BY <1>1, <1>2, <1>3, GoesOK DEF Settling
<1> QED
  BY <1>1, <1>3, <1>4, SettleQuiet

LEMMA CommitSettle ==
    ASSUME IInv, FilesSettle, NEW w \in Workers, Commit(w)
    PROVE  FilesSettle'
<1>1. RunsKept(w) /\ UNCHANGED <<run, cursor, remote>>
  BY KeptOK DEF Commit
<1>2. sess[w].at = "commit" /\ Settling(w)
  BY DEF Commit, FilesSettle
<1> DEFINE c == [At(w, IF OfSftp(w) THEN "archive" ELSE "ack")
                   EXCEPT !.left = sess[w].held,
                          !.known = IF OfSftp(w) THEN @ \cup sess[w].held ELSE @]
<1>3. PICK s : /\ Goes(w, s)
               /\ \/ s.at \in {"error", "ack"}
                  \/ /\ s.at = "archive" /\ s.cur = sess[w].cur
                     /\ s.known = sess[w].known \cup sess[w].held
                     /\ s.left = s.held
  <2>1. CASE Goes(w, c)
    <3>1. /\ c.at = IF OfSftp(w) THEN "archive" ELSE "ack"
          /\ c.cur = sess[w].cur /\ c.left = sess[w].held /\ c.held = sess[w].held
          /\ OfSftp(w) => c.known = sess[w].known \cup sess[w].held
      BY PlacesOK DEF At, Session
    <3>2. Goes(w, c)
      BY <2>1
    <3> HIDE DEF c
    <3>3. CASE OfSftp(w)
      BY <3>1, <3>2, <3>3
    <3>4. CASE ~OfSftp(w)
      BY <3>1, <3>2, <3>4
    <3> QED
      BY <3>3, <3>4
  <2>2. ASSUME NEW events, Goes(w, Raised(w, events, FALSE))
        PROVE  \E s : Goes(w, s) /\ s.at = "error"
    <3>1. Raised(w, events, FALSE).at = "error"
      BY RaisedAt
    <3> QED
      BY <2>2, <3>1
  <2> HIDE DEF c
  <2>3. Goes(w, c) \/ \E events : Goes(w, Raised(w, events, FALSE))
    BY DEF Commit, c
  <2> QED
    BY <2>1, <2>2, <2>3
<1> HIDE DEF c
<1>4. Settling(w)'
  BY <1>1, <1>2, <1>3, GoesOK DEF Settling
<1> QED
  BY <1>1, <1>3, <1>4, SettleQuiet

LEMMA ArchiveFilesSettle ==
    ASSUME IInv, FilesSettle, NEW w \in Workers, ArchiveFiles(w)
    PROVE  FilesSettle'
<1>1. RunsKept(w) /\ UNCHANGED <<run, cursor>>
  BY KeptOK DEF ArchiveFiles
<1>2. /\ sess[w].at = "archive" /\ Settling(w) /\ sess[w] \in Session
      /\ sess[w].left \subseteq sess[w].held /\ sess[w].held \subseteq Files
      /\ remote \in [Files -> {"inbox", "archive"}]
  BY PlacesOK DEF ArchiveFiles, FilesSettle, CourseOK, IInv, TypeOK
<1>3. CASE sess[w].left = {} /\ Goes(w, At(w, "upsert")) /\ UNCHANGED remote
  <2> DEFINE s == At(w, "upsert")
  <2>1. /\ s.at = "upsert" /\ s.cur = sess[w].cur /\ s.known = sess[w].known
        /\ s.held = sess[w].held /\ s.left = sess[w].left
        /\ s.missed = sess[w].missed
    BY PlacesOK
  <2>2. Goes(w, s)
    BY <1>3
  <2> HIDE DEF s
  <2>3. Settling(w)'
    BY <1>1, <1>2, <1>3, <2>1, <2>2, GoesOK DEF Settling
  <2> QED
    BY <1>1, <1>3, <2>2, <2>3, SettleQuiet
<1>4. ASSUME NEW f \in sess[w].left, NEW a \in Answers(remote[f] = "inbox"),
             remote' = IF a.applied THEN [remote EXCEPT ![f] = "archive"]
                       ELSE remote,
             Counted(a),
             Goes(w, [sess[w] EXCEPT !.left = @ \ {f},
                                     !.missed = @ \/ a.result # "done"])
      PROVE  FilesSettle'
  <2> DEFINE s == [sess[w] EXCEPT !.left = @ \ {f},
                                  !.missed = @ \/ a.result # "done"]
  <2>1. /\ s.at = "archive" /\ s.cur = sess[w].cur /\ s.known = sess[w].known
        /\ s.held = sess[w].held /\ s.left = sess[w].left \ {f}
        /\ ~s.missed => ~sess[w].missed /\ a.result = "done"
    BY <1>2 DEF Session
  <2>2. Goes(w, s)
    BY <1>4
  <2> HIDE DEF s
  <2>3. a.applied \in BOOLEAN /\ (a.result = "done" => a.applied)
    BY <1>4, AnswersOK
  <2>4. \A g \in Files : remote'[g] = IF a.applied /\ g = f THEN "archive"
                                                            ELSE remote[g]
    BY <1>2, <1>4, <2>3
  <2>5. Settling(w)'
    <3>1. sess'[w] = s
      BY <2>2, GoesOK
    <3>2. ASSUME ~s.missed, NEW g \in s.held
          PROVE  g \in s.left \/ remote'[g] = "archive"
      BY <1>2, <2>1, <2>3, <2>4, <3>2 DEF Settling
    <3> QED
      BY <1>1, <1>2, <2>1, <3>1, <3>2 DEF Settling
  <2>6. /\ \A g \in Files : remote[g] = "archive" => remote'[g] = "archive"
        /\ \A v \in Workers \ {w} : sess'[v] = sess[v]
        /\ cursor \subseteq cursor'
    BY <1>1, <2>2, <2>4, GoesOK
  <2> QED
    BY <1>1, <2>5, <2>6, SettleStep
<1> QED
  BY <1>3, <1>4 DEF ArchiveFiles

\* The only place where it matters that the connection has a single run.
LEMMA UpsertSyncStateSettle ==
    ASSUME IInv, FilesSettle, \A r, s \in SftpRuns : r = s,
           NEW w \in Workers, UpsertSyncState(w)
    PROVE  FilesSettle'
<1>1. RunsKept(w) /\ UNCHANGED <<run, remote>>
  BY KeptOK DEF UpsertSyncState
<1>2. /\ sess[w].at = "upsert" /\ Settling(w) /\ sess[w].cur \in SftpRuns
      /\ sess[w].held \subseteq sess[w].known /\ sess[w].left = {}
  BY PlacesOK DEF UpsertSyncState, FilesSettle, CourseOK
<1>3. PICK a \in Answers(Owned(w)) :
        /\ cursor' = IF a.applied THEN sess[w].known ELSE cursor
        /\ Counted(a)
        /\ Goes(w, IF \/ a.result = "done"
                      \/ sess[w].held # {} /\ ~sess[w].missed
                   THEN At(w, "complete") ELSE Raised(w, {}, FALSE))
  BY DEF UpsertSyncState
<1>4. /\ a.applied \in BOOLEAN /\ (a.result = "done" => a.applied)
      /\ a.applied => Owned(w)
  BY <1>3, AnswersOK, OwnedType
<1>5. a.applied => /\ cursor \subseteq sess[w].known
                   /\ \A r \in SftpRuns : run[r].owner = w
  <2>1. ASSUME Owned(w)
        PROVE  /\ run[sess[w].cur].status = "running"
               /\ run[sess[w].cur].owner = w
    BY <2>1 DEF Owned
  <2> QED
    BY <1>2, <1>4, <2>1 DEF Settling
<1>6. cursor \subseteq cursor'
  BY <1>3, <1>4, <1>5
<1>7. \/ UNCHANGED cursor
      \/ \A r \in SftpRuns : \A v \in Workers \ {w} :
            ~(run[r].status = "running" /\ run[r].owner = v)
  BY <1>3, <1>4, <1>5
<1>8. Settling(w)' /\ \A v \in Workers \ {w} : sess'[v] = sess[v]
  <2>1. CASE Goes(w, At(w, "complete"))
             /\ (a.result = "done" \/ ~sess[w].missed)
    <3> DEFINE s == At(w, "complete")
    <3>1. s.at = "complete" /\ s.held = sess[w].held
      BY PlacesOK
    <3>2. sess'[w] = s /\ \A v \in Workers \ {w} : sess'[v] = sess[v]
      BY <2>1, GoesOK
    <3> HIDE DEF s
    <3>3. ASSUME NEW f \in Files \cap s.held
          PROVE  remote'[f] = "archive" \/ f \in cursor'
      <4>1. CASE a.result = "done"
        BY <1>2, <1>3, <1>4, <3>1, <4>1
      <4>2. CASE ~sess[w].missed
        BY <1>1, <1>2, <3>1, <4>2 DEF Settling
      <4> QED
        BY <2>1, <4>1, <4>2
    <3> QED
      BY <3>1, <3>2, <3>3 DEF Settling
  <2>2. CASE Goes(w, Raised(w, {}, FALSE))
    <3>1. Raised(w, {}, FALSE).at = "error"
      BY RaisedAt
    <3>2. sess'[w].at = "error" /\ \A v \in Workers \ {w} : sess'[v] = sess[v]
      BY <2>2, <3>1, GoesOK
    <3> QED
      BY <3>2 DEF Settling
  <2> QED
    BY <1>3, <2>1, <2>2
<1> QED
  BY <1>1, <1>6, <1>7, <1>8, SettleStep

LEMMA LapseSettle ==
    ASSUME IInv, FilesSettle, NEW r \in Runs, Lapse(r)
    PROVE  FilesSettle'
<1>1. run \in [Runs -> Run] /\ run' = [run EXCEPT ![r].live = FALSE]
  BY DEF Lapse, IInv, TypeOK
<1>2. \A q \in Runs : run'[q].status = run[q].status /\ run'[q].owner = run[q].owner
  BY <1>1 DEF Run
<1> QED
  BY <1>2, WorkerAssumption DEF Lapse, FilesSettle, Settling

LEMMA NextSettle ==
    ASSUME \A r, s \in SftpRuns : r = s
    PROVE  IInv /\ FilesSettle /\ [Next]_vars => FilesSettle'
<1> SUFFICES ASSUME IInv, FilesSettle, [Next]_vars PROVE FilesSettle'
  OBVIOUS
<1>1. CASE UNCHANGED vars
  BY <1>1 DEF vars, FilesSettle, Settling
<1>2. ASSUME NEW e \in Events, Push(e) PROVE FilesSettle'
  BY <1>2 DEF Push, FilesSettle, Settling
<1>3. ASSUME NEW w \in Workers, Work(w) PROVE FilesSettle'
  BY <1>3, OtherSettle, EventsSettle, FetchPlanSettle, ListFilesSettle,
     CommitSettle, ArchiveFilesSettle, UpsertSyncStateSettle DEF Work
<1> QED
  BY <1>1, <1>2, <1>3, ClaimSyncRunsSettle, OtherSettle, LapseSettle DEF Next

LEMMA InitSettle == Init => FilesSettle
BY IdleOK DEF Init, FilesSettle, Settling

-----------------------------------------------------------------------------
(* Theorems *)

\* Every reachable state is a state of the types: an attempt is left to a run
\* that is queued, and a worker has only events and files that there are.
THEOREM TypeCorrect == Spec => []TypeOK
<1>1. IInv => TypeOK
  BY DEF IInv
<1> QED
  BY <1>1, Invariance, PTL

\* No raw event is committed twice and its status tells the truth about its
\* rows, and no file is moved away or remembered before it is loaded, however
\* many workers there are and whatever leases end, calls fail and workers crash
\* (claim_raw_events, mark_raw_event_processed, finalize_sftp_file_import).
THEOREM LoadsSound == Spec => []LoadsAreSound
<1>1. IInv => LoadsAreSound
  BY DEF IInv, EventsOK, FilesOK, LoadsAreSound
<1> QED
  BY <1>1, Invariance, PTL

LEMMA HeldOK == IInv => NothingStranded
<1> SUFFICES ASSUME IInv, faults = 0, NEW e \in Events, event[e] = "processing"
             PROVE  \E w \in Workers : e \in sess[w].held \cup sess[w].left
  BY DEF NothingStranded
<1>1. PICK w \in Workers : e \in Owns(sess[w])
  BY DEF IInv, EventsOK
<1> QED
  BY <1>1 DEF Owns

\* While no call fails, an event in processing is in the hands of a worker.
THEOREM EventsAreHeld == Spec => []NothingStranded
BY HeldOK, Invariance, PTL

LEMMA SettledOK == IInv /\ FilesSettle => SuccessIsSettled
<1> SUFFICES ASSUME IInv, FilesSettle, NEW w \in Workers,
                    sess[w].at = "complete", NEW x \in sess[w].held
             PROVE  IF x \in Files THEN remote[x] = "archive" \/ x \in cursor
                    ELSE event[x] = "processed"
  BY DEF SuccessIsSettled
<1>1. sess[w] \in Session /\ sess[w].left = {}
  BY PlacesOK DEF CourseOK
<1>2. CASE x \in Files
  BY <1>2 DEF FilesSettle, Settling
<1>3. CASE x \notin Files
  <2>1. x \in Events
    BY <1>1, <1>3 DEF Session
  <2> QED
    BY <1>1, <1>3, <2>1 DEF IInv, EventsOK
<1> QED
  BY <1>2, <1>3

\* An attempt that reports success has settled all that it loaded, for a
\* connection with files that has one run: with two, the older of two sync
\* states may be written last (upsert_sync_state).
THEOREM WorkSettled ==
    ASSUME \A r, s \in SftpRuns : r = s
    PROVE  Spec => []WorkIsSettled
<1>1. IInv /\ FilesSettle => WorkIsSettled
  BY HeldOK, SettledOK DEF WorkIsSettled
<1>2. IInv /\ FilesSettle /\ [Next]_vars => FilesSettle'
  BY NextSettle
<1> QED
  BY <1>1, <1>2, InitSettle, Invariance, PTL DEF Spec
=============================================================================
