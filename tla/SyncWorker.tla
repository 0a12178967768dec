----------------------------- MODULE SyncWorker -----------------------------
(***************************************************************************)
(* The sync worker of app-api: drain_sync_queue_once claims a batch of     *)
(* sync runs from app-connectors and carries each out with                 *)
(* process_claimed_sync_run, which moves raw events, or the files of an    *)
(* SFTP directory, into the dataset tables of one database transaction and *)
(* then settles them with the system they came from.                       *)
(*                                                                         *)
(* A worker waits for every request it sends, so its requests are steps.   *)
(* A request that app-connectors answers takes effect or is refused; one   *)
(* that fails in transport may or may not have taken effect.  The runs all *)
(* belong to one connection with raw events and one with files.  What the  *)
(* handlers of app-connectors do is taken from SyncRuns and RawEvents: a   *)
(* lease is running or over, and an owner stands for the lock token it was *)
(* given, which no one else holds and which it drops before it claims.     *)
(***************************************************************************)
EXTENDS Integers, FiniteSets

CONSTANTS
    Workers,     \* worker processes
    Runs,        \* sync runs, queued at the start
    SftpRuns,    \* those of the connection with an sftpPull configuration
    Events,      \* raw events that may reach the other connection
    BadEvents,   \* those whose payload no dataset mapping accepts
    Files,       \* files in the remote directory
    MaxAttempts, \* maxAttempts of a run
    ClaimLimit,  \* runs of a batch
    DrainLimit,  \* raw events of one claim
    FileLimit,   \* maxFilesPerRun
    Presents,    \* what a request names its sender by
    Slow,        \* whether a lease may end while its run is worked on
    MaxFaults    \* bound on crashes and failed calls

ASSUME WorkerAssumption ==
    /\ SftpRuns \subseteq Runs
    /\ BadEvents \subseteq Events
    /\ Events \cap Files = {}
    /\ {MaxAttempts, ClaimLimit, DrainLimit, FileLimit} \subseteq Nat \ {0}
    /\ Presents \in {"workerId", "lockToken"}
    /\ Slow \in BOOLEAN
    /\ MaxFaults \in Nat

VARIABLES
    run,     \* app-connectors: the run table
    event,   \* app-connectors: processing status of the raw events
    cursor,  \* app-connectors: processedFiles of the connection's sync state
    loaded,  \* database: how often the rows of an event or a file were committed
    remote,  \* SFTP server: where each file is
    sess,    \* the workers
    faults   \* crashes and failed calls so far

vars == <<run, event, cursor, loaded, remote, sess, faults>>

NoRun == "none"

Run == [ status : {"queued", "running", "success", "failed"},
         attempts : 0 .. MaxAttempts,
         owner : Workers \cup {NoRun},
         live : BOOLEAN ]

\* Where a worker is; "error" is the except block of process_claimed_sync_run
\* and "preflight" the one of drain_sync_queue_once.
Places == {"idle", "next", "plan", "pull", "drain", "ingest", "list", "read",
           "commit", "ack", "archive", "upsert", "complete", "error",
           "preflight"}

Session == [ at : Places,
             todo : SUBSET Runs,              \* claimed, not begun
             cur : Runs \cup {NoRun},
             held : SUBSET (Events \cup Files), \* inserted by the transaction
             left : SUBSET (Events \cup Files), \* claimed, or still to settle
             known : SUBSET Files,            \* processedFiles as planned
             missed : BOOLEAN,                \* an archive operation failed
             retry : BOOLEAN ]                \* the error is retryable

Idle == [ at |-> "idle", todo |-> {}, cur |-> NoRun, held |-> {}, left |-> {},
          known |-> {}, missed |-> FALSE, retry |-> FALSE ]

TypeOK ==
    /\ run \in [Runs -> Run]
    /\ \A r \in Runs : run[r].status = "queued" => run[r].attempts < MaxAttempts
    /\ event \in [Events -> {"none", "pending", "processing", "processed",
                             "failed"}]
    /\ cursor \subseteq Files
    /\ loaded \in [Events \cup Files -> Nat]
    /\ remote \in [Files -> {"inbox", "archive"}]
    /\ sess \in [Workers -> Session]
    /\ faults \in 0 .. MaxFaults

Least(a, b) == IF a < b THEN a ELSE b

\* A batch takes as many as the limit allows.
FullBatch(S, from, limit) ==
    S \subseteq from /\ Cardinality(S) = Least(limit, Cardinality(from))

OfSftp(w) == sess[w].cur \in SftpRuns

-----------------------------------------------------------------------------
(* Requests *)

\* assertSyncRunOwnedByWorker, behind a body schema that requires lockToken.
Owned(w) ==
    LET r == run[sess[w].cur] IN
    /\ Presents = "lockToken"
    /\ r.status = "running"
    /\ r.live
    /\ r.owner = w

\* What a worker may see of a request that the receiver grants iff ok holds,
\* and whether the receiver carried it out.
Answers(ok) ==
    {[applied |-> ok, result |-> IF ok THEN "done" ELSE "refused"]}
    \cup (IF faults < MaxFaults
          THEN {[applied |-> a, result |-> "fault"] : a \in {ok, FALSE}}
          ELSE {})

Counted(a) == faults' = IF a.result = "fault" THEN faults + 1 ELSE faults

Fault == faults < MaxFaults /\ faults' = faults + 1

Goes(w, s) == sess' = [sess EXCEPT ![w] = s]

At(w, place) == [sess[w] EXCEPT !.at = place]

\* The exception reaches the except block with the events it has to fail.
Raised(w, events, retry) ==
    [At(w, "error") EXCEPT !.left = events, !.held = {}, !.retry = retry]

\* A transport error or a 5xx is retryable, a refusal is not.
AfterCall(w, a, s, events) ==
    Goes(w, IF a.result = "done" THEN s
            ELSE Raised(w, events, a.result = "fault"))

-----------------------------------------------------------------------------
(* The batch *)

\* Seeded fault: a lease that is over sets nothing free.
ClaimableQueued(r) == run[r].status = "queued"

Claimable(r) ==
    \/ run[r].status = "queued"
    \/ run[r].status = "running" /\ ~run[r].live

ClaimSyncRuns(w) ==
    /\ sess[w].at = "idle"
    /\ \E S \in SUBSET Runs :
        /\ S # {}
        /\ FullBatch(S, {r \in Runs : Claimable(r)}, ClaimLimit)
        /\ run' = [r \in Runs |->
                     IF r \in S
                     THEN [ status |-> "running",
                            attempts |-> Least(run[r].attempts + 1, MaxAttempts),
                            owner |-> w, live |-> TRUE ]
                     ELSE run[r]]
        /\ \E a \in Answers(TRUE) :
            /\ a.applied
            /\ Counted(a)
            /\ Goes(w, IF a.result = "done"
                       THEN [Idle EXCEPT !.at = "next", !.todo = S] ELSE Idle)
    /\ UNCHANGED <<event, cursor, loaded, remote>>

NextRun(w) ==
    /\ sess[w].at = "next"
    /\ IF sess[w].todo = {}
       THEN Goes(w, Idle)
       ELSE \E r \in sess[w].todo :
              Goes(w, [Idle EXCEPT !.at = "plan", !.cur = r,
                                   !.todo = sess[w].todo \ {r}])
    /\ UNCHANGED <<run, event, cursor, loaded, remote, faults>>

\* get_sync_run_execution_plan; the plan carries the sync state.
FetchPlan(w) ==
    /\ sess[w].at = "plan"
    /\ \E a \in Answers(Owned(w)) :
        /\ Counted(a)
        /\ AfterCall(w, a, IF OfSftp(w)
                           THEN [At(w, "list") EXCEPT !.known = cursor]
                           ELSE At(w, "pull"), {})
    /\ UNCHANGED <<run, event, cursor, loaded, remote>>

-----------------------------------------------------------------------------
(* Raw events *)

Arrived(S) ==
    event' = [e \in Events |-> IF e \in S THEN "pending" ELSE event[e]]

\* Some events are pulled from the provider and posted; those that
\* app-connectors knows are duplicates.  A connection that does not pull, or
\* has nothing to post, asks for no ownership.
PullProviderEvents(w) ==
    /\ sess[w].at = "pull"
    /\ \E S \in SUBSET {e \in Events : event[e] = "none"} :
        \E a \in Answers(S = {} \/ Owned(w)) :
            /\ Arrived(IF a.applied THEN S ELSE {})
            /\ Counted(a)
            /\ AfterCall(w, a, At(w, "drain"), {})
    /\ UNCHANGED <<run, cursor, loaded, remote>>

\* claim_raw_events hands out pending events to whoever asks.
ClaimRawEvents(w) ==
    LET pending == {e \in Events : event[e] = "pending"} IN
    /\ sess[w].at = "drain"
    /\ \E S \in SUBSET pending, a \in Answers(TRUE) :
        /\ FullBatch(S, pending, DrainLimit)
        /\ event' = [e \in Events |->
                       IF a.applied /\ e \in S THEN "processing" ELSE event[e]]
        /\ Counted(a)
        /\ AfterCall(w, a,
                     IF S = {} THEN At(w, "commit")
                     ELSE [At(w, "ingest") EXCEPT !.left = S],
                     sess[w].held)
    /\ UNCHANGED <<run, cursor, loaded, remote>>

\* Seeded fault: only the events of the claim that failed are reported.
IngestForgetsEarlierClaims(w) ==
    /\ sess[w].at = "ingest"
    /\ LET claimed == sess[w].left IN
       \/ /\ claimed \cap BadEvents = {}
          /\ Goes(w, [At(w, "drain") EXCEPT !.held = @ \cup claimed, !.left = {}])
          /\ UNCHANGED faults
       \/ /\ claimed \cap BadEvents # {}
          /\ Goes(w, Raised(w, claimed, FALSE))
          /\ UNCHANGED faults
       \/ /\ Fault
          /\ \E retry \in BOOLEAN : Goes(w, Raised(w, claimed, retry))
    /\ UNCHANGED <<run, event, cursor, loaded, remote>>

\* ingest_raw_events_to_dataset loads the payloads and inserts their rows.
Ingest(w) ==
    /\ sess[w].at = "ingest"
    /\ LET claimed == sess[w].left
           all == sess[w].held \cup claimed IN
       \/ /\ claimed \cap BadEvents = {}
          /\ Goes(w, [At(w, "drain") EXCEPT !.held = all, !.left = {}])
          /\ UNCHANGED faults
       \/ /\ claimed \cap BadEvents # {}
          /\ Goes(w, Raised(w, all, FALSE))
          /\ UNCHANGED faults
       \/ /\ Fault
          /\ \E retry \in BOOLEAN : Goes(w, Raised(w, all, retry))
    /\ UNCHANGED <<run, event, cursor, loaded, remote>>

Processed(e) == event' = [event EXCEPT ![e] = "processed"]

\* Seeded fault: an error after the commit fails the events, too.
AckOrFail(w) ==
    /\ sess[w].at = "ack"
    /\ IF sess[w].left = {}
       THEN Goes(w, At(w, "complete")) /\ UNCHANGED <<event, faults>>
       ELSE \E e \in sess[w].left :
              \E a \in Answers(event[e] = "processing") :
              /\ IF a.applied THEN Processed(e) ELSE UNCHANGED event
              /\ Counted(a)
              /\ AfterCall(w, a, [sess[w] EXCEPT !.left = @ \ {e}],
                           sess[w].left)
    /\ UNCHANGED <<run, cursor, loaded, remote>>

\* mark_raw_event_processed, event by event, once the rows are committed.
AckEvents(w) ==
    /\ sess[w].at = "ack"
    /\ IF sess[w].left = {}
       THEN Goes(w, At(w, "complete")) /\ UNCHANGED <<event, faults>>
       ELSE \E e \in sess[w].left :
              \E a \in Answers(event[e] = "processing") :
              /\ IF a.applied THEN Processed(e) ELSE UNCHANGED event
              /\ Counted(a)
              /\ AfterCall(w, a, [sess[w] EXCEPT !.left = @ \ {e}], {})
    /\ UNCHANGED <<run, cursor, loaded, remote>>

-----------------------------------------------------------------------------
(* Files *)

\* prepare_sftp_file_import lists the files the sync state does not name.
ListFiles(w) ==
    /\ sess[w].at = "list"
    /\ \/ \E S \in SUBSET Files :
            /\ FullBatch(S, {f \in Files : remote[f] = "inbox"} \ sess[w].known,
                         FileLimit)
            /\ Goes(w, [At(w, "read") EXCEPT !.held = S])
            /\ UNCHANGED faults
       \/ Fault /\ Goes(w, Raised(w, {}, FALSE))
    /\ UNCHANGED <<run, event, cursor, loaded, remote>>

\* Each is read and inserted; a file that has gone is an error.
ReadFiles(w) ==
    /\ sess[w].at = "read"
    /\ \/ /\ \A f \in sess[w].held : remote[f] = "inbox"
          /\ Goes(w, At(w, "commit"))
          /\ UNCHANGED faults
       \/ /\ \E f \in sess[w].held : remote[f] # "inbox"
          /\ Goes(w, Raised(w, {}, FALSE))
          /\ UNCHANGED faults
       \/ Fault /\ Goes(w, Raised(w, {}, FALSE))
    /\ UNCHANGED <<run, event, cursor, loaded, remote>>

\* session.commit() of either path.
Commit(w) ==
    /\ sess[w].at = "commit"
    /\ \/ /\ loaded' = [x \in DOMAIN loaded |->
                          IF x \in sess[w].held THEN loaded[x] + 1
                          ELSE loaded[x]]
          /\ Goes(w, [At(w, IF OfSftp(w) THEN "archive" ELSE "ack")
                        EXCEPT !.left = sess[w].held,
                               !.known = IF OfSftp(w) THEN @ \cup sess[w].held
                                         ELSE @])
          /\ UNCHANGED faults
       \/ /\ Fault
          /\ Goes(w, Raised(w, IF OfSftp(w) THEN {} ELSE sess[w].held, FALSE))
          /\ UNCHANGED loaded
    /\ UNCHANGED <<run, event, cursor, remote>>

\* finalize_sftp_file_import moves each file and only notes what fails.
ArchiveFiles(w) ==
    /\ sess[w].at = "archive"
    /\ IF sess[w].left = {}
       THEN Goes(w, At(w, "upsert")) /\ UNCHANGED <<remote, faults>>
       ELSE \E f \in sess[w].left :
              \E a \in Answers(remote[f] = "inbox") :
              /\ remote' = IF a.applied THEN [remote EXCEPT ![f] = "archive"]
                           ELSE remote
              /\ Counted(a)
              /\ Goes(w, [sess[w] EXCEPT !.left = @ \ {f},
                                         !.missed = @ \/ a.result # "done"])
    /\ UNCHANGED <<run, event, cursor, loaded>>

\* The sync state is written whole.  A run whose state was not saved goes on
\* when every file it loaded was moved away.
UpsertSyncState(w) ==
    /\ sess[w].at = "upsert"
    /\ \E a \in Answers(Owned(w)) :
        /\ cursor' = IF a.applied THEN sess[w].known ELSE cursor
        /\ Counted(a)
        /\ Goes(w, IF \/ a.result = "done"
                      \/ sess[w].held # {} /\ ~sess[w].missed
                   THEN At(w, "complete") ELSE Raised(w, {}, FALSE))
    /\ UNCHANGED <<run, event, loaded, remote>>

-----------------------------------------------------------------------------
(* Reports *)

Ended(r, status) ==
    run' = [run EXCEPT ![r].status = status, ![r].owner = NoRun,
                       ![r].live = FALSE]

\* mark_sync_run_completed.
Complete(w) ==
    /\ sess[w].at = "complete"
    /\ \E a \in Answers(Owned(w)) :
        /\ IF a.applied THEN Ended(sess[w].cur, "success") ELSE UNCHANGED run
        /\ Counted(a)
        /\ AfterCall(w, a, At(w, "next"), {})
    /\ UNCHANGED <<event, cursor, loaded, remote>>

\* mark_raw_event_failed for what a rolled back transaction had claimed; its
\* own failure leaves the except block.
FailEvent(w) ==
    /\ sess[w].at = "error"
    /\ \E e \in sess[w].left : \E a \in Answers(event[e] = "processing") :
        /\ event' = IF a.applied THEN [event EXCEPT ![e] = "failed"] ELSE event
        /\ Counted(a)
        /\ Goes(w, IF a.result = "done" THEN [sess[w] EXCEPT !.left = @ \ {e}]
                   ELSE [At(w, "preflight") EXCEPT !.left = {},
                           !.retry = a.result = "fault"])
    /\ UNCHANGED <<run, cursor, loaded, remote>>

\* Seeded fault: every retryable failure is queued again.
RequeuedAlways(w) == sess[w].retry

\* markSyncRunFailed: a retryable failure with attempts left is queued again.
Requeued(w) == sess[w].retry /\ run[sess[w].cur].attempts < MaxAttempts

\* mark_sync_run_failed, from either except block.  Where the first fails the
\* second tries, under the class of the new error; where that fails the
\* worker's process ends and the rest of its batch waits for the leases.
ReportFailure(w) ==
    /\ sess[w].at \in {"error", "preflight"}
    /\ sess[w].left = {}
    /\ \E a \in Answers(Owned(w)) :
        /\ IF a.applied
           THEN Ended(sess[w].cur, IF Requeued(w) THEN "queued" ELSE "failed")
           ELSE UNCHANGED run
        /\ Counted(a)
        /\ Goes(w, CASE a.result = "done" -> At(w, "next")
                     [] a.result # "done" /\ sess[w].at = "error" ->
                          [At(w, "preflight") EXCEPT !.retry = a.result = "fault"]
                     [] OTHER -> Idle)
    /\ UNCHANGED <<event, cursor, loaded, remote>>

-----------------------------------------------------------------------------
(* The environment *)

\* The process of a worker dies; an open transaction is rolled back.
Crash(w) ==
    /\ sess[w].at # "idle"
    /\ Fault
    /\ Goes(w, Idle)
    /\ UNCHANGED <<run, event, cursor, loaded, remote>>

Serving(w, r) == run[r].owner = w /\ r \in sess[w].todo \cup {sess[w].cur}

Lapse(r) ==
    /\ run[r].status = "running" /\ run[r].live
    /\ Slow \/ \A w \in Workers : ~Serving(w, r)
    /\ run' = [run EXCEPT ![r].live = FALSE]
    /\ UNCHANGED <<event, cursor, loaded, remote, sess, faults>>

\* A client pushes an event.
Push(e) ==
    /\ event[e] = "none"
    /\ Arrived({e})
    /\ UNCHANGED <<run, cursor, loaded, remote, sess, faults>>

-----------------------------------------------------------------------------

Init ==
    /\ run = [r \in Runs |-> [ status |-> "queued", attempts |-> 0,
                               owner |-> NoRun, live |-> FALSE ]]
    /\ event = [e \in Events |-> "none"]
    /\ cursor = {}
    /\ loaded = [x \in Events \cup Files |-> 0]
    /\ remote = [f \in Files |-> "inbox"]
    /\ sess = [w \in Workers |-> Idle]
    /\ faults = 0

\* One run of a batch, from its plan to its report.
Work(w) ==
    \/ NextRun(w) \/ FetchPlan(w)
    \/ PullProviderEvents(w) \/ ClaimRawEvents(w) \/ Ingest(w)
    \/ ListFiles(w) \/ ReadFiles(w)
    \/ Commit(w)
    \/ AckEvents(w)
    \/ ArchiveFiles(w) \/ UpsertSyncState(w)
    \/ Complete(w)
    \/ FailEvent(w) \/ ReportFailure(w)

Next ==
    \/ \E w \in Workers : ClaimSyncRuns(w) \/ Work(w) \/ Crash(w)
    \/ \E r \in Runs : Lapse(r)
    \/ \E e \in Events : Push(e)

Spec == Init /\ [][Next]_vars

\* A worker in watch mode polls, a process that runs goes on, a lease ends.
Fairness ==
    /\ \A w \in Workers : WF_vars(Work(w)) /\ WF_vars(ClaimSyncRuns(w))
    /\ \A r \in Runs : WF_vars(Lapse(r))

FairSpec == Spec /\ Fairness

-----------------------------------------------------------------------------
(* Properties *)

\* No raw event is loaded twice, whatever is lost or crashes, and its status
\* tells the truth about its rows: a processed event has been committed and a
\* failed or waiting one has not (README: the ack comes after the commit).
EventsLoadedOnce ==
    \A e \in Events :
        /\ loaded[e] <= 1
        /\ event[e] = "processed" => loaded[e] = 1
        /\ event[e] \in {"none", "pending", "failed"} => loaded[e] = 0

\* No file is lost: a file that was moved away, or that the sync state tells
\* every later run to skip, has been loaded.
NoFileLost ==
    \A f \in Files : remote[f] = "archive" \/ f \in cursor => loaded[f] > 0

\* Nothing is loaded twice that is acknowledged, nothing is put aside before
\* it is loaded.
LoadsAreSound == EventsLoadedOnce /\ NoFileLost

\* A worker about to report success has settled what it loaded: its events
\* are processed, its files are moved away or remembered.
SuccessIsSettled ==
    \A w \in Workers : sess[w].at = "complete" =>
        \A x \in sess[w].held :
            IF x \in Files THEN remote[x] = "archive" \/ x \in cursor
            ELSE event[x] = "processed"

\* Without a crash or a failed call no event is left in processing: whatever
\* leases were lost and whichever payloads were refused, some worker still
\* holds the event and will settle it.
NothingStranded ==
    faults = 0 =>
        \A e \in Events : event[e] = "processing" =>
            \E w \in Workers : e \in sess[w].held \cup sess[w].left

\* What is claimed is settled: by the attempt that succeeds, and in any case
\* while no call fails.
WorkIsSettled == SuccessIsSettled /\ NothingStranded

\* Each run comes to its end when leases outlast the work and calls fail only
\* so often (scripts/README.md: the worker marks the run completed, failed or
\* retry_scheduled).
RunsEnd == \A r \in Runs : <>[](run[r].status \in {"success", "failed"})

=============================================================================
