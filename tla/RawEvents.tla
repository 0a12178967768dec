------------------------------ MODULE RawEvents -----------------------------
(***************************************************************************)
(* How app-connectors takes in events and hands them to workers: the calls *)
(* ingestEvents and ingestProviderEvents of service.ts, the loop           *)
(* persistRawEvents they share, the payload files of payload-store.ts, the *)
(* raw-event table of store.ts and the claims on it.                       *)
(*                                                                         *)
(* A delivery is one such call.  It runs on Node's event loop and gives up *)
(* control at each await, that is, while a payload file is created and     *)
(* written; between two awaits it is one step.  Deliveries interleave with *)
(* each other, and a sender repeats a delivery it got no answer to.        *)
(*                                                                         *)
(* One connection is modelled, connections share nothing here.  A claim    *)
(* token is an opaque string; here it is the number of the claim on its    *)
(* event.                                                                  *)
(***************************************************************************)
EXTENDS Integers, Sequences, FiniteSets

CONSTANTS
    Deliveries,     \* calls of the two ingestion routes
    EventIds,       \* event ids, given by the sender or hashed from the event
    Payloads,       \* contents an event may carry
    Keys,           \* idempotency keys of the pushing sender
    BatchOf,        \* the events sent under each key
    ProviderBatches,\* batches a worker may hand in for the run it holds
    Limits,         \* values of a claim's limit (1..200)
    OperatorStatuses \* statuses an operator may give the connection

ASSUME BatchAssumption ==
    /\ BatchOf \in [Keys -> Seq([id : EventIds, payload : Payloads]) \ {<<>>}]
    /\ ProviderBatches \subseteq
          Seq([id : EventIds, payload : Payloads]) \ {<<>>}
    /\ Limits \subseteq Nat \ {0}
    /\ OperatorStatuses \subseteq {"active", "disabled"}
    /\ IsFiniteSet(Deliveries)
    /\ "provider" \notin Keys

VARIABLES
    events,         \* the raw-event table, in insertion order
    file,           \* content of each event's payload file
    job,            \* the deliveries
    keyRun,         \* the webhook run recorded for each idempotency key
    connStatus,     \* status of the connection
    contended       \* event ids two deliveries were writing at once (history)

vars == <<events, file, job, keyRun, connStatus, contended>>

-----------------------------------------------------------------------------
(* Data *)

Event == [id : EventIds, payload : Payloads]

EventStatuses == {"pending", "processing", "processed", "failed"}

\* payload is payloadSha256, order is receivedAt, claims counts the tokens
\* issued for the event and claimedBy is the last one, 0 for null.
RawEvent == [ id : EventIds, payload : Payloads, order : Nat,
              status : EventStatuses, claims : Nat, claimedBy : Nat ]

\* A file that two writers overlapped in may hold neither content.
FileStates == Payloads \cup {"none", "empty", "mixed"}

Stages == {"idle", "open", "write", "store", "end", "answered", "failed"}

\* pos is the event of the batch the loop is at.
Job == [ stage : Stages, key : Keys \cup {"provider"}, batch : Seq(Event),
         pos : Nat, accepted : Nat, duplicates : Nat, order : Nat ]

Idle == [ stage |-> "idle", key |-> "provider", batch |-> <<>>, pos |-> 0,
          accepted |-> 0, duplicates |-> 0, order |-> 0 ]

KeyRun == [ status : {"none", "running", "success", "failed"},
            fetched : Nat, written : Nat ]

NoKeyRun == [status |-> "none", fetched |-> 0, written |-> 0]

TypeOK ==
    /\ events \in Seq(RawEvent)
    /\ file \in [EventIds -> FileStates]
    /\ job \in [Deliveries -> Job]
    /\ keyRun \in [Keys -> KeyRun]
    /\ connStatus \in {"active", "disabled"}
    /\ contended \subseteq EventIds

\* findRawEventByEventId, by the replay index.
Recorded(table, e) == \E i \in DOMAIN table : table[i].id = e

Busy(j) == j.stage \in {"open", "write", "store"}

Writing(j, e) == Busy(j) /\ j.batch[j.pos].id = e

Contended(jobs) ==
    {e \in EventIds : \E c, d \in Deliveries :
                         c # d /\ Writing(jobs[c], e) /\ Writing(jobs[d], e)}

\* Deliveries in the order of their receivedAt.
Started == Cardinality({d \in Deliveries : job[d].stage # "idle"})

-----------------------------------------------------------------------------
(* persistRawEvents *)

\* Seeded fault: the table is not consulted before the payload is written.
AdvancedBlindly(j, table) ==
    [j EXCEPT !.stage = IF j.pos \in DOMAIN j.batch THEN "open" ELSE "end"]

\* The loop from event pos on, up to its next await: recorded events are
\* skipped as duplicates, the first other one has its payload written.
Advanced(j, table) ==
    LET fresh == {p \in DOMAIN j.batch :
                    p >= j.pos /\ ~Recorded(table, j.batch[p].id)}
        next  == IF fresh = {}
                 THEN Len(j.batch) + 1
                 ELSE CHOOSE p \in fresh : \A q \in fresh : p <= q
    IN [j EXCEPT !.stage = IF fresh = {} THEN "end" ELSE "open",
                 !.duplicates = @ + (next - j.pos),
                 !.pos = next]

Begun(key, batch) ==
    Advanced([Idle EXCEPT !.key = key, !.batch = batch, !.pos = 1,
                          !.order = Started + 1], events)

\* putJson: writeFile truncates the file when it opens it ...
OpenPayload(d) ==
    /\ job[d].stage = "open"
    /\ file' = [file EXCEPT ![job[d].batch[job[d].pos].id] = "empty"]
    /\ job' = [job EXCEPT ![d].stage = "write"]
    /\ UNCHANGED <<events, keyRun, connStatus, contended>>

\* ... and writes from its start: over another writer's content the longer
\* of the two keeps its tail.
WritePayload(d) ==
    LET event == job[d].batch[job[d].pos] IN
    /\ job[d].stage = "write"
    /\ \E content \in {event.payload, "mixed"} :
          /\ file[event.id] \in {"empty", event.payload} =>
                content = event.payload
          /\ file' = [file EXCEPT ![event.id] = content]
    /\ job' = [job EXCEPT ![d].stage = "store"]
    /\ UNCHANGED <<events, keyRun, connStatus, contended>>

\* The record of the event the loop is at.
Pending(j) ==
    [ id |-> j.batch[j.pos].id, payload |-> j.batch[j.pos].payload,
      order |-> j.order, status |-> "pending", claims |-> 0, claimedBy |-> 0 ]

\* Seeded fault: createRawEvent trusts the check made before the write.
StoreEventUnchecked(d) ==
    LET j == job[d]
        table == Append(events, Pending(j))
        moved == [j EXCEPT !.pos = @ + 1, !.accepted = @ + 1]
    IN /\ j.stage = "store"
       /\ events' = table
       /\ job' = [job EXCEPT ![d] = Advanced(moved, table)]
       /\ contended' = contended \cup Contended(job')
       /\ UNCHANGED <<file, keyRun, connStatus>>

\* Seeded fault: a delivery that comes second writes its event again.
StoreEventRetry(d) ==
    LET j == job[d]
        first == ~Recorded(events, j.batch[j.pos].id)
        table == IF first THEN Append(events, Pending(j)) ELSE events
    IN /\ j.stage = "store"
       /\ events' = table
       /\ job' = [job EXCEPT ![d] =
                    IF first
                    THEN Advanced([j EXCEPT !.pos = @ + 1, !.accepted = @ + 1],
                                  table)
                    ELSE [j EXCEPT !.stage = "open"]]
       /\ contended' = contended \cup Contended(job')
       /\ UNCHANGED <<file, keyRun, connStatus>>

\* The rest of the loop body: createRawEvent looks again, because another
\* delivery may have stored the event during the write.
StoreEvent(d) ==
    LET j == job[d]
        first == ~Recorded(events, j.batch[j.pos].id)
        table == IF first THEN Append(events, Pending(j)) ELSE events
        moved == IF first
                 THEN [j EXCEPT !.pos = @ + 1, !.accepted = @ + 1]
                 ELSE [j EXCEPT !.pos = @ + 1, !.duplicates = @ + 1]
    IN /\ j.stage = "store"
       /\ events' = table
       /\ job' = [job EXCEPT ![d] = Advanced(moved, table)]
       /\ contended' = contended \cup Contended(job')
       /\ UNCHANGED <<file, keyRun, connStatus>>

-----------------------------------------------------------------------------
(* The two ingestion calls *)

Start(d, j) ==
    /\ job[d].stage = "idle"
    /\ job' = [job EXCEPT ![d] = j]
    /\ contended' = contended \cup Contended(job')

\* ingestEvents with a key seen for the first time.
IngestEvents(d, k) ==
    /\ connStatus # "disabled"
    /\ keyRun[k].status = "none"
    /\ keyRun' = [keyRun EXCEPT ![k].status = "running"]
    /\ Start(d, Begun(k, BatchOf[k]))
    /\ UNCHANGED <<events, file, connStatus>>

\* The credential's allow-list refuses an event: the call throws with the run
\* already created.
RefuseEvents(d, k) ==
    /\ connStatus # "disabled"
    /\ keyRun[k].status = "none"
    /\ keyRun' = [keyRun EXCEPT ![k].status = "running"]
    /\ Start(d, [Idle EXCEPT !.stage = "failed", !.key = k,
                             !.batch = BatchOf[k]])
    /\ UNCHANGED <<events, file, connStatus>>

\* ingestEvents with a key that has a run: the answer is read off the run,
\* accepted is recordsWritten.
ReplayEvents(d, k) ==
    /\ connStatus # "disabled"
    /\ keyRun[k].status # "none"
    /\ Start(d, [Idle EXCEPT !.stage = "answered", !.key = k,
                             !.batch = BatchOf[k]])
    /\ UNCHANGED <<events, file, keyRun, connStatus>>

\* ingestProviderEvents; the caller proved that it holds a run, which this
\* call does not look at again.
IngestProviderEvents(d, batch) ==
    /\ connStatus # "disabled"
    /\ Start(d, Begun("provider", batch))
    /\ UNCHANGED <<events, file, keyRun, connStatus>>

\* Seeded fault: a connection status that is not one.
AnswerConnected(d) ==
    LET j == job[d] IN
    /\ j.stage = "end"
    /\ job' = [job EXCEPT ![d].stage = "answered"]
    /\ keyRun' = IF j.key = "provider"
                 THEN keyRun
                 ELSE [keyRun EXCEPT ![j.key].status = "success"]
    /\ connStatus' = "connected"
    /\ UNCHANGED <<events, file, contended>>

\* persistRawEvents returned.
Answer(d) ==
    LET j == job[d] IN
    /\ j.stage = "end"
    /\ job' = [job EXCEPT ![d].stage = "answered"]
    /\ IF j.key = "provider"
       THEN UNCHANGED <<keyRun, connStatus>>
       ELSE /\ keyRun' = [keyRun EXCEPT ![j.key] =
                            [status |-> "success", fetched |-> Len(j.batch),
                             written |-> j.accepted]]
            /\ connStatus' = "active"
    /\ UNCHANGED <<events, file, contended>>

\* Seeded fault: an unwritable payload ends the loop as if it were over.
AbandonAsDone(d) ==
    /\ Busy(job[d])
    /\ job[d].stage # "store"
    /\ job' = [job EXCEPT ![d].stage = "end"]
    /\ UNCHANGED <<events, file, keyRun, connStatus, contended>>

\* putJson rejected, or the loop met a source object the connection does not
\* have: what was stored stays, the run of a push fails.
Abandon(d) ==
    /\ Busy(job[d])
    /\ job[d].stage # "store"
    /\ job' = [job EXCEPT ![d].stage = "failed"]
    /\ keyRun' = IF job[d].key = "provider"
                 THEN keyRun
                 ELSE [keyRun EXCEPT ![job[d].key].status = "failed"]
    /\ UNCHANGED <<events, file, connStatus, contended>>

-----------------------------------------------------------------------------
(* Claims *)

\* listRawEvents puts the newest receivedAt first, equals in table order.
Before(i, k) ==
    \/ events[i].order > events[k].order
    \/ events[i].order = events[k].order /\ i < k

Claimable(i) == events[i].status = "pending"

\* The first limit pending events in that order.
Batch(S, limit) ==
    LET candidates == {i \in DOMAIN events : Claimable(i)} IN
    /\ S # {}
    /\ S \subseteq candidates
    /\ \A i \in S, k \in candidates \ S : Before(i, k)
    /\ Cardinality(S) <= limit
    /\ S # candidates => Cardinality(S) = limit

ClaimRawEvents(S, limit) ==
    /\ Batch(S, limit)
    /\ events' = [i \in DOMAIN events |->
                    IF i \in S
                    THEN [events[i] EXCEPT !.status = "processing",
                                           !.claims = @ + 1,
                                           !.claimedBy = events[i].claims + 1]
                    ELSE events[i]]
    /\ UNCHANGED <<file, job, keyRun, connStatus, contended>>

\* Seeded fault: only the token is looked at.
ClaimedByToken(i, n) == events[i].claimedBy = n

\* assertRawEventClaimOwnership.
ClaimOwned(i, n) ==
    /\ events[i].status = "processing"
    /\ events[i].claimedBy # 0
    /\ events[i].claimedBy = n

\* markRawEventProcessed and markRawEventFailed.
MarkRawEvent(i, n, status) ==
    /\ ClaimOwned(i, n)
    /\ events' = [events EXCEPT ![i].status = status, ![i].claimedBy = n]
    /\ UNCHANGED <<file, job, keyRun, connStatus, contended>>

-----------------------------------------------------------------------------

SetConnectionStatus(s) ==
    /\ connStatus' = s
    /\ UNCHANGED <<events, file, job, keyRun, contended>>

Init ==
    /\ events = <<>>
    /\ file = [e \in EventIds |-> "none"]
    /\ job = [d \in Deliveries |-> Idle]
    /\ keyRun = [k \in Keys |-> NoKeyRun]
    /\ connStatus = "active"
    /\ contended = {}

\* What the event loop does for a delivery that has begun.
Proceed(d) == OpenPayload(d) \/ WritePayload(d) \/ StoreEvent(d)
              \/ Answer(d) \/ Abandon(d)

Claim == \E S \in SUBSET DOMAIN events, limit \in Limits :
            ClaimRawEvents(S, limit)

Mark(i) == \E n \in 1 .. events[i].claims, status \in {"processed", "failed"} :
              MarkRawEvent(i, n, status)

Next ==
    \/ \E d \in Deliveries :
          \/ \E k \in Keys :
                IngestEvents(d, k) \/ RefuseEvents(d, k) \/ ReplayEvents(d, k)
          \/ \E batch \in ProviderBatches : IngestProviderEvents(d, batch)
          \/ Proceed(d)
    \/ Claim
    \/ \E i \in DOMAIN events : Mark(i)
    \/ \E s \in OperatorStatuses : SetConnectionStatus(s)

Spec == Init /\ [][Next]_vars

\* Node's event loop goes on with a delivery that has begun.  Nobody owes a
\* claim or a report: a worker claims events only while it holds a run of their
\* connection, and nothing takes back a claim whose worker died.
Fairness == \A d \in Deliveries : WF_vars(Proceed(d))

FairSpec == Spec /\ Fairness

-----------------------------------------------------------------------------
(* Properties *)

\* However deliveries of one event interleave, the table has one record of
\* it: createRawEvent decides at the insertion, not at the check before it.
OneRecordPerEvent ==
    \A i, k \in DOMAIN events : events[i].id = events[k].id => i = k

\* Every stored event is the one of a single delivery, each delivery counted
\* as accepted exactly the events it stored, and a delivery that ran to its
\* end counted each event of its batch once.
StoredBy(d) == {i \in DOMAIN events : events[i].order = job[d].order}

AcceptedAreRecords ==
    /\ \A i \in DOMAIN events :
          \E d \in Deliveries : \A c \in Deliveries : i \in StoredBy(c) <=> c = d
    /\ \A d \in Deliveries :
          /\ job[d].accepted = Cardinality(StoredBy(d))
          /\ job[d].stage = "end" =>
                job[d].accepted + job[d].duplicates = Len(job[d].batch)

\* A run recorded as successful stands for its whole batch: whatever other
\* deliveries stored or failed to store, each event of it is in the table.
SuccessStoresBatch ==
    \A k \in Keys :
        keyRun[k].status = "success" =>
            \A p \in DOMAIN BatchOf[k] : Recorded(events, BatchOf[k][p].id)

\* Unless two deliveries were writing the payload of one event at once, the
\* payload file a worker reads for a record holds what the record was hashed
\* from, after failed writes and repeated deliveries too.
FileMatchesRecord ==
    \A i \in DOMAIN events :
        events[i].id \notin contended => file[events[i].id] = events[i].payload

\* A push whose payload or event cannot be written leaves no run behind that
\* runs for ever: a running webhook run has its delivery at work, or its
\* credential's allow-list refused the batch before anything was written.
NoZombieAfterFailedWrite ==
    \A k \in Keys :
        keyRun[k].status = "running" =>
            \E d \in Deliveries :
                /\ job[d].key = k
                /\ \/ Busy(job[d]) \/ job[d].stage = "end"
                   \/ job[d].stage = "failed" /\ job[d].pos = 0

\* What deliveries tell, store and leave behind agrees, however they interleave
\* and whichever of their writes fail: counters, payload files and runs.
DeliveriesAreSound ==
    AcceptedAreRecords /\ FileMatchesRecord /\ NoZombieAfterFailedWrite

\* An event is given to one worker, and what that worker reported stays: a
\* late or repeated report changes nothing.
SettledOnce ==
    [][\A i \in DOMAIN events :
          /\ events'[i].claims <= 1
          /\ events[i].status \in {"processed", "failed"} =>
                events'[i] = events[i]]_vars

\* Each delivery that was begun is answered or fails, though the event it
\* writes may be stored by another one at every await.
DeliveriesEnd ==
    \A d \in Deliveries :
        job[d].stage # "idle" ~> job[d].stage \in {"answered", "failed"}
=============================================================================
