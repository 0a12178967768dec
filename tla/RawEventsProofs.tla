--------------------------- MODULE RawEventsProofs --------------------------
(* Theorems about RawEvents, for every value of its constants. *)
EXTENDS RawEvents, FiniteSetTheorems, WellFoundedInduction, TLAPS

(***************************************************************************)
(* The inductive invariant.  Beside the types, a delivery at work is at an *)
(* event of its batch, and an event was claimed exactly when it is no      *)
(* longer pending: a claim takes pending events only, and nothing makes an *)
(* event pending again.                                                    *)
(***************************************************************************)
AtEvent(j) == Busy(j) => j.pos \in DOMAIN j.batch

ClaimedOnce(event) ==
    /\ event.claims = IF event.status = "pending" THEN 0 ELSE 1
    /\ event.claimedBy <= event.claims

IInv ==
    /\ TypeOK
    /\ \A d \in Deliveries : AtEvent(job[d])
    /\ OneRecordPerEvent
    /\ \A i \in DOMAIN events : ClaimedOnce(events[i])

LEMMA StartedIsNat == Started \in Nat
<1> DEFINE S == {d \in Deliveries : job[d].stage # "idle"}
<1>1. IsFiniteSet(S)
  BY BatchAssumption, FS_Subset
<1> QED
  BY <1>1, FS_CardinalityType DEF Started

LEMMA IdleIsJob == Idle \in Job /\ Idle.stage = "idle"
  BY DEF Idle, Job, Stages, Event

LEMMA InitIInv == Init => IInv
<1> SUFFICES ASSUME Init PROVE IInv
  OBVIOUS
<1>1. TypeOK
  BY IdleIsJob DEF Init, TypeOK, FileStates, NoKeyRun, KeyRun, RawEvent
<1>2. \A d \in Deliveries : AtEvent(job[d])
  BY IdleIsJob DEF Init, AtEvent, Busy
<1> QED
  BY <1>1, <1>2 DEF Init, IInv, OneRecordPerEvent

-----------------------------------------------------------------------------
(* The loop of persistRawEvents *)

\* A set of naturals that is not empty has a least element.
LEMMA LeastOf ==
    ASSUME NEW S \in SUBSET Nat, S # {}
    PROVE  \E p \in S : \A q \in S : p <= q
<1>1. PICK m \in S : \A k \in S : <<k, m>> \notin OpToRel(<, Nat)
  BY WFMin, NatLessThanWellFounded, Zenon
<1>2. \A k \in S : ~(k < m)
  BY <1>1, Zenon DEF OpToRel
<1>3. ASSUME NEW k \in S
      PROVE  m <= k
  <2>1. k \in Nat /\ m \in Nat /\ ~(k < m)
    BY <1>1, <1>2
  <2> QED
    BY <2>1
<1> QED
  BY <1>3

\* The loop stops at an event of the batch that is not recorded, or after the
\* batch.
LEMMA AdvancedOK ==
    ASSUME NEW j \in Job, j.pos \in 1 .. Len(j.batch) + 1, NEW table
    PROVE  LET a == Advanced(j, table) IN
           /\ a \in Job /\ AtEvent(a)
           /\ a.batch = j.batch /\ a.key = j.key
           /\ a.order = j.order /\ a.accepted = j.accepted
           /\ a.duplicates = j.duplicates + (a.pos - j.pos)
           /\ a.stage \in {"open", "end"}
           /\ a.stage = "open" => ~Recorded(table, j.batch[a.pos].id)
           /\ a.stage = "end" => a.pos = Len(j.batch) + 1
           /\ \A p \in DOMAIN j.batch :
                 p >= j.pos /\ p < a.pos => Recorded(table, j.batch[p].id)
<1> DEFINE fresh == {p \in DOMAIN j.batch :
                       p >= j.pos /\ ~Recorded(table, j.batch[p].id)}
           next == IF fresh = {}
                   THEN Len(j.batch) + 1
                   ELSE CHOOSE p \in fresh : \A q \in fresh : p <= q
           moved == [j EXCEPT !.stage = IF fresh = {} THEN "end" ELSE "open",
                              !.duplicates = @ + (next - j.pos),
                              !.pos = next]
<1>1. Advanced(j, table) = moved
  BY DEF Advanced
<1>2. j.batch \in Seq(Event) /\ Len(j.batch) \in Nat /\ j.duplicates \in Nat
      /\ DOMAIN j.batch = 1 .. Len(j.batch)
  BY DEF Job
<1>3. /\ next \in Nat /\ next >= j.pos
      /\ fresh # {} => next \in DOMAIN j.batch /\ next \in fresh
      /\ fresh = {} => next = Len(j.batch) + 1
      /\ \A p \in DOMAIN j.batch : p >= j.pos /\ p < next => p \notin fresh
  <2>1. CASE fresh = {}
    <3> HIDE DEF fresh
    <3> QED
      BY <1>2, <2>1
  <2>2. CASE fresh # {}
    <3>1. \E p \in fresh : \A q \in fresh : p <= q
      <4>1. fresh \in SUBSET Nat
        BY <1>2
      <4> HIDE DEF fresh
      <4> QED
        BY <2>2, <4>1, LeastOf
    <3>2. next \in fresh /\ \A q \in fresh : next <= q
      BY <2>2, <3>1
    <3>3. next \in Nat /\ next >= j.pos /\ next \in DOMAIN j.batch
      <4> HIDE DEF next
      <4> QED
        BY <1>2, <3>2
    <3>4. \A p \in DOMAIN j.batch : p < next => p \notin fresh
      <4> HIDE DEF next, fresh
      <4> QED
        BY <1>2, <3>2, <3>3
    <3> QED
      BY <2>2, <3>2, <3>3, <3>4
  <2> QED
    BY <2>1, <2>2
<1>4. /\ fresh # {} => ~Recorded(table, j.batch[next].id)
      /\ \A p \in DOMAIN j.batch :
            p >= j.pos /\ p < next => Recorded(table, j.batch[p].id)
  <2> HIDE DEF next
  <2> QED
    BY <1>3
<1> HIDE DEF fresh, next
<1>5. next - j.pos \in Nat
  BY <1>3 DEF Job
<1>6. j.duplicates + (next - j.pos) \in Nat
  BY <1>2, <1>5
<1>7. /\ moved \in Job /\ moved.batch = j.batch /\ moved.pos = next
      /\ moved.key = j.key /\ moved.order = j.order
      /\ moved.accepted = j.accepted
      /\ moved.duplicates = j.duplicates + (next - j.pos)
      /\ moved.stage = IF fresh = {} THEN "end" ELSE "open"
  BY <1>3, <1>6 DEF Job, Stages
<1> QED
  <2> HIDE DEF moved
  <2>1. AtEvent(moved)
    BY <1>3, <1>7 DEF AtEvent, Busy
  <2>2. /\ moved.stage = "end" => moved.pos = Len(j.batch) + 1
        /\ moved.stage = "open" => ~Recorded(table, j.batch[moved.pos].id)
    BY <1>3, <1>4, <1>7
  <2> QED
    BY <1>1, <1>4, <1>7, <2>1, <2>2

\* A call that begins its loop is at its first event, or past the batch.
LEMMA BegunOK ==
    ASSUME NEW key \in Keys \cup {"provider"}, NEW batch \in Seq(Event),
           batch # <<>>
    PROVE  Begun(key, batch) \in Job /\ AtEvent(Begun(key, batch))
<1> DEFINE j == [Idle EXCEPT !.key = key, !.batch = batch, !.pos = 1,
                             !.order = Started + 1]
<1>1. Started + 1 \in Nat
  BY StartedIsNat
<1>2. j \in Job /\ j.batch = batch /\ j.pos = 1
  BY <1>1, IdleIsJob DEF Idle, Job
<1>3. j.pos \in 1 .. Len(j.batch) + 1
  BY <1>2
<1> HIDE DEF j
<1>4. Advanced(j, events) \in Job /\ AtEvent(Advanced(j, events))
  BY <1>2, <1>3, AdvancedOK
<1> QED
  BY <1>4 DEF Begun, j

\* The batches of both calls are batches of events.
LEMMA Batches ==
    /\ \A k \in Keys : BatchOf[k] \in Seq(Event) /\ BatchOf[k] # <<>>
    /\ \A batch \in ProviderBatches : batch \in Seq(Event) /\ batch # <<>>
BY BatchAssumption DEF Event

-----------------------------------------------------------------------------
(* The inductive invariant is preserved *)

\* A step that changes one delivery and leaves the table alone.
LEMMA OneJobIInv ==
    ASSUME IInv, NEW d \in Deliveries, NEW j \in Job, AtEvent(j),
           job' = [job EXCEPT ![d] = j],
           events' = events,
           file' \in [EventIds -> FileStates],
           keyRun' \in [Keys -> KeyRun],
           connStatus' \in {"active", "disabled"},
           contended' \subseteq EventIds
    PROVE  IInv'
<1>1. TypeOK'
  BY DEF IInv, TypeOK
<1>2. ASSUME NEW c \in Deliveries PROVE AtEvent(job'[c])
  <2>1. job'[c] = j \/ job'[c] = job[c]
    BY DEF IInv, TypeOK
  <2> QED
    BY <2>1 DEF IInv
<1> QED
  BY <1>1, <1>2 DEF IInv, OneRecordPerEvent, ClaimedOnce

LEMMA StartIInv ==
    ASSUME IInv, NEW d \in Deliveries, NEW j \in Job, AtEvent(j), Start(d, j),
           UNCHANGED <<events, file, connStatus>>,
           keyRun' \in [Keys -> KeyRun]
    PROVE  IInv'
<1>1. contended' \subseteq EventIds
  BY DEF Start, Contended, IInv, TypeOK
<1> QED
  BY <1>1, OneJobIInv DEF Start, IInv, TypeOK

LEMMA BeginIInv ==
    ASSUME IInv, NEW d \in Deliveries,
           \/ \E k \in Keys :
                 IngestEvents(d, k) \/ RefuseEvents(d, k) \/ ReplayEvents(d, k)
           \/ \E batch \in ProviderBatches : IngestProviderEvents(d, batch)
    PROVE  IInv'
<1>0. keyRun \in [Keys -> KeyRun]
  BY DEF IInv, TypeOK
<1>1. ASSUME NEW k \in Keys, IngestEvents(d, k) PROVE IInv'
  <2>1. keyRun' \in [Keys -> KeyRun]
    BY <1>0, <1>1 DEF IngestEvents, KeyRun
  <2>2. Begun(k, BatchOf[k]) \in Job /\ AtEvent(Begun(k, BatchOf[k]))
    BY BegunOK, Batches
  <2> QED
    BY <1>1, <2>1, <2>2, StartIInv DEF IngestEvents
<1>2. ASSUME NEW k \in Keys, NEW stage \in {"failed", "answered"}
      PROVE  LET j == [Idle EXCEPT !.stage = stage, !.key = k,
                                   !.batch = BatchOf[k]]
             IN  j \in Job /\ AtEvent(j)
  BY IdleIsJob, Batches DEF Idle, Job, Stages, AtEvent, Busy
<1>3. ASSUME NEW k \in Keys, RefuseEvents(d, k) PROVE IInv'
  <2>1. keyRun' \in [Keys -> KeyRun]
    BY <1>0, <1>3 DEF RefuseEvents, KeyRun
  <2> QED
    BY <1>2, <1>3, <2>1, StartIInv DEF RefuseEvents
<1>4. ASSUME NEW k \in Keys, ReplayEvents(d, k) PROVE IInv'
  BY <1>0, <1>2, <1>4, StartIInv DEF ReplayEvents
<1>5. ASSUME NEW batch \in ProviderBatches, IngestProviderEvents(d, batch)
      PROVE  IInv'
  <2>1. Begun("provider", batch) \in Job /\ AtEvent(Begun("provider", batch))
    BY BegunOK, Batches
  <2> QED
    BY <1>0, <1>5, <2>1, StartIInv DEF IngestProviderEvents
<1> QED
  BY <1>1, <1>3, <1>4, <1>5

LEMMA WriteIInv ==
    ASSUME IInv, NEW d \in Deliveries, OpenPayload(d) \/ WritePayload(d)
    PROVE  IInv'
<1> DEFINE e == job[d].batch[job[d].pos]
<1>0. job[d] \in Job /\ AtEvent(job[d])
  BY DEF IInv, TypeOK
<1>1. e \in Event
  BY <1>0 DEF OpenPayload, WritePayload, AtEvent, Busy, Job
<1>2. file' \in [EventIds -> FileStates]
  BY <1>1 DEF OpenPayload, WritePayload, IInv, TypeOK, FileStates, Event
<1>3. PICK stage \in {"write", "store"} :
        job' = [job EXCEPT ![d] = [job[d] EXCEPT !.stage = stage]]
  BY DEF OpenPayload, WritePayload
<1> DEFINE j == [job[d] EXCEPT !.stage = stage]
<1>4. j \in Job /\ AtEvent(j)
  BY <1>0 DEF OpenPayload, WritePayload, AtEvent, Busy, Job, Stages
<1> HIDE DEF j
<1>5. job' = [job EXCEPT ![d] = j]
  BY <1>3 DEF j
<1> QED
  BY <1>2, <1>4, <1>5, OneJobIInv DEF OpenPayload, WritePayload, IInv, TypeOK

LEMMA EndIInv ==
    ASSUME IInv, NEW d \in Deliveries, Answer(d) \/ Abandon(d)
    PROVE  IInv'
<1>0. job[d] \in Job /\ keyRun \in [Keys -> KeyRun]
  BY DEF IInv, TypeOK
<1>1. PICK stage \in {"answered", "failed"} :
        job' = [job EXCEPT ![d] = [job[d] EXCEPT !.stage = stage]]
  BY DEF Answer, Abandon
<1> DEFINE j == [job[d] EXCEPT !.stage = stage]
<1>2. j \in Job /\ AtEvent(j)
  BY <1>0 DEF AtEvent, Busy, Job, Stages
<1>3. keyRun' \in [Keys -> KeyRun]
  <2>1. Len(job[d].batch) \in Nat /\ job[d].accepted \in Nat
    BY <1>0 DEF Job
  <2>2. CASE Answer(d)
    <3> DEFINE done == [status |-> "success", fetched |-> Len(job[d].batch),
                        written |-> job[d].accepted]
    <3>1. done \in KeyRun
      BY <2>1 DEF KeyRun
    <3>2. keyRun' = keyRun \/ keyRun' = [keyRun EXCEPT ![job[d].key] = done]
      BY <2>2 DEF Answer
    <3> QED
      BY <1>0, <3>1, <3>2
  <2>3. CASE Abandon(d)
    BY <1>0, <2>3 DEF Abandon, KeyRun
  <2> QED
    BY <2>2, <2>3
<1>4. connStatus' \in {"active", "disabled"}
  BY DEF Answer, Abandon, IInv, TypeOK
<1> HIDE DEF j
<1>5. job' = [job EXCEPT ![d] = j]
  BY <1>1 DEF j
<1> QED
  BY <1>2, <1>3, <1>4, <1>5, OneJobIInv DEF Answer, Abandon, IInv, TypeOK

LEMMA StoreIInv ==
    ASSUME IInv, NEW d \in Deliveries, StoreEvent(d)
    PROVE  IInv'
<1> DEFINE j == job[d]
           first == ~Recorded(events, j.batch[j.pos].id)
           table == IF first THEN Append(events, Pending(j)) ELSE events
           moved == IF first
                    THEN [j EXCEPT !.pos = @ + 1, !.accepted = @ + 1]
                    ELSE [j EXCEPT !.pos = @ + 1, !.duplicates = @ + 1]
<1>0. /\ j \in Job /\ j.pos \in DOMAIN j.batch
      /\ events \in Seq(RawEvent)
  BY DEF IInv, TypeOK, StoreEvent, AtEvent, Busy
<1>1. /\ events' = table
      /\ job' = [job EXCEPT ![d] = Advanced(moved, table)]
      /\ contended' = contended \cup Contended(job')
      /\ UNCHANGED <<file, keyRun, connStatus>>
  BY DEF StoreEvent
<1>2. Pending(j) \in RawEvent /\ ClaimedOnce(Pending(j))
      /\ Pending(j).id = j.batch[j.pos].id
  <2>1. j.batch[j.pos] \in Event
    BY <1>0 DEF Job
  <2> QED
    BY <1>0, <2>1
       DEF Pending, RawEvent, EventStatuses, Event, Job, ClaimedOnce
<1>3. moved \in Job /\ moved.pos \in 1 .. Len(moved.batch) + 1
  <2>1. j.batch \in Seq(Event) /\ j.pos \in 1 .. Len(j.batch)
    BY <1>0 DEF Job
  <2>2. /\ moved \in Job /\ moved.batch = j.batch /\ moved.pos = j.pos + 1
    <3>0. j.pos + 1 \in Nat /\ j.accepted + 1 \in Nat /\ j.duplicates + 1 \in Nat
      BY <1>0, <2>1 DEF Job
    <3> HIDE DEF j, first
    <3>1. CASE first
      BY <1>0, <3>0, <3>1 DEF Job
    <3>2. CASE ~first
      BY <1>0, <3>0, <3>2 DEF Job
    <3> QED
      BY <3>1, <3>2
  <2> HIDE DEF moved
  <2> QED
    BY <2>1, <2>2
<1> HIDE DEF j, moved
<1>4. Advanced(moved, table) \in Job /\ AtEvent(Advanced(moved, table))
  BY <1>3, AdvancedOK
<1>5. \A c \in Deliveries : AtEvent(job'[c])
  <2> HIDE DEF table
  <2>1. \A c \in Deliveries : job'[c] = Advanced(moved, table)
                              \/ job'[c] = job[c]
    BY <1>1 DEF IInv, TypeOK
  <2> QED
    BY <1>4, <2>1 DEF IInv
<1>6. CASE first
  <2> DEFINE n == Len(events)
  <2>1. events' = Append(events, Pending(j))
    BY <1>1, <1>6
  <2>2. /\ events' \in Seq(RawEvent) /\ n \in Nat
        /\ DOMAIN events = 1 .. n /\ DOMAIN events' = 1 .. n + 1
        /\ \A i \in 1 .. n : events'[i] = events[i]
        /\ events'[n + 1] = Pending(j)
    BY <1>0, <1>2, <2>1
  <2>3. \A i \in 1 .. n : events[i].id # Pending(j).id
    BY <1>2, <1>6, <2>2 DEF Recorded
  <2>4. OneRecordPerEvent'
    <3> SUFFICES ASSUME NEW i \in 1 .. n + 1, NEW k \in 1 .. n + 1,
                        events'[i].id = events'[k].id
                 PROVE  i = k
      BY <2>2 DEF OneRecordPerEvent
    <3>1. CASE i \in 1 .. n /\ k \in 1 .. n
      BY <2>2, <3>1 DEF IInv, OneRecordPerEvent
    <3>2. CASE i = n + 1 \/ k = n + 1
      BY <2>2, <2>3, <3>2
    <3> QED
      BY <2>2, <3>1, <3>2
  <2>5. \A i \in DOMAIN events' : ClaimedOnce(events'[i])
    <3> SUFFICES ASSUME NEW i \in 1 .. n + 1
                 PROVE  ClaimedOnce(events'[i])
      BY <2>2
    <3>1. CASE i \in 1 .. n
      BY <2>2, <3>1 DEF IInv
    <3>2. CASE i = n + 1
      BY <1>2, <2>2, <3>2
    <3> QED
      BY <2>2, <3>1, <3>2
  <2>6. TypeOK'
    <3> HIDE DEF table
    <3>1. contended' \subseteq EventIds
      BY <1>1, <2>2 DEF IInv, TypeOK, Contended
    <3> QED
      BY <1>1, <1>4, <2>2, <3>1 DEF IInv, TypeOK
  <2> QED
    BY <1>5, <2>4, <2>5, <2>6 DEF IInv
<1>7. CASE ~first
  <2>1. events' = events
    BY <1>1, <1>7
  <2>2. TypeOK'
    <3> HIDE DEF table
    <3>1. contended' \subseteq EventIds
      BY <1>1 DEF IInv, TypeOK, Contended
    <3> QED
      BY <1>1, <1>4, <2>1, <3>1 DEF IInv, TypeOK
  <2> QED
    BY <1>5, <2>1, <2>2 DEF IInv, OneRecordPerEvent
<1> QED
  BY <1>6, <1>7

\* A step that leaves the ids of the table as they are, the deliveries too.
LEMMA ReworkIInv ==
    ASSUME IInv, UNCHANGED <<job, file>>,
           events' \in Seq(RawEvent), DOMAIN events' = DOMAIN events,
           \A i \in DOMAIN events : /\ events'[i].id = events[i].id
                                    /\ ClaimedOnce(events'[i]),
           keyRun' \in [Keys -> KeyRun],
           connStatus' \in {"active", "disabled"},
           contended' = contended
    PROVE  IInv'
<1>1. TypeOK'
  BY DEF IInv, TypeOK
<1>2. OneRecordPerEvent'
  BY DEF IInv, OneRecordPerEvent
<1>3. \A c \in Deliveries : AtEvent(job'[c])
  BY DEF IInv
<1> QED
  BY <1>1, <1>2, <1>3 DEF IInv

LEMMA ClaimIInv ==
    ASSUME IInv, NEW S \in SUBSET DOMAIN events, NEW limit \in Limits,
           ClaimRawEvents(S, limit)
    PROVE  IInv'
<1>1. \A i \in S : events[i].status = "pending"
  BY DEF ClaimRawEvents, Batch, Claimable
<1>2. /\ events \in Seq(RawEvent) /\ Len(events) \in Nat
      /\ DOMAIN events = 1 .. Len(events)
  BY DEF IInv, TypeOK
<1>3. ASSUME NEW i \in DOMAIN events
      PROVE  /\ events'[i] \in RawEvent
             /\ events'[i].id = events[i].id
             /\ ClaimedOnce(events'[i])
  <2>1. events[i] \in RawEvent /\ ClaimedOnce(events[i])
    BY <1>2 DEF IInv
  <2>2. CASE i \in S
    <3> DEFINE old == events[i]
               new == [old EXCEPT !.status = "processing",
                                  !.claims = old.claims + 1,
                                  !.claimedBy = old.claims + 1]
    <3>1. events'[i] = new
      BY <2>2 DEF ClaimRawEvents
    <3>2. old \in RawEvent /\ old.claims = 0
      BY <1>1, <2>1, <2>2 DEF ClaimedOnce
    <3> HIDE DEF old
    <3>3. new = [old EXCEPT !.status = "processing", !.claims = 1,
                            !.claimedBy = 1]
      BY <3>2
    <3> HIDE DEF new
    <3>4. new \in RawEvent
      BY <3>2, <3>3 DEF RawEvent, EventStatuses
    <3>5. new.id = old.id
      BY <3>2, <3>3 DEF RawEvent
    <3>6. new.status = "processing" /\ new.claims = 1 /\ new.claimedBy = 1
      BY <3>2, <3>3 DEF RawEvent
    <3>7. ClaimedOnce(new)
      BY <3>6 DEF ClaimedOnce
    <3> QED
      BY <3>1, <3>4, <3>5, <3>7 DEF old
  <2>3. CASE i \notin S
    BY <2>1, <2>3 DEF ClaimRawEvents
  <2> QED
    BY <2>2, <2>3
<1>4. DOMAIN events' = DOMAIN events
  BY DEF ClaimRawEvents
<1>5. events' \in [1 .. Len(events) -> RawEvent]
  BY <1>2, <1>3, <1>4 DEF ClaimRawEvents
<1>6. events' \in Seq(RawEvent)
  BY <1>2, <1>5
<1> QED
  BY <1>3, <1>4, <1>6, ReworkIInv DEF ClaimRawEvents, IInv, TypeOK

LEMMA MarkIInv ==
    ASSUME IInv, NEW i \in DOMAIN events, Mark(i)
    PROVE  IInv'
<1>1. PICK n \in 1 .. events[i].claims, status \in {"processed", "failed"} :
        MarkRawEvent(i, n, status)
  BY DEF Mark
<1>2. events \in Seq(RawEvent) /\ events[i] \in RawEvent
      /\ ClaimedOnce(events[i])
  BY DEF IInv, TypeOK
<1> DEFINE new == [events[i] EXCEPT !.status = status, !.claimedBy = n]
<1>3. events' = [events EXCEPT ![i] = new]
  BY <1>1 DEF MarkRawEvent
<1>4. new \in RawEvent /\ new.id = events[i].id /\ ClaimedOnce(new)
  BY <1>1, <1>2 DEF MarkRawEvent, ClaimOwned, RawEvent, EventStatuses, ClaimedOnce
<1> HIDE DEF new
<1>5. events' \in Seq(RawEvent) /\ DOMAIN events' = DOMAIN events
  BY <1>2, <1>3, <1>4
<1>6. \A k \in DOMAIN events : /\ events'[k].id = events[k].id
                               /\ ClaimedOnce(events'[k])
  BY <1>2, <1>3, <1>4 DEF IInv
<1> QED
  BY <1>1, <1>5, <1>6, ReworkIInv DEF MarkRawEvent, IInv, TypeOK

LEMMA NextIInv == IInv /\ [Next]_vars => IInv'
<1> SUFFICES ASSUME IInv, [Next]_vars PROVE IInv'
  OBVIOUS
<1>1. ASSUME NEW d \in Deliveries, Proceed(d) PROVE IInv'
  BY <1>1, WriteIInv, StoreIInv, EndIInv DEF Proceed
<1>2. CASE Claim
  BY <1>2, ClaimIInv DEF Claim
<1>3. ASSUME NEW s \in OperatorStatuses, SetConnectionStatus(s) PROVE IInv'
  <2>1. s \in {"active", "disabled"}
    BY BatchAssumption
  <2> QED
    BY <1>3, <2>1, ReworkIInv DEF SetConnectionStatus, IInv, TypeOK
<1>4. CASE UNCHANGED vars
  BY <1>4, ReworkIInv DEF vars, IInv, TypeOK
<1> QED
  BY <1>1, <1>2, <1>3, <1>4, BeginIInv, MarkIInv DEF Next

THEOREM Invariance == Spec => []IInv
<1> QED
  BY InitIInv, NextIInv, PTL DEF Spec

\* The types of the state, in every reachable state.
THEOREM TypeCorrect == Spec => []TypeOK
<1>1. IInv => TypeOK
  BY DEF IInv
<1> QED
  BY <1>1, Invariance, PTL

\* However many deliveries of one event interleave, the raw-event table has
\* one record of it: createRawEvent looks again when it inserts.
THEOREM EventsAreSingle == Spec => []OneRecordPerEvent
<1>1. IInv => OneRecordPerEvent
  BY DEF IInv
<1> QED
  BY <1>1, Invariance, PTL

-----------------------------------------------------------------------------
(* What a step may do to the table *)

\* Records stay where they are, keep their id and, once settled, everything.
LEMMA RecordsStay ==
    ASSUME IInv, [Next]_vars
    PROVE  \A i \in DOMAIN events :
              /\ i \in DOMAIN events'
              /\ events'[i].id = events[i].id
              /\ events[i].status \in {"processed", "failed"} =>
                    events'[i] = events[i]
<1> SUFFICES ASSUME NEW i \in DOMAIN events
             PROVE  /\ i \in DOMAIN events'
                    /\ events'[i].id = events[i].id
                    /\ events[i].status \in {"processed", "failed"} =>
                          events'[i] = events[i]
  OBVIOUS
<1>0. events \in Seq(RawEvent) /\ events[i] \in RawEvent
  BY DEF IInv, TypeOK
<1>1. CASE UNCHANGED events
  BY <1>1
<1>2. ASSUME NEW d \in Deliveries, StoreEvent(d)
      PROVE  i \in DOMAIN events' /\ events'[i] = events[i]
  <2>1. events' = events \/ events' = Append(events, Pending(job[d]))
    BY <1>2 DEF StoreEvent
  <2> QED
    BY <1>0, <2>1
<1>3. ASSUME NEW S \in SUBSET DOMAIN events, NEW limit \in Limits,
             ClaimRawEvents(S, limit)
      PROVE  /\ i \in DOMAIN events'
             /\ events'[i].id = events[i].id
             /\ events[i].status \in {"processed", "failed"} =>
                   events'[i] = events[i]
  <2>1. i \in S => events[i].status = "pending"
    BY <1>3 DEF ClaimRawEvents, Batch, Claimable
  <2> QED
    BY <1>0, <1>3, <2>1 DEF ClaimRawEvents, RawEvent
<1>4. ASSUME NEW k \in DOMAIN events, Mark(k)
      PROVE  /\ i \in DOMAIN events'
             /\ events'[i].id = events[i].id
             /\ events[i].status \in {"processed", "failed"} =>
                   events'[i] = events[i]
  BY <1>0, <1>4 DEF Mark, MarkRawEvent, ClaimOwned, RawEvent
<1>5. Next => \/ UNCHANGED events
              \/ \E d \in Deliveries : StoreEvent(d)
              \/ Claim
              \/ \E k \in DOMAIN events : Mark(k)
  BY DEF Next, IngestEvents, RefuseEvents, ReplayEvents, IngestProviderEvents,
         Proceed, OpenPayload, WritePayload, Answer, Abandon,
         SetConnectionStatus
<1> QED
  BY <1>1, <1>2, <1>3, <1>4, <1>5 DEF Claim, vars

\* An event is given to one worker, and once it is settled no late or
\* repeated report changes it.
THEOREM EventsSettleOnce == Spec => SettledOnce
<1>1. IInv /\ IInv' /\ [Next]_vars =>
        \A i \in DOMAIN events :
           /\ events'[i].claims <= 1
           /\ events[i].status \in {"processed", "failed"} =>
                 events'[i] = events[i]
  <2> SUFFICES ASSUME IInv, IInv', [Next]_vars, NEW i \in DOMAIN events
               PROVE  /\ events'[i].claims <= 1
                      /\ events[i].status \in {"processed", "failed"} =>
                            events'[i] = events[i]
    OBVIOUS
  <2>1. i \in DOMAIN events'
    BY RecordsStay
  <2>2. events'[i].claims <= 1
    BY <2>1 DEF IInv, ClaimedOnce
  <2> QED
    BY <2>2, RecordsStay
<1> QED
  BY <1>1, Invariance, PTL DEF SettledOnce, Spec

-----------------------------------------------------------------------------
(* What a delivery has passed is in the table *)

(***************************************************************************)
(* That a successful run stands for its whole batch follows from what each *)
(* delivery at work keeps true of itself: the events it has passed, stored *)
(* or skipped, are recorded, and the batch of a push is the one sent under *)
(* its key.                                                                *)
(***************************************************************************)
AtWork(j) == Busy(j) \/ j.stage = "end"

Covers(j, table) ==
    AtWork(j) =>
        /\ \A p \in DOMAIN j.batch : p < j.pos => Recorded(table, j.batch[p].id)
        /\ j.stage = "end" => j.pos = Len(j.batch) + 1
        /\ j.key # "provider" => j.batch = BatchOf[j.key]

SInv ==
    /\ \A d \in Deliveries : Covers(job[d], events)
    /\ SuccessStoresBatch

LEMMA RecordedStays ==
    ASSUME IInv, [Next]_vars, NEW e, Recorded(events, e)
    PROVE  Recorded(events', e)
BY RecordsStay DEF Recorded

LEMMA BegunCovers ==
    ASSUME NEW key \in Keys \cup {"provider"}, NEW batch \in Seq(Event),
           batch # <<>>, key # "provider" => batch = BatchOf[key]
    PROVE  Covers(Begun(key, batch), events)
<1> DEFINE j == [Idle EXCEPT !.key = key, !.batch = batch, !.pos = 1,
                             !.order = Started + 1]
           a == Advanced(j, events)
<1>1. Started + 1 \in Nat
  BY StartedIsNat
<1>2. j \in Job /\ j.batch = batch /\ j.pos = 1 /\ j.key = key
  BY <1>1, IdleIsJob DEF Idle, Job
<1> HIDE DEF j
<1>3. j.pos \in 1 .. Len(j.batch) + 1
  BY <1>2
<1>4. /\ a.batch = batch /\ a.key = key
      /\ a.stage = "end" => a.pos = Len(batch) + 1
      /\ \A p \in DOMAIN batch :
            p >= 1 /\ p < a.pos => Recorded(events, batch[p].id)
  BY <1>2, <1>3, AdvancedOK
<1>5. \A p \in DOMAIN batch : p >= 1
  OBVIOUS
<1>6. Begun(key, batch) = a
  BY DEF Begun, j
<1> HIDE DEF a
<1> QED
  BY <1>4, <1>5, <1>6 DEF Covers

LEMMA StoreCovers ==
    ASSUME IInv, SInv, NEW d \in Deliveries, StoreEvent(d)
    PROVE  Covers(job'[d], events')
<1> DEFINE j == job[d]
           first == ~Recorded(events, j.batch[j.pos].id)
           table == IF first THEN Append(events, Pending(j)) ELSE events
           moved == IF first
                    THEN [j EXCEPT !.pos = @ + 1, !.accepted = @ + 1]
                    ELSE [j EXCEPT !.pos = @ + 1, !.duplicates = @ + 1]
           a == Advanced(moved, table)
<1>0. /\ j \in Job /\ j.pos \in DOMAIN j.batch /\ AtWork(j)
      /\ events \in Seq(RawEvent) /\ job \in [Deliveries -> Job]
  BY DEF IInv, TypeOK, StoreEvent, AtEvent, Busy, AtWork
<1>1. events' = table /\ job'[d] = a
  BY <1>0 DEF StoreEvent
<1>2. j.batch \in Seq(Event) /\ j.pos \in 1 .. Len(j.batch)
  BY <1>0 DEF Job
<1>3. \A p \in DOMAIN j.batch : p <= j.pos => Recorded(table, j.batch[p].id)
  <2>1. \A p \in DOMAIN j.batch : p < j.pos => Recorded(events, j.batch[p].id)
    BY <1>0 DEF SInv, Covers
  <2>2. CASE first
    <3>1. table = Append(events, Pending(j))
      BY <2>2
    <3>2. \A e : Recorded(events, e) => Recorded(table, e)
      BY <1>0, <3>1 DEF Recorded
    <3>3. Recorded(table, Pending(j).id)
      <4>1. /\ Len(events) + 1 \in DOMAIN table
            /\ table[Len(events) + 1] = Pending(j)
        BY <1>0, <3>1
      <4> QED
        BY <4>1 DEF Recorded
    <3>4. Pending(j).id = j.batch[j.pos].id
      BY DEF Pending
    <3> HIDE DEF table, first
    <3> QED
      BY <1>2, <2>1, <3>2, <3>3, <3>4
  <2>3. CASE ~first
    BY <1>2, <2>1, <2>3
  <2> QED
    BY <2>2, <2>3
<1> HIDE DEF table
<1>4. /\ moved \in Job /\ moved.batch = j.batch
      /\ moved.pos = j.pos + 1 /\ moved.key = j.key
  <2>0. j.pos + 1 \in Nat /\ j.accepted + 1 \in Nat /\ j.duplicates + 1 \in Nat
    BY <1>0, <1>2 DEF Job
  <2> HIDE DEF j, first
  <2>1. CASE first
    BY <1>0, <2>0, <2>1 DEF Job
  <2>2. CASE ~first
    BY <1>0, <2>0, <2>2 DEF Job
  <2> QED
    BY <2>1, <2>2
<1> HIDE DEF j, moved
<1>5. moved.pos \in 1 .. Len(moved.batch) + 1
  BY <1>2, <1>4
<1>6. /\ a.batch = j.batch /\ a.key = j.key
      /\ a.stage = "end" => a.pos = Len(j.batch) + 1
      /\ \A p \in DOMAIN j.batch :
            p >= j.pos + 1 /\ p < a.pos => Recorded(table, j.batch[p].id)
  BY <1>4, <1>5, AdvancedOK
<1>7. j.key # "provider" => j.batch = BatchOf[j.key]
  BY <1>0 DEF SInv, Covers, j
<1> HIDE DEF a
<1>8. \A p \in DOMAIN j.batch : p < a.pos => Recorded(table, j.batch[p].id)
  <2>1. \A p \in DOMAIN j.batch : p <= j.pos \/ p >= j.pos + 1
    BY <1>2
  <2> QED
    BY <1>3, <1>6, <2>1
<1> QED
  BY <1>1, <1>6, <1>7, <1>8 DEF Covers

LEMMA DeliveriesCover ==
    ASSUME IInv, SInv, [Next]_vars, NEW c \in Deliveries
    PROVE  Covers(job'[c], events')
<1>0. Covers(job[c], events) /\ job \in [Deliveries -> Job]
  BY DEF IInv, TypeOK, SInv
<1>1. ASSUME NEW j, Covers(j, events) PROVE Covers(j, events')
  BY <1>1, RecordedStays DEF Covers
<1>2. CASE job'[c] = job[c]
  BY <1>0, <1>1, <1>2
<1>3. ASSUME NEW k \in Keys, IngestEvents(c, k)
      PROVE  Covers(job'[c], events')
  <2>1. Covers(Begun(k, BatchOf[k]), events)
    BY BegunCovers, Batches
  <2> QED
    BY <1>0, <1>1, <1>3, <2>1 DEF IngestEvents, Start
<1>4. ASSUME NEW batch \in ProviderBatches, IngestProviderEvents(c, batch)
      PROVE  Covers(job'[c], events')
  <2>1. Covers(Begun("provider", batch), events)
    BY BegunCovers, Batches
  <2> QED
    BY <1>0, <1>1, <1>4, <2>1 DEF IngestProviderEvents, Start
<1>5. ASSUME NEW k \in Keys, RefuseEvents(c, k) \/ ReplayEvents(c, k)
      PROVE  Covers(job'[c], events')
  <2>1. PICK stage \in {"failed", "answered"} :
          Start(c, [Idle EXCEPT !.stage = stage, !.key = k,
                                !.batch = BatchOf[k]])
    BY <1>5 DEF RefuseEvents, ReplayEvents
  <2>2. job'[c] = [Idle EXCEPT !.stage = stage, !.key = k,
                               !.batch = BatchOf[k]]
    BY <1>0, <2>1 DEF Start
  <2>3. job'[c].stage = stage
    BY <2>2 DEF Idle
  <2> QED
    BY <2>3 DEF Covers, AtWork, Busy
<1>6. CASE OpenPayload(c) \/ WritePayload(c)
  <2>1. PICK stage \in {"write", "store"} :
          job'[c] = [job[c] EXCEPT !.stage = stage]
    BY <1>0, <1>6 DEF OpenPayload, WritePayload
  <2>2. AtWork(job[c])
    BY <1>6 DEF OpenPayload, WritePayload, AtWork, Busy
  <2>3. /\ job'[c].stage # "end" /\ job'[c].batch = job[c].batch
        /\ job'[c].pos = job[c].pos /\ job'[c].key = job[c].key
    BY <1>0, <2>1 DEF Job
  <2>4. Covers(job'[c], events)
    BY <1>0, <2>2, <2>3 DEF Covers
  <2> QED
    BY <1>1, <2>4
<1>7. CASE Answer(c) \/ Abandon(c)
  <2>1. job'[c].stage \in {"answered", "failed"}
    BY <1>0, <1>7 DEF Answer, Abandon, Job
  <2> QED
    BY <2>1 DEF Covers, AtWork, Busy
<1>8. ASSUME NEW d \in Deliveries, d # c,
             \/ \E k \in Keys : \/ IngestEvents(d, k)
                                \/ RefuseEvents(d, k)
                                \/ ReplayEvents(d, k)
             \/ \E batch \in ProviderBatches : IngestProviderEvents(d, batch)
             \/ Proceed(d)
      PROVE  job'[c] = job[c]
  BY <1>0, <1>8 DEF IngestEvents, RefuseEvents, ReplayEvents, Start, Proceed,
       IngestProviderEvents, OpenPayload, WritePayload, StoreEvent, Answer,
       Abandon
<1>9. \/ UNCHANGED job
      \/ \E d \in Deliveries :
            \/ \E k \in Keys : \/ IngestEvents(d, k)
                               \/ RefuseEvents(d, k)
                               \/ ReplayEvents(d, k)
            \/ \E batch \in ProviderBatches : IngestProviderEvents(d, batch)
            \/ Proceed(d)
  BY DEF Next, vars, Claim, ClaimRawEvents, Mark, MarkRawEvent,
         SetConnectionStatus
<1> QED
  BY <1>2, <1>3, <1>4, <1>5, <1>6, <1>7, <1>8, <1>9, StoreCovers DEF Proceed

LEMMA NextSInv ==
    ASSUME IInv, SInv, [Next]_vars
    PROVE  SInv'
<1>1. ASSUME NEW k \in Keys, keyRun'[k].status = "success",
             NEW p \in DOMAIN BatchOf[k]
      PROVE  Recorded(events', BatchOf[k][p].id)
  <2>0. keyRun \in [Keys -> KeyRun]
    BY DEF IInv, TypeOK
  <2>1. CASE keyRun[k].status = "success"
    BY <2>1, RecordedStays DEF SInv, SuccessStoresBatch
  <2>2. ASSUME NEW d \in Deliveries, Answer(d), job[d].key = k,
               job[d].key # "provider"
        PROVE  Recorded(events', BatchOf[k][p].id)
    <3>1. /\ job[d].batch = BatchOf[k]
          /\ job[d].pos = Len(BatchOf[k]) + 1
          /\ \A q \in DOMAIN BatchOf[k] :
                q < job[d].pos => Recorded(events, BatchOf[k][q].id)
      BY <2>2 DEF SInv, Covers, AtWork, Answer
    <3>2. p < Len(BatchOf[k]) + 1
      <4>1. BatchOf[k] \in Seq(Event)
        BY Batches
      <4> QED
        BY <4>1
    <3> QED
      BY <3>1, <3>2, RecordedStays
  <2>3. ASSUME keyRun[k].status # "success"
        PROVE  \E d \in Deliveries :
                  Answer(d) /\ job[d].key = k /\ job[d].key # "provider"
    <3>1. ASSUME NEW d \in Deliveries, NEW q \in Keys,
                 IngestEvents(d, q) \/ RefuseEvents(d, q)
          PROVE  FALSE
      BY <1>1, <2>0, <2>3, <3>1 DEF IngestEvents, RefuseEvents, KeyRun
    <3>2. ASSUME NEW d \in Deliveries, Abandon(d) PROVE FALSE
      BY <1>1, <2>0, <2>3, <3>2 DEF Abandon, KeyRun
    <3>3. ASSUME NEW d \in Deliveries, Answer(d)
          PROVE  job[d].key = k /\ job[d].key # "provider"
      BY <1>1, <2>0, <2>3, <3>3 DEF Answer
    <3>4. keyRun' # keyRun
      BY <1>1, <2>3
    <3>5. \E d \in Deliveries :
             \/ \E q \in Keys : IngestEvents(d, q) \/ RefuseEvents(d, q)
             \/ Abandon(d) \/ Answer(d)
      BY <3>4 DEF Next, vars, ReplayEvents, IngestProviderEvents, Proceed,
           OpenPayload, WritePayload, StoreEvent, Claim, ClaimRawEvents,
           Mark, MarkRawEvent, SetConnectionStatus
    <3> QED
      BY <3>1, <3>2, <3>3, <3>5
  <2> QED
    BY <2>1, <2>2, <2>3
<1> QED
  BY <1>1, DeliveriesCover DEF SInv, SuccessStoresBatch

\* A run recorded as successful stands for its whole batch, whatever other
\* deliveries of its events were stored, refused or given up meanwhile.
THEOREM SuccessIsStored == Spec => []SuccessStoresBatch
<1>1. Init => SInv
  BY IdleIsJob
     DEF Init, SInv, Covers, AtWork, Busy, SuccessStoresBatch, NoKeyRun
<1>2. IInv /\ SInv /\ [Next]_vars => SInv'
  BY NextSInv
<1>3. SInv => SuccessStoresBatch
  BY DEF SInv
<1> QED
  BY <1>1, <1>2, <1>3, Invariance, PTL DEF Spec

-----------------------------------------------------------------------------
(* What deliveries count, write and leave behind *)

(***************************************************************************)
(* The strengthening behind DeliveriesAreSound.                            *)
(*                                                                         *)
(* Tally: a delivery at work has counted every event before the one it is  *)
(* at.  OrdersApart: a delivery gets its order when it begins, and no      *)
(* earlier one has it; so the records of an order are those of one         *)
(* delivery.  Guarded: an event that is being written is not recorded      *)
(* unless two deliveries met at it, for the first of them would have       *)
(* stored it while the second was there.  Filled: the file of such an      *)
(* event holds what its one writer has put there so far.                   *)
(***************************************************************************)
OfOrder(table, n) == {i \in DOMAIN table : table[i].order = n}

Tally(j) ==
    AtWork(j) => j.order # 0 /\ j.accepted + j.duplicates = j.pos - 1

OrdersApart(jobs, n) ==
    /\ \A d \in Deliveries : /\ jobs[d].order <= n
                             /\ jobs[d].stage = "idle" => jobs[d].order = 0
    /\ \A c, d \in Deliveries :
          c # d /\ jobs[c].order # 0 => jobs[c].order # jobs[d].order

Counted(table, jobs) ==
    /\ \A i \in DOMAIN table :
          table[i].order # 0 /\ \E d \in Deliveries : table[i].order = jobs[d].order
    /\ \A d \in Deliveries :
          jobs[d].accepted = Cardinality(OfOrder(table, jobs[d].order))

Guarded(j, table, shared) ==
    \A e \in EventIds : Writing(j, e) /\ Recorded(table, e) => e \in shared

Filled(j, files, shared) ==
    \A e \in EventIds \ shared :
        /\ Writing(j, e) /\ j.stage = "write" => files[e] = "empty"
        /\ Writing(j, e) /\ j.stage = "store" =>
              files[e] = j.batch[j.pos].payload

CInv ==
    /\ \A d \in Deliveries : Tally(job[d])
    /\ OrdersApart(job, Started)
    /\ Counted(events, job)

FInv ==
    /\ Contended(job) \subseteq contended
    /\ \A d \in Deliveries : /\ Guarded(job[d], events, contended)
                             /\ Filled(job[d], file, contended)
    /\ FileMatchesRecord

\* What a delivery is when it begins, if n have begun before it: refused or
\* answered at once, or at work with nothing stored.
Fresh(j, n, table) ==
    /\ j \in Job /\ j.accepted = 0
    /\ \/ j.stage \in {"failed", "answered"} /\ j.order = 0
       \/ /\ j.stage \in {"open", "end"}
          /\ j.order = n + 1 /\ j.duplicates = j.pos - 1
          /\ j.stage = "open" => ~Recorded(table, j.batch[j.pos].id)

LEMMA BegunIsFresh ==
    ASSUME NEW key \in Keys \cup {"provider"}, NEW batch \in Seq(Event),
           batch # <<>>
    PROVE  Fresh(Begun(key, batch), Started, events)
<1> DEFINE j == [Idle EXCEPT !.key = key, !.batch = batch, !.pos = 1,
                             !.order = Started + 1]
           a == Advanced(j, events)
<1>1. Started + 1 \in Nat
  BY StartedIsNat
<1>2. /\ j \in Job /\ j.batch = batch /\ j.pos = 1 /\ j.order = Started + 1
      /\ j.accepted = 0 /\ j.duplicates = 0
  BY <1>1, IdleIsJob DEF Idle, Job
<1> HIDE DEF j
<1>3. j.pos \in 1 .. Len(j.batch) + 1
  BY <1>2
<1>4. /\ a \in Job /\ a.batch = batch /\ a.order = Started + 1
      /\ a.accepted = 0 /\ a.duplicates = 0 + (a.pos - 1)
      /\ a.stage \in {"open", "end"}
      /\ a.stage = "open" => ~Recorded(events, batch[a.pos].id)
  BY <1>2, <1>3, AdvancedOK
<1>5. Begun(key, batch) = a
  BY DEF Begun, j
<1> HIDE DEF a
<1>6. a.duplicates = a.pos - 1
  BY <1>4 DEF Job
<1> QED
  BY <1>4, <1>5, <1>6 DEF Fresh

Begins(d) ==
    \/ \E k \in Keys :
          IngestEvents(d, k) \/ RefuseEvents(d, k) \/ ReplayEvents(d, k)
    \/ \E batch \in ProviderBatches : IngestProviderEvents(d, batch)

LEMMA BeginsFresh ==
    ASSUME NEW d \in Deliveries, Begins(d)
    PROVE  /\ UNCHANGED <<events, file>>
           /\ \E j : Start(d, j) /\ Fresh(j, Started, events)
<1>1. ASSUME NEW k \in Keys, NEW stage \in {"failed", "answered"}
      PROVE  Fresh([Idle EXCEPT !.stage = stage, !.key = k,
                                !.batch = BatchOf[k]], Started, events)
  BY Batches DEF Idle, Job, Stages, Fresh
<1>2. ASSUME NEW k \in Keys, IngestEvents(d, k)
      PROVE  \E j : Start(d, j) /\ Fresh(j, Started, events)
  BY <1>2, BegunIsFresh, Batches DEF IngestEvents
<1>3. ASSUME NEW k \in Keys, RefuseEvents(d, k) \/ ReplayEvents(d, k)
      PROVE  \E j : Start(d, j) /\ Fresh(j, Started, events)
  BY <1>1, <1>3 DEF RefuseEvents, ReplayEvents
<1>4. ASSUME NEW batch \in ProviderBatches, IngestProviderEvents(d, batch)
      PROVE  \E j : Start(d, j) /\ Fresh(j, Started, events)
  BY <1>4, BegunIsFresh, Batches DEF IngestProviderEvents
<1> QED
  BY <1>2, <1>3, <1>4
     DEF Begins, IngestEvents, RefuseEvents, ReplayEvents, IngestProviderEvents

\* A step that is no delivery's leaves what a record was stored with.
KeepsRecords ==
    /\ DOMAIN events' = DOMAIN events
    /\ \A i \in DOMAIN events : /\ events'[i].id = events[i].id
                                /\ events'[i].payload = events[i].payload
                                /\ events'[i].order = events[i].order

LEMMA StepKinds ==
    ASSUME IInv, [Next]_vars
    PROVE  \/ UNCHANGED <<job, file, contended, keyRun>> /\ KeepsRecords
           \/ \E d \in Deliveries :
                 \/ Begins(d)
                 \/ OpenPayload(d) \/ WritePayload(d)
                 \/ StoreEvent(d)
                 \/ Answer(d) \/ Abandon(d)
<1>0. events \in Seq(RawEvent)
  BY DEF IInv, TypeOK
<1>1. \A i \in DOMAIN events : events[i] \in RawEvent
  BY <1>0
<1>2. CASE Claim
  <2>1. PICK S \in SUBSET DOMAIN events, limit \in Limits :
          ClaimRawEvents(S, limit)
    BY <1>2 DEF Claim
  <2> QED
    BY <1>1, <2>1 DEF ClaimRawEvents, KeepsRecords, RawEvent
<1>3. ASSUME NEW i \in DOMAIN events, Mark(i)
      PROVE  UNCHANGED <<job, file, contended, keyRun>> /\ KeepsRecords
  BY <1>1, <1>3 DEF Mark, MarkRawEvent, KeepsRecords, RawEvent
<1>4. CASE \/ \E s \in OperatorStatuses : SetConnectionStatus(s)
           \/ UNCHANGED vars
  BY <1>4 DEF SetConnectionStatus, vars, KeepsRecords
<1> QED
  BY <1>2, <1>3, <1>4 DEF Next, Proceed, Begins

LEMMA OthersStay ==
    ASSUME job \in [Deliveries -> Job], NEW d \in Deliveries,
           \/ Begins(d) \/ OpenPayload(d) \/ WritePayload(d)
           \/ StoreEvent(d) \/ Answer(d) \/ Abandon(d)
    PROVE  /\ DOMAIN job' = Deliveries
           /\ \A c \in Deliveries \ {d} : job'[c] = job[c]
BY DEF Begins, IngestEvents, RefuseEvents, ReplayEvents, IngestProviderEvents,
       Start, OpenPayload, WritePayload, StoreEvent, Answer, Abandon

\* A delivery at its event moves on without changing what it has counted.
LEMMA StageMoves ==
    ASSUME job \in [Deliveries -> Job], NEW d \in Deliveries,
           \/ OpenPayload(d) \/ WritePayload(d) \/ Answer(d) \/ Abandon(d)
    PROVE  /\ \E stage \in {"write", "store", "answered", "failed"} :
                 job'[d] = [job[d] EXCEPT !.stage = stage]
           /\ AtWork(job[d])
BY DEF OpenPayload, WritePayload, Answer, Abandon, AtWork, Busy

\* StoreEvent as seen from the delivery.
LEMMA StoreMoves ==
    ASSUME IInv, NEW d \in Deliveries, StoreEvent(d)
    PROVE  LET j == job[d]
               a == job'[d]
               first == ~Recorded(events, j.batch[j.pos].id)
           IN  /\ a \in Job /\ a.key = j.key /\ a.order = j.order
               /\ a.stage \in {"open", "end"}
               /\ a.accepted = IF first THEN j.accepted + 1 ELSE j.accepted
               /\ a.accepted + a.duplicates
                     = j.accepted + j.duplicates + (a.pos - j.pos)
               /\ a.stage = "open" => ~Recorded(events', a.batch[a.pos].id)
               /\ events' = IF first THEN Append(events, Pending(j)) ELSE events
<1> DEFINE j == job[d]
           first == ~Recorded(events, j.batch[j.pos].id)
           table == IF first THEN Append(events, Pending(j)) ELSE events
           moved == IF first
                    THEN [j EXCEPT !.pos = @ + 1, !.accepted = @ + 1]
                    ELSE [j EXCEPT !.pos = @ + 1, !.duplicates = @ + 1]
           a == Advanced(moved, table)
<1>0. j \in Job /\ j.pos \in DOMAIN j.batch /\ job \in [Deliveries -> Job]
  BY DEF IInv, TypeOK, StoreEvent, AtEvent, Busy
<1>1. events' = table /\ job'[d] = a
  BY <1>0 DEF StoreEvent
<1>2. j.batch \in Seq(Event) /\ j.pos \in 1 .. Len(j.batch)
  BY <1>0 DEF Job
<1>3. j.pos + 1 \in Nat /\ j.accepted + 1 \in Nat /\ j.duplicates + 1 \in Nat
  BY <1>0, <1>2 DEF Job
<1>4. /\ moved \in Job /\ moved.batch = j.batch /\ moved.pos = j.pos + 1
      /\ moved.key = j.key /\ moved.order = j.order
      /\ moved.accepted = IF first THEN j.accepted + 1 ELSE j.accepted
      /\ moved.duplicates = IF first THEN j.duplicates ELSE j.duplicates + 1
  <2> HIDE DEF j, first
  <2>1. CASE first
    BY <1>0, <1>3, <2>1 DEF Job
  <2>2. CASE ~first
    BY <1>0, <1>3, <2>2 DEF Job
  <2> QED
    BY <2>1, <2>2
<1>5. events' = IF first THEN Append(events, Pending(j)) ELSE events
  BY <1>1
<1> HIDE DEF table, moved, first
<1>6. moved.pos \in 1 .. Len(moved.batch) + 1
  <2> HIDE DEF j
  <2> QED
    BY <1>2, <1>4
<1>7. /\ a \in Job /\ a.batch = moved.batch /\ a.key = moved.key
      /\ a.order = moved.order /\ a.accepted = moved.accepted
      /\ a.duplicates = moved.duplicates + (a.pos - moved.pos)
      /\ a.stage \in {"open", "end"}
      /\ a.stage = "open" => ~Recorded(table, moved.batch[a.pos].id)
  BY <1>4, <1>6, AdvancedOK
<1> HIDE DEF a
<1>8. a.accepted + a.duplicates = j.accepted + j.duplicates + (a.pos - j.pos)
  <2>1. /\ j.accepted \in Nat /\ j.duplicates \in Nat /\ j.pos \in Nat
        /\ a.pos \in Nat
    BY <1>0, <1>7 DEF Job
  <2> HIDE DEF j
  <2> QED
    BY <1>4, <1>7, <2>1
<1> QED
  BY <1>1, <1>4, <1>5, <1>7, <1>8 DEF first

-----------------------------------------------------------------------------
(* The counters *)

LEMMA StartedStays ==
    ASSUME \A d \in Deliveries : job'[d].stage = "idle" <=> job[d].stage = "idle"
    PROVE  Started' = Started
<1>1. {d \in Deliveries : job'[d].stage # "idle"}
        = {d \in Deliveries : job[d].stage # "idle"}
  OBVIOUS
<1> QED
  BY <1>1 DEF Started

LEMMA StartedGrows ==
    ASSUME NEW d \in Deliveries, job[d].stage = "idle", job'[d].stage # "idle",
           \A c \in Deliveries \ {d} : job'[c] = job[c]
    PROVE  Started' = Started + 1
<1> DEFINE S == {c \in Deliveries : job[c].stage # "idle"}
           T == {c \in Deliveries : job'[c].stage # "idle"}
<1>1. T = S \cup {d} /\ d \notin S
  OBVIOUS
<1>2. IsFiniteSet(S)
  BY BatchAssumption, FS_Subset
<1> HIDE DEF S, T
<1>3. Cardinality(T) = Cardinality(S) + 1
  BY <1>1, <1>2, FS_AddElement
<1> QED
  BY <1>3 DEF Started, S, T

\* The records of an order, when one is appended.
LEMMA OfOrderAppend ==
    ASSUME NEW table \in Seq(RawEvent), NEW event \in RawEvent, NEW n \in Nat
    PROVE  /\ IsFiniteSet(OfOrder(table, n))
           /\ Cardinality(OfOrder(Append(table, event), n)) =
                 IF event.order = n
                 THEN Cardinality(OfOrder(table, n)) + 1
                 ELSE Cardinality(OfOrder(table, n))
<1> DEFINE l == Len(table)
           longer == Append(table, event)
           S == OfOrder(table, n)
           T == OfOrder(longer, n)
<1>1. /\ l \in Nat /\ DOMAIN table = 1 .. l /\ DOMAIN longer = 1 .. l + 1
      /\ \A i \in 1 .. l : longer[i] = table[i]
      /\ longer[l + 1] = event
  OBVIOUS
<1>2. IsFiniteSet(S)
  <2>1. S \subseteq 1 .. l
    BY <1>1 DEF OfOrder
  <2>2. IsFiniteSet(1 .. l)
    BY <1>1, FS_Interval
  <2> QED
    BY <2>1, <2>2, FS_Subset
<1> HIDE DEF l, longer
<1>3. \A i : i \in 1 .. l + 1 <=> i \in 1 .. l \/ i = l + 1
  BY <1>1
<1>4. l + 1 \notin S
  BY <1>1 DEF OfOrder
<1>5. CASE event.order = n
  <2>1. \A i : i \in T <=> i \in S \cup {l + 1}
    BY <1>1, <1>3, <1>5 DEF OfOrder
  <2>2. T = S \cup {l + 1}
    BY <2>1
  <2> HIDE DEF S, T
  <2>3. Cardinality(T) = Cardinality(S) + 1
    BY <1>2, <1>4, <2>2, FS_AddElement
  <2> QED
    BY <1>2, <1>5, <2>3 DEF S, T, longer
<1>6. CASE event.order # n
  <2>1. \A i : i \in T <=> i \in S
    BY <1>1, <1>3, <1>6 DEF OfOrder
  <2>2. T = S
    BY <2>1
  <2> QED
    BY <1>2, <1>6, <2>2 DEF longer
<1> QED
  BY <1>5, <1>6

LEMMA BeginCInv ==
    ASSUME IInv, CInv, NEW d \in Deliveries, Begins(d)
    PROVE  CInv'
<1>0. job \in [Deliveries -> Job] /\ Started \in Nat
  BY StartedIsNat DEF IInv, TypeOK
<1>1. PICK j : Start(d, j) /\ Fresh(j, Started, events)
  BY BeginsFresh
<1>2. /\ events' = events
      /\ job[d].stage = "idle" /\ job'[d] = j
      /\ \A c \in Deliveries \ {d} : job'[c] = job[c]
  BY <1>0, <1>1, BeginsFresh DEF Start
<1>3. j \in Job /\ j.stage # "idle" /\ j.accepted = 0
      /\ j.order \in {0, Started + 1}
  BY <1>1 DEF Fresh
<1>4. Started' = Started + 1
  BY <1>2, <1>3, StartedGrows
<1>5. Tally(j)
  <2>1. j.pos \in Nat /\ j.duplicates \in Nat
    BY <1>3 DEF Job
  <2> QED
    BY <1>0, <1>1, <2>1 DEF Fresh, Tally, AtWork, Busy
<1>6. \A c \in Deliveries : job[c].order \in Nat /\ job[c].order <= Started
  BY <1>0 DEF CInv, OrdersApart, Job
<1>7. OrdersApart(job, Started)' 
  <2>1. \A c \in Deliveries : /\ job'[c].order <= Started + 1
                              /\ job'[c].stage = "idle" => job'[c].order = 0
    BY <1>0, <1>2, <1>3, <1>6 DEF CInv, OrdersApart
  <2>2. ASSUME NEW b \in Deliveries, NEW c \in Deliveries, b # c,
               job'[b].order # 0
        PROVE  job'[b].order # job'[c].order
    <3>1. CASE b # d /\ c # d
      BY <1>2, <2>2, <3>1 DEF CInv, OrdersApart
    <3>2. CASE b = d
      BY <1>0, <1>2, <1>3, <1>6, <2>2, <3>2
    <3>3. CASE c = d
      BY <1>0, <1>2, <1>3, <1>6, <2>2, <3>3
    <3> QED
      BY <3>1, <3>2, <3>3
  <2> QED
    BY <1>4, <2>1, <2>2 DEF OrdersApart
<1>8. OfOrder(events, j.order) = {}
  <2>1. ASSUME NEW i \in DOMAIN events PROVE events[i].order # j.order
    <3>1. /\ events[i].order # 0
          /\ \E c \in Deliveries : events[i].order = job[c].order
      BY DEF CInv, Counted
    <3> QED
      BY <1>0, <1>3, <1>6, <3>1
  <2> QED
    BY <2>1 DEF OfOrder
<1>9. Counted(events, job)'
  <2>1. ASSUME NEW i \in DOMAIN events
        PROVE  /\ events[i].order # 0
               /\ \E c \in Deliveries : events[i].order = job'[c].order
    <3>1. /\ events[i].order # 0
          /\ \E c \in Deliveries : events[i].order = job[c].order
      BY DEF CInv, Counted
    <3>2. job[d].order = 0
      BY <1>2 DEF CInv, OrdersApart
    <3> QED
      BY <1>2, <3>1, <3>2
  <2>2. ASSUME NEW c \in Deliveries
        PROVE  job'[c].accepted = Cardinality(OfOrder(events, job'[c].order))
    <3>1. CASE c = d
      BY <1>2, <1>3, <1>8, <3>1, FS_EmptySet
    <3>2. CASE c # d
      BY <1>2, <3>2 DEF CInv, Counted
    <3> QED
      BY <3>1, <3>2
  <2> QED
    BY <1>2, <2>1, <2>2 DEF Counted
<1> QED
  BY <1>2, <1>5, <1>7, <1>9 DEF CInv

LEMMA StageCInv ==
    ASSUME IInv, CInv, NEW d \in Deliveries,
           OpenPayload(d) \/ WritePayload(d) \/ Answer(d) \/ Abandon(d)
    PROVE  CInv'
<1>0. job \in [Deliveries -> Job]
  BY DEF IInv, TypeOK
<1>1. PICK stage \in {"write", "store", "answered", "failed"} :
        job'[d] = [job[d] EXCEPT !.stage = stage]
  BY <1>0, StageMoves
<1>2. AtWork(job[d])
  BY <1>0, StageMoves
<1>3. /\ events' = events
      /\ \A c \in Deliveries \ {d} : job'[c] = job[c]
  BY <1>0, OthersStay DEF OpenPayload, WritePayload, Answer, Abandon
<1>4. \A c \in Deliveries :
        /\ job'[c].order = job[c].order /\ job'[c].accepted = job[c].accepted
        /\ job'[c].duplicates = job[c].duplicates /\ job'[c].pos = job[c].pos
        /\ job'[c].stage = "idle" <=> job[c].stage = "idle"
        /\ AtWork(job'[c]) => AtWork(job[c])
  <2>1. /\ job'[d].order = job[d].order /\ job'[d].accepted = job[d].accepted
        /\ job'[d].duplicates = job[d].duplicates /\ job'[d].pos = job[d].pos
        /\ job'[d].stage = stage
    BY <1>0, <1>1 DEF Job
  <2> QED
    BY <1>2, <1>3, <2>1 DEF AtWork, Busy
<1>5. Started' = Started
  BY <1>4, StartedStays
<1>6. \A c \in Deliveries : Tally(job'[c])
  BY <1>4 DEF CInv, Tally
<1>7. OrdersApart(job, Started)'
  BY <1>4, <1>5 DEF CInv, OrdersApart
<1>8. Counted(events, job)'
  BY <1>3, <1>4 DEF CInv, Counted
<1> QED
  BY <1>6, <1>7, <1>8 DEF CInv

LEMMA StoreCInv ==
    ASSUME IInv, CInv, NEW d \in Deliveries, StoreEvent(d)
    PROVE  CInv'
<1>0. /\ job \in [Deliveries -> Job] /\ events \in Seq(RawEvent)
      /\ job[d].stage = "store" /\ AtWork(job[d]) /\ AtEvent(job[d]) /\ Busy(job[d])
  BY DEF IInv, TypeOK, StoreEvent, AtWork, Busy
<1>1. PICK first \in BOOLEAN :
        /\ job'[d].accepted = IF first THEN job[d].accepted + 1
                                       ELSE job[d].accepted
        /\ events' = IF first THEN Append(events, Pending(job[d])) ELSE events
  BY StoreMoves
<1>2. /\ job'[d] \in Job /\ job'[d].order = job[d].order
      /\ job'[d].stage \in {"open", "end"}
      /\ job'[d].accepted + job'[d].duplicates
            = job[d].accepted + job[d].duplicates + (job'[d].pos - job[d].pos)
  BY StoreMoves
<1>3. \A c \in Deliveries \ {d} : job'[c] = job[c]
  BY <1>0, OthersStay
<1>4. job[d].order # 0 /\ job[d].accepted + job[d].duplicates = job[d].pos - 1
  BY <1>0 DEF CInv, Tally
<1>5. /\ job[d].order \in Nat /\ job[d].pos \in Nat
      /\ job[d].accepted \in Nat /\ job[d].duplicates \in Nat
      /\ job'[d].pos \in Nat /\ job'[d].accepted \in Nat
      /\ job'[d].duplicates \in Nat
  BY <1>0, <1>2 DEF Job
<1>6. Tally(job'[d])
  BY <1>2, <1>4, <1>5 DEF Tally
<1>7. \A c \in Deliveries : job'[c].order = job[c].order
                            /\ (job'[c].stage = "idle" <=> job[c].stage = "idle")
  BY <1>0, <1>2, <1>3
<1>8. OrdersApart(job, Started)'
  BY <1>7, StartedStays DEF CInv, OrdersApart
<1>9. Pending(job[d]) \in RawEvent /\ Pending(job[d]).order = job[d].order
  <2>1. job[d].batch[job[d].pos] \in Event
    BY <1>0 DEF Job, AtEvent
  <2> QED
    BY <1>5, <2>1 DEF Pending, RawEvent, EventStatuses, Event
<1>10. Counted(events, job)'
  <2>1. CASE first
    <3>1. events' = Append(events, Pending(job[d]))
      BY <1>1, <2>1
    <3>2. ASSUME NEW i \in DOMAIN events'
          PROVE  /\ events'[i].order # 0
                 /\ \E c \in Deliveries : events'[i].order = job'[c].order
      <4>1. \/ events'[i] = Pending(job[d])
            \/ i \in DOMAIN events /\ events'[i] = events[i]
        <5> DEFINE new == Pending(job[d])
        <5> HIDE DEF new
        <5>1. events' = Append(events, new)
          BY <3>1 DEF new
        <5>2. i \in 1 .. Len(events) + 1
          BY <1>0, <3>2, <5>1
        <5>3. \/ events'[i] = new
              \/ i \in DOMAIN events /\ events'[i] = events[i]
          BY <1>0, <5>1, <5>2
        <5> QED
          BY <5>3 DEF new
      <4> QED
        BY <1>4, <1>7, <1>9, <4>1 DEF CInv, Counted
    <3>3. ASSUME NEW c \in Deliveries
          PROVE  job'[c].accepted = Cardinality(OfOrder(events', job'[c].order))
      <4>1. job[c].order \in Nat
        BY <1>0 DEF Job
      <4>2. job[c].accepted = Cardinality(OfOrder(events, job[c].order))
        BY DEF CInv, Counted
      <4>3. CASE c = d
        BY <1>0, <1>1, <1>7, <1>9, <2>1, <3>1, <4>1, <4>2, <4>3, OfOrderAppend
      <4>4. CASE c # d
        <5>1. job[c].order # job[d].order
          BY <1>4, <4>4 DEF CInv, OrdersApart
        <5> QED
          BY <1>0, <1>3, <1>9, <3>1, <4>1, <4>2, <4>4, <5>1, OfOrderAppend
      <4> QED
        BY <4>3, <4>4
    <3> QED
      BY <3>2, <3>3 DEF Counted
  <2>2. CASE ~first
    <3>1. events' = events /\ job'[d].accepted = job[d].accepted
      BY <1>1, <2>2
    <3> QED
      BY <1>3, <1>7, <3>1 DEF CInv, Counted
  <2> QED
    BY <2>1, <2>2
<1>11. \A c \in Deliveries : Tally(job'[c])
  BY <1>3, <1>6 DEF CInv
<1> QED
  BY <1>8, <1>10, <1>11 DEF CInv

LEMMA NextCInv ==
    ASSUME IInv, CInv, [Next]_vars
    PROVE  CInv'
<1>1. CASE UNCHANGED <<job, file, contended, keyRun>> /\ KeepsRecords
  <2>1. job' = job /\ Started' = Started
    BY <1>1 DEF Started
  <2>2. \A n : OfOrder(events', n) = OfOrder(events, n)
    BY <1>1 DEF OfOrder, KeepsRecords
  <2>3. Counted(events, job)'
    BY <1>1, <2>1, <2>2 DEF CInv, Counted, KeepsRecords
  <2> QED
    BY <2>1, <2>3 DEF CInv, OrdersApart
<1> QED
  BY <1>1, StepKinds, BeginCInv, StageCInv, StoreCInv

-----------------------------------------------------------------------------
(* The payload files *)

\* A delivery writes the file of the one event it is at.
LEMMA BeginFInv ==
    ASSUME IInv, FInv, NEW d \in Deliveries, Begins(d)
    PROVE  FInv'
<1>0. job \in [Deliveries -> Job]
  BY DEF IInv, TypeOK
<1>1. PICK j : Start(d, j) /\ Fresh(j, Started, events)
  BY BeginsFresh
<1>2. /\ events' = events /\ file' = file
      /\ job'[d] = j
      /\ \A c \in Deliveries \ {d} : job'[c] = job[c]
      /\ contended' = contended \cup Contended(job')
  BY <1>0, <1>1, BeginsFresh DEF Start
<1>3. Guarded(j, events, contended) /\ Filled(j, file, contended)
  BY <1>1 DEF Fresh, Guarded, Filled, Writing, Busy
<1>4. \A c \in Deliveries : /\ Guarded(job'[c], events', contended')
                            /\ Filled(job'[c], file', contended')
  BY <1>2, <1>3 DEF FInv, Guarded, Filled
<1>5. FileMatchesRecord'
  BY <1>2 DEF FInv, FileMatchesRecord
<1> QED
  BY <1>2, <1>4, <1>5 DEF FInv

\* Opening and writing stay at the event, and touch the file of no other.
LEMMA WriteFInv ==
    ASSUME IInv, FInv, NEW d \in Deliveries, OpenPayload(d) \/ WritePayload(d)
    PROVE  FInv'
<1> DEFINE at == job[d].batch[job[d].pos].id
<1>0. /\ job \in [Deliveries -> Job] /\ events \in Seq(RawEvent)
      /\ file \in [EventIds -> FileStates]
      /\ Busy(job[d]) /\ AtEvent(job[d])
  BY DEF IInv, TypeOK, OpenPayload, WritePayload, Busy
<1>1. job[d].batch[job[d].pos] \in Event
  BY <1>0 DEF AtEvent, Job
<1>2. at \in EventIds /\ Writing(job[d], at)
  BY <1>0, <1>1 DEF Event, Writing
<1>3. /\ job'[d] = [job[d] EXCEPT !.stage = IF OpenPayload(d) THEN "write"
                                                              ELSE "store"]
      /\ \A c \in Deliveries \ {d} : job'[c] = job[c]
      /\ events' = events /\ contended' = contended
  BY <1>0 DEF OpenPayload, WritePayload
<1>4. /\ job'[d].batch = job[d].batch /\ job'[d].pos = job[d].pos
      /\ job'[d].stage = IF OpenPayload(d) THEN "write" ELSE "store"
      /\ Busy(job'[d])
  BY <1>0, <1>3 DEF Job, Busy
<1>5. \A c \in Deliveries : \A e : Writing(job'[c], e) <=> Writing(job[c], e)
  BY <1>0, <1>3, <1>4 DEF Writing
<1>6. \A e \in EventIds \ {at} : file'[e] = file[e]
  BY <1>0 DEF OpenPayload, WritePayload
<1>7. at \notin contended => ~Recorded(events, at)
  BY <1>2 DEF FInv, Guarded
<1>8. \A c \in Deliveries \ {d} :
         at \notin contended => ~Writing(job[c], at)
  BY <1>2 DEF FInv, Contended
<1> HIDE DEF at
<1>9. Contended(job)' \subseteq contended'
  BY <1>3, <1>5 DEF FInv, Contended
<1>10. \A c \in Deliveries : Guarded(job'[c], events', contended')
  BY <1>3, <1>5 DEF FInv, Guarded
<1>11. ASSUME NEW c \in Deliveries \ {d}
       PROVE  Filled(job'[c], file', contended')
  BY <1>3, <1>6, <1>8, <1>11 DEF FInv, Filled
<1>12. Filled(job'[d], file', contended')
  <2>1. \A e : Writing(job[d], e) <=> e = at
    BY <1>0 DEF Writing, at
  <2>2. CASE OpenPayload(d)
    <3>1. file'[at] = "empty"
      BY <1>0, <1>2, <2>2 DEF OpenPayload, at
    <3> QED
      BY <1>3, <1>4, <1>5, <2>1, <2>2, <3>1 DEF Filled
  <2>3. CASE WritePayload(d) /\ ~OpenPayload(d)
    <3>1. at \notin contended => file[at] = "empty"
      BY <1>2, <2>3 DEF FInv, Filled, WritePayload
    <3>2. file[at] = "empty" => file'[at] = job[d].batch[job[d].pos].payload
      BY <1>0, <1>2, <2>3 DEF WritePayload, at
    <3> QED
      BY <1>3, <1>4, <1>5, <2>1, <2>3, <3>1, <3>2 DEF Filled
  <2> QED
    BY <2>2, <2>3
<1>13. FileMatchesRecord'
  <2>1. ASSUME NEW i \in DOMAIN events, events[i].id \notin contended
        PROVE  file'[events[i].id] = events[i].payload
    <3>1. events[i].id \in EventIds
      <4>1. events[i] \in RawEvent
        BY <1>0, <2>1
      <4> QED
        BY <4>1 DEF RawEvent
    <3>2. events[i].id # at
      BY <1>7, <2>1 DEF Recorded
    <3> QED
      BY <1>6, <2>1, <3>1, <3>2 DEF FInv, FileMatchesRecord
  <2> QED
    BY <1>3, <2>1 DEF FileMatchesRecord
<1> QED
  BY <1>9, <1>10, <1>11, <1>12, <1>13 DEF FInv

\* A record is made from the event whose file was just written.
LEMMA StoreFInv ==
    ASSUME IInv, FInv, NEW d \in Deliveries, StoreEvent(d)
    PROVE  FInv'
<1> DEFINE at == job[d].batch[job[d].pos].id
<1>0. /\ job \in [Deliveries -> Job] /\ events \in Seq(RawEvent)
      /\ job[d].stage = "store" /\ Busy(job[d]) /\ AtEvent(job[d])
  BY DEF IInv, TypeOK, StoreEvent, Busy
<1>1. job[d].batch[job[d].pos] \in Event
  BY <1>0 DEF AtEvent, Job
<1>2. at \in EventIds /\ Writing(job[d], at)
  BY <1>0, <1>1 DEF Event, Writing
<1>3. /\ file' = file /\ contended' = contended \cup Contended(job')
      /\ \A c \in Deliveries \ {d} : job'[c] = job[c]
  BY <1>0 DEF StoreEvent
<1>4. /\ job'[d].stage \in {"open", "end"}
      /\ job'[d].stage = "open" =>
            ~Recorded(events', job'[d].batch[job'[d].pos].id)
      /\ events' = IF ~Recorded(events, at) THEN Append(events, Pending(job[d]))
                                            ELSE events
  BY StoreMoves
<1>5. Pending(job[d]).id = at
      /\ Pending(job[d]).payload = job[d].batch[job[d].pos].payload
  BY DEF Pending
<1>6. Guarded(job'[d], events', contended') /\ Filled(job'[d], file', contended')
  BY <1>4 DEF Guarded, Filled, Writing, Busy
<1>7. \A i \in DOMAIN events' :
         \/ i \in DOMAIN events /\ events'[i] = events[i]
         \/ ~Recorded(events, at) /\ events'[i] = Pending(job[d])
  <2> DEFINE new == Pending(job[d])
  <2> HIDE DEF new, at
  <2>1. \/ events' = events
        \/ ~Recorded(events, at) /\ events' = Append(events, new)
    BY <1>4 DEF new
  <2>2. \A i \in DOMAIN events' :
           \/ i \in DOMAIN events /\ events'[i] = events[i]
           \/ ~Recorded(events, at) /\ events'[i] = new
    BY <1>0, <2>1
  <2> QED
    BY <2>2 DEF new
<1>8. at \notin contended => file[at] = job[d].batch[job[d].pos].payload
  BY <1>0, <1>2 DEF FInv, Filled
<1>9. \A c \in Deliveries \ {d} : Writing(job[c], at) => at \in contended
  BY <1>2 DEF FInv, Contended
<1>10. \A e : Recorded(events', e) => Recorded(events, e) \/ e = at
  BY <1>5, <1>7 DEF Recorded
<1> HIDE DEF at
<1>11. ASSUME NEW c \in Deliveries \ {d}
       PROVE  /\ Guarded(job'[c], events', contended')
              /\ Filled(job'[c], file', contended')
  BY <1>3, <1>9, <1>10, <1>11 DEF FInv, Guarded, Filled
<1>12. FileMatchesRecord'
  BY <1>3, <1>5, <1>7, <1>8 DEF FInv, FileMatchesRecord
<1> QED
  BY <1>3, <1>6, <1>11, <1>12 DEF FInv

LEMMA EndFInv ==
    ASSUME IInv, FInv, NEW d \in Deliveries, Answer(d) \/ Abandon(d)
    PROVE  FInv'
<1>0. job \in [Deliveries -> Job]
  BY DEF IInv, TypeOK
<1>1. /\ job'[d].stage \in {"answered", "failed"}
      /\ \A c \in Deliveries \ {d} : job'[c] = job[c]
      /\ UNCHANGED <<events, file, contended>>
  BY <1>0 DEF Answer, Abandon, Job
<1>2. \A e : ~Writing(job'[d], e)
  BY <1>1 DEF Writing, Busy
<1>3. Contended(job)' \subseteq contended'
  BY <1>1, <1>2 DEF FInv, Contended
<1>4. \A c \in Deliveries : /\ Guarded(job'[c], events', contended')
                            /\ Filled(job'[c], file', contended')
  BY <1>1, <1>2 DEF FInv, Guarded, Filled
<1>5. FileMatchesRecord'
  BY <1>1 DEF FInv, FileMatchesRecord
<1> QED
  BY <1>3, <1>4, <1>5 DEF FInv

LEMMA NextFInv ==
    ASSUME IInv, FInv, [Next]_vars
    PROVE  FInv'
<1>1. CASE UNCHANGED <<job, file, contended, keyRun>> /\ KeepsRecords
  <2>1. \A e : Recorded(events', e) <=> Recorded(events, e)
    BY <1>1 DEF KeepsRecords, Recorded
  <2>2. \A c \in Deliveries : /\ Guarded(job'[c], events', contended')
                              /\ Filled(job'[c], file', contended')
    BY <1>1, <2>1 DEF FInv, Guarded, Filled
  <2>3. FileMatchesRecord'
    BY <1>1 DEF FInv, FileMatchesRecord, KeepsRecords
  <2> QED
    BY <1>1, <2>2, <2>3 DEF FInv, Contended
<1> QED
  BY <1>1, StepKinds, BeginFInv, WriteFInv, StoreFInv, EndFInv

-----------------------------------------------------------------------------
(* The runs *)

\* The delivery a running webhook run belongs to.
Holds(j, k) ==
    /\ j.key = k
    /\ \/ Busy(j) \/ j.stage = "end"
       \/ j.stage = "failed" /\ j.pos = 0

LEMMA HoldsIsZombieFree ==
    NoZombieAfterFailedWrite <=>
        \A k \in Keys : keyRun[k].status = "running" =>
                           \E d \in Deliveries : Holds(job[d], k)
BY DEF NoZombieAfterFailedWrite, Holds

LEMMA BegunHolds ==
    ASSUME NEW k \in Keys
    PROVE  Holds(Begun(k, BatchOf[k]), k)
<1> DEFINE j == [Idle EXCEPT !.key = k, !.batch = BatchOf[k], !.pos = 1,
                             !.order = Started + 1]
<1>1. Started + 1 \in Nat
  BY StartedIsNat
<1>2. j \in Job /\ j.pos = 1 /\ j.key = k /\ j.batch = BatchOf[k]
  BY <1>1, Batches, IdleIsJob DEF Idle, Job
<1> HIDE DEF j
<1>3. j.pos \in 1 .. Len(j.batch) + 1
  BY <1>2, Batches
<1>4. /\ Advanced(j, events).key = k
      /\ Advanced(j, events).stage \in {"open", "end"}
  BY <1>2, <1>3, AdvancedOK
<1> QED
  BY <1>4 DEF Begun, Holds, Busy, j

\* A delivery lets go of its run only as it settles it.
LEMMA NextRuns ==
    ASSUME IInv, NoZombieAfterFailedWrite, [Next]_vars
    PROVE  NoZombieAfterFailedWrite'
<1>0. /\ job \in [Deliveries -> Job] /\ keyRun \in [Keys -> KeyRun]
      /\ "provider" \notin Keys
  BY BatchAssumption DEF IInv, TypeOK
<1> SUFFICES ASSUME NEW k \in Keys, keyRun'[k].status = "running"
             PROVE  \E d \in Deliveries : Holds(job'[d], k)
  BY DEF NoZombieAfterFailedWrite, Holds
<1>1. keyRun[k].status = "running" => \E d \in Deliveries : Holds(job[d], k)
  BY HoldsIsZombieFree
<1>2. ASSUME NEW d \in Deliveries, keyRun' = keyRun,
             \A c \in Deliveries \ {d} : job'[c] = job[c],
             Holds(job[d], k) => Holds(job'[d], k)
      PROVE  \E c \in Deliveries : Holds(job'[c], k)
  BY <1>1, <1>2
<1>3. CASE UNCHANGED <<job, file, contended, keyRun>> /\ KeepsRecords
  BY <1>1, <1>3
<1>4. ASSUME NEW d \in Deliveries, Begins(d)
      PROVE  \E c \in Deliveries : Holds(job'[c], k)
  <2>0. /\ job[d].stage = "idle"
        /\ \A c \in Deliveries \ {d} : job'[c] = job[c]
    BY <1>0, <1>4
       DEF Begins, IngestEvents, RefuseEvents, ReplayEvents,
           IngestProviderEvents, Start
  <2>1. ~Holds(job[d], k)
    BY <2>0 DEF Holds, Busy
  <2>2. CASE keyRun' = keyRun
    BY <1>2, <2>0, <2>1, <2>2
  <2>3. ASSUME NEW q \in Keys, IngestEvents(d, q) \/ RefuseEvents(d, q)
        PROVE  \E c \in Deliveries : Holds(job'[c], k)
    <3>1. Holds(job'[d], q)
      <4>1. CASE IngestEvents(d, q)
        BY <1>0, <4>1, BegunHolds DEF IngestEvents, Start
      <4>2. CASE RefuseEvents(d, q)
        <5>1. job'[d] = [Idle EXCEPT !.stage = "failed", !.key = q,
                                     !.batch = BatchOf[q]]
          BY <1>0, <4>2 DEF RefuseEvents, Start
        <5> QED
          BY <5>1 DEF Idle, Holds
      <4> QED
        BY <2>3, <4>1, <4>2
    <3>2. CASE q = k
      BY <3>1, <3>2
    <3>3. CASE q # k
      <4>1. keyRun'[k] = keyRun[k]
        BY <1>0, <2>3, <3>3 DEF IngestEvents, RefuseEvents
      <4> QED
        BY <1>1, <2>0, <2>1, <4>1
    <3> QED
      BY <3>2, <3>3
  <2>4. \/ keyRun' = keyRun
        \/ \E q \in Keys : IngestEvents(d, q) \/ RefuseEvents(d, q)
    BY <1>4 DEF Begins, ReplayEvents, IngestProviderEvents
  <2> QED
    BY <2>2, <2>3, <2>4
<1>5. ASSUME NEW d \in Deliveries,
             OpenPayload(d) \/ WritePayload(d) \/ StoreEvent(d)
      PROVE  \E c \in Deliveries : Holds(job'[c], k)
  <2>1. /\ keyRun' = keyRun /\ \A c \in Deliveries \ {d} : job'[c] = job[c]
    BY <1>0, <1>5 DEF OpenPayload, WritePayload, StoreEvent
  <2>2. CASE StoreEvent(d)
    <3>1. job'[d].key = job[d].key /\ job'[d].stage \in {"open", "end"}
      BY <2>2, StoreMoves
    <3> QED
      BY <1>2, <2>1, <3>1 DEF Holds, Busy
  <2>3. CASE OpenPayload(d) \/ WritePayload(d)
    <3>1. job'[d].key = job[d].key /\ job'[d].stage \in {"write", "store"}
      BY <1>0, <2>3 DEF OpenPayload, WritePayload, Job
    <3> QED
      BY <1>2, <2>1, <3>1 DEF Holds, Busy
  <2> QED
    BY <1>5, <2>2, <2>3
<1>6. ASSUME NEW d \in Deliveries, Answer(d) \/ Abandon(d)
      PROVE  \E c \in Deliveries : Holds(job'[c], k)
  <2>1. \A c \in Deliveries \ {d} : job'[c] = job[c]
    BY <1>0, <1>6 DEF Answer, Abandon
  <2>2. job[d].key # k
    <3>1. ASSUME job[d].key = k PROVE FALSE
      <4>1. keyRun'[k].status \in {"success", "failed"}
        BY <1>0, <1>6, <3>1 DEF Answer, Abandon, KeyRun
      <4> QED
        BY <4>1
    <3> QED
      BY <3>1
  <2>3. keyRun'[k] = keyRun[k]
    BY <1>0, <1>6, <2>2 DEF Answer, Abandon
  <2>4. ~Holds(job[d], k)
    BY <2>2 DEF Holds
  <2> QED
    BY <1>1, <2>1, <2>3, <2>4
<1> QED
  BY <1>3, <1>4, <1>5, <1>6, StepKinds

-----------------------------------------------------------------------------

\* What deliveries tell, store and leave behind agrees, however they
\* interleave and whichever of their writes fail: each record is counted by
\* the one delivery that stored it, the payload file of a record that two
\* deliveries did not meet at holds its payload, and a push that fails leaves
\* no run running.
THEOREM DeliveriesSound == Spec => []DeliveriesAreSound
<1> DEFINE DInv == CInv /\ FInv /\ NoZombieAfterFailedWrite
<1>1. Init => DInv
  <2> SUFFICES ASSUME Init PROVE DInv
    OBVIOUS
  <2>1. \A d \in Deliveries :
           job[d].stage = "idle" /\ job[d].order = 0 /\ job[d].accepted = 0
    BY DEF Init, Idle
  <2>2. events = <<>> /\ DOMAIN events = {}
    BY DEF Init
  <2>3. OfOrder(events, 0) = {} /\ Cardinality({}) = 0
    BY <2>2, FS_EmptySet DEF OfOrder
  <2>4. CInv
    <3>1. \A d \in Deliveries : Tally(job[d])
      BY <2>1 DEF Tally, AtWork, Busy
    <3>2. OrdersApart(job, Started)
      BY <2>1, StartedIsNat DEF OrdersApart
    <3>3. Counted(events, job)
      BY <2>1, <2>2, <2>3 DEF Counted
    <3> QED
      BY <3>1, <3>2, <3>3 DEF CInv
  <2>5. FInv
    BY <2>1, <2>2
       DEF FInv, Contended, Guarded, Filled, Writing, Busy, FileMatchesRecord
  <2>6. NoZombieAfterFailedWrite
    BY DEF Init, NoKeyRun, NoZombieAfterFailedWrite
  <2> QED
    BY <2>4, <2>5, <2>6
<1>2. IInv /\ DInv /\ [Next]_vars => DInv'
  BY NextCInv, NextFInv, NextRuns
<1>3. IInv /\ SInv /\ DInv => DeliveriesAreSound
  <2> SUFFICES ASSUME IInv, SInv, DInv PROVE DeliveriesAreSound
    OBVIOUS
  <2>0. job \in [Deliveries -> Job] /\ events \in Seq(RawEvent)
    BY DEF IInv, TypeOK
  <2>1. \A d \in Deliveries : StoredBy(d) = OfOrder(events, job[d].order)
    BY DEF StoredBy, OfOrder
  <2>2. \A i \in DOMAIN events :
           \E d \in Deliveries : \A c \in Deliveries : i \in StoredBy(c) <=> c = d
    BY DEF CInv, Counted, OrdersApart, StoredBy
  <2>3. \A d \in Deliveries : job[d].accepted = Cardinality(StoredBy(d))
    BY <2>1 DEF CInv, Counted
  <2>4. ASSUME NEW d \in Deliveries, job[d].stage = "end"
        PROVE  job[d].accepted + job[d].duplicates = Len(job[d].batch)
    <3>1. /\ job[d].accepted + job[d].duplicates = job[d].pos - 1
          /\ job[d].pos = Len(job[d].batch) + 1
      BY <2>4 DEF CInv, SInv, Tally, Covers, AtWork
    <3>2. job[d].batch \in Seq(Event)
      BY <2>0 DEF Job
    <3> QED
      BY <3>1, <3>2
  <2>5. AcceptedAreRecords
    BY <2>2, <2>3, <2>4 DEF AcceptedAreRecords
  <2> QED
    BY <2>5 DEF DeliveriesAreSound, FInv
<1>4. Init => SInv
  BY IdleIsJob
     DEF Init, SInv, Covers, AtWork, Busy, SuccessStoresBatch, NoKeyRun
<1>5. IInv /\ SInv /\ [Next]_vars => SInv'
  BY NextSInv
<1> HIDE DEF DInv
<1> QED
  BY <1>1, <1>2, <1>3, <1>4, <1>5, Invariance, PTL DEF Spec

=============================================================================
