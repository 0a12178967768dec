----------------------------- MODULE RuntimeStore ----------------------------
(***************************************************************************)
(* How the app-connectors runtime keeps its state over restarts:           *)
(* PostgresBackedConnectorStore of persistent-store.ts.                    *)
(*                                                                         *)
(* The state lives in memory.  Each mutator changes it at once, answers,   *)
(* and appends a job to a promise chain; the jobs run one after another    *)
(* and each sends one statement to Postgres: a snapshot of the whole       *)
(* memory as it is when the job starts, or the insertion of one secret,    *)
(* which snapshots leave out.  An advisory lock admits one process.        *)
(*                                                                         *)
(* The state of the runtime is the sequence of writes that led to it.  A   *)
(* statement on its way when its process dies has been executed or not by  *)
(* the time Postgres gives the lock to another process.                    *)
(***************************************************************************)
EXTENDS Integers, Sequences, SequencesExt

CONSTANTS
    Processes,      \* processes of the runtime that may be started
    MaxWrites       \* bound on the writes (model checking only)

ASSUME MaxWritesAssumption == MaxWrites \in Nat

VARIABLES
    phase,      \* phase of each process
    lock,       \* the process that has the advisory lock
    log,        \* the memory of each process: the writes it holds
    known,      \* the secrets each process has in memory (secretsByRef)
    chain,      \* the jobs of each process that have not settled
    statement,  \* what the first job has sent to Postgres
    row,        \* the row of connector_runtime_snapshots
    secretRows, \* the rows of connector_secret_records
    issued,     \* writes made so far, each has its own number
    missed      \* history: secrets whose insertion was refused or cut off

vars == <<phase, lock, log, known, chain, statement, row, secretRows, issued,
          missed>>

Nobody == "nobody"

ASSUME NobodyAssumption == Nobody \notin Processes

\* A write is an ordinary one or stores a secret, which becomes the latest.
Write == [id : Nat, secret : BOOLEAN]

\* A job of the chain: a snapshot, or the insertion of secret id.
Job == [kind : {"snapshot", "secret"}, id : Nat]

Snapshot == [kind |-> "snapshot", id |-> 0]

InsertSecret(n) == [kind |-> "secret", id |-> n]

NotSent == [kind |-> "none", id |-> 0, log |-> <<>>]

Statement == [kind : {"none", "snapshot", "secret"}, id : Nat, log : Seq(Write)]

TypeOK ==
    /\ phase \in [Processes -> {"down", "locked", "hydrated", "up"}]
    /\ lock \in Processes \cup {Nobody}
    /\ log \in [Processes -> Seq(Write)]
    /\ known \in [Processes -> SUBSET Nat]
    /\ chain \in [Processes -> Seq(Job)]
    /\ statement \in [Processes -> Statement]
    /\ row \in Seq(Write)
    /\ secretRows \subseteq Nat
    /\ issued \in 0 .. MaxWrites
    /\ missed \subseteq Nat

\* latestSecretRefByConnection: the last secret written, 0 before the first.
LatestSecret(writes) ==
    LET secrets == {i \in DOMAIN writes : writes[i].secret}
        last    == CHOOSE i \in secrets : \A j \in secrets : j <= i
    IN  IF secrets = {} THEN 0 ELSE writes[last].id

Running(p) == phase[p] # "down"

-----------------------------------------------------------------------------
(* Starting *)

\* Seeded fault: the answer of pg_try_advisory_lock is not looked at.
AcquireLockBlindly(p) ==
    /\ phase[p] = "down"
    /\ phase' = [phase EXCEPT ![p] = "locked"]
    /\ lock' = p
    /\ UNCHANGED <<log, known, chain, statement, row, secretRows, issued, missed>>

\* initialize up to the lock; without it the process gives up.
AcquireLock(p) ==
    /\ phase[p] = "down"
    /\ lock = Nobody
    /\ phase' = [phase EXCEPT ![p] = "locked"]
    /\ lock' = p
    /\ UNCHANGED <<log, known, chain, statement, row, secretRows, issued, missed>>

\* Seeded fault: the snapshot is not read.
HydrateNothing(p) ==
    /\ phase[p] = "locked"
    /\ phase' = [phase EXCEPT ![p] = "hydrated"]
    /\ UNCHANGED <<lock, log, known, chain, statement, row, secretRows, issued, missed>>

\* hydrate.
Hydrate(p) ==
    /\ phase[p] = "locked"
    /\ phase' = [phase EXCEPT ![p] = "hydrated"]
    /\ log' = [log EXCEPT ![p] = row]
    /\ UNCHANGED <<lock, known, chain, statement, row, secretRows, issued, missed>>

\* The rest of initialize: without a snapshot the secrets are not read.
\* Only then is the service created (createDefaultConnectorService).
LoadSecrets(p) ==
    /\ phase[p] = "hydrated"
    /\ phase' = [phase EXCEPT ![p] = "up"]
    /\ known' = [known EXCEPT ![p] = IF row = <<>> THEN {} ELSE secretRows]
    /\ UNCHANGED <<lock, log, chain, statement, row, secretRows, issued, missed>>

-----------------------------------------------------------------------------
(* Mutators *)

\* scheduleFlush after a change of memory.
Mutate(p) ==
    /\ phase[p] = "up" /\ issued < MaxWrites
    /\ issued' = issued + 1
    /\ log' = [log EXCEPT ![p] = Append(@, [id |-> issued', secret |-> FALSE])]
    /\ chain' = [chain EXCEPT ![p] = Append(@, Snapshot)]
    /\ UNCHANGED <<phase, lock, known, statement, row, secretRows, missed>>

\* putSecret: the insertion of the secret, then a snapshot.
PutSecret(p) ==
    /\ phase[p] = "up" /\ issued < MaxWrites
    /\ issued' = issued + 1
    /\ log' = [log EXCEPT ![p] = Append(@, [id |-> issued', secret |-> TRUE])]
    /\ known' = [known EXCEPT ![p] = @ \cup {issued'}]
    /\ chain' = [chain EXCEPT ![p] = @ \o <<InsertSecret(issued'), Snapshot>>]
    /\ UNCHANGED <<phase, lock, statement, row, secretRows, missed>>

-----------------------------------------------------------------------------
(* The chain *)

\* The first job starts; snapshot() copies the memory at this time.
Send(p) ==
    /\ phase[p] = "up"
    /\ chain[p] # <<>> /\ statement[p].kind = "none"
    /\ statement' = [statement EXCEPT ![p] =
                        IF Head(chain[p]).kind = "snapshot"
                        THEN [kind |-> "snapshot", id |-> 0, log |-> log[p]]
                        ELSE [kind |-> "secret", id |-> Head(chain[p]).id,
                              log |-> <<>>]]
    /\ UNCHANGED <<phase, lock, log, known, chain, row, secretRows, issued, missed>>

\* Postgres executes p's statement.
Executed(p) ==
    /\ row' = IF statement[p].kind = "snapshot" THEN statement[p].log ELSE row
    /\ secretRows' = IF statement[p].kind = "secret"
                     THEN secretRows \cup {statement[p].id}
                     ELSE secretRows

Settle(p) ==
    /\ phase[p] = "up"
    /\ statement[p].kind # "none"
    /\ Executed(p)
    /\ statement' = [statement EXCEPT ![p] = NotSent]
    /\ chain' = [chain EXCEPT ![p] = Tail(@)]
    /\ UNCHANGED <<phase, lock, log, known, issued, missed>>

\* The secrets whose insertion is among the jobs.
Inserting(jobs) == {j.id : j \in {k \in Range(jobs) : k.kind = "secret"}}

\* The process is gone, its memory with it; Postgres still has its lock.
Gone(p) ==
    /\ phase' = [phase EXCEPT ![p] = "down"]
    /\ log' = [log EXCEPT ![p] = <<>>]
    /\ known' = [known EXCEPT ![p] = {}]
    /\ chain' = [chain EXCEPT ![p] = <<>>]
    /\ statement' = [statement EXCEPT ![p] = NotSent]

\* Postgres refuses the statement.  The next job of the chain catches the
\* error and goes on; without a next job it is an unhandled rejection, which
\* ends a Node process.
StatementFails(p) ==
    /\ phase[p] = "up"
    /\ statement[p].kind # "none"
    /\ IF Len(chain[p]) > 1
       THEN /\ statement' = [statement EXCEPT ![p] = NotSent]
            /\ chain' = [chain EXCEPT ![p] = Tail(@)]
            /\ UNCHANGED <<phase, log, known>>
            /\ missed' = missed \cup Inserting(<<Head(chain[p])>>)
       ELSE Gone(p) /\ missed' = missed \cup Inserting(chain[p])
    /\ UNCHANGED <<lock, row, secretRows, issued>>

\* The process dies at any time.
Crash(p) ==
    /\ Running(p)
    /\ Gone(p)
    /\ Executed(p) \/ UNCHANGED <<row, secretRows>>
    /\ missed' = missed \cup (Inserting(chain[p]) \ secretRows')
    /\ UNCHANGED <<lock, issued>>

\* Seeded fault: the jobs are not waited for.
CloseAtOnce(p) ==
    /\ phase[p] = "up" /\ lock = p
    /\ Gone(p)
    /\ lock' = Nobody
    /\ UNCHANGED <<row, secretRows, issued, missed>>

\* Seeded fault: a store that was closed cannot be started again.
CloseForGood(p) ==
    /\ phase[p] = "up" /\ chain[p] = <<>> /\ lock = p
    /\ phase' = [phase EXCEPT ![p] = "closed"]
    /\ lock' = Nobody
    /\ UNCHANGED <<log, known, chain, statement, row, secretRows, issued, missed>>

\* close: the jobs are waited for, the lock is given back.  Nothing in src calls
\* it but the tests, which do so when nothing writes any more.
Close(p) ==
    /\ phase[p] = "up" /\ chain[p] = <<>> /\ lock = p
    /\ Gone(p)
    /\ lock' = Nobody
    /\ UNCHANGED <<row, secretRows, issued, missed>>

\* Postgres drops the lock with its session, which the end of the process has
\* closed.  (A session lost under a running process is left out: the process
\* would not notice.)
SessionEnds(p) ==
    /\ lock = p /\ ~Running(p)
    /\ lock' = Nobody
    /\ UNCHANGED <<phase, log, known, chain, statement, row, secretRows, issued, missed>>

Init ==
    /\ phase = [p \in Processes |-> "down"]
    /\ lock = Nobody
    /\ log = [p \in Processes |-> <<>>]
    /\ known = [p \in Processes |-> {}]
    /\ chain = [p \in Processes |-> <<>>]
    /\ statement = [p \in Processes |-> NotSent]
    /\ row = <<>>
    /\ secretRows = {}
    /\ issued = 0
    /\ missed = {}

Next == \E p \in Processes :
    \/ AcquireLock(p) \/ Hydrate(p) \/ LoadSecrets(p)
    \/ Mutate(p) \/ PutSecret(p)
    \/ Send(p) \/ Settle(p) \/ StatementFails(p)
    \/ Crash(p) \/ Close(p) \/ SessionEnds(p)

Spec == Init /\ [][Next]_vars

\* A running process goes on with its chain and Postgres answers.
FairSpec == Spec /\ \A p \in Processes :
                       /\ WF_vars(Send(p))
                       /\ WF_vars(Settle(p) \/ StatementFails(p))

-----------------------------------------------------------------------------
(* Properties *)

\* What is on disk is a state the running process went through: no other
\* process wrote there, and no statement overtook an earlier one.
RowIsHistory ==
    \A p \in Processes : phase[p] = "up" => IsPrefix(row, log[p])

\* What a snapshot has saved is in every later one, over crashes, restarts
\* and failed statements.
SavedStaysSaved == [][IsPrefix(row, row')]_row

\* What a process has scheduled is on disk in the end, whichever statements
\* Postgres refuses, unless the process dies: the memory of the process is
\* what the snapshot has, at some time after.
WritesAreSaved ==
    \A p \in Processes :
        chain[p] # <<>> ~> phase[p] = "down" \/ row = log[p]

\* Writes reach the disk, and stay there.
WritesLast == SavedStaysSaved /\ WritesAreSaved

\* A process that serves has the secret that a connection refers to, after a
\* restart too, although the reference and the secret are saved by two
\* statements: unless Postgres refused the insertion, or the process that was
\* to make it ended first, while a snapshot queued before had the reference.
LatestSecretResolves ==
    \A p \in Processes :
        phase[p] = "up" => LatestSecret(log[p]) \in known[p] \cup missed \cup {0}

\* Only one process serves at a time.
OneInstance ==
    \A p, q \in Processes : phase[p] = "up" /\ phase[q] = "up" => p = q

\* Over crashes and restarts one process at a time carries on with what the
\* last one had saved, secrets included.
RestartsAreSound == OneInstance /\ RowIsHistory /\ LatestSecretResolves

\* The abstract state: the process with the lock is the one memory there is.
Serving == lock # Nobody /\ phase[lock] = "up"

Mode ==
    IF lock = Nobody THEN "closed"
    ELSE CASE phase[lock] = "down" -> "crashed"
           [] phase[lock] = "up"   -> "open"
           [] OTHER                -> "opening"

Durable == INSTANCE DurableState WITH
    Writes <- [id : 1 .. MaxWrites, secret : BOOLEAN],
    mode   <- Mode,
    live   <- IF Serving THEN log[lock] ELSE <<>>,
    saved  <- row

\* The processes, their jobs and the statements of Postgres together are one
\* durable state: its writes are saved in their order and for good, and a
\* close, unlike a crash, loses none (close waits for the chain).
ImplementsDurableState == Durable!DurableSpec
=============================================================================
