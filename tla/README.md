# Praedixa in TLA+

Specifications of the concurrent core of the Praedixa repository, written from
its source. TLC checks them on small instances; the TLA+ proof system (TLAPS)
proves the safety properties of eight of them for every value of the constants.
Paths below are relative to the root of the repository.

## 1. The system

Praedixa is a decision platform for multi-site operations. Data of a client
reaches it through connectors, is made into datasets and forecasts, and ends in
recommendations that people approve and that are carried out in other systems.

| part | state it keeps | operations | hard behaviour |
|---|---|---|---|
| `app-connectors` (control plane, Node) | connections, authorization sessions, secrets, ingest credentials, raw events, sync runs, sync states, replay index: Maps in memory, saved to one Postgres row | create and patch connections, OAuth, trigger/claim/report sync runs, ingest events, claim/report raw events | leases and lock tokens, repeated deliveries, awaits between check and write, restarts |
| `app-api` (data plane, Python) | client schemas in Postgres, watermarks, dataset tables, jobs | worker loops over the runtime's queues, SFTP import, medallion pipeline, reprocessing, inference jobs, RGPD erasure | crash between commit and report, watermark against late rows, single-instance lock |
| `app-api-ts` (product API, Node) | decision contracts, approvals, action dispatches, ledger entries, onboarding cases: Postgres | approve, dispatch, retry, fall back, close ledger entries, run onboarding through Camunda | concurrent deciders, revisions, two systems of record |
| `app-symphony` (agent scheduler, Node) | running, claimed, retries: memory; workspaces on disk; one app server per agent | poll, dispatch, reconcile, retry, clean up, reload; turns with an app server | callbacks interleaving at awaits, timers and aborts racing answers, failing calls, restarts |
| `app-admin`, `app-webapp`, `app-landing`, `packages` | sessions, views | user interfaces, shared types, telemetry | none of its own |
| `contracts`, `infra`, `scripts`, `testing` | none at run time | schemas, deployment, checks | none |

How they meet: the workers of `app-api` call `app-connectors` over HTTP (claim a
run, read its plan, write its cursor, hand in events, report it; claim raw
events, report them). Source systems push events to `app-connectors`.
`app-api-ts` calls `app-connectors` to configure connections, Camunda to run
onboarding, Keycloak for identities. `app-symphony` calls the Linear tracker, the
Codex app server and git. Nothing is shared between two services but Postgres
and these calls.

What makes each part correct:

- *sync runs*: a run is held by one worker at a time; a worker that lost it can
  neither write the cursor nor report; a key makes one run; retries keep their
  delay and their budget; what has finished stays so;
- *raw events*: one record per event whatever is delivered again; the counters
  and the payload files agree with the records; a claimed event is settled once;
- *persistence*: one process writes; what was saved is never lost again; errors
  of a flush do not leave memory and disk apart; references have their secrets;
- *connections*: an answer of a provider does not overwrite what changed while it
  was awaited; the refresh token that is kept is one the provider accepts;
- *workers*: rows are loaded once, nothing is acknowledged or put aside before it
  is loaded, and what is claimed is settled;
- *scheduler*: one agent per issue, no claim without an owner, polling that
  never stops, no workspace removed under an agent;
- *agent attempts*: each ends, tells what happened, takes its server with it and
  ends the service only in the ways that are known;
- *DecisionOps*: a rejection closes the other approvals and cancels a dispatch that
  was never attempted, what was committed is undone only by a call that had read it
  before, and no two calls wait on each other;
- *onboarding*: case and process instance agree, completions are recorded, and a
  sync takes nothing back.

`PROJECT.json` lists every component with its status, and the hazards with the line
where they bite. Where the code does go wrong, a history variable (`raced`,
`clobbered`, `overtaken`, `broken`, `contended`) excuses the property: it then says
that nothing else goes wrong, and the note of the hazard says so. What no property
covers is in section 3.

## 2. Modules

| module | models | checked by | proved in |
|---|---|---|---|
| `SyncQueue` | what the queue promises (abstract) | as a property of `SyncRuns` | |
| `SyncRuns` | run table, claims, leases, reports: `service.ts`, `store.ts` | `MCSyncRuns` | `SyncRunsProofs` |
| `RawEvents` | ingestion and raw-event claims: `service.ts`, `store.ts`, `payload-store.ts` | `MCRawEvents` | `RawEventsProofs` |
| `DurableState` | what the persistence promises (abstract) | as a property of `RuntimeStore` | |
| `RuntimeStore` | `persistent-store.ts` | `MCRuntimeStore` | `RuntimeStoreProofs` |
| `Connections` | credentials and OAuth: `service.ts`, `store.ts`, `oauth.ts` | `MCConnections` | `ConnectionsProofs` |
| `SyncWorker` | the worker of `app-api`: `integration_sync_queue_worker.py`, `integration_runtime_worker.py`, `integration_sftp_runtime_worker.py`, beside the queue and the events of the runtime | `MCSyncWorker` | `SyncWorkerProofs` |
| `IssueClaims` | what the scheduler promises for each issue (abstract) | as a property of `Orchestrator` | |
| `Orchestrator` | `orchestrator.ts`, `workflow.ts`, `workspace-manager.ts` of `app-symphony` | `MCOrchestrator` | `OrchestratorProofs` |
| `AgentAttempt` | `codex-app-server.ts` of `app-symphony` | `MCAgentAttempt` | `OrchestratorProofs` |
| `DecisionOps` | approvals, dispatch and ledger: `decisionops-runtime-*.ts`, `action-mesh.ts`, `approval-workflow.ts`, `decision-ledger.ts` | `MCDecisionOps` | `DecisionOpsProofs` |
| `Onboarding` | `admin-onboarding*.ts`, beside the process in Camunda | `MCOnboarding` | `OnboardingProofs` |

The `MC` modules only give values to constants and bounds. Definitions whose
comment starts with "Seeded fault" are mutated forms of the definition below
them; no specification uses them, they show that a property can fail.

### SyncRuns

State: the clock, the run table (`runs`, in creation order, as the `Map` keeps
it), the number of lock tokens issued for each run (`granted`), the webhook runs
whose request is at work (`inline`), the statuses of the connections, and the
last writer of each sync state. Each handler is synchronous in Node, so each is
one action: `TriggerSync`, `BeginIngest`/`FinishIngest`/`AbortIngest`/`RefuseIngest`
(a pushed run), `ClaimSyncRuns` (a batch, in the order of the code's sort),
`ReadForRun` (execution plan and access context, which extend the lease),
`UpsertSyncState`, `MarkCompleted`, `MarkFailed`, `SetConnectionStatus`, `Tick`.

A worker is not a process of the model: whoever has a token may present it at
any time after it was issued. That covers slow workers, workers that lost their
lease, and calls delayed or repeated. A call the code refuses changes nothing.

`SyncQueue` is the abstraction: runs move between queued, held, lapsed, done and
dead, without clock, table or tokens. `ImplementsQueue` maps the run table to it
(`PhaseOf`): the passing of time is a step that lets some leases lapse.

### RawEvents

A delivery (`ingestEvents`, `ingestProviderEvents`) gives up control at the
awaits of `putJson`, which opens and truncates the file and then writes it:
`OpenPayload`, `WritePayload`, `StoreEvent`; between two awaits the loop of
`persistRawEvents` is one step (`Advanced`). Two writers of one file may leave a
mixture. Keys, failures (`Abandon`), refusals (`RefuseEvents`) and repeated calls
(`ReplayEvents`) are actions; claims and reports are as in the code, newest
events first and without a lease. Who claims is left open: in the code it is a
worker within a sync run of the connection (`drain_connector_connection`), or the
script of that name, so that an event need never be claimed; what the worker does
with its claims, and what becomes of them when it dies, is in `SyncWorker`.
`contended` is a history variable: the event
ids that two deliveries were writing at the same time.

### RuntimeStore

The state of the runtime is the sequence of writes that led to it. Mutators
change the memory and append a job to the promise chain; a job sends a snapshot
of the memory as it is when the job starts, or inserts a secret. `Settle`,
`StatementFails` and `Crash` are what can become of a statement. The advisory
lock is taken in `AcquireLock` and goes with the database session of its process
(`SessionEnds`); a session lost under a running process is left out. A statement
of a process that died is executed, or not, by the time another process has the
lock: stray statements that come later are not modelled. `missed` is a history
variable: the secrets whose insertion Postgres refused or the end of the process
cut off, which `LatestSecretResolves` excepts. `Close` is called by tests only,
when nothing writes any more; the model supposes that.

`DurableState` is the abstraction: one memory that starts as what was saved, adds
writes, saves more of them, is closed or falls. `ImplementsDurableState` maps the
process with the lock to it (`Mode`): a snapshot that settles saves, a secret or a
refused statement changes nothing there, and a close must find everything saved.

### Connections

The row of one OAuth connection, the secrets stored for it, its authorization
session, and the calls that await the provider: a step up to the `fetch`, a step
of the provider, a step after the answer, which may be lost in the timeout of
`fetchToken`. A secret is known by the operator's act it descends from and the
token it holds. With `Rotates` a refresh replaces the refresh token, and the
provider accepts only the last one; without, an answer may have none, and the
code then stores none. History variables: what operators entered (`acts`,
`newest`), whether a call was at the provider then (`overtaken`), tokens whose
successor was in an answer that did not arrive (`lost`), and whether the last
session expired (`lapsed`).

### SyncWorker

A worker waits for every request it sends, so that each request is a step, and a
request that fails in transport may have taken effect or not. A session is the
place in `process_claimed_sync_run` with what it holds; `error` and `preflight`
are the two `except` blocks. A commit and its answer are one step: a commit that
raises is taken to have been rolled back, and a request is not executed after
its caller gave up on it. The run table and the events are reduced to what
`SyncRuns` and `RawEvents` say of them: a lease runs or is over, an owner stands
for its lock token, the number of attempts stays at its maximum.

`Presents` says by what a worker names itself: the client of this commit sends
its worker id where the runtime asks for the lock token. The passing runs have
the token, the run `worker_identity` has the worker id.

### Orchestrator

The maps `running`, `claimed` and `retries`, the poll tick as a small program
(`tick.pc`), calls of `dispatchIssue` that prepare a workspace (`dispatching`),
calls of `handleRetry` that await the tracker (`lookups`), removals of
workspaces, the agents, and, outside, the tracker and `WORKFLOW.md`. One action
per stretch of code between two awaits. Delays and numbers of attempts are left
out: a timer that is set may fire. The four ways in which the process ends are
`Killed`, `StatFails`, `LookupFails` and `RemoveFails`; the last three are promise
rejections that nothing handles, which end a Node process. `Faults` says which
of them may happen; `Killed` also stands for an agent that takes the service with
it (`AgentAttempt`). Not modelled: agents that outlive the process, and what goes
on between `stop` and `exit`.

`IssueClaims` is the abstraction, the state machine of `docs/specs/SPEC.md`, 7.1
with the stages that the code has beside: the claim on an issue is unclaimed,
preparing, running, stopping, removing, in a retry or looked up by one.
`ImplementsIssueClaims` reads the stage off the maps (`StageOf`). The abstract
machine knows which issues the tracker has in active states, and gives a claim up
only for them having left those: at the lookup of a retry, or when the agent is
told to stop. An agent that has stalled is told to make way for a retry even if
it had been told to stop (`Override`), as `reconcileRunningIssues` does.

### AgentAttempt

`pc` is what `runAgentAttempt` awaits and `got` what that was resolved with.
Node handles all lines of a chunk before it goes on with what they have resolved,
and goes on with that before any other event. `ReadChunk` handles the first line and says how
many `more` the chunk has, `NextLine` handles one of them (`HandleLine`), and
until none is left nothing else may happen (`Quiet`). The app server is outside: it may answer, make requests, end its turn,
exit or do nothing, in any order that the protocol has, with one end per turn.
Its lines can still be read after it was killed. `StartServer` is `transport.start`
with the first request. `alive` becomes false on an error that nothing handles: the
server cannot be spawned, which is an error event without listener; an answer has
no child to be written to, because `terminate` has dropped it; or anything is
written to a server that died before its exit was seen (`Broken`), the
`turn/interrupt` of an abort included (`TurnKnown` says when there is one to send).
A server that lives is taken to read its stdin, so that a write to it never fails.
History variables: `missed` (the end of a turn was read when nothing waited for
it) and `early` (the abort came before its listener).

### DecisionOps

The rows of one recommendation and two transactions at Read Committed, a `SELECT`
or an `UPDATE` at a time with its row lock; an `UPDATE` that waited overwrites
what the other transaction wrote. A call that the rules refuse has written
nothing and is no action. The history variable `raced` says that a transaction
has committed on a row that another one had changed since it was read. No `SELECT`
is `FOR UPDATE`, so that this happens, and `TablesAgree` does not outlast it.
`CommittedIsKept` does: it excuses the commit of such a stale transaction
(`LosesUpdate`) and no other, before or after. Legality of the attempts, freedom of
deadlock and the numbers of revisions hold in any case.

### Onboarding

The case in Postgres, the process in Camunda and the index that Camunda's search
reads, which lags. Every request runs `synchronizeOnboardingCaseProjection`,
reads included: it reads the case, then Camunda, then the tasks, and writes them
back. One lock stands for the rows of the case, and is kept over the calls to
Camunda as in the code. `clobbered` is a history variable: a transaction that
wrote over what another had replaced since it was read has committed. The other
two say what failures left behind: completions whose transaction was lost
(`broken`), and what was left undone in Camunda (`loose`).

## 3. Runs

Passing runs:

| run | instance | shows |
|---|---|---|
| `sync_runs` | 2 runs, 1 connection, 1 key, both triggers, 2 attempts, leases 1 and 3 with default 2, clock 0..4 | keys, budget, fencing, leases, finality and delays; refinement of `SyncQueue` |
| `raw_events` | 2 deliveries, 2 keys and a worker's batch that bring the same events with different contents | one record per event, counters, payload files, no run left running by a failed write, claims settled once; deliveries end |
| `runtime_store` | 2 processes, 5 writes | one process serves, disk is a state of it, references have secrets; nothing saved is lost, scheduled writes reach the disk or the process dies; refinement of `DurableState` |
| `connections` | 2 calls, 3 acts of operators, 2 sessions, 3 tokens, rotating refresh tokens, ingest credentials | the newest entry is used, a session that is awaited exists, the stored refresh token is accepted |
| `sync_worker` | 2 interchangeable workers, a run of each kind, 2 events, one of them refused, 1 file, 2 attempts, slow workers, 1 fault | events loaded once, no file lost, success settled, nothing stranded |
| `sync_worker_live` | the same with 1 event and workers faster than leases | each run ends |
| `orchestrator` | 2 issues, the first blocks the second; 3 states; limit 2, 1 in progress; all faults | claims have one owner, agents are tracked, no workspace in use is removed |
| `orchestrator_live` | 1 issue, 4 states, limits 1 and 2, all faults | polling goes on, finished issues lose their claim, eligible ones get an agent; refinement of `IssueClaims` |
| `agent_attempt` | 3 turns, 3 requests of any kind, 4 unread lines | the status is true, the server ends with it, the service only in the ways named, the attempt ends |
| `decision_ops` | 2 transactions, 2 approvals, 2 attempts, 2 revisions, 4 commits | no deadlock, legal attempts, agreement of the tables, nothing committed is undone but by a call that had read it before |
| `onboarding` | 2 requests, 3 tasks, 1 draft, 1 fault | completions recorded, case true to its tasks and to Camunda, nothing taken back |

A property such as `DeliveriesAreSound` is a conjunction of named parts, each with
its own comment.

Why the bounds suffice. Two runs are what an order of claims and a shared key
need; with two attempts a run is granted, lapses, is granted again, is retried
and is dead; the leases lie on both sides of the default, so that a refresh
extends one and leaves the other; five instants let two leases pass one after
another. Two deliveries race or follow each other, and a batch of two events lets
one be stored and the next fail; the safety properties are proved for any number of
deliveries. Two processes are one that dies and one that follows; five writes
fill the chain with a snapshot in flight, a secret behind it and its snapshot, in
the first process and in the second. Two calls to a provider with three acts
of operators let a refresh be overtaken by an entry and by another refresh. Two
workers take a run from each other; one fault is a crash or a failed call at any
step, and the proofs have any number of both. Two issues with a limit of two and a limit of one in progress make the
slots scarce and the blocker matter; with one issue every state, both limits and
every fault fit. The refinement of `IssueClaims` is checked there, since the stage
of an issue is its own; the theorem is about any number. Three turns are a first one, one in the middle and the last; three requests
in four unread lines put any two kinds and an end into one chunk.
Two transactions meet at every pair of statements, and four commits let two
follow on the two that raced. Three tasks are one before the activation, the
activation and the last.

Bounds that only the checker needs are `MaxTime`, `MaxWrites`, `MaxActs`,
`MaxSessions`, `MaxTokens`, `MaxCommits`, `MaxRevisions`, `MaxSaves`, `MaxCalls`,
`MaxLines` and `MaxFaults`, and in `onboarding` the constraints `UntilClobbered`,
which stops a behaviour once every property would excuse it, and `FirstDraft`:
the draft is one of the first task, before, while and after it is the current one. The runs that do not
check deadlock are those in which the system or its bounds stop: all runs are
over, the attempt has ended, the clock, the writes, the commits, the deliveries
or the one case are used up.

A run that is meant to fail: `worker_identity` checks `RunsEnd` with the worker id
that the client of this commit presents, and TLC finds runs that no report ever
ends (`PROJECT.json`, findings).

Every property of a passing run has a mutant of the code that violates it.

### Other disagreements and uncovered hazards

Met while modelling, and part of the models unless said otherwise. No property
is stated about them, because it would restate a line or be false.

In `app-connectors`:

- `service.ts:996` a report of a run in flight writes "active" over a connection
  that an operator has disabled (`activation-readiness.ts:88`: "Connection is
  disabled and cannot be activated."); `service.ts:3132` a connection test does so too.
- `service.ts:928` two runs of one connection write one sync state, and the
  cursor of the older grant may come last; `LocksAreSound` orders the grants of
  one run.
- `store.ts:686` a run whose workers always die is reclaimed without end.
- `store.ts:642` ends and errors of an earlier attempt stay in a run that runs
  again; they are only shown.
- `service.ts:2276` two deliveries of one event pass the check, and the second
  rewrites the payload file of the first before it is told a duplicate;
  `FileMatchesRecord` excepts `contended`.
- `service.ts:2367` a repeated key is answered "accepted" from a run that failed.
- `service.ts:2380` a push that the allow-list refuses, or that a crash cuts off,
  leaves its run running.
- `store.ts:440` what a dead worker had claimed stays in processing, since no
  operation takes a claim back; `store.ts:439` newer events go first. An event that
  was pushed waits for the next sync run of its connection: its own run is born
  running and cannot be claimed.
- `persistent-store.ts:226` a lock session lost under a running process admits a
  second one (not modelled); `persistent-store.ts:261` a snapshot may save the
  reference to a secret that is then not inserted.
- `service.ts:1679` an answer to a refresh overwrites what an operator entered
  while it was awaited (`overtaken`), and `service.ts:3019` the end of an
  authorization deletes a newer session of the connection.
- `service.ts:1694` an answer without a refresh token overwrites the one that is
  still valid, and the next refresh is refused
  (`docs/data-api/prd-01-salesforce.md:42`: "Token refresh gere automatiquement");
  `store.ts:155` an ingest credential becomes the latest secret of an OAuth
  connection.

In `app-api`:

- `integration_sftp_runtime_worker.py:545` two runs of one SFTP connection plan
  from one state and load a file twice (`tasks/todo.md:4501` speaks of a
  checkpoint against imports done again); `SyncWorker` shows it with two
  `SftpRuns`, the runs have one. At 496 only the newest files are remembered.
- `integration_runtime_worker.py:1059` the retry of a run whose events have
  failed succeeds without them; at 743 events whose claim was answered to nobody
  stay in processing; at 1010 a commit whose answer is lost is not modelled.

In `app-symphony`:

- `codex-app-server.ts:593` a request for user input ends the service, not the
  attempt (`docs/specs/SPEC.md:1112`: "fail the run attempt immediately"): the
  handler terminates the transport and throws, and neither the answer nor the
  error can be written any more. The status "turn_input_required" is never told.
  The answer to a tool call that outlasts its attempt does the same.
- `codex-app-server.ts:882` a turn whose end is read together with the answer to
  `turn/start` is waited for until its timeout (`docs/specs/SPEC.md:988`:
  "`turn/completed` -> success"); so is one whose server has exited (992) or was
  aborted, and the issue keeps its slot as long.
- `codex-app-server.ts:811` an abort before the thread has started stops nothing
  until a turn has ended; a later one writes to a server that may have died
  unnoticed, which ends the service, as any write then does (`docs/specs/SPEC.md:1554`:
  "Subprocess exit" is a failure of the session).
- `codex-app-server.ts:346` the child has no listener for its error event: a
  workspace that is gone, or a process too many, ends the service
  (`docs/specs/SPEC.md:1831`: `fail_worker("agent session startup error")`).
- `orchestrator.ts:299` slots are counted before an await and taken after it
  (`docs/specs/SPEC.md:712`: "Global concurrency slots are available.").
- `orchestrator.ts:588` a failing lookup in a retry ends the process, where
  `docs/specs/SPEC.md:1907` schedules the retry again; so do a `stat` of
  `WORKFLOW.md` (215) and a removal of a workspace (510) that fail.
- `orchestrator.ts:567` a retry keeps the configuration of the attempt it
  repeats; at 327 a workspace whose `after_create` failed is used by the next
  attempt (`docs/specs/SPEC.md:875`); at 645 an issue reopened while its agent
  stops loses its workspace; at 82 callbacks go on after `stop` (not modelled).

In `app-api-ts`:

- `decisionops-runtime-store.ts:260` a call that read a ledger revision before a
  recalculation rewrites it after it was superseded
  (`docs/prd/decision-ledger-and-roi-proof-spec.md:176`); this is the race that
  `raced` stands for.
- `decisionops-runtime-approval.ts:500` a rejection cancels the dispatch only while
  it is pending, and `decidePersistentActionDispatch` looks at no approval: what was
  dispatched, failed or is to be retried still goes out after the rejection
  (`docs/prd/Praedixa_PRD_DecisionOps_PRD_final.md:1059`: "Une action au-dessus d’un
  seuil ne part jamais sans approbateur adéquat.").
- `decisionops-runtime-action.ts:61` a failed dispatch can be retried after its
  fallback was executed, which `canRetryAction` (162) denies;
  `decisionops-runtime.ts:330` the idempotency key of a decision never repeats.
- `admin-onboarding-runtime.ts:178` a sync that overlaps a cancellation revives the
  case, and at 134 one that overlaps another takes rows back (`clobbered`).
- `admin-onboarding.ts:595` the tasks of a cancelled case are shown as open until
  the next sync; `admin-onboarding-store.ts:639` two orders of locks, which
  Postgres may have to break (a rollback, which the model has);
  `admin-onboarding-runtime.ts:301` row locks are held while Camunda is called,
  and readers wait behind them (time is not modelled).

### Fairness

`raw_events`: the event loop goes on with a delivery that has begun. Nobody is
taken to claim an event or to report one.

`runtime_store`: the promise chain goes on and Postgres answers, with an error or
without.

`sync_worker_live`: a worker in watch mode polls, a process goes on with what it
has begun, and leases end. Faults are bounded, and the workers are faster than
their leases; slow ones can lose every lease.

`orchestrator_live`: timers fire; calls end, since the tracker, hooks and turns
have timeouts (git and the file system have none and are taken to answer);
agents end, which is what `AttemptEnds` shows for the protocol; a process that
died is started again. Only weak fairness: each of these stays enabled until it
happens. `EligibleGetsAgent` supposes besides (`Helpful`) that the tracker and the
preparation of a workspace do not fail for ever, as strong fairness of their
successes; without it no agent need ever start.

`agent_attempt`: promises go on, the timers of requests and turns fire, and the
tracker answers or fails within its timeout. The app server is owed nothing.

## 4. Proofs

Each `...Proofs` module proves, for every value of the constants that satisfies
the assumptions of its component, all the safety properties that the run of the
component checks. The bounds are constants too: the theorems hold whatever their
values, so that they also cover the behaviours that a run cuts off. (`AgentAttempt`
is proved about in `OrchestratorProofs`, which extends both modules.) In every module `Invariance` is `Spec => []IInv` for the inductive invariant `IInv`, shown
by one lemma for each action (or for each way in which actions change the
state); the theorems about invariants follow from it, and those about steps
(`[][A]_vars`) from `IInv` and a case for each action.

### SyncRuns

For any connections, keys, runs, limits, leases and budget that satisfy
`ConstantsAssumption`, whatever the bound of the clock:

| theorem | statement |
|---|---|
| `Invariance` | `Spec => []IInv`, the inductive invariant |
| `TypeCorrect` | `[]TypeOK` |
| `RunsSound` | `[]RunsAreSound`: one run for a key (`KeysAreSingle`), given out within its budget (`BudgetSafety`) |
| `LocksSound` | `LocksAreSound`: a lock is the newest grant and cursors are written in the order of grants (`GrantsFenced`); no lease is shortened, no lock passes before its lease is over (`LeasesHonoured`) |
| `ReportsKept` | `ReportsAreKept`: finished runs stay, retries wait |
| `Refinement` | `ImplementsQueue`: the table implements the abstract queue |

None of the invariants is inductive alone. `IInv` adds to the types:
a lock is held exactly with a lease and by a running run, and its token is the
newest (`LockIsNewestGrant`); the number of attempts is the number of grants, so
that the budget the code reads off a run counts every grant; a run that is not
running has no lock; an inline run is a running one without lease; and no sync
state was written by a grant that was not yet issued. With these a token that
`assertSyncRunOwnedByWorker` accepts is the newest of its run (`OwnerIsNewest`),
which gives fencing, and a refresh only moves a lease forward, which gives the
lease properties. The action properties follow step by step from `IInv`; the
refinement has one lemma for each action, which maps it to a step of the
abstract queue or to a stuttering step. `RetryWaits` rests
on a further invariant, on the times of waiting and running retries;
`OneRunPerKey` is inductive beside `IInv`, since only creation names a run.

### RawEvents

For any events, payloads, keys and batches and any finite set of deliveries
(`BatchAssumption`, which also has the batches nonempty, claim limits positive and
the providers' deliveries apart from the keys):

| theorem | statement |
|---|---|
| `TypeCorrect` | `[]TypeOK` |
| `EventsAreSingle` | `[]OneRecordPerEvent` |
| `EventsSettleOnce` | `SettledOnce` |
| `SuccessIsStored` | `[]SuccessStoresBatch` |
| `DeliveriesSound` | `[]DeliveriesAreSound`: accepted counts the records of a delivery, files hold what their records say, a failed push leaves no run running |

`IInv` adds to the types that a delivery at work is at an event of
its batch and that an event has been claimed once if it is no longer pending, and
not at all before; that no step makes an event pending again is what keeps claims
single. `OneRecordPerEvent` is inductive because `StoreEvent` looks into the table
in the step that inserts. `AdvancedOK` states what the loop of `persistRawEvents`
does up to its next `await`: it passes recorded events only. From it `SInv` is
kept: whatever a delivery at work has passed is recorded, and the batch of a push
is the one sent under its key; a run becomes successful only when its delivery has
passed the whole batch, and records stay (`RecordsStay`). Two more invariants
carry `DeliveriesSound`. `CInv` is the accounting: deliveries have orders of their
own (`OrdersApart`), every record has the order of one of them, and `accepted` is
the number of those records (`Counted`), while accepted and duplicates together
are the position in the batch (`Tally`). `FInv` is about the files: two deliveries
are writing one event only if it is in `contended`; a delivery that writes an
event alone finds no record of it (`Guarded`) and its file as it left it
(`Filled`).

### RuntimeStore

For any processes, one of which is never `Nobody` (`NobodyAssumption`, `Nobody`
being no process), and any bound on the writes:

| theorem | statement |
|---|---|
| `TypeCorrect` | `[]TypeOK` |
| `RestartsSound` | `[]RestartsAreSound`: one process serves, what is saved is a state of it, references have their secrets |
| `DurableStateImplemented` | `ImplementsDurableState`: processes, jobs and statements implement the abstract state |
| `SavedStays` | `SavedStaysSaved`: the saved snapshot is never replaced by one that does not extend it |

`ProcessOK` says what a process has in each phase: whoever is not down has
the advisory lock, so that one process at most has a memory; its memory leads on
from the saved row. `StatementOK` puts the snapshot on its way between the two:
the row is a prefix of it and it is a prefix of the memory. That is why a job
that settles late cannot take the row back. A secret that the memory or the row
refers to is `Accounted`: its row exists, its insertion is among the jobs, or it
is one of the `missed`; a job that ends moves its secret to the first or to the
third, and so does a crash, whose statement may have been executed. `SavedStays` is
the safety half of `WritesLast`.

The refinement needs more than `IInv`, which allows a chain to end before the memory
is saved. `CaughtUp` says that the last job of a chain that is not done is a snapshot,
that the statement of a last job has all of the memory, and that with no job left
the row is the memory. It is kept because each mutator appends its snapshot behind
everything else. A refused statement breaks it only where no other job follows,
and there the process ends. With it `Close` is the abstract `Shut`, and each other
action has a lemma that maps it to a step of `DurableState` or to none.

### Connections

For any calls, with or without rotation and ingest credentials, whatever the
bounds on operators' acts (at least one), sessions and tokens
(`ConnectionsAssumption`):

| theorem | statement |
|---|---|
| `TypeCorrect` | `[]TypeOK` |
| `NewestIsUsed` | `[]NewestEntryIsUsed` |
| `SessionIsKept` | `[]AwaitedSessionExists` |
| `StoredTokenLives` | `[]StoredTokenIsLive` |

`StoredTokenIsLive` is not inductive: it does not say what the answers on their way
will store. `AnswersAreNew` says that a token in an answer that has not arrived
is nowhere else and, if it can be refreshed, still accepted; `AttachedIsLive` is the
property with the one answer that may repair it, that of a refresh with the
stored token. `CallsFollow` does the same for `NewestEntryIsUsed`: while no entry
was overtaken, whatever is at the provider descends from the newest entry or is
itself newer.

### SyncWorker

For any workers, runs of either kind, events, files, limits and faults, with fast
or slow workers, whatever they present (`WorkerAssumption`):

| theorem | statement |
|---|---|
| `TypeCorrect` | `[]TypeOK` |
| `LoadsSound` | `[]LoadsAreSound`: no event is committed twice, statuses tell the truth, no file is put aside before it is loaded |
| `EventsAreHeld` | `[]NothingStranded` |
| `WorkSettled` | `[]WorkIsSettled`, where the connection with files has one run |

`Owns` is the set of events that a worker has still to settle: those it has
claimed before its commit, those it has not acknowledged after it, those it has
to fail. `CourseOK` says what a worker has at each place, and `EventsOK` that
the events of a worker are in processing and no other worker's, that their rows are
committed exactly if the worker is past its commit, and that an event in
processing has such a worker unless something has failed. A lease that ends
takes nothing of this away, which is why two workers on one run load no event
twice: what keeps them apart is the claim of the event. `StepIInv` states once what a
step of one worker owes to the others, and each action has a lemma that pays it.
`FilesOK` is that whatever a worker plans to remember has been loaded.

`WorkSettled` rests on a second invariant, `FilesSettle`: the sync state that a
worker which owns its run is about to save contains the one that is saved. Only
the save itself (`UpsertSyncStateSettle`) needs that there is one run, and
only there: a second run would save a state that it planned from an older one, and a
file that the first could not move away would be forgotten.

### Orchestrator

For any issues, blockers, states and limits (the five assumptions of the module):

| theorem | statement |
|---|---|
| `TypeCorrect` | `[]TypeOK` |
| `ClaimsSound` | `[]ClaimsAreSound`: a claim has exactly one owner, agents are tracked |
| `IssueClaimsImplemented` | `ImplementsIssueClaims`: the maps implement one claim per issue |
| `RemovalSpares` | `RemovalSparesAgents`: no workspace is removed under an agent or a preparation |

`ClaimHasOneOwner` counts the owners of a claim. `OneOwner` replaces the count by
what the steps keep: an issue is claimed exactly if it has a dispatch, a lookup,
an agent, a retry or a removal, and each of these excludes the others; `OneEach`
says that there is one of each kind at most. A step hands a claim from one
owner to the next or drops it, so that `Ownership` needs nothing but types.
The issues that a step iterates over are taken least first, which rests on the
well-foundedness of the natural numbers (`LeastOf`). For the refinement
`InItsStage` reads the stage of an issue off the one map that `OneOwner` leaves it;
a step changes the stage of one issue (`OnePasses`, `SameStage`), but for the two
halves of `reconcileRunningIssues`, which may stop many agents at once.

### AgentAttempt

For any number of turns, any kinds of requests and any bounds on requests and
unread lines that satisfy `AttemptAssumption`:

| theorem | statement |
|---|---|
| `AttemptInvariant` | `[]AttemptIInv`, the inductive invariant |
| `AttemptTypeCorrect` | `[]AttemptTypeOK` |
| `AttemptOutcome` | `[]OutcomeIsTrue`: the status tells what became of the turns |
| `AttemptContained` | `[]AttemptIsContained`: the server does not outlive its attempt, and the service dies only if the server could not be started, had died unnoticed, or is left with a request that could not be answered |

`CallCounting`: while the service lives, the requests that nobody has answered
are the lines that wait in the pipe and the tools at work, which is why a service
that an unwritable answer has ended leaves one unanswered. `TurnProtocol`: what the
attempt awaits says what the pipe may hold. A `turn/start` is answered once
(`StartsOnce`), a turn ends once and as its line says (`EndsOnce`), and a turn that is
over while the attempt still waits for it has its end in the pipe or has been
`missed`. That a chunk is handled line by line, without a fold, is what makes one
line a step of the induction.

### DecisionOps

For any sessions, any number of steps, attempts, revisions and validations
(`NStepsAssumption` and its four companions):

| theorem | statement |
|---|---|
| `TypeCorrect` | `[]TypeOK` |
| `RecordsSound` | `[]RecordsAreSound`: attempts are legal, tables agree until a race |
| `NoDeadlock` | `[]NoCircularWait` |
| `CommittedKept` | `CommittedIsKept`: nothing committed is undone but by a transaction that had read it before |

`IInv` says of each transaction (`TxOK`) where it can be and which rows it has
written (`CourseOK`: its locks are `Held`), that the record it is about to save is
legal (`Legal`, which is `AttemptsAreLegal` of any record), that it saves the last
revision or one that no other saves meanwhile (`RevisionOK`), and that, while
nobody has committed on what it has read, what it will save follows from the
tables as they are (`FollowsFrom`); no two transactions have a lock in common
(`LocksApart`). For `NoDeadlock` the rows are ordered, approvals by their step, then
the action, then the ledger: a transaction that waits for a row has only
earlier ones (`HoldsOnlyEarlier`), so that among those that wait on one another the
one that waits for the last row cannot exist. This holds for any number
of sessions, where the run has two.

### Onboarding

For any finite set of requests that does not contain `NoOne`, at least three
tasks, and any numbers of drafts and faults (`OnboardingAssumption`); neither
`UntilClobbered` nor `FirstDraft` is assumed:

| theorem | statement |
|---|---|
| `TypeCorrect` | `[]TypeOK` |
| `CompletionRecorded` | `[]CompletionIsRecorded` |
| `CaseTrue` | `[]CaseIsTrue` |
| `NothingTakenBack` | `NothingIsTakenBack` |

The parts of `IInv`. `LocksOK`: which requests hold the locks can be read off where
they are (`Holds`), so that one at most is past its first write. `LifeOK`: the
process and the case are created by one request, and all others come after it.
`TablesOK`: rows show as done only what Camunda's search has shown, and a status
is the one of the rows beside it or final. `ReadsOK`: what a request has read for
its sync is what is there (`Current`), unless another one has committed since
(`stale`) and it has no lock yet; from it the rows that a sync writes take
nothing back (`SyncedOK`, with `Keeps`), and `WorkKeeps` carries that to the commit,
whatever is written after the sync. `RecordsOK`: each task that Camunda has
completed is recorded in the case, was lost with its transaction (`broken`), was
overwritten (`clobbered`), or is recorded in the rows of the request that is
about to commit it. `CancelsOK`: whoever shows the case as cancelled, or is
about to, has canceled the process or has left it in `loose`.

### Only model-checked

- Liveness: `DeliveriesEnd`, `WritesAreSaved` in `WritesLast`, `WorkGoesOn`,
  `AttemptEnds`, `RunsEnd`. TLAPS proves no liveness under fairness. All invariants
  and all safety properties of steps that the runs check are proved.
- `SuccessIsSettled` for several runs of the connection with files: it is false
  there (`integration_sftp_runtime_worker.py:545`, section 3).

## 5. Plan

1. `Medallion`: watermarks of the bronze layer, quarantine and replay, the
   single-instance lock of the orchestrator script.
2. `Erasure`: the two-person RGPD erasure and what a crash between its steps leaves.
3. Cursor values in `SyncRuns`, for two runs that write one sync state.

## 6. Not modelled

Data itself (cursors, payload contents, forecasts, scores), wording and layout,
user interfaces, routing and authentication, static catalogues and schemas,
deployment. They have no interleavings of their own, or a model would restate
them. Most of the repository's lines are of this kind. Components with this
status are listed with the reason in `PROJECT.json`.
