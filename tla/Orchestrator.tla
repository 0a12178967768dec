----------------------------- MODULE Orchestrator ----------------------------
(***************************************************************************)
(* The scheduler of app-symphony: SymphonyOrchestrator of orchestrator.ts. *)
(*                                                                         *)
(* It polls an issue tracker and keeps one coding agent at work on each    *)
(* active issue, in a workspace of the issue.  Four kinds of callback      *)
(* interleave at their awaits: the poll tick, the retry timers, the ends   *)
(* of agents, and the start of the service.  They share the maps running,  *)
(* claimed and retries.                                                    *)
(*                                                                         *)
(* Abstracted: time (a timer that is set may fire), the numbers of         *)
(* attempts and the delays they give, what an agent does and when it ends, *)
(* and the abort signal, which makes it end sooner.  Agents are taken to   *)
(* end with the process of the service.                                    *)
(***************************************************************************)
EXTENDS Integers, FiniteSets, FiniteSetsExt, Functions

CONSTANTS
    Issues,     \* issues of the tracker, in the order of dispatch
    BlockedBy,  \* BlockedBy[i]: the issues that block i
    Limits,     \* values of max_concurrent_agents that WORKFLOW.md may have
    StateLimit, \* max_concurrent_agents_by_state
    Used,       \* the states that the issues of the tracker take
    Faults      \* what may end the process: "kill", and a failure of the
                \* calls "lookup", "stat" and "remove"

ActiveStates == {"todo", "in progress"}

States == ActiveStates \cup {"backlog", "done"}

ASSUME IssuesAssumption == Issues \subseteq Nat

ASSUME BlockedByAssumption == BlockedBy \in [Issues -> SUBSET Issues]

ASSUME LimitsAssumption == Limits \subseteq Nat \ {0} /\ Limits # {}

ASSUME UsedAssumption == Used \subseteq States

ASSUME StateLimitAssumption == StateLimit \in [ActiveStates -> Nat \ {0}]

VARIABLES
    tracker,     \* the state of each issue in the tracker
    file,        \* the limit in WORKFLOW.md
    config,      \* the limit of the snapshot that WorkflowRuntime has
    phase,       \* of the service
    cleaning,    \* issues whose workspaces the startup cleanup will remove
    timer,       \* tickTimer is set
    queued,      \* queuedImmediateTick
    tick,        \* where the poll tick is, and what it has read
    claimed,     \* the set of issues of that name
    running,     \* the map of that name, from issues to entries
    retries,     \* the map of that name; an entry is the limit that the
                 \* timer's closure has
    lookups,     \* calls of handleRetry that wait for the tracker
    dispatching, \* calls of dispatchIssue that prepare a workspace
    removing,    \* issues whose agent has ended and whose workspace goes
    agents,      \* how many agents each issue has
    workspace    \* the workspace of each issue

volatile == <<cleaning, timer, queued, tick, claimed, running, retries,
              lookups, dispatching, removing, agents>>

vars == <<tracker, file, config, phase, volatile, workspace>>

\* RunningEntry: the issue's state as last read, why it was told to stop, and
\* the limit that the closure around its agent has.
Entry == [state : States, stop : {"none", "terminal", "inactive", "stalled"},
          config : Limits]

Lookup == [issue : Issues, config : Limits]

Dispatch == [issue : Issues, by : {"tick", "retry"}, state : ActiveStates,
             config : Limits, step : {"ensure", "afterCreate", "beforeRun"}]

NoTick == [pc |-> "idle", config |-> 0, asked |-> {}, left |-> <<>>]

TypeOK ==
    /\ tracker \in [Issues -> Used]
    /\ file \in Limits /\ config \in Limits
    /\ phase \in {"down", "starting", "cleaning", "up"}
    /\ cleaning \subseteq Issues
    /\ timer \in BOOLEAN /\ queued \in BOOLEAN
    /\ tick.pc \in {"idle", "reload", "reconcile", "fetch", "dispatch"}
    /\ tick.pc \in {"reconcile", "fetch", "dispatch"} => tick.config \in Limits
    /\ tick.asked \subseteq Issues /\ DOMAIN tick.left \subseteq Issues
    /\ \A i \in DOMAIN tick.left : tick.left[i] \in ActiveStates
    /\ claimed \subseteq Issues
    /\ DOMAIN running \subseteq Issues
    /\ \A i \in DOMAIN running : running[i] \in Entry
    /\ DOMAIN retries \subseteq Issues
    /\ \A i \in DOMAIN retries : retries[i] \in Limits
    /\ lookups \subseteq Lookup
    /\ dispatching \subseteq Dispatch
    /\ removing \subseteq Issues
    /\ agents \in [Issues -> Nat]
    /\ workspace \in [Issues -> {"none", "bare", "ready"}]

\* Map.set and Map.delete.
Put(map, i, v) == [j \in DOMAIN map \cup {i} |-> IF j = i THEN v ELSE map[j]]

Drop(map, i) == Restrict(map, DOMAIN map \ {i})

Up == phase # "down"

-----------------------------------------------------------------------------
(* What the callbacks share *)

\* A todo issue waits for its blockers.
Blocked(i) == tracker[i] = "todo" /\ \E b \in BlockedBy[i] : tracker[b] # "done"

\* Seeded fault: issues in any state are candidates.
EligibleAnyState(i) == ~Blocked(i)

Eligible(i) == tracker[i] \in ActiveStates /\ ~Blocked(i)

\* Seeded fault: claims are not looked at.
CanDispatchClaimed(i, state, limit, mine) ==
    /\ i \notin DOMAIN running
    /\ Cardinality(DOMAIN running) < limit
    /\ Cardinality({j \in DOMAIN running : running[j].state = state})
         < StateLimit[state]

\* canDispatch of an issue that the tracker had in this active state and did
\* not show as blocked; a retry takes an issue that is claimed (mine).
CanDispatch(i, state, limit, mine) ==
    /\ i \notin DOMAIN running
    /\ i \notin claimed \/ mine
    /\ Cardinality(DOMAIN running) < limit
    /\ Cardinality({j \in DOMAIN running : running[j].state = state})
         < StateLimit[state]

\* The first part of dispatchIssue, up to its first await.
BeginDispatch(i, by, state, limit) ==
    /\ claimed' = claimed \cup {i}
    /\ retries' = Drop(retries, i)
    /\ dispatching' = dispatching \cup
            {[issue |-> i, by |-> by, state |-> state, config |-> limit,
              step |-> "ensure"]}

ScheduleRetry(i, limit) == retries' = Put(retries, i, limit)

\* requestImmediateTick.
RequestTick ==
    IF tick.pc # "idle" THEN queued' = TRUE /\ UNCHANGED timer
                        ELSE timer' = TRUE /\ UNCHANGED queued

-----------------------------------------------------------------------------
(* The service *)

\* A new process: it loads the workflow and serves before it cleans up.
Start ==
    /\ phase = "down"
    /\ phase' = "starting"
    /\ config' = file
    /\ UNCHANGED <<tracker, file, volatile, workspace>>

\* startupTerminalWorkspaceCleanup, once the tracker has answered or failed.
CleanupFetched ==
    /\ phase = "starting"
    /\ phase' = "cleaning"
    /\ cleaning' \in {{i \in Issues : tracker[i] = "done"}, {}}
    /\ UNCHANGED <<tracker, file, config, timer, queued, tick, claimed, running,
                   retries, lookups, dispatching, removing, agents, workspace>>

\* One round of its loop; a removal that fails is passed over.
CleanWorkspace ==
    /\ phase = "cleaning" /\ cleaning # {}
    /\ cleaning' = cleaning \ {Min(cleaning)}
    /\ workspace' \in {[workspace EXCEPT ![Min(cleaning)] = "none"], workspace}
    /\ UNCHANGED <<tracker, file, config, phase, timer, queued, tick, claimed,
                   running, retries, lookups, dispatching, removing, agents>>

\* The end of start.
Started ==
    /\ phase = "cleaning" /\ cleaning = {}
    /\ phase' = "up"
    /\ timer' = TRUE
    /\ UNCHANGED <<tracker, file, config, cleaning, queued, tick, claimed,
                   running, retries, lookups, dispatching, removing, agents,
                   workspace>>

\* The process ends; what it had in memory and its agents go with it.
Gone ==
    /\ phase' = "down"
    /\ cleaning' = {} /\ timer' = FALSE /\ queued' = FALSE /\ tick' = NoTick
    /\ claimed' = {} /\ running' = <<>> /\ retries' = <<>>
    /\ lookups' = {} /\ dispatching' = {} /\ removing' = {}
    /\ agents' = [i \in Issues |-> 0]

\* A signal (stop, then exit) or a crash.
Killed ==
    /\ Up /\ "kill" \in Faults
    /\ Gone
    /\ UNCHANGED <<tracker, file, config, workspace>>

\* POST /api/v1/refresh.
Refresh ==
    /\ Up
    /\ RequestTick
    /\ UNCHANGED <<tracker, file, config, phase, cleaning, tick, claimed,
                   running, retries, lookups, dispatching, removing, agents,
                   workspace>>

\* The watch of WORKFLOW.md: reloadIfChanged, then requestImmediateTick.
WorkflowChanged ==
    /\ Up /\ config # file
    /\ config' = file
    /\ RequestTick
    /\ UNCHANGED <<tracker, file, phase, cleaning, tick, claimed, running,
                   retries, lookups, dispatching, removing, agents, workspace>>

-----------------------------------------------------------------------------
(* The poll tick *)

TickFires ==
    /\ Up /\ timer
    /\ timer' = FALSE
    /\ IF tick.pc # "idle"
       THEN queued' = TRUE /\ UNCHANGED tick
       ELSE tick' = [tick EXCEPT !.pc = "reload"] /\ UNCHANGED queued
    /\ UNCHANGED <<tracker, file, config, phase, cleaning, claimed, running,
                   retries, lookups, dispatching, removing, agents, workspace>>

\* reloadIfChanged has answered, with the last good snapshot when the new file
\* is not valid.  reconcileRunningIssues stops the agents that have stalled and
\* asks the tracker about those that run.
TickReloads(stalled) ==
    /\ tick.pc = "reload"
    /\ config' \in {file, config}
    /\ running' = [i \in DOMAIN running |->
            IF i \in stalled THEN [running[i] EXCEPT !.stop = "stalled"]
                             ELSE running[i]]
    /\ tick' = [tick EXCEPT
            !.pc = IF running = <<>> THEN "fetch" ELSE "reconcile",
            !.config = config',
            !.asked = DOMAIN running]
    /\ UNCHANGED <<tracker, file, phase, cleaning, timer, queued, claimed,
                   retries, lookups, dispatching, removing, agents, workspace>>

\* stat of WORKFLOW.md fails, in the tick or in the watch (an editor may
\* replace the file): it is outside any try, and the rejection has no handler,
\* which ends a Node process.
StatFails ==
    /\ Up /\ "stat" \in Faults
    /\ tick.pc = "reload" \/ config # file
    /\ Gone
    /\ UNCHANGED <<tracker, file, config, workspace>>

\* Seeded fault: any change of the state stops the agent for good.
ReconciledOnChange(entry, state) ==
    [entry EXCEPT !.state = state,
                  !.stop = IF state # entry.state THEN "inactive" ELSE @]

\* The entry of an issue that the tracker has in this state.
Reconciled(entry, state) ==
    [entry EXCEPT !.state = state,
                  !.stop = CASE state = "done"    -> "terminal"
                             [] state = "backlog" -> "inactive"
                             [] OTHER             -> @]

\* The tracker has answered reconcileRunningIssues with the issues it found.
TickReconciles(found) ==
    /\ tick.pc = "reconcile"
    /\ found \subseteq tick.asked
    /\ running' = [i \in DOMAIN running |->
            IF i \in found THEN Reconciled(running[i], tracker[i])
                           ELSE running[i]]
    /\ tick' = [tick EXCEPT !.pc = "fetch", !.asked = {}]
    /\ UNCHANGED <<tracker, file, config, phase, cleaning, timer, queued,
                   claimed, retries, lookups, dispatching, removing, agents,
                   workspace>>

\* fetchCandidateIssues has answered.
TickFetches ==
    /\ tick.pc = "fetch"
    /\ tick' = [tick EXCEPT
            !.pc = "dispatch",
            !.left = [i \in {j \in Issues : Eligible(j)} |-> tracker[i]]]
    /\ UNCHANGED <<tracker, file, config, phase, cleaning, timer, queued,
                   claimed, running, retries, lookups, dispatching, removing,
                   agents, workspace>>

InDispatch == \E d \in dispatching : d.by = "tick"

\* The issues left that canDispatch admits now.
Dispatchable ==
    {i \in DOMAIN tick.left :
        CanDispatch(i, tick.left[i], tick.config, FALSE)}

\* The loop of tick comes to the next issue that it can dispatch.
TickDispatches ==
    /\ tick.pc = "dispatch" /\ ~InDispatch
    /\ Dispatchable # {}
    /\ LET i == Min(Dispatchable)
       IN /\ BeginDispatch(i, "tick", tick.left[i], tick.config)
          /\ tick' = [tick EXCEPT !.left = Restrict(@, {j \in DOMAIN @ : j > i})]
    /\ UNCHANGED <<tracker, file, config, phase, cleaning, timer, queued,
                   running, lookups, removing, agents, workspace>>

\* The finally of tick: the next one is scheduled, at once or in an interval.
FinishTick ==
    /\ tick' = NoTick
    /\ timer' = TRUE
    /\ queued' = FALSE

TickEnds ==
    /\ tick.pc = "dispatch" /\ ~InDispatch
    /\ Dispatchable = {}
    /\ FinishTick
    /\ UNCHANGED <<tracker, file, config, phase, cleaning, claimed, running,
                   retries, lookups, dispatching, removing, agents, workspace>>

\* The tracker fails, or the configuration is not valid.
TickFails ==
    /\ tick.pc \in {"reconcile", "fetch"}
    /\ FinishTick
    /\ UNCHANGED <<tracker, file, config, phase, cleaning, claimed, running,
                   retries, lookups, dispatching, removing, agents, workspace>>

-----------------------------------------------------------------------------
(* dispatchIssue *)

Step(d, step) == dispatching' = (dispatching \ {d}) \cup {[d EXCEPT !.step = step]}

\* ensureWorkspace; only a workspace created now goes through afterCreate.
EnsureWorkspace(d) ==
    /\ d.step = "ensure"
    /\ workspace' = [workspace EXCEPT ![d.issue] = IF @ = "none" THEN "bare" ELSE @]
    /\ Step(d, IF workspace[d.issue] = "none" THEN "afterCreate" ELSE "beforeRun")
    /\ UNCHANGED <<tracker, file, config, phase, cleaning, timer, queued, tick,
                   claimed, running, retries, lookups, removing, agents>>

AfterCreate(d) ==
    /\ d.step = "afterCreate"
    /\ workspace' = [workspace EXCEPT ![d.issue] = "ready"]
    /\ Step(d, "beforeRun")
    /\ UNCHANGED <<tracker, file, config, phase, cleaning, timer, queued, tick,
                   claimed, running, retries, lookups, removing, agents>>

\* beforeRun succeeds: the entry is made and the agent starts.
StartAgent(d) ==
    /\ d.step = "beforeRun"
    /\ dispatching' = dispatching \ {d}
    /\ running' = Put(running, d.issue,
                      [state |-> d.state, stop |-> "none", config |-> d.config])
    /\ agents' = [agents EXCEPT ![d.issue] = @ + 1]
    /\ UNCHANGED <<tracker, file, config, phase, cleaning, timer, queued, tick,
                   claimed, retries, lookups, removing, workspace>>

\* Seeded fault: no retry is scheduled.
PrepareFailsForGood(d) ==
    /\ dispatching' = dispatching \ {d}
    /\ UNCHANGED <<tracker, file, config, phase, cleaning, timer, queued, tick,
                   claimed, running, retries, lookups, removing, agents, workspace>>

\* A step of the preparation fails; ensureWorkspace may have made the
\* directory already.
PrepareFails(d) ==
    /\ dispatching' = dispatching \ {d}
    /\ ScheduleRetry(d.issue, d.config)
    /\ \/ UNCHANGED workspace
       \/ /\ d.step = "ensure" /\ workspace[d.issue] = "none"
          /\ workspace' = [workspace EXCEPT ![d.issue] = "bare"]
    /\ UNCHANGED <<tracker, file, config, phase, cleaning, timer, queued, tick,
                   claimed, running, lookups, removing, agents>>

-----------------------------------------------------------------------------
(* Ends of agents, retries *)

\* Seeded fault: the entry of a terminal issue stays until the workspace is
\* gone, and the claim is given up at once.
AgentEndsEarly(i) ==
    /\ agents[i] > 0 /\ i \in DOMAIN running
    /\ agents' = [agents EXCEPT ![i] = @ - 1]
    /\ running' = Drop(running, i)
    /\ IF running[i].stop = "terminal"
       THEN removing' = removing \cup {i} /\ claimed' = claimed \ {i}
            /\ UNCHANGED retries
       ELSE IF running[i].stop = "inactive"
       THEN claimed' = claimed \ {i} /\ UNCHANGED <<removing, retries>>
       ELSE ScheduleRetry(i, running[i].config) /\ UNCHANGED <<claimed, removing>>
    /\ UNCHANGED <<tracker, file, config, phase, cleaning, timer, queued, tick,
                   lookups, dispatching, workspace>>

\* An agent has ended, however, and afterRun with it: handleWorkerFinished.
AgentEnds(i) ==
    /\ agents[i] > 0 /\ i \in DOMAIN running
    /\ agents' = [agents EXCEPT ![i] = @ - 1]
    /\ running' = Drop(running, i)
    /\ IF running[i].stop = "terminal"
       THEN removing' = removing \cup {i} /\ UNCHANGED <<claimed, retries>>
       ELSE IF running[i].stop = "inactive"
       THEN claimed' = claimed \ {i} /\ UNCHANGED <<removing, retries>>
       ELSE ScheduleRetry(i, running[i].config) /\ UNCHANGED <<claimed, removing>>
    /\ UNCHANGED <<tracker, file, config, phase, cleaning, timer, queued, tick,
                   lookups, dispatching, workspace>>

\* removeWorkspace after an agent stopped for a terminal state.
RemoveWorkspace(i) ==
    /\ i \in removing
    /\ removing' = removing \ {i}
    /\ workspace' = [workspace EXCEPT ![i] = "none"]
    /\ claimed' = claimed \ {i}
    /\ UNCHANGED <<tracker, file, config, phase, cleaning, timer, queued, tick,
                   running, retries, lookups, dispatching, agents>>

\* It fails: the rejection of handleWorkerFinished has no handler.
RemoveFails(i) ==
    /\ i \in removing /\ "remove" \in Faults
    /\ Gone
    /\ UNCHANGED <<tracker, file, config, workspace>>

\* The timer of a retry: handleRetry up to its await.
RetryFires(i) ==
    /\ i \in DOMAIN retries
    /\ retries' = Drop(retries, i)
    /\ lookups' = lookups \cup {[issue |-> i, config |-> retries[i]]}
    /\ UNCHANGED <<tracker, file, config, phase, cleaning, timer, queued, tick,
                   claimed, running, dispatching, removing, agents, workspace>>

\* The tracker has answered handleRetry.
RetryLooksUp(l) ==
    /\ lookups' = lookups \ {l}
    /\ IF tracker[l.issue] \notin ActiveStates
       THEN claimed' = claimed \ {l.issue} /\ UNCHANGED <<dispatching, retries>>
       ELSE IF /\ ~Blocked(l.issue)
               /\ CanDispatch(l.issue, tracker[l.issue], l.config, TRUE)
       THEN BeginDispatch(l.issue, "retry", tracker[l.issue], l.config)
       ELSE ScheduleRetry(l.issue, l.config) /\ UNCHANGED <<claimed, dispatching>>
    /\ UNCHANGED <<tracker, file, config, phase, cleaning, timer, queued, tick,
                   running, removing, agents, workspace>>

\* It has failed: the rejection of handleRetry has no handler.
LookupFails(l) ==
    /\ l \in lookups /\ "lookup" \in Faults
    /\ Gone
    /\ UNCHANGED <<tracker, file, config, workspace>>

-----------------------------------------------------------------------------
(* The people around it *)

\* An issue changes its state, by its people or by its agent.
MoveIssue(i, state) ==
    /\ tracker[i] # state
    /\ tracker' = [tracker EXCEPT ![i] = state]
    /\ UNCHANGED <<file, config, phase, volatile, workspace>>

EditWorkflow(limit) ==
    /\ file # limit
    /\ file' = limit
    /\ UNCHANGED <<tracker, config, phase, volatile, workspace>>

Init ==
    /\ tracker \in [Issues -> Used]
    /\ file \in Limits /\ config = file
    /\ phase = "down"
    /\ cleaning = {} /\ timer = FALSE /\ queued = FALSE /\ tick = NoTick
    /\ claimed = {} /\ running = <<>> /\ retries = <<>>
    /\ lookups = {} /\ dispatching = {} /\ removing = {}
    /\ agents = [i \in Issues |-> 0]
    /\ workspace = [i \in Issues |-> "none"]

StartNext == Start \/ CleanupFetched \/ CleanWorkspace \/ Started

TickNext ==
    \/ TickFires
    \/ \E S \in SUBSET DOMAIN running : TickReloads(S)
    \/ \E S \in SUBSET tick.asked : TickReconciles(S)
    \/ TickFetches \/ TickDispatches \/ TickEnds \/ TickFails

DispatchNext(d) ==
    EnsureWorkspace(d) \/ AfterCreate(d) \/ StartAgent(d) \/ PrepareFails(d)

RetryNext(i) ==
    \/ RetryFires(i)
    \/ \E l \in lookups : l.issue = i /\ RetryLooksUp(l)

FaultNext ==
    \/ Killed \/ StatFails
    \/ \E i \in removing : RemoveFails(i)
    \/ \E l \in lookups : LookupFails(l)

PeopleNext ==
    \/ Refresh \/ WorkflowChanged
    \/ \E i \in Issues, state \in Used : MoveIssue(i, state)
    \/ \E limit \in Limits : EditWorkflow(limit)

Next ==
    \/ StartNext \/ TickNext \/ FaultNext \/ PeopleNext
    \/ \E d \in dispatching : DispatchNext(d)
    \/ \E i \in Issues : AgentEnds(i) \/ RemoveWorkspace(i) \/ RetryNext(i)

Spec == Init /\ [][Next]_vars

\* Timers fire, calls end (each has a timeout), agents end (their turns are
\* bounded in number and in time), a process that died is started again.
FairSpec ==
    /\ Spec
    /\ WF_vars(StartNext) /\ WF_vars(TickNext)
    /\ \A i \in Issues :
        /\ WF_vars(\E d \in dispatching : d.issue = i /\ DispatchNext(d))
        /\ WF_vars(AgentEnds(i)) /\ WF_vars(RemoveWorkspace(i))
        /\ WF_vars(RetryNext(i))

\* The tracker and the preparation of a workspace do not fail for ever.
Helpful ==
    /\ SF_vars(\E S \in SUBSET tick.asked : TickReconciles(S))
    /\ SF_vars(TickFetches)
    /\ \A i \in Issues :
        /\ SF_vars(\E d \in dispatching : d.issue = i /\ EnsureWorkspace(d))
        /\ SF_vars(\E d \in dispatching : d.issue = i /\ AfterCreate(d))
        /\ SF_vars(\E d \in dispatching : d.issue = i /\ StartAgent(d))

-----------------------------------------------------------------------------
(* Properties *)

\* The callbacks in progress that answer for an issue.
Owners(i) ==
    Cardinality({d \in dispatching : d.issue = i})
    + Cardinality({l \in lookups : l.issue = i})
    + (IF i \in DOMAIN running THEN 1 ELSE 0)
    + (IF i \in DOMAIN retries THEN 1 ELSE 0)
    + (IF i \in removing THEN 1 ELSE 0)

\* A claim has exactly one of an agent, a retry or a callback to give it up;
\* an issue that none of them holds can be dispatched again.  No interleaving
\* leaks a claim or lets two of them act for one issue.
ClaimHasOneOwner ==
    \A i \in Issues : Owners(i) = IF i \in claimed THEN 1 ELSE 0

\* At most one agent works on an issue, and the orchestrator has its entry, so
\* that it can stop it.
AgentsAreTracked ==
    \A i \in Issues : agents[i] = IF i \in DOMAIN running THEN 1 ELSE 0

\* Each issue has at most one actor at a time, which the orchestrator can find.
ClaimsAreSound == ClaimHasOneOwner /\ AgentsAreTracked

\* Once started, the service removes no workspace that an agent uses or that
\* is being prepared for one.
RemovalSparesAgents ==
    [][\A i \in Issues :
        phase = "up" /\ workspace[i] # "none" /\ workspace'[i] = "none"
            => agents[i] = 0 /\ \A d \in dispatching : d.issue # i]_vars

\* Polling goes on: whatever ticks are asked for while another runs, and
\* whatever fails, a service that stays up reloads and polls again.
PollingGoesOn == []<>(phase = "up" => tick.pc = "reload")

\* An issue that is done and stays so loses its claim.
DoneIsReleased ==
    \A i \in Issues :
        i \in claimed /\ tracker[i] = "done"
            ~> i \notin claimed \/ tracker[i] # "done"

\* With slots for all, an issue that stays active and not blocked gets an
\* agent, through any number of failed attempts, if they do not fail for ever
\* and the service stays up.
EligibleGetsAgent ==
    Helpful => \A i \in Issues :
        Eligible(i) ~> agents[i] > 0 \/ ~Eligible(i) \/ phase = "down"

\* An issue gets what its state calls for in the end: an agent or its release.
IssuesAreServed == DoneIsReleased /\ EligibleGetsAgent

\* The scheduler goes on polling and serving.
WorkGoesOn == PollingGoesOn /\ IssuesAreServed

\* The abstract stage of the claim on an issue.
StageOf(i) ==
    CASE i \notin claimed                       -> "unclaimed"
      [] \E d \in dispatching : d.issue = i     -> "preparing"
      [] i \in DOMAIN running ->
            IF running[i].stop \in {"terminal", "inactive"} THEN "stopping"
                                                          ELSE "running"
      [] \E l \in lookups : l.issue = i         -> "lookup"
      [] i \in DOMAIN retries                   -> "retry"
      [] OTHER                                  -> "removing"

Claims == INSTANCE IssueClaims WITH
    stage  <- [i \in Issues |-> StageOf(i)],
    active <- {i \in Issues : tracker[i] \in ActiveStates}

\* The maps that the callbacks share are one state machine for each issue
\* (docs/specs/SPEC.md, 7.1): a claim that is taken is kept, through attempts
\* and retries, until a retry finds the issue out of the active states, an
\* agent stops that was told to when the issue was, or the service dies.
ImplementsIssueClaims == Claims!ClaimsSpec
=============================================================================
