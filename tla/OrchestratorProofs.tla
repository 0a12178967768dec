------------------------- MODULE OrchestratorProofs -------------------------
(* Theorems about Orchestrator and about AgentAttempt, for every value of  *)
(* their constants.                                                        *)
EXTENDS Orchestrator, AgentAttempt, FiniteSetTheorems, FunctionTheorems,
        WellFoundedInduction, TLAPS

(***************************************************************************)
(* The inductive invariant.                                                *)
(*                                                                         *)
(* ClaimHasOneOwner counts the owners of a claim.  That the count is one   *)
(* says which of them exclude each other, and this is what the steps keep: *)
(* a step hands the claim from one owner to the next.                      *)
(***************************************************************************)
HasDispatch(i) == \E d \in dispatching : d.issue = i

HasLookup(i) == \E l \in lookups : l.issue = i

OneEach ==
    /\ \A d, e \in dispatching : d.issue = e.issue => d = e
    /\ \A l, m \in lookups : l.issue = m.issue => l = m

OneOwner(i) ==
    /\ i \in claimed <=> \/ HasDispatch(i) \/ HasLookup(i)
                         \/ i \in DOMAIN running \/ i \in DOMAIN retries
                         \/ i \in removing
    /\ HasDispatch(i) => ~HasLookup(i) /\ i \notin DOMAIN running
    /\ HasDispatch(i) \/ HasLookup(i) \/ i \in DOMAIN running =>
            i \notin DOMAIN retries /\ i \notin removing
    /\ HasLookup(i) => i \notin DOMAIN running
    /\ i \in DOMAIN retries => i \notin removing

TickIsRecord ==
    tick = [pc |-> tick.pc, config |-> tick.config, asked |-> tick.asked,
            left |-> tick.left]

Ownership == OneEach /\ (\A i \in Issues : OneOwner(i)) /\ AgentsAreTracked

IInv == TypeOK /\ TickIsRecord /\ Ownership

LEMMA NoTickOK ==
    /\ NoTick.pc = "idle" /\ NoTick.asked = {} /\ NoTick.left = <<>>
    /\ NoTick = [pc |-> NoTick.pc, config |-> NoTick.config,
                 asked |-> NoTick.asked, left |-> NoTick.left]
    /\ DOMAIN <<>> = {}
BY DEF NoTick

\* A step that leaves the owners as they are.
LEMMA SameOwners ==
    ASSUME Ownership, DOMAIN running' = DOMAIN running,
           UNCHANGED <<claimed, retries, lookups, dispatching, removing, agents>>
    PROVE  Ownership'
BY DEF Ownership, OneEach, OneOwner, HasDispatch, HasLookup, AgentsAreTracked

\* A process with nothing in memory owns nothing.
LEMMA NoOwners ==
    ASSUME claimed = {}, running = <<>>, retries = <<>>, lookups = {},
           dispatching = {}, removing = {}, agents = [i \in Issues |-> 0]
    PROVE  Ownership
BY NoTickOK
   DEF Ownership, OneEach, OneOwner, HasDispatch, HasLookup, AgentsAreTracked

LEMMA InitIInv == Init => IInv
<1> SUFFICES ASSUME Init PROVE IInv
  OBVIOUS
<1>1. TypeOK
  BY NoTickOK DEF Init, TypeOK
<1>2. TickIsRecord
  BY NoTickOK DEF Init, TickIsRecord
<1>3. Ownership
  BY NoOwners DEF Init
<1> QED
  BY <1>1, <1>2, <1>3 DEF IInv

LEMMA GoneIInv ==
    ASSUME IInv, Gone, UNCHANGED <<tracker, file, config, workspace>>
    PROVE  IInv'
<1>1. TypeOK'
  BY NoTickOK DEF Gone, IInv, TypeOK
<1>2. TickIsRecord'
  BY NoTickOK DEF Gone, TickIsRecord
<1>3. Ownership'
  BY NoTickOK
     DEF Gone, Ownership, OneEach, OneOwner, HasDispatch, HasLookup,
         AgentsAreTracked
<1> QED
  BY <1>1, <1>2, <1>3 DEF IInv

-----------------------------------------------------------------------------
(* The service, the people around it and the poll tick *)

\* A set of naturals that is not empty has a least element.
LEMMA LeastOf ==
    ASSUME NEW S \in SUBSET Nat, S # {}
    PROVE  Min(S) \in S
<1>1. PICK m \in S : \A k \in S : <<k, m>> \notin OpToRel(<, Nat)
  BY WFMin, NatLessThanWellFounded, Zenon
<1>2. \A k \in S : ~(k < m)
  BY <1>1, Zenon DEF OpToRel
<1>3. ASSUME NEW k \in S PROVE m <= k
  <2>1. k \in Nat /\ m \in Nat /\ ~(k < m)
    BY <1>1, <1>2
  <2> QED
    BY <2>1
<1> QED
  BY <1>3 DEF Min

LEMMA StartNextIInv ==
    ASSUME IInv, StartNext
    PROVE  IInv'
<1>1. UNCHANGED <<tick, claimed, running, retries, lookups, dispatching,
                  removing, agents>>
  BY DEF StartNext, Start, CleanupFetched, CleanWorkspace, Started, volatile
<1>2. TickIsRecord' /\ Ownership'
  BY <1>1, SameOwners DEF IInv, TickIsRecord
<1>3. TypeOK'
  <2>1. CASE Start
    BY <2>1 DEF Start, volatile, IInv, TypeOK
  <2>2. CASE CleanupFetched
    BY <2>2 DEF CleanupFetched, IInv, TypeOK
  <2>3. CASE CleanWorkspace
    BY <2>3 DEF CleanWorkspace, IInv, TypeOK
  <2>4. CASE Started
    BY <2>4 DEF Started, IInv, TypeOK
  <2> QED
    BY <2>1, <2>2, <2>3, <2>4 DEF StartNext
<1> QED
  BY <1>2, <1>3 DEF IInv

LEMMA PeopleNextIInv ==
    ASSUME IInv, PeopleNext
    PROVE  IInv'
<1>1. UNCHANGED <<tick, claimed, running, retries, lookups, dispatching,
                  removing, agents, workspace, phase, cleaning>>
  BY DEF PeopleNext, Refresh, WorkflowChanged, MoveIssue, EditWorkflow, volatile
<1>2. TickIsRecord' /\ Ownership'
  BY <1>1, SameOwners DEF IInv, TickIsRecord
<1>3. TypeOK'
  <2>1. CASE Refresh
    BY <2>1, <1>1 DEF Refresh, RequestTick, IInv, TypeOK
  <2>2. CASE WorkflowChanged
    BY <2>2, <1>1 DEF WorkflowChanged, RequestTick, IInv, TypeOK
  <2>3. ASSUME NEW i \in Issues, NEW state \in Used, MoveIssue(i, state)
        PROVE  TypeOK'
    BY <2>3, <1>1 DEF MoveIssue, volatile, IInv, TypeOK
  <2>4. ASSUME NEW limit \in Limits, EditWorkflow(limit)
        PROVE  TypeOK'
    BY <2>4, <1>1 DEF EditWorkflow, volatile, IInv, TypeOK
  <2> QED
    BY <2>1, <2>2, <2>3, <2>4 DEF PeopleNext
<1> QED
  BY <1>2, <1>3 DEF IInv

LEMMA StatesUsed == Used \subseteq States /\ ActiveStates \subseteq States
BY UsedAssumption DEF States

LEMMA TickFiresIInv == ASSUME IInv, TickFires PROVE IInv'
<1>1. TickIsRecord'
  BY DEF TickFires, IInv, TickIsRecord
<1>2. TypeOK'
  <2>1. /\ tick' = tick
        \/ tick' = [pc |-> "reload", config |-> tick.config,
                    asked |-> tick.asked, left |-> tick.left]
    BY DEF TickFires, IInv, TickIsRecord
  <2> QED
    BY <2>1 DEF TickFires, IInv, TypeOK
<1> QED
  BY <1>1, <1>2, SameOwners DEF TickFires, IInv

LEMMA TickReloadsIInv ==
    ASSUME IInv, NEW stalled \in SUBSET DOMAIN running, TickReloads(stalled)
    PROVE  IInv'
<1>1. tick' = [pc |-> IF running = <<>> THEN "fetch" ELSE "reconcile",
               config |-> config', asked |-> DOMAIN running,
               left |-> tick.left]
  BY DEF TickReloads, IInv, TickIsRecord
<1>2. /\ DOMAIN running' = DOMAIN running
      /\ \A i \in DOMAIN running :
            running'[i] = IF i \in stalled
                          THEN [running[i] EXCEPT !.stop = "stalled"]
                          ELSE running[i]
  BY DEF TickReloads
<1>3. \A i \in DOMAIN running' : running'[i] \in Entry
  BY <1>2 DEF IInv, TypeOK, Entry
<1>4. TypeOK'
  BY <1>1, <1>2, <1>3 DEF TickReloads, IInv, TypeOK
<1>5. TickIsRecord'
  BY <1>1 DEF TickIsRecord
<1> QED
  BY <1>2, <1>4, <1>5, SameOwners DEF TickReloads, IInv

LEMMA TickReconcilesIInv ==
    ASSUME IInv, NEW found, TickReconciles(found)
    PROVE  IInv'
<1>1. tick' = [pc |-> "fetch", config |-> tick.config, asked |-> {},
               left |-> tick.left]
  BY DEF TickReconciles, IInv, TickIsRecord
<1>2. /\ DOMAIN running' = DOMAIN running
      /\ \A i \in DOMAIN running :
            running'[i] = IF i \in found
                          THEN Reconciled(running[i], tracker[i])
                          ELSE running[i]
  BY DEF TickReconciles
<1>3. ASSUME NEW i \in DOMAIN running PROVE running'[i] \in Entry
  <2>1. running[i] \in Entry /\ tracker[i] \in States
    BY StatesUsed DEF IInv, TypeOK
  <2> QED
    BY <1>2, <2>1 DEF Entry, Reconciled
<1>4. TypeOK'
  BY <1>1, <1>2, <1>3 DEF TickReconciles, IInv, TypeOK
<1>5. TickIsRecord'
  BY <1>1 DEF TickIsRecord
<1> QED
  BY <1>2, <1>4, <1>5, SameOwners DEF TickReconciles, IInv

LEMMA TickFetchesIInv == ASSUME IInv, TickFetches PROVE IInv'
<1> DEFINE left == [i \in {j \in Issues : Eligible(j)} |-> tracker[i]]
<1>1. tick' = [pc |-> "dispatch", config |-> tick.config, asked |-> tick.asked,
               left |-> left]
  BY DEF TickFetches, IInv, TickIsRecord
<1>2. /\ DOMAIN left \subseteq Issues
      /\ \A i \in DOMAIN left : left[i] \in ActiveStates
  BY DEF Eligible
<1>3. TypeOK'
  <2>1. /\ tick.pc = "fetch"
        /\ UNCHANGED <<tracker, file, config, phase, cleaning, timer, queued,
                       claimed, running, retries, lookups, dispatching,
                       removing, agents, workspace>>
    BY DEF TickFetches
  <2> HIDE DEF left
  <2>2. /\ tick'.pc = "dispatch" /\ tick'.config \in Limits
        /\ tick'.asked \subseteq Issues /\ DOMAIN tick'.left \subseteq Issues
        /\ \A i \in DOMAIN tick'.left : tick'.left[i] \in ActiveStates
    BY <1>1, <1>2, <2>1 DEF IInv, TypeOK
  <2> QED
    BY <2>1, <2>2 DEF IInv, TypeOK
<1>4. TickIsRecord'
  BY <1>1 DEF TickIsRecord
<1> QED
  BY <1>3, <1>4, SameOwners DEF TickFetches, IInv

LEMMA FinishTickIInv ==
    ASSUME IInv, FinishTick,
           UNCHANGED <<tracker, file, config, phase, cleaning, claimed, running,
                       retries, lookups, dispatching, removing, agents, workspace>>
    PROVE  IInv'
<1>1. TypeOK' /\ TickIsRecord'
  BY NoTickOK DEF FinishTick, IInv, TypeOK, TickIsRecord
<1> QED
  BY <1>1, SameOwners DEF IInv

-----------------------------------------------------------------------------
(* Steps that hand a claim over *)

\* A step for one issue leaves the owners of the others as they are.
LEMMA OneIssue ==
    ASSUME Ownership, NEW i \in Issues,
           \A j \in Issues \ {i} :
                /\ j \in claimed' <=> j \in claimed
                /\ HasDispatch(j)' <=> HasDispatch(j)
                /\ HasLookup(j)' <=> HasLookup(j)
                /\ j \in DOMAIN running' <=> j \in DOMAIN running
                /\ j \in DOMAIN retries' <=> j \in DOMAIN retries
                /\ j \in removing' <=> j \in removing
                /\ agents'[j] = agents[j],
           OneEach', OneOwner(i)',
           agents'[i] = IF i \in DOMAIN running' THEN 1 ELSE 0
    PROVE  Ownership'
<1>1. \A j \in Issues \ {i} : OneOwner(j)'
  BY DEF Ownership, OneOwner
<1>2. \A j \in Issues \ {i} : agents'[j] = IF j \in DOMAIN running' THEN 1 ELSE 0
  BY DEF Ownership, AgentsAreTracked
<1> QED
  BY <1>1, <1>2 DEF Ownership, AgentsAreTracked

LEMMA DropFacts ==
    ASSUME NEW map, NEW i
    PROVE  /\ DOMAIN Drop(map, i) = DOMAIN map \ {i}
           /\ \A j \in DOMAIN map \ {i} : Drop(map, i)[j] = map[j]
BY DEF Drop, Restrict

\* A preparation that goes to its next step is still the one of its issue.
LEMMA NextStepIInv ==
    ASSUME IInv, NEW d \in dispatching, NEW step \in {"afterCreate", "beforeRun"},
           Step(d, step),
           workspace' \in [Issues -> {"none", "bare", "ready"}],
           UNCHANGED <<tracker, file, config, phase, cleaning, timer, queued,
                       tick, claimed, running, retries, lookups, removing,
                       agents>>
    PROVE  IInv'
<1> DEFINE e == [d EXCEPT !.step = step]
<1>1. d \in Dispatch /\ dispatching' = (dispatching \ {d}) \cup {e}
  BY DEF IInv, TypeOK, Step
<1>2. e \in Dispatch /\ e.issue = d.issue
  BY <1>1 DEF Dispatch
<1> HIDE DEF e
<1>3. TypeOK'
  BY <1>1, <1>2 DEF IInv, TypeOK
<1>4. \A i \in Issues : HasDispatch(i)' <=> HasDispatch(i)
  BY <1>1, <1>2 DEF HasDispatch
<1>5. OneEach'
  BY <1>1, <1>2 DEF IInv, Ownership, OneEach
<1>6. Ownership'
  BY <1>4, <1>5 DEF IInv, Ownership, OneOwner, HasLookup, AgentsAreTracked
<1> QED
  BY <1>3, <1>6 DEF IInv, TickIsRecord

LEMMA EnsureWorkspaceIInv ==
    ASSUME IInv, NEW d \in dispatching, EnsureWorkspace(d)
    PROVE  IInv'
<1>1. workspace' \in [Issues -> {"none", "bare", "ready"}]
  BY DEF EnsureWorkspace, IInv, TypeOK
<1> QED
  BY <1>1, NextStepIInv DEF EnsureWorkspace

LEMMA AfterCreateIInv ==
    ASSUME IInv, NEW d \in dispatching, AfterCreate(d)
    PROVE  IInv'
<1>1. workspace' \in [Issues -> {"none", "bare", "ready"}]
  BY DEF AfterCreate, IInv, TypeOK
<1> QED
  BY <1>1, NextStepIInv DEF AfterCreate

\* What a preparation under way excludes.
LEMMA DispatchFacts ==
    ASSUME IInv, NEW d \in dispatching
    PROVE  /\ d \in Dispatch /\ d.issue \in Issues /\ d.config \in Limits
           /\ d.state \in ActiveStates
           /\ HasDispatch(d.issue) /\ ~HasLookup(d.issue)
           /\ d.issue \notin DOMAIN running /\ d.issue \notin DOMAIN retries
           /\ d.issue \notin removing /\ d.issue \in claimed
           /\ agents[d.issue] = 0
           /\ \A e \in dispatching : e.issue = d.issue => e = d
<1>1. d \in Dispatch
  BY DEF IInv, TypeOK
<1>2. d.issue \in Issues /\ d.config \in Limits /\ d.state \in ActiveStates
  BY <1>1 DEF Dispatch
<1>3. HasDispatch(d.issue)
  BY DEF HasDispatch
<1> QED
  BY <1>1, <1>2, <1>3
     DEF IInv, Ownership, OneEach, OneOwner, AgentsAreTracked

\* The end of a preparation takes its claim from it.
LEMMA DispatchDone ==
    ASSUME IInv, NEW d \in dispatching, dispatching' = dispatching \ {d}
    PROVE  /\ ~HasDispatch(d.issue)'
           /\ \A j \in Issues \ {d.issue} : HasDispatch(j)' <=> HasDispatch(j)
BY DispatchFacts DEF HasDispatch

LEMMA StartAgentIInv ==
    ASSUME IInv, NEW d \in dispatching, StartAgent(d)
    PROVE  IInv'
<1> DEFINE i == d.issue
           entry == [state |-> d.state, stop |-> "none", config |-> d.config]
<1>1. /\ dispatching' = dispatching \ {d}
      /\ running' = Put(running, i, entry)
      /\ agents' = [agents EXCEPT ![i] = @ + 1]
      /\ UNCHANGED <<tracker, file, config, phase, cleaning, timer, queued,
                     tick, claimed, retries, lookups, removing, workspace>>
  BY DEF StartAgent
<1>2. i \in Issues /\ entry \in Entry
  BY DispatchFacts, StatesUsed DEF Entry
<1> HIDE DEF entry
<1>3. /\ DOMAIN running' = DOMAIN running \cup {i}
      /\ running'[i] = entry
      /\ \A j \in DOMAIN running \ {i} : running'[j] = running[j]
  BY <1>1 DEF Put
<1>4. /\ agents \in [Issues -> Nat] /\ agents'[i] = 1
      /\ \A j \in Issues \ {i} : agents'[j] = agents[j]
      /\ agents' \in [Issues -> Nat]
  BY <1>1, <1>2, DispatchFacts DEF IInv, TypeOK
<1>5. TypeOK'
  <2>1. /\ DOMAIN running' \subseteq Issues
        /\ \A j \in DOMAIN running' : running'[j] \in Entry
    BY <1>2, <1>3 DEF IInv, TypeOK
  <2> QED
    BY <1>1, <1>4, <2>1 DEF IInv, TypeOK
<1>6. OneOwner(i)'
  BY <1>1, <1>2, <1>3, DispatchFacts, DispatchDone DEF OneOwner, HasLookup
<1>7. OneEach'
  BY <1>1 DEF IInv, Ownership, OneEach
<1>8. \A j \in Issues \ {i} : HasDispatch(j)' <=> HasDispatch(j)
  BY <1>1, DispatchDone
<1>9. \A j \in Issues : HasLookup(j)' <=> HasLookup(j)
  BY <1>1 DEF HasLookup
<1>10. Ownership'
  BY <1>1, <1>2, <1>3, <1>4, <1>6, <1>7, <1>8, <1>9, OneIssue DEF IInv
<1> QED
  BY <1>1, <1>5, <1>10 DEF IInv, TickIsRecord

LEMMA PrepareFailsIInv ==
    ASSUME IInv, NEW d \in dispatching, PrepareFails(d)
    PROVE  IInv'
<1> DEFINE i == d.issue
<1>1. /\ dispatching' = dispatching \ {d}
      /\ retries' = Put(retries, i, d.config)
      /\ UNCHANGED <<tracker, file, config, phase, cleaning, timer, queued,
                     tick, claimed, running, lookups, removing, agents>>
  BY DEF PrepareFails, ScheduleRetry
<1>2. i \in Issues /\ d.config \in Limits
  BY DispatchFacts
<1>3. /\ DOMAIN retries' = DOMAIN retries \cup {i}
      /\ retries'[i] = d.config
      /\ \A j \in DOMAIN retries \ {i} : retries'[j] = retries[j]
  BY <1>1 DEF Put
<1>4. TypeOK'
  <2>1. workspace' \in [Issues -> {"none", "bare", "ready"}]
    BY <1>2 DEF PrepareFails, IInv, TypeOK
  <2>2. /\ DOMAIN retries' \subseteq Issues
        /\ \A j \in DOMAIN retries' : retries'[j] \in Limits
    BY <1>2, <1>3 DEF IInv, TypeOK
  <2> QED
    BY <1>1, <2>1, <2>2 DEF IInv, TypeOK
<1>5. OneOwner(i)'
  BY <1>1, <1>2, <1>3, DispatchFacts, DispatchDone DEF OneOwner, HasLookup
<1>6. OneEach'
  BY <1>1 DEF IInv, Ownership, OneEach
<1>7. \A j \in Issues \ {i} : HasDispatch(j)' <=> HasDispatch(j)
  BY <1>1, DispatchDone
<1>8. \A j \in Issues : HasLookup(j)' <=> HasLookup(j)
  BY <1>1 DEF HasLookup
<1>9. agents'[i] = IF i \in DOMAIN running' THEN 1 ELSE 0
  BY <1>1, <1>2 DEF IInv, Ownership, AgentsAreTracked
<1>10. Ownership'
  BY <1>1, <1>2, <1>3, <1>5, <1>6, <1>7, <1>8, <1>9, OneIssue DEF IInv
<1> QED
  BY <1>1, <1>4, <1>10 DEF IInv, TickIsRecord

LEMMA TickDispatchesIInv ==
    ASSUME IInv, TickDispatches
    PROVE  IInv'
<1>0. PICK i : i = Min(Dispatchable)
  OBVIOUS
<1> DEFINE d == [issue |-> i, by |-> "tick", state |-> tick.left[i],
                 config |-> tick.config, step |-> "ensure"]
           rest == Restrict(tick.left, {j \in DOMAIN tick.left : j > i})
<1>1. /\ tick.pc = "dispatch" /\ Dispatchable # {}
      /\ claimed' = claimed \cup {i}
      /\ retries' = Drop(retries, i)
      /\ dispatching' = dispatching \cup {d}
      /\ tick' = [tick EXCEPT !.left = rest]
      /\ UNCHANGED <<tracker, file, config, phase, cleaning, timer, queued,
                     running, lookups, removing, agents, workspace>>
  BY <1>0 DEF TickDispatches, BeginDispatch
<1>2. i \in Dispatchable
  <2>1. Dispatchable \in SUBSET Nat
    BY IssuesAssumption DEF Dispatchable, IInv, TypeOK
  <2> QED
    BY <1>0, <1>1, <2>1, LeastOf
<1>3. /\ i \in DOMAIN tick.left /\ i \in Issues
      /\ tick.left[i] \in ActiveStates
      /\ i \notin DOMAIN running /\ i \notin claimed
  BY <1>2 DEF Dispatchable, CanDispatch, IInv, TypeOK
<1>4. tick.config \in Limits
  BY <1>1 DEF IInv, TypeOK
<1>5. d \in Dispatch /\ d.issue = i
  BY <1>3, <1>4 DEF Dispatch
<1>6. /\ tick'.pc = "dispatch" /\ tick'.config = tick.config
      /\ tick'.asked = tick.asked /\ tick'.left = rest /\ TickIsRecord'
  BY <1>1 DEF IInv, TickIsRecord
<1>7. /\ DOMAIN rest \subseteq DOMAIN tick.left
      /\ \A j \in DOMAIN rest : rest[j] = tick.left[j]
  BY DEF Restrict
<1> HIDE DEF d, rest
<1>8. /\ DOMAIN retries' = DOMAIN retries \ {i}
      /\ \A j \in DOMAIN retries \ {i} : retries'[j] = retries[j]
  BY <1>1 DEF Drop, Restrict
<1>9. /\ ~HasDispatch(i) /\ ~HasLookup(i)
      /\ i \notin DOMAIN retries /\ i \notin removing
  BY <1>3 DEF IInv, Ownership, OneOwner
<1>10. TypeOK'
  <2>1. dispatching' \subseteq Dispatch /\ claimed' \subseteq Issues
    BY <1>1, <1>3, <1>5 DEF IInv, TypeOK
  <2>2. /\ DOMAIN retries' \subseteq Issues
        /\ \A j \in DOMAIN retries' : retries'[j] \in Limits
    BY <1>8 DEF IInv, TypeOK
  <2>3. /\ tick'.asked \subseteq Issues /\ DOMAIN tick'.left \subseteq Issues
        /\ \A j \in DOMAIN tick'.left : tick'.left[j] \in ActiveStates
    BY <1>6, <1>7 DEF IInv, TypeOK
  <2> QED
    BY <1>1, <1>4, <1>6, <2>1, <2>2, <2>3 DEF IInv, TypeOK
<1>11. /\ HasDispatch(i)'
       /\ \A j \in Issues \ {i} : HasDispatch(j)' <=> HasDispatch(j)
       /\ \A j \in Issues : HasLookup(j)' <=> HasLookup(j)
  BY <1>1, <1>5 DEF HasDispatch, HasLookup
<1>12. OneOwner(i)'
  BY <1>1, <1>3, <1>8, <1>9, <1>11 DEF OneOwner
<1>13. OneEach'
  BY <1>1, <1>5, <1>9 DEF HasDispatch, IInv, Ownership, OneEach
<1>14. agents'[i] = IF i \in DOMAIN running' THEN 1 ELSE 0
  BY <1>1, <1>3 DEF IInv, Ownership, AgentsAreTracked
<1>15. Ownership'
  BY <1>1, <1>3, <1>8, <1>11, <1>12, <1>13, <1>14, OneIssue DEF IInv
<1> QED
  BY <1>6, <1>10, <1>15 DEF IInv

LEMMA AgentEndsIInv ==
    ASSUME IInv, NEW i \in Issues, AgentEnds(i)
    PROVE  IInv'
<1>1. /\ i \in DOMAIN running
      /\ agents' = [agents EXCEPT ![i] = @ - 1]
      /\ running' = Drop(running, i)
      /\ UNCHANGED <<tracker, file, config, phase, cleaning, timer, queued,
                     tick, lookups, dispatching, workspace>>
  BY DEF AgentEnds
<1>2. \/ removing' = removing \cup {i} /\ UNCHANGED <<claimed, retries>>
      \/ claimed' = claimed \ {i} /\ UNCHANGED <<removing, retries>>
      \/ /\ retries' = Put(retries, i, running[i].config)
         /\ UNCHANGED <<claimed, removing>>
  BY DEF AgentEnds, ScheduleRetry
<1>3. /\ i \in claimed /\ ~HasDispatch(i) /\ ~HasLookup(i)
      /\ i \notin DOMAIN retries /\ i \notin removing
      /\ agents[i] = 1 /\ running[i].config \in Limits
  BY <1>1 DEF IInv, TypeOK, Entry, Ownership, OneOwner, AgentsAreTracked
<1>4. /\ DOMAIN running' = DOMAIN running \ {i}
      /\ \A j \in DOMAIN running \ {i} : running'[j] = running[j]
  BY <1>1 DEF Drop, Restrict
<1>5. /\ agents' \in [Issues -> Nat] /\ agents'[i] = 0
      /\ \A j \in Issues \ {i} : agents'[j] = agents[j]
  BY <1>1, <1>3 DEF IInv, TypeOK
<1>6. retries' = Put(retries, i, running[i].config) =>
        /\ DOMAIN retries' = DOMAIN retries \cup {i}
        /\ retries'[i] = running[i].config
        /\ \A j \in DOMAIN retries \ {i} : retries'[j] = retries[j]
  BY DEF Put
<1>7. TypeOK'
  <2>1. /\ DOMAIN retries' \subseteq Issues
        /\ \A j \in DOMAIN retries' : retries'[j] \in Limits
    BY <1>2, <1>3, <1>6 DEF IInv, TypeOK
  <2>2. claimed' \subseteq Issues /\ removing' \subseteq Issues
    BY <1>2 DEF IInv, TypeOK
  <2>3. /\ DOMAIN running' \subseteq Issues
        /\ \A j \in DOMAIN running' : running'[j] \in Entry
    BY <1>4 DEF IInv, TypeOK
  <2> QED
    BY <1>1, <1>5, <2>1, <2>2, <2>3 DEF IInv, TypeOK
<1>8. /\ \A j \in Issues : HasDispatch(j)' <=> HasDispatch(j)
      /\ \A j \in Issues : HasLookup(j)' <=> HasLookup(j)
      /\ OneEach'
  BY <1>1 DEF HasDispatch, HasLookup, IInv, Ownership, OneEach
<1>9. OneOwner(i)'
  BY <1>2, <1>3, <1>4, <1>6, <1>8 DEF OneOwner
<1>10. \A j \in Issues \ {i} :
            /\ j \in claimed' <=> j \in claimed
            /\ j \in DOMAIN retries' <=> j \in DOMAIN retries
            /\ j \in removing' <=> j \in removing
  BY <1>2, <1>6
<1>11. Ownership'
  BY <1>4, <1>5, <1>8, <1>9, <1>10, OneIssue DEF IInv
<1> QED
  BY <1>1, <1>7, <1>11 DEF IInv, TickIsRecord

LEMMA RemoveWorkspaceIInv ==
    ASSUME IInv, NEW i \in Issues, RemoveWorkspace(i)
    PROVE  IInv'
<1>1. /\ i \in removing /\ removing' = removing \ {i}
      /\ workspace' = [workspace EXCEPT ![i] = "none"]
      /\ claimed' = claimed \ {i}
      /\ UNCHANGED <<tracker, file, config, phase, cleaning, timer, queued,
                     tick, running, retries, lookups, dispatching, agents>>
  BY DEF RemoveWorkspace
<1>2. /\ ~HasDispatch(i) /\ ~HasLookup(i) /\ i \notin DOMAIN running
      /\ i \notin DOMAIN retries
  BY <1>1 DEF IInv, Ownership, OneOwner
<1>3. TypeOK'
  BY <1>1 DEF IInv, TypeOK
<1>4. /\ \A j \in Issues : HasDispatch(j)' <=> HasDispatch(j)
      /\ \A j \in Issues : HasLookup(j)' <=> HasLookup(j)
      /\ OneEach'
  BY <1>1 DEF HasDispatch, HasLookup, IInv, Ownership, OneEach
<1>5. OneOwner(i)'
  BY <1>1, <1>2, <1>4 DEF OneOwner
<1>6. agents'[i] = IF i \in DOMAIN running' THEN 1 ELSE 0
  BY <1>1 DEF IInv, Ownership, AgentsAreTracked
<1>7. Ownership'
  BY <1>1, <1>4, <1>5, <1>6, OneIssue DEF IInv
<1> QED
  BY <1>1, <1>3, <1>7 DEF IInv, TickIsRecord

LEMMA RetryFiresIInv ==
    ASSUME IInv, NEW i \in Issues, RetryFires(i)
    PROVE  IInv'
<1> DEFINE l == [issue |-> i, config |-> retries[i]]
<1>1. /\ i \in DOMAIN retries /\ retries' = Drop(retries, i)
      /\ lookups' = lookups \cup {l}
      /\ UNCHANGED <<tracker, file, config, phase, cleaning, timer, queued,
                     tick, claimed, running, dispatching, removing, agents,
                     workspace>>
  BY DEF RetryFires
<1>2. /\ ~HasDispatch(i) /\ ~HasLookup(i) /\ i \notin DOMAIN running
      /\ i \notin removing /\ i \in claimed
  BY <1>1 DEF IInv, Ownership, OneOwner
<1>3. l \in Lookup /\ l.issue = i
  BY <1>1 DEF IInv, TypeOK, Lookup
<1> HIDE DEF l
<1>4. /\ DOMAIN retries' = DOMAIN retries \ {i}
      /\ \A j \in DOMAIN retries \ {i} : retries'[j] = retries[j]
  BY <1>1 DEF Drop, Restrict
<1>5. TypeOK'
  <2>1. /\ DOMAIN retries' \subseteq Issues
        /\ \A j \in DOMAIN retries' : retries'[j] \in Limits
    BY <1>4 DEF IInv, TypeOK
  <2> QED
    BY <1>1, <1>3, <2>1 DEF IInv, TypeOK
<1>6. /\ \A j \in Issues : HasDispatch(j)' <=> HasDispatch(j)
      /\ \A j \in Issues \ {i} : HasLookup(j)' <=> HasLookup(j)
      /\ HasLookup(i)'
  BY <1>1, <1>3 DEF HasDispatch, HasLookup
<1>7. OneEach'
  BY <1>1, <1>2, <1>3 DEF HasLookup, IInv, Ownership, OneEach
<1>8. OneOwner(i)'
  BY <1>1, <1>2, <1>4, <1>6 DEF OneOwner
<1>9. agents'[i] = IF i \in DOMAIN running' THEN 1 ELSE 0
  BY <1>1 DEF IInv, Ownership, AgentsAreTracked
<1>10. Ownership'
  BY <1>1, <1>4, <1>6, <1>7, <1>8, <1>9, OneIssue DEF IInv
<1> QED
  BY <1>1, <1>5, <1>10 DEF IInv, TickIsRecord

LEMMA RetryLooksUpIInv ==
    ASSUME IInv, NEW l \in lookups, RetryLooksUp(l)
    PROVE  IInv'
<1> DEFINE i == l.issue
<1>1. /\ lookups' = lookups \ {l}
      /\ UNCHANGED <<tracker, file, config, phase, cleaning, timer, queued,
                     tick, running, removing, agents, workspace>>
  BY DEF RetryLooksUp
<1>2. l \in Lookup /\ i \in Issues /\ l.config \in Limits
  BY DEF IInv, TypeOK, Lookup
<1>3. /\ HasLookup(i) /\ ~HasDispatch(i) /\ i \notin DOMAIN running
      /\ i \notin DOMAIN retries /\ i \notin removing /\ i \in claimed
      /\ \A m \in lookups : m.issue = i => m = l
  <2>1. HasLookup(i)
    BY DEF HasLookup
  <2> QED
    BY <1>2, <2>1 DEF IInv, Ownership, OneEach, OneOwner
<1>4. /\ ~HasLookup(i)'
      /\ \A j \in Issues \ {i} : HasLookup(j)' <=> HasLookup(j)
  BY <1>1, <1>3 DEF HasLookup
<1>5. agents'[i] = IF i \in DOMAIN running' THEN 1 ELSE 0
  BY <1>1, <1>2 DEF IInv, Ownership, AgentsAreTracked
<1>6. TickIsRecord'
  BY <1>1 DEF IInv, TickIsRecord
\* The issue is no longer active: its claim is given up.
<1>7. CASE claimed' = claimed \ {i} /\ UNCHANGED <<dispatching, retries>>
  <2>1. TypeOK'
    BY <1>1, <1>7 DEF IInv, TypeOK
  <2>2. OneEach' /\ \A j \in Issues : HasDispatch(j)' <=> HasDispatch(j)
    BY <1>1, <1>7 DEF HasDispatch, IInv, Ownership, OneEach
  <2>3. OneOwner(i)'
    BY <1>1, <1>2, <1>3, <1>4, <1>7, <2>2 DEF OneOwner
  <2>4. Ownership'
    BY <1>1, <1>2, <1>4, <1>5, <1>7, <2>2, <2>3, OneIssue DEF IInv
  <2> QED
    BY <1>6, <2>1, <2>4 DEF IInv
\* It is dispatched again.
<1>8. CASE /\ tracker[i] \in ActiveStates
           /\ BeginDispatch(i, "retry", tracker[i], l.config)
  <2> DEFINE d == [issue |-> i, by |-> "retry", state |-> tracker[i],
                   config |-> l.config, step |-> "ensure"]
  <2>1. /\ claimed' = claimed \cup {i} /\ retries' = Drop(retries, i)
        /\ dispatching' = dispatching \cup {d}
    BY <1>8 DEF BeginDispatch
  <2>2. d \in Dispatch /\ d.issue = i
    BY <1>2, <1>8 DEF Dispatch
  <2> HIDE DEF d
  <2>3. /\ DOMAIN retries' = DOMAIN retries \ {i}
        /\ \A j \in DOMAIN retries \ {i} : retries'[j] = retries[j]
    BY <2>1 DEF Drop, Restrict
  <2>4. TypeOK'
    <3>1. /\ DOMAIN retries' \subseteq Issues
          /\ \A j \in DOMAIN retries' : retries'[j] \in Limits
      BY <2>3 DEF IInv, TypeOK
    <3>2. /\ claimed' \subseteq Issues /\ dispatching' \subseteq Dispatch
          /\ lookups' \subseteq Lookup
      BY <1>1, <1>2, <2>1, <2>2 DEF IInv, TypeOK
    <3> QED
      BY <1>1, <3>1, <3>2 DEF IInv, TypeOK
  <2>5. /\ HasDispatch(i)'
        /\ \A j \in Issues \ {i} : HasDispatch(j)' <=> HasDispatch(j)
    BY <2>1, <2>2 DEF HasDispatch
  <2>6. OneEach'
    BY <1>1, <1>3, <2>1, <2>2 DEF HasDispatch, IInv, Ownership, OneEach
  <2>7. OneOwner(i)'
    BY <1>1, <1>2, <1>3, <1>4, <2>1, <2>3, <2>5 DEF OneOwner
  <2>8. Ownership'
    BY <1>1, <1>2, <1>4, <1>5, <2>1, <2>3, <2>5, <2>6, <2>7, OneIssue DEF IInv
  <2> QED
    BY <1>6, <2>4, <2>8 DEF IInv
\* It waits for another time.
<1>9. CASE ScheduleRetry(i, l.config) /\ UNCHANGED <<claimed, dispatching>>
  <2>1. retries' = Put(retries, i, l.config)
    BY <1>9 DEF ScheduleRetry
  <2>2. /\ DOMAIN retries' = DOMAIN retries \cup {i}
        /\ retries'[i] = l.config
        /\ \A j \in DOMAIN retries \ {i} : retries'[j] = retries[j]
    BY <2>1 DEF Put
  <2>3. TypeOK'
    <3>1. /\ DOMAIN retries' \subseteq Issues
          /\ \A j \in DOMAIN retries' : retries'[j] \in Limits
      BY <1>2, <2>2 DEF IInv, TypeOK
    <3> QED
      BY <1>1, <1>9, <3>1 DEF IInv, TypeOK
  <2>4. OneEach' /\ \A j \in Issues : HasDispatch(j)' <=> HasDispatch(j)
    BY <1>1, <1>9 DEF HasDispatch, IInv, Ownership, OneEach
  <2>5. OneOwner(i)'
    BY <1>1, <1>2, <1>3, <1>4, <1>9, <2>2, <2>4 DEF OneOwner
  <2>6. Ownership'
    BY <1>1, <1>2, <1>4, <1>5, <1>9, <2>2, <2>4, <2>5, OneIssue DEF IInv
  <2> QED
    BY <1>6, <2>3, <2>6 DEF IInv
<1> QED
  BY <1>7, <1>8, <1>9 DEF RetryLooksUp

-----------------------------------------------------------------------------
(* The invariant, and what follows from it *)

LEMMA TickNextIInv == ASSUME IInv, TickNext PROVE IInv'
<1>1. CASE TickEnds
  BY <1>1, FinishTickIInv DEF TickEnds
<1>2. CASE TickFails
  BY <1>2, FinishTickIInv DEF TickFails
<1> QED
  BY <1>1, <1>2, TickFiresIInv, TickReloadsIInv, TickReconcilesIInv,
     TickFetchesIInv, TickDispatchesIInv DEF TickNext

LEMMA FaultNextIInv == ASSUME IInv, FaultNext PROVE IInv'
BY GoneIInv DEF FaultNext, Killed, StatFails, RemoveFails, LookupFails

LEMMA NextIInv == IInv /\ [Next]_vars => IInv'
<1> SUFFICES ASSUME IInv, [Next]_vars PROVE IInv'
  OBVIOUS
<1>1. CASE UNCHANGED vars
  <2>1. Ownership'
    BY <1>1, SameOwners DEF vars, volatile, IInv
  <2> QED
    BY <1>1, <2>1 DEF vars, volatile, IInv, TypeOK, TickIsRecord
<1>2. ASSUME NEW d \in dispatching, DispatchNext(d)
      PROVE  IInv'
  BY <1>2, EnsureWorkspaceIInv, AfterCreateIInv, StartAgentIInv,
     PrepareFailsIInv DEF DispatchNext
<1>3. ASSUME NEW i \in Issues, AgentEnds(i) \/ RemoveWorkspace(i) \/ RetryNext(i)
      PROVE  IInv'
  BY <1>3, AgentEndsIInv, RemoveWorkspaceIInv, RetryFiresIInv,
     RetryLooksUpIInv DEF RetryNext
<1>4. CASE Next
  BY <1>2, <1>3, <1>4, StartNextIInv, TickNextIInv, FaultNextIInv,
     PeopleNextIInv DEF Next
<1> QED
  BY <1>1, <1>4

LEMMA Invariance == Spec => []IInv
BY InitIInv, NextIInv, PTL DEF Spec

(* What the callbacks share is of its types in every state.                *)
THEOREM TypeCorrect == Spec => []TypeOK
<1>1. IInv => TypeOK
  BY DEF IInv
<1> QED
  BY <1>1, Invariance, PTL

\* Of a set whose members have issues of their own, at most one has issue i.
LEMMA CountOfOne ==
    ASSUME NEW S, \A x, y \in S : x.issue = y.issue => x = y, NEW i
    PROVE  Cardinality({x \in S : x.issue = i})
                = IF \E x \in S : x.issue = i THEN 1 ELSE 0
<1>1. CASE \E x \in S : x.issue = i
  <2>1. PICK x \in S : x.issue = i
    BY <1>1
  <2>2. {y \in S : y.issue = i} = {x}
    BY <2>1
  <2>3. Cardinality({x}) = 1
    BY FS_Singleton
  <2> QED
    BY <1>1, <2>2, <2>3
<1>2. CASE ~\E x \in S : x.issue = i
  <2>1. {y \in S : y.issue = i} = {}
    BY <1>2
  <2> QED
    BY <1>2, <2>1, FS_EmptySet
<1> QED
  BY <1>1, <1>2

(* In every state a claim of the orchestrator has exactly one callback,    *)
(* timer or agent that will give it up, an issue without a claim has none, *)
(* and an issue has at most one agent, with its entry: whatever callbacks  *)
(* interleave, fail or end the process, and whatever the limits.           *)
THEOREM ClaimsSound == Spec => []ClaimsAreSound
<1>1. ASSUME IInv PROVE ClaimsAreSound
  <2>1. ASSUME NEW i \in Issues
        PROVE  Owners(i) = IF i \in claimed THEN 1 ELSE 0
    <3>1. /\ Cardinality({d \in dispatching : d.issue = i})
                = IF HasDispatch(i) THEN 1 ELSE 0
          /\ Cardinality({l \in lookups : l.issue = i})
                = IF HasLookup(i) THEN 1 ELSE 0
      BY <1>1, CountOfOne DEF IInv, Ownership, OneEach, HasDispatch, HasLookup
    <3>2. OneOwner(i)
      BY <1>1 DEF IInv, Ownership
    <3> HIDE DEF HasDispatch, HasLookup
    <3> QED
      BY <3>1, <3>2 DEF Owners, OneOwner
  <2> QED
    BY <1>1, <2>1 DEF IInv, Ownership, ClaimsAreSound, ClaimHasOneOwner
<1> QED
  BY <1>1, Invariance, PTL

(* No step of a service that has started removes a workspace that an agent *)
(* uses or that is prepared for one: removeWorkspace runs under the claim. *)
THEOREM RemovalSpares == Spec => RemovalSparesAgents
<1> DEFINE Spares == \A i \in Issues :
              phase = "up" /\ workspace[i] # "none" /\ workspace'[i] = "none"
                => agents[i] = 0 /\ \A d \in dispatching : d.issue # i
<1>1. ASSUME IInv, [Next]_vars PROVE Spares
  <2> SUFFICES ASSUME NEW i \in Issues, phase = "up", workspace[i] # "none",
                      workspace'[i] = "none"
               PROVE  agents[i] = 0 /\ \A d \in dispatching : d.issue # i
    OBVIOUS
  <2>1. workspace \in [Issues -> {"none", "bare", "ready"}]
    BY <1>1 DEF IInv, TypeOK
  <2>2. workspace' # workspace
    OBVIOUS
  <2>3. ~StartNext
    BY <2>2 DEF StartNext, Start, CleanupFetched, CleanWorkspace, Started
  <2>4. ~TickNext /\ ~FaultNext /\ ~PeopleNext
    BY <2>2 DEF TickNext, TickFires, TickReloads, TickReconciles, TickFetches,
                TickDispatches, TickEnds, TickFails, FaultNext, Killed,
                StatFails, RemoveFails, LookupFails, PeopleNext, Refresh,
                WorkflowChanged, MoveIssue, EditWorkflow
  <2>5. ASSUME NEW d \in dispatching, DispatchNext(d)
        PROVE  FALSE
    <3>1. d.issue \in Issues
      BY <1>1, DispatchFacts
    <3> QED
      BY <2>1, <2>2, <2>5, <3>1
         DEF DispatchNext, EnsureWorkspace, AfterCreate, StartAgent, PrepareFails
  <2>6. ASSUME NEW j \in Issues, AgentEnds(j) \/ RetryNext(j)
        PROVE  FALSE
    BY <2>2, <2>6 DEF AgentEnds, RetryNext, RetryFires, RetryLooksUp
  <2>7. PICK j \in Issues : RemoveWorkspace(j)
    BY <1>1, <2>2, <2>3, <2>4, <2>5, <2>6 DEF Next, vars
  <2>8. j = i
    BY <2>1, <2>7 DEF RemoveWorkspace
  <2>9. i \in removing
    BY <2>7, <2>8 DEF RemoveWorkspace
  <2>10. ~HasDispatch(i) /\ i \notin DOMAIN running
    BY <1>1, <2>9 DEF IInv, Ownership, OneOwner
  <2> QED
    BY <1>1, <2>10 DEF IInv, Ownership, AgentsAreTracked, HasDispatch
<1>2. IInv /\ [Next]_vars => [Spares]_vars
  BY <1>1
<1> QED
  BY <1>2, Invariance, PTL DEF Spec, RemovalSparesAgents

-----------------------------------------------------------------------------
(***************************************************************************)
(* The steps of the orchestrator are steps of its issues' claims.  The     *)
(* invariant says which map an issue is in at each stage of its claim.     *)
(***************************************************************************)
Told(i) == running[i].stop \in {"terminal", "inactive"}

StageMap == [i \in Issues |-> StageOf(i)]

ActiveIssues == {i \in Issues : tracker[i] \in ActiveStates}

\* The map that has a claimed issue is its stage.
InItsStage(i) ==
    /\ i \notin claimed => StageOf(i) = "unclaimed"
    /\ HasDispatch(i) => StageOf(i) = "preparing"
    /\ i \in DOMAIN running =>
            StageOf(i) = IF Told(i) THEN "stopping" ELSE "running"
    /\ HasLookup(i) => StageOf(i) = "lookup"
    /\ i \in DOMAIN retries => StageOf(i) = "retry"
    /\ i \in removing => StageOf(i) = "removing"

LEMMA StagesNow == IInv => \A i \in Issues : InItsStage(i)
<1> SUFFICES ASSUME IInv, NEW i \in Issues PROVE InItsStage(i)
  OBVIOUS
<1>1. OneOwner(i)
  BY DEF IInv, Ownership
<1>2. StageOf(i) = CASE i \notin claimed     -> "unclaimed"
                     [] HasDispatch(i)       -> "preparing"
                     [] i \in DOMAIN running ->
                            IF Told(i) THEN "stopping" ELSE "running"
                     [] HasLookup(i)         -> "lookup"
                     [] i \in DOMAIN retries -> "retry"
                     [] OTHER                -> "removing"
  BY DEF StageOf, HasDispatch, HasLookup, Told
<1>3. \/ i \notin claimed
      \/ i \in claimed /\ HasDispatch(i)
      \/ i \in claimed /\ ~HasDispatch(i) /\ i \in DOMAIN running
      \/ /\ i \in claimed /\ ~HasDispatch(i) /\ i \notin DOMAIN running
         /\ HasLookup(i)
      \/ /\ i \in claimed /\ ~HasDispatch(i) /\ i \notin DOMAIN running
         /\ ~HasLookup(i)
  OBVIOUS
<1> HIDE DEF HasDispatch, HasLookup, Told
<1> QED
  BY <1>1, <1>2, <1>3 DEF OneOwner, InItsStage

LEMMA StagesNext == IInv' => (\A i \in Issues : InItsStage(i))'
BY StagesNow, PTL

\* An issue that keeps its place in the maps keeps its stage.
LEMMA SameStage ==
    ASSUME NEW j \in Issues,
           j \in claimed' <=> j \in claimed,
           HasDispatch(j)' <=> HasDispatch(j),
           HasLookup(j)' <=> HasLookup(j),
           j \in DOMAIN running' <=> j \in DOMAIN running,
           j \in DOMAIN running => running'[j].stop = running[j].stop,
           j \in DOMAIN retries' <=> j \in DOMAIN retries
    PROVE  StageOf(j)' = StageOf(j)
BY DEF StageOf, HasDispatch, HasLookup

LEMMA SameStages ==
    ASSUME UNCHANGED <<claimed, running, retries, lookups, dispatching, tracker>>
    PROVE  UNCHANGED <<StageMap, ActiveIssues>>
BY DEF StageMap, StageOf, ActiveIssues

\* A step that changes the stage of one issue.
LEMMA OnePasses ==
    ASSUME NEW i \in Issues, NEW from, NEW to,
           StageOf(i) = from, StageOf(i)' = to,
           \A j \in Issues \ {i} : StageOf(j)' = StageOf(j),
           UNCHANGED tracker
    PROVE  Claims!Pass(i, from, to)
<1>1. StageMap' = [StageMap EXCEPT ![i] = to]
  BY DEF StageMap
<1>2. UNCHANGED ActiveIssues
  BY DEF ActiveIssues
<1> QED
  BY <1>1, <1>2 DEF Claims!Pass, StageMap, ActiveIssues

\* The service starts, people act, a tick fires, reads or ends.
LEMMA QuietRefines ==
    ASSUME StartNext \/ Refresh \/ WorkflowChanged \/ TickFires \/ TickFetches
           \/ TickEnds \/ TickFails \/ \E limit \in Limits : EditWorkflow(limit)
    PROVE  UNCHANGED <<StageMap, ActiveIssues>>
BY SameStages
   DEF StartNext, Start, CleanupFetched, CleanWorkspace, Started, Refresh,
       WorkflowChanged, TickFires, TickFetches, TickEnds, TickFails,
       EditWorkflow, volatile

LEMMA MoveRefines ==
    ASSUME NEW i \in Issues, NEW state, MoveIssue(i, state)
    PROVE  Claims!ClaimsNext
<1>1. UNCHANGED StageMap
  BY DEF MoveIssue, volatile, StageMap, StageOf
<1>2. ActiveIssues' \subseteq Issues
  BY DEF ActiveIssues
<1>3. Claims!TrackerMoves
  BY <1>1, <1>2 DEF Claims!TrackerMoves, StageMap, ActiveIssues
<1> QED
  BY <1>3 DEF Claims!ClaimsNext

LEMMA FaultRefines ==
    ASSUME FaultNext
    PROVE  Claims!ClaimsNext
<1>1. Gone /\ UNCHANGED tracker
  BY DEF FaultNext, Killed, StatFails, RemoveFails, LookupFails
<1>2. \A i \in Issues : StageOf(i)' = "unclaimed"
  BY <1>1 DEF Gone, StageOf
<1>3. StageMap' = [i \in Issues |-> "unclaimed"] /\ UNCHANGED ActiveIssues
  BY <1>1, <1>2 DEF StageMap, ActiveIssues
<1>4. Claims!Forget
  BY <1>3 DEF Claims!Forget, StageMap, ActiveIssues
<1> QED
  BY <1>4 DEF Claims!ClaimsNext

\* The stages after entries of running have changed, and nothing else.
LEMMA EntriesChange ==
    ASSUME IInv, IInv', DOMAIN running' = DOMAIN running,
           UNCHANGED <<claimed, retries, lookups, dispatching, tracker>>,
           NEW i \in Issues
    PROVE  IF i \in DOMAIN running
           THEN /\ StageOf(i) = IF Told(i) THEN "stopping" ELSE "running"
                /\ StageOf(i)' = IF Told(i)' THEN "stopping" ELSE "running"
           ELSE StageOf(i)' = StageOf(i)
<1>1. CASE i \in DOMAIN running
  BY <1>1, StagesNow, StagesNext DEF InItsStage
<1>2. CASE i \notin DOMAIN running
  BY <1>2, SameStage DEF HasDispatch, HasLookup
<1> QED
  BY <1>1, <1>2

\* An agent that has stalled is stopped for another attempt, although it may
\* have been told to stop for good.
LEMMA TickReloadsRefines ==
    ASSUME IInv, IInv', NEW stalled \in SUBSET DOMAIN running,
           TickReloads(stalled)
    PROVE  Claims!ClaimsNext
<1> DEFINE S == {i \in stalled : Told(i)}
<1>1. /\ DOMAIN running' = DOMAIN running
      /\ \A i \in DOMAIN running :
            running'[i] = IF i \in stalled
                          THEN [running[i] EXCEPT !.stop = "stalled"]
                          ELSE running[i]
      /\ UNCHANGED <<claimed, retries, lookups, dispatching, tracker>>
  BY DEF TickReloads
<1>2. DOMAIN running \subseteq Issues /\ \A i \in DOMAIN running : running[i] \in Entry
  BY DEF IInv, TypeOK
<1>3. \A i \in DOMAIN running : Told(i)' <=> Told(i) /\ i \notin stalled
  BY <1>1, <1>2 DEF Told, Entry
<1> HIDE DEF Told
<1>4. ASSUME NEW i \in Issues
      PROVE  /\ i \in S => StageOf(i) = "stopping"
             /\ StageOf(i)' = IF i \in S THEN "running" ELSE StageOf(i)
  BY <1>1, <1>3, EntriesChange
<1>5. S \in SUBSET Issues
  BY <1>2
<1> HIDE DEF S
<1>6. UNCHANGED ActiveIssues
  BY <1>1 DEF ActiveIssues
<1>7. StageMap' = [i \in Issues |-> IF i \in S THEN "running" ELSE StageMap[i]]
  BY <1>4 DEF StageMap
<1>8. \A i \in S : StageMap[i] = "stopping"
  BY <1>4, <1>5 DEF StageMap
<1>9. Claims!Override(S)
  BY <1>6, <1>7, <1>8 DEF Claims!Override, StageMap, ActiveIssues
<1> QED
  BY <1>5, <1>9 DEF Claims!ClaimsNext

\* Only the agents of issues that the tracker has in another state are stopped.
LEMMA TickReconcilesRefines ==
    ASSUME IInv, IInv', NEW found, TickReconciles(found)
    PROVE  Claims!ClaimsNext
<1> DEFINE S == {i \in DOMAIN running : ~Told(i) /\ Told(i)'}
<1>1. /\ DOMAIN running' = DOMAIN running
      /\ \A i \in DOMAIN running :
            running'[i] = IF i \in found
                          THEN Reconciled(running[i], tracker[i])
                          ELSE running[i]
      /\ UNCHANGED <<claimed, retries, lookups, dispatching, tracker>>
  BY DEF TickReconciles
<1>2. DOMAIN running \subseteq Issues /\ \A i \in DOMAIN running : running[i] \in Entry
  BY DEF IInv, TypeOK
<1>3. ASSUME NEW i \in DOMAIN running
      PROVE  /\ Told(i) => Told(i)'
             /\ Told(i)' => Told(i) \/ tracker[i] \in {"done", "backlog"}
  <2>1. running[i] \in Entry
    BY <1>2
  <2>2. CASE i \in found
    BY <1>1, <2>1, <2>2 DEF Told, Reconciled, Entry
  <2>3. CASE i \notin found
    BY <1>1, <2>3 DEF Told
  <2> QED
    BY <2>2, <2>3
<1> HIDE DEF Told
<1>4. ASSUME NEW i \in Issues
      PROVE  /\ i \in S => StageOf(i) = "running"
             /\ StageOf(i)' = IF i \in S THEN "stopping" ELSE StageOf(i)
  BY <1>1, <1>3, EntriesChange
<1>5. S \in SUBSET Issues /\ \A i \in S : i \notin ActiveIssues
  BY <1>2, <1>3 DEF ActiveIssues, ActiveStates
<1> HIDE DEF S
<1>6. UNCHANGED ActiveIssues
  BY <1>1 DEF ActiveIssues
<1>7. StageMap' = [i \in Issues |-> IF i \in S THEN "stopping" ELSE StageMap[i]]
  BY <1>4 DEF StageMap
<1>8. \A i \in S : StageMap[i] = "running"
  BY <1>4, <1>5 DEF StageMap
<1>9. Claims!StopAgents(S)
  BY <1>5, <1>6, <1>7, <1>8 DEF Claims!StopAgents, StageMap, ActiveIssues
<1> QED
  BY <1>5, <1>9 DEF Claims!ClaimsNext

LEMMA TickDispatchesRefines ==
    ASSUME IInv, IInv', TickDispatches
    PROVE  Claims!ClaimsNext
<1>0. PICK i : i = Min(Dispatchable)
  OBVIOUS
<1>1. /\ Dispatchable # {} /\ claimed' = claimed \cup {i}
      /\ retries' = Drop(retries, i)
      /\ \E d : d.issue = i /\ dispatching' = dispatching \cup {d}
      /\ UNCHANGED <<tracker, running, lookups>>
  BY <1>0 DEF TickDispatches, BeginDispatch
<1>2. i \in Issues /\ i \notin claimed
  <2>1. Dispatchable \in SUBSET Nat
    BY IssuesAssumption DEF Dispatchable, IInv, TypeOK
  <2>2. i \in Dispatchable
    BY <1>0, <1>1, <2>1, LeastOf
  <2> QED
    BY <2>2 DEF Dispatchable, CanDispatch, IInv, TypeOK
<1>3. HasDispatch(i)'
  BY <1>1 DEF HasDispatch
<1>4. StageOf(i) = "unclaimed" /\ StageOf(i)' = "preparing"
  BY <1>2, <1>3, StagesNow, StagesNext DEF InItsStage
<1>5. ASSUME NEW j \in Issues \ {i} PROVE StageOf(j)' = StageOf(j)
  <2>1. HasDispatch(j)' <=> HasDispatch(j)
    BY <1>1 DEF HasDispatch
  <2>2. HasLookup(j)' <=> HasLookup(j)
    BY <1>1 DEF HasLookup
  <2>3. DOMAIN retries' = DOMAIN retries \ {i}
    BY <1>1 DEF Drop, Restrict
  <2> QED
    BY <1>1, <2>1, <2>2, <2>3, SameStage
<1>6. Claims!Claim(i)
  BY <1>1, <1>2, <1>4, <1>5, OnePasses DEF Claims!Claim
<1> QED
  BY <1>2, <1>6 DEF Claims!ClaimsNext

\* A preparation goes on, launches its agent or is tried again later.
LEMMA DispatchRefines ==
    ASSUME IInv, IInv', NEW d \in dispatching, DispatchNext(d)
    PROVE  Claims!ClaimsNext \/ UNCHANGED <<StageMap, ActiveIssues>>
<1> DEFINE i == d.issue
<1>0. d \in Dispatch /\ i \in Issues /\ HasDispatch(i)
  BY DispatchFacts
<1>1. CASE EnsureWorkspace(d) \/ AfterCreate(d)
  <2>1. /\ \E step : Step(d, step)
        /\ UNCHANGED <<tracker, claimed, running, retries, lookups>>
    BY <1>1 DEF EnsureWorkspace, AfterCreate
  <2>2. PICK e : e.issue = i /\ dispatching' = (dispatching \ {d}) \cup {e}
    BY <1>0, <2>1 DEF Step, Dispatch
  <2>3. ASSUME NEW j \in Issues PROVE StageOf(j)' = StageOf(j)
    <3>1. HasDispatch(j)' <=> HasDispatch(j)
      BY <2>2 DEF HasDispatch
    <3>2. HasLookup(j)' <=> HasLookup(j)
      BY <2>1 DEF HasLookup
    <3> QED
      BY <2>1, <3>1, <3>2, SameStage
  <2> QED
    BY <2>1, <2>3 DEF StageMap, ActiveIssues
<1>2. CASE StartAgent(d)
  <2>1. /\ dispatching' = dispatching \ {d}
        /\ DOMAIN running' = DOMAIN running \cup {i}
        /\ running'[i].stop = "none"
        /\ \A j \in DOMAIN running \ {i} : running'[j] = running[j]
        /\ UNCHANGED <<tracker, claimed, retries, lookups>>
    BY <1>2 DEF StartAgent, Put
  <2>2. ~Told(i)'
    BY <2>1 DEF Told
  <2>3. StageOf(i) = "preparing" /\ StageOf(i)' = "running"
    BY <1>0, <2>1, <2>2, StagesNow, StagesNext DEF InItsStage
  <2>4. ASSUME NEW j \in Issues \ {i} PROVE StageOf(j)' = StageOf(j)
    <3>1. HasDispatch(j)' <=> HasDispatch(j)
      BY <2>1, DispatchDone
    <3>2. HasLookup(j)' <=> HasLookup(j)
      BY <2>1 DEF HasLookup
    <3> QED
      BY <2>1, <3>1, <3>2, SameStage
  <2>5. Claims!Launch(i)
    BY <1>0, <2>1, <2>3, <2>4, OnePasses DEF Claims!Launch
  <2> QED
    BY <1>0, <2>5 DEF Claims!ClaimsNext
<1>3. CASE PrepareFails(d)
  <2>1. /\ dispatching' = dispatching \ {d}
        /\ DOMAIN retries' = DOMAIN retries \cup {i}
        /\ UNCHANGED <<tracker, claimed, running, lookups>>
    BY <1>3 DEF PrepareFails, ScheduleRetry, Put
  <2>2. StageOf(i) = "preparing" /\ StageOf(i)' = "retry"
    BY <1>0, <2>1, StagesNow, StagesNext DEF InItsStage
  <2>3. ASSUME NEW j \in Issues \ {i} PROVE StageOf(j)' = StageOf(j)
    <3>1. HasDispatch(j)' <=> HasDispatch(j)
      BY <2>1, DispatchDone
    <3>2. HasLookup(j)' <=> HasLookup(j)
      BY <2>1 DEF HasLookup
    <3> QED
      BY <2>1, <3>1, <3>2, SameStage
  <2>4. Claims!Requeue(i)
    BY <1>0, <2>1, <2>2, <2>3, OnePasses DEF Claims!Requeue
  <2> QED
    BY <1>0, <2>4 DEF Claims!ClaimsNext
<1> QED
  BY <1>1, <1>2, <1>3 DEF DispatchNext

\* An agent that was told to stop gives its claim up, or the removal of its
\* workspace does; any other is tried again.
LEMMA AgentEndsRefines ==
    ASSUME IInv, IInv', NEW i \in Issues, AgentEnds(i)
    PROVE  Claims!ClaimsNext
<1>1. /\ i \in DOMAIN running /\ DOMAIN running' = DOMAIN running \ {i}
      /\ \A j \in DOMAIN running \ {i} : running'[j] = running[j]
      /\ UNCHANGED <<tracker, lookups, dispatching>>
  BY DropFacts DEF AgentEnds
<1>2. /\ \A j \in Issues : HasDispatch(j)' <=> HasDispatch(j)
      /\ \A j \in Issues : HasLookup(j)' <=> HasLookup(j)
  BY <1>1 DEF HasDispatch, HasLookup
<1>3. \A j \in Issues \ {i} : /\ j \in claimed' <=> j \in claimed
                              /\ j \in DOMAIN retries' <=> j \in DOMAIN retries
  BY DEF AgentEnds, ScheduleRetry, Put
<1>4. \A j \in Issues \ {i} : StageOf(j)' = StageOf(j)
  BY <1>1, <1>2, <1>3, SameStage
<1>5. StageOf(i) = IF Told(i) THEN "stopping" ELSE "running"
  BY <1>1, StagesNow, StagesNext DEF InItsStage
<1>6. CASE running[i].stop = "terminal"
  <2>1. i \in removing' /\ StageOf(i) = "stopping"
    BY <1>5, <1>6 DEF AgentEnds, Told
  <2>2. StageOf(i)' = "removing"
    BY <2>1, StagesNow, StagesNext DEF InItsStage
  <2>3. Claims!EndStopped(i)
    BY <1>1, <1>4, <2>1, <2>2, OnePasses DEF Claims!EndStopped
  <2> QED
    BY <2>3 DEF Claims!ClaimsNext
<1>7. CASE running[i].stop = "inactive"
  <2>1. i \notin claimed' /\ StageOf(i) = "stopping"
    BY <1>5, <1>7 DEF AgentEnds, Told
  <2>2. StageOf(i)' = "unclaimed"
    BY <2>1, StagesNow, StagesNext DEF InItsStage
  <2>3. Claims!EndStopped(i)
    BY <1>1, <1>4, <2>1, <2>2, OnePasses DEF Claims!EndStopped
  <2> QED
    BY <2>3 DEF Claims!ClaimsNext
<1>8. CASE ~Told(i)
  <2>1. i \in DOMAIN retries' /\ StageOf(i) = "running"
    BY <1>5, <1>8 DEF AgentEnds, Told, ScheduleRetry, Put
  <2>2. StageOf(i)' = "retry"
    BY <2>1, StagesNow, StagesNext DEF InItsStage
  <2>3. Claims!Requeue(i)
    BY <1>1, <1>4, <2>1, <2>2, OnePasses DEF Claims!Requeue
  <2> QED
    BY <2>3 DEF Claims!ClaimsNext
<1> QED
  BY <1>6, <1>7, <1>8 DEF Told

LEMMA RemoveWorkspaceRefines ==
    ASSUME IInv, IInv', NEW i \in Issues, RemoveWorkspace(i)
    PROVE  Claims!ClaimsNext
<1>1. /\ i \in removing /\ claimed' = claimed \ {i}
      /\ UNCHANGED <<tracker, running, retries, lookups, dispatching>>
  BY DEF RemoveWorkspace
<1>2. StageOf(i) = "removing" /\ StageOf(i)' = "unclaimed"
  BY <1>1, StagesNow, StagesNext DEF InItsStage
<1>3. \A j \in Issues \ {i} : StageOf(j)' = StageOf(j)
  BY <1>1, SameStage DEF HasDispatch, HasLookup
<1>4. Claims!Clear(i)
  BY <1>1, <1>2, <1>3, OnePasses DEF Claims!Clear
<1> QED
  BY <1>4 DEF Claims!ClaimsNext

LEMMA RetryFiresRefines ==
    ASSUME IInv, IInv', NEW i \in Issues, RetryFires(i)
    PROVE  Claims!ClaimsNext
<1>1. /\ i \in DOMAIN retries /\ DOMAIN retries' = DOMAIN retries \ {i}
      /\ \E l : l.issue = i /\ lookups' = lookups \cup {l}
      /\ UNCHANGED <<tracker, claimed, running, dispatching>>
  <2>1. [issue |-> i, config |-> retries[i]].issue = i
    OBVIOUS
  <2> QED
    BY <2>1, DropFacts DEF RetryFires
<1>2. HasLookup(i)' /\ \A j \in Issues \ {i} : HasLookup(j)' <=> HasLookup(j)
  BY <1>1 DEF HasLookup
<1>3. StageOf(i) = "retry" /\ StageOf(i)' = "lookup"
  BY <1>1, <1>2, StagesNow, StagesNext DEF InItsStage
<1>4. \A j \in Issues : HasDispatch(j)' <=> HasDispatch(j)
  BY <1>1 DEF HasDispatch
<1>5. \A j \in Issues \ {i} : StageOf(j)' = StageOf(j)
  BY <1>1, <1>2, <1>4, SameStage
<1>6. Claims!LookUp(i)
  BY <1>1, <1>3, <1>5, OnePasses DEF Claims!LookUp
<1> QED
  BY <1>6 DEF Claims!ClaimsNext

\* Only a retry that finds its issue out of the active states gives it up.
LEMMA RetryLooksUpRefines ==
    ASSUME IInv, IInv', NEW l \in lookups, RetryLooksUp(l)
    PROVE  Claims!ClaimsNext
<1> DEFINE i == l.issue
<1>1. /\ lookups' = lookups \ {l} /\ UNCHANGED <<tracker, running>>
      /\ i \in Issues /\ HasLookup(i)
  BY DEF RetryLooksUp, HasLookup, IInv, TypeOK, Lookup
<1>2. \A j \in Issues \ {i} : HasLookup(j)' <=> HasLookup(j)
  BY <1>1 DEF HasLookup
<1>3. StageOf(i) = "lookup"
  BY <1>1, StagesNow, StagesNext DEF InItsStage
<1>4. CASE /\ tracker[i] \notin ActiveStates
           /\ claimed' = claimed \ {i} /\ UNCHANGED <<dispatching, retries>>
  <2>1. StageOf(i)' = "unclaimed"
    BY <1>1, <1>4, StagesNow, StagesNext DEF InItsStage
  <2>2. \A j \in Issues \ {i} : StageOf(j)' = StageOf(j)
    <3>1. \A j \in Issues : HasDispatch(j)' <=> HasDispatch(j)
      BY <1>4 DEF HasDispatch
    <3> QED
      BY <1>1, <1>2, <1>4, <3>1, SameStage
  <2>3. i \notin ActiveIssues
    BY <1>4 DEF ActiveIssues
  <2>4. Claims!GiveUp(i)
    BY <1>1, <1>3, <2>1, <2>2, <2>3, OnePasses DEF Claims!GiveUp, ActiveIssues
  <2> QED
    BY <1>1, <2>4 DEF Claims!ClaimsNext
<1>5. CASE /\ tracker[i] \in ActiveStates
           /\ BeginDispatch(i, "retry", tracker[i], l.config)
  <2>1. /\ claimed' = claimed \cup {i}
        /\ DOMAIN retries' = DOMAIN retries \ {i}
        /\ \E d : d.issue = i /\ dispatching' = dispatching \cup {d}
    BY <1>5, DropFacts DEF BeginDispatch
  <2>2. HasDispatch(i)' /\ \A j \in Issues \ {i} : HasDispatch(j)' <=> HasDispatch(j)
    BY <2>1 DEF HasDispatch
  <2>3. StageOf(i)' = "preparing"
    BY <1>1, <2>2, StagesNow, StagesNext DEF InItsStage
  <2>4. \A j \in Issues \ {i} : StageOf(j)' = StageOf(j)
    BY <1>1, <1>2, <2>1, <2>2, SameStage
  <2>5. i \in ActiveIssues
    BY <1>1, <1>5 DEF ActiveIssues
  <2>6. Claims!Redispatch(i)
    BY <1>1, <1>3, <2>3, <2>4, <2>5, OnePasses
       DEF Claims!Redispatch, ActiveIssues
  <2> QED
    BY <1>1, <2>6 DEF Claims!ClaimsNext
<1>6. CASE ScheduleRetry(i, l.config) /\ UNCHANGED <<claimed, dispatching>>
  <2>1. DOMAIN retries' = DOMAIN retries \cup {i}
    BY <1>6 DEF ScheduleRetry, Put
  <2>2. StageOf(i)' = "retry"
    BY <1>1, <2>1, StagesNow, StagesNext DEF InItsStage
  <2>3. \A j \in Issues \ {i} : StageOf(j)' = StageOf(j)
    <3>1. \A j \in Issues : HasDispatch(j)' <=> HasDispatch(j)
      BY <1>6 DEF HasDispatch
    <3> QED
      BY <1>1, <1>2, <1>6, <2>1, <3>1, SameStage
  <2>4. Claims!Requeue(i)
    BY <1>1, <1>3, <2>2, <2>3, OnePasses DEF Claims!Requeue
  <2> QED
    BY <1>1, <2>4 DEF Claims!ClaimsNext
<1> QED
  BY <1>4, <1>5, <1>6 DEF RetryLooksUp

LEMMA StepRefines ==
    IInv /\ IInv' /\ [Next]_vars => [Claims!ClaimsNext]_(Claims!claimVars)
<1> SUFFICES ASSUME IInv, IInv', [Next]_vars
             PROVE  Claims!ClaimsNext \/ UNCHANGED <<StageMap, ActiveIssues>>
  BY DEF Claims!claimVars, StageMap, ActiveIssues
<1>1. CASE UNCHANGED vars
  BY <1>1, SameStages DEF vars, volatile
<1>2. CASE StartNext \/ FaultNext
  BY <1>2, QuietRefines, FaultRefines
<1>3. CASE TickNext
  BY <1>3, QuietRefines, TickReloadsRefines, TickReconcilesRefines,
     TickDispatchesRefines DEF TickNext
<1>4. CASE PeopleNext
  BY <1>4, QuietRefines, MoveRefines DEF PeopleNext
<1>5. CASE \/ \E d \in dispatching : DispatchNext(d)
           \/ \E i \in Issues : AgentEnds(i) \/ RemoveWorkspace(i) \/ RetryNext(i)
  BY <1>5, DispatchRefines, AgentEndsRefines, RemoveWorkspaceRefines,
     RetryFiresRefines, RetryLooksUpRefines DEF RetryNext
<1> QED
  BY <1>1, <1>2, <1>3, <1>4, <1>5 DEF Next

LEMMA InitRefines == Init => Claims!ClaimsInit
BY DEF Init, StageOf, Claims!ClaimsInit

(* Every behaviour of the ticks, timers, dispatches and agents is one of   *)
(* the issues' claims: a claim goes from stage to stage, and is given up   *)
(* only by a retry that finds the issue out of the active states, by an    *)
(* agent that was told to stop when it was, or by the end of the service   *)
(* (claimed, running and retries of SymphonyOrchestrator).                 *)
THEOREM IssueClaimsImplemented == Spec => ImplementsIssueClaims
BY InitRefines, StepRefines, Invariance, PTL
   DEF Spec, ImplementsIssueClaims, Claims!ClaimsSpec

-----------------------------------------------------------------------------
(***************************************************************************)
(* The inductive invariant of an attempt.                                  *)
(*                                                                         *)
(* CallCounting: each request of the server that is not answered is a line *)
(* that waits or a tool call.  That is why the process that ends on a      *)
(* request it cannot answer leaves one unanswered.                         *)
(* TurnProtocol: what the attempt awaits says what the pipe may hold.  A   *)
(* turn is answered once and ends once, and its end is in the pipe, or     *)
(* missed, or what the attempt goes on with.                               *)
(***************************************************************************)
CallsAt(s) == {n \in DOMAIN s : s[n].kind \in Calls}

EndsAt(s) == {n \in DOMAIN s : s[n].kind = "end"}

\* The answers to turn/start.
AnswersAt(s) == {n \in DOMAIN s : s[n].kind = "response" /\ s[n].of = "turnStart"}

BeforeTurns == {"start", "initialize", "configure", "thread", "render"}

CallCounting ==
    /\ server = "up" => child
    /\ alive => unanswered = tools + Cardinality(CallsAt(stdout))
    /\ pc \in BeforeTurns => turns = 0
    /\ pc = "start" => ~aborted
    /\ AttemptIsContained

\* A turn/start is answered once, while the attempt waits for it or has ended.
StartsOnce ==
    /\ \A n, m \in AnswersAt(stdout) : n = m
    /\ "turnStart" \in asked => AnswersAt(stdout) = {} /\ turn = "none"
    /\ "turnStart" \in asked \/ AnswersAt(stdout) # {} => pc \in {"turnStart", "ended"}
    /\ \A n \in AnswersAt(stdout) : stdout[n].good => turn # "none"
    /\ pc = "turnStart" /\ got = "ok" =>
            "turnStart" \notin asked /\ AnswersAt(stdout) = {} /\ turn # "none"

\* A turn ends once, and as its end in the pipe says.
EndsOnce ==
    /\ \A n, m \in EndsAt(stdout) : n = m
    /\ \A n \in EndsAt(stdout) :
            turn = IF stdout[n].good THEN "completed" ELSE "failed"

TurnEnded == turn \in {"completed", "failed"}

TurnProtocol ==
    /\ StartsOnce /\ EndsOnce
    /\ pc \in BeforeTurns => turn = "none"
    /\ pc = "turn" => turn # "none"
    /\ (pc = "turn" /\ got = "ok") \/ pc = "tracker" =>
            turn = "completed" /\ EndsAt(stdout) = {}
    /\ \/ pc = "turnStart"
       \/ pc = "turn" /\ got \in {"nothing", "timeout"}
       \/ result = "timed_out"
       => (TurnEnded => missed \/ EndsAt(stdout) # {})
    /\ result = "timed_out" => turn # "none"
    /\ result = "succeeded" => turn = "completed"
    /\ result = "cancelled" => aborted

AttemptIInv == AttemptTypeOK /\ CallCounting /\ TurnProtocol

LEMMA LineFacts ==
    ASSUME NEW line \in Line
    PROVE  /\ line.kind \in Calls \cup {"response", "end"}
           /\ line.kind = "response" => line.of \in Requests /\ line.good \in BOOLEAN
           /\ line.kind = "end" => line.good \in BOOLEAN
           /\ "response" \notin Calls /\ "end" \notin Calls
BY AttemptAssumption DEF Line, Bounds

\* Where the lines of each kind are, when one is added at the end.
LEMMA AtEnd ==
    ASSUME NEW s \in Seq(Line), NEW line \in Line
    PROVE  LET t == Append(s, line) IN
           /\ t \in Seq(Line) /\ Len(t) = Len(s) + 1
           /\ \A n \in DOMAIN s : t[n] = s[n]
           /\ t[Len(s) + 1] = line
           /\ DOMAIN s = 1 .. Len(s) /\ DOMAIN t = 1 .. Len(s) + 1
           /\ EndsAt(t) = IF line.kind = "end" THEN EndsAt(s) \cup {Len(s) + 1} ELSE EndsAt(s)
           /\ AnswersAt(t) = IF line.kind = "response" /\ line.of = "turnStart"
                             THEN AnswersAt(s) \cup {Len(s) + 1} ELSE AnswersAt(s)
           /\ CallsAt(t) = IF line.kind \in Calls THEN CallsAt(s) \cup {Len(s) + 1} ELSE CallsAt(s)
<1> DEFINE t == Append(s, line)
<1>1. /\ t \in Seq(Line) /\ Len(t) = Len(s) + 1
      /\ \A n \in DOMAIN s : t[n] = s[n]
      /\ t[Len(s) + 1] = line
      /\ DOMAIN s = 1 .. Len(s) /\ DOMAIN t = 1 .. Len(s) + 1 /\ Len(s) \in Nat
  OBVIOUS
<1> HIDE DEF t
<1>2. EndsAt(t) = IF line.kind = "end" THEN EndsAt(s) \cup {Len(s) + 1} ELSE EndsAt(s)
  BY <1>1 DEF EndsAt
<1>3. AnswersAt(t) = IF line.kind = "response" /\ line.of = "turnStart"
                     THEN AnswersAt(s) \cup {Len(s) + 1} ELSE AnswersAt(s)
  BY <1>1 DEF AnswersAt
<1>4. CallsAt(t) = IF line.kind \in Calls THEN CallsAt(s) \cup {Len(s) + 1} ELSE CallsAt(s)
  BY <1>1 DEF CallsAt
<1> QED
  BY <1>1, <1>2, <1>3, <1>4 DEF t

LEMMA CallsFinite ==
    ASSUME NEW s \in Seq(Line)
    PROVE  IsFiniteSet(CallsAt(s)) /\ Cardinality(CallsAt(s)) \in Nat
<1>1. IsFiniteSet(1 .. Len(s))
  BY FS_Interval
<1>2. CallsAt(s) \subseteq 1 .. Len(s)
  BY DEF CallsAt
<1> QED
  BY <1>1, <1>2, FS_Subset, FS_CardinalityType

LEMMA CallsAtEnd ==
    ASSUME NEW s \in Seq(Line), NEW line \in Line
    PROVE  Cardinality(CallsAt(Append(s, line))) =
               IF line.kind \in Calls THEN Cardinality(CallsAt(s)) + 1
               ELSE Cardinality(CallsAt(s))
<1>1. Len(s) + 1 \notin CallsAt(s)
  BY DEF CallsAt
<1>2. Cardinality(CallsAt(s) \cup {Len(s) + 1}) = Cardinality(CallsAt(s)) + 1
  BY <1>1, CallsFinite, FS_AddElement
<1> QED
  BY <1>2, AtEnd

\* Where they are when the first line is taken.
LEMMA AtHead ==
    ASSUME NEW s \in Seq(Line), s # <<>>
    PROVE  /\ Head(s) \in Line /\ Head(s) = s[1] /\ 1 \in DOMAIN s
           /\ Tail(s) \in Seq(Line) /\ Len(Tail(s)) = Len(s) - 1
           /\ DOMAIN Tail(s) = 1 .. Len(s) - 1 /\ DOMAIN s = 1 .. Len(s)
           /\ \A n \in DOMAIN Tail(s) : n + 1 \in DOMAIN s /\ Tail(s)[n] = s[n + 1]
           /\ \A n \in DOMAIN s : n # 1 => n - 1 \in DOMAIN Tail(s) /\ Tail(s)[n - 1] = s[n]
           /\ Len(s) \in Nat /\ Len(s) > 0
OBVIOUS

LEMMA CallsAtHead ==
    ASSUME NEW s \in Seq(Line), s # <<>>
    PROVE  Cardinality(CallsAt(s)) =
               IF Head(s).kind \in Calls THEN Cardinality(CallsAt(Tail(s))) + 1
               ELSE Cardinality(CallsAt(Tail(s)))
<1> DEFINE rest == CallsAt(s) \ {1}
           shift == [n \in CallsAt(Tail(s)) |-> n + 1]
<1>1. shift \in Bijection(CallsAt(Tail(s)), rest)
  <2>1. \A n \in CallsAt(Tail(s)) : n + 1 \in rest /\ n \in Nat
    BY AtHead DEF CallsAt
  <2>2. \A m \in rest : m - 1 \in CallsAt(Tail(s)) /\ shift[m - 1] = m
    BY AtHead DEF CallsAt
  <2>3. shift \in [CallsAt(Tail(s)) -> rest]
    BY <2>1
  <2>4. \A a, b \in CallsAt(Tail(s)) : shift[a] = shift[b] => a = b
    BY <2>1
  <2>5. \A m \in rest : \E n \in CallsAt(Tail(s)) : shift[n] = m
    BY <2>2
  <2> HIDE DEF shift, rest
  <2> QED
    BY <2>3, <2>4, <2>5, Fun_IsBij
<1>2. ExistsBijection(CallsAt(Tail(s)), rest)
  BY <1>1, Zenon DEF ExistsBijection
<1>3. Tail(s) \in Seq(Line)
  BY AtHead
<1>4. Cardinality(rest) = Cardinality(CallsAt(Tail(s))) /\ IsFiniteSet(rest)
  BY <1>2, <1>3, CallsFinite, FS_Bijection
<1>5. 1 \in CallsAt(s) <=> Head(s).kind \in Calls
  BY AtHead DEF CallsAt
<1>6. CASE Head(s).kind \in Calls
  <2>1. CallsAt(s) = rest \cup {1} /\ 1 \notin rest
    BY <1>5, <1>6
  <2> QED
    BY <2>1, <1>4, <1>6, FS_AddElement
<1>7. CASE Head(s).kind \notin Calls
  BY <1>5, <1>7, <1>4
<1> QED
  BY <1>6, <1>7

LEMMA InitAttemptIInv ==
    ASSUME AttemptInit
    PROVE  AttemptIInv
<1>1. /\ CallsAt(stdout) = {} /\ EndsAt(stdout) = {} /\ AnswersAt(stdout) = {}
      /\ Len(stdout) = 0 /\ stdout \in Seq(Line)
  BY DEF AttemptInit, CallsAt, EndsAt, AnswersAt
<1>5. Cardinality(CallsAt(stdout)) = 0
  BY <1>1, FS_EmptySet
<1>2. AttemptTypeOK
  <2>1. \A b \in {child, aborted, listening, alive, missed, early} : b \in BOOLEAN
    BY DEF AttemptInit
  <2>2. /\ turns \in 0 .. MaxTurns
        /\ tools \in 0 .. MaxCalls /\ made \in 0 .. MaxCalls
        /\ unanswered \in tools .. made
        /\ Len(stdout) <= MaxLines /\ more \in 0 .. Len(stdout)
    BY <1>1, AttemptAssumption DEF AttemptInit, Bounds
  <2>3. /\ pc = "start" /\ asked \subseteq Requests
        /\ result # "none" <=> pc = "ended"
    BY DEF AttemptInit, Requests
  <2> QED
    BY <1>1, <2>1, <2>2, <2>3 DEF AttemptTypeOK, AttemptInit
<1>3. CallCounting
  BY <1>5
     DEF AttemptInit, CallCounting, AttemptIsContained, ServerIsGone,
         SchedulerSurvives
<1>4. TurnProtocol
  BY <1>1
     DEF AttemptInit, TurnProtocol, StartsOnce, EndsOnce, BeforeTurns, TurnEnded
<1> QED
  BY <1>2, <1>3, <1>4 DEF AttemptIInv

\* The type invariant, as arithmetic needs it.
LEMMA AttemptTypes ==
    ASSUME AttemptIInv
    PROVE  /\ MaxCalls \in Nat /\ MaxLines \in Nat
           /\ tools \in Nat /\ unanswered \in Nat /\ made \in Nat
           /\ tools <= unanswered /\ unanswered <= made /\ made <= MaxCalls
           /\ stdout \in Seq(Line) /\ Len(stdout) \in Nat
           /\ more \in Nat /\ more <= Len(stdout) /\ Len(stdout) <= MaxLines
           /\ child \in BOOLEAN /\ alive \in BOOLEAN /\ missed \in BOOLEAN
<1>1. MaxCalls \in Nat /\ MaxLines \in Nat
  BY AttemptAssumption DEF Bounds
<1>2. /\ tools \in 0 .. MaxCalls /\ made \in 0 .. MaxCalls
      /\ unanswered \in tools .. made
      /\ stdout \in Seq(Line) /\ Len(stdout) <= MaxLines
      /\ more \in 0 .. Len(stdout)
      /\ child \in BOOLEAN /\ alive \in BOOLEAN /\ missed \in BOOLEAN
  BY DEF AttemptIInv, AttemptTypeOK
<1> QED
  BY <1>1, <1>2

-----------------------------------------------------------------------------
(* What an attempt does *)

\* An attempt may end with any status that is true.
LEMMA FinishKeeps ==
    ASSUME AttemptIInv, alive, NEW status, Finish(status),
           status \in {"succeeded", "failed", "cancelled", "timed_out"},
           status = "succeeded" => turn = "completed",
           status = "cancelled" => aborted,
           status = "timed_out" =>
               turn # "none" /\ (TurnEnded => missed \/ EndsAt(stdout) # {})
    PROVE  AttemptIInv'
<1>1. AttemptTypeOK'
  BY DEF Finish, Terminate, outside, AttemptIInv, AttemptTypeOK
<1>2. CallCounting'
  BY DEF Finish, Terminate, outside, AttemptIInv,
         AttemptTypeOK, CallCounting, BeforeTurns, AttemptIsContained,
         ServerIsGone, SchedulerSurvives
<1>3. TurnProtocol'
  BY DEF Finish, Terminate, outside, AttemptIInv,
         AttemptTypeOK, TurnProtocol, StartsOnce, EndsOnce, BeforeTurns,
         TurnEnded
<1> QED
  BY <1>1, <1>2, <1>3 DEF AttemptIInv

LEMMA FailKeeps ==
    ASSUME AttemptIInv, alive,
           NEW timeout \in BOOLEAN, Fail(timeout),
           timeout => turn # "none" /\ (TurnEnded => missed \/ EndsAt(stdout) # {})
    PROVE  AttemptIInv'
BY FinishKeeps DEF Fail, AttemptIInv, AttemptTypeOK

\* A request may be sent when no answer to one like it can come.
LEMMA SendKeeps ==
    ASSUME AttemptIInv, alive, more = 0,
           NEW method \in {"configure", "thread", "turnStart"}, Send(method),
           pc # "ended",
           method # "turnStart" => pc \in BeforeTurns,
           method = "turnStart" =>
               /\ turns < MaxTurns /\ "turnStart" \notin asked
               /\ AnswersAt(stdout) = {} /\ EndsAt(stdout) = {}
    PROVE  AttemptIInv'
<1>1. CASE child /\ ~Broken
  <2>0. /\ pc' = method /\ got' = "nothing"
        /\ turns' = IF method = "turnStart" THEN turns + 1 ELSE turns
        /\ asked' = IF server = "up" THEN asked \cup {method} ELSE asked
        /\ turn' = IF method = "turnStart" THEN "none" ELSE turn
        /\ UNCHANGED <<listening, result, child, aborted, tools, alive, server,
                       made, stdout, more, unanswered, missed, early>>
    BY <1>1
       DEF Send, Fail, Finish, Terminate, Broken
  <2>1. AttemptTypeOK'
    <3>1. turns' \in 0 .. MaxTurns
      BY <2>0, AttemptAssumption DEF AttemptIInv, AttemptTypeOK, Bounds
    <3>2. /\ pc' \in Requests /\ asked' \subseteq Requests
          /\ result' # "none" <=> pc' = "ended"
      BY <2>0 DEF AttemptIInv, AttemptTypeOK, Requests
    <3>3. \A b \in {child', aborted', listening', alive', missed', early'} : b \in BOOLEAN
      BY <2>0 DEF AttemptIInv, AttemptTypeOK
    <3> QED
      BY <2>0, <3>1, <3>2, <3>3 DEF AttemptIInv, AttemptTypeOK
  <2>2. CallCounting'
    BY <2>0
       DEF AttemptIInv, AttemptTypeOK, CallCounting, BeforeTurns,
           AttemptIsContained, ServerIsGone, SchedulerSurvives
  <2>3. TurnProtocol'
    BY <2>0
       DEF AttemptIInv, AttemptTypeOK, TurnProtocol, StartsOnce, EndsOnce,
           BeforeTurns, TurnEnded
  <2> QED
    BY <2>1, <2>2, <2>3 DEF AttemptIInv
<1>2. CASE Broken /\ alive' = FALSE
           /\ UNCHANGED <<attempt, child, aborted, tools, server, outside,
                          unanswered, missed, early>>
  BY <1>2
     DEF attempt, outside, AttemptIInv, AttemptTypeOK, CallCounting,
         AttemptIsContained, ServerIsGone, SchedulerSurvives,
         Broken, TurnProtocol, StartsOnce, EndsOnce, TurnEnded
<1>3. CASE ~child /\ Fail(FALSE)
  BY <1>3, FailKeeps
<1> QED
  BY <1>1, <1>2, <1>3 DEF Send

LEMMA StartServerKeeps ==
    ASSUME AttemptIInv, StartServer
    PROVE  AttemptIInv'
<1>1. ASSUME pc = "start", pc' = "initialize", child' = TRUE, server' = "up",
             asked' = {"initialize"},
             UNCHANGED <<got, turns, listening, result, aborted, tools, alive, turn,
                         made, stdout, more, unanswered, missed, early>>
      PROVE  AttemptIInv'
  <2>1. AttemptTypeOK'
    BY <1>1 DEF AttemptIInv, AttemptTypeOK, Requests
  <2>2. CallCounting'
    BY <1>1
       DEF StartServer, Quiet, AttemptIInv, AttemptTypeOK, CallCounting,
           BeforeTurns, AttemptIsContained, ServerIsGone, SchedulerSurvives
  <2>3. TurnProtocol'
    BY <1>1
       DEF AttemptIInv, AttemptTypeOK, TurnProtocol, StartsOnce, EndsOnce,
           BeforeTurns, TurnEnded
  <2> QED
    BY <2>1, <2>2, <2>3 DEF AttemptIInv
<1>2. CASE Fail(FALSE)
  BY <1>2, FailKeeps DEF StartServer, Quiet
<1>3. ASSUME alive' = FALSE, child' = TRUE, server' \in {"absent", "exited"},
             UNCHANGED <<attempt, aborted, tools, outside, unanswered, missed, early>>
      PROVE  AttemptIInv'
  <2>1. AttemptTypeOK'
    <3>1. \A b \in {child', aborted', listening', alive', missed', early'} : b \in BOOLEAN
      BY <1>3 DEF attempt, AttemptIInv, AttemptTypeOK
    <3> QED
      BY <1>3, <3>1 DEF attempt, outside, AttemptIInv, AttemptTypeOK
  <2>2. CallCounting'
    BY <1>3
       DEF attempt, outside, AttemptIInv, CallCounting, AttemptIsContained,
           ServerIsGone, SchedulerSurvives
  <2>3. TurnProtocol'
    BY <1>3
       DEF attempt, outside, AttemptIInv, TurnProtocol, StartsOnce, EndsOnce,
           TurnEnded
  <2> QED
    BY <2>1, <2>2, <2>3 DEF AttemptIInv
<1> QED
  BY <1>1, <1>2, <1>3 DEF StartServer

LEMMA HandshakeKeeps ==
    ASSUME AttemptIInv, HandshakeGoesOn
    PROVE  AttemptIInv'
<1>1. ASSUME pc = "initialize", Send("configure"), Resolved
      PROVE  AttemptIInv'
  BY <1>1, SendKeeps DEF Resolved, BeforeTurns
<1>2. ASSUME pc = "configure", Send("thread"), Resolved
      PROVE  AttemptIInv'
  BY <1>2, SendKeeps DEF Resolved, BeforeTurns
<1>3. ASSUME pc = "thread", listening' = TRUE, pc' = "render", got' = "nothing",
             UNCHANGED <<turns, result, child, aborted, tools, alive, server,
                         outside, unanswered, missed, early>>
      PROVE  AttemptIInv'
  BY <1>3
     DEF outside, AttemptIInv, AttemptTypeOK, CallCounting,
         AttemptIsContained, ServerIsGone, SchedulerSurvives,
         TurnProtocol, StartsOnce, EndsOnce, TurnEnded, BeforeTurns
<1> QED
  BY <1>1, <1>2, <1>3 DEF HandshakeGoesOn

LEMMA RequestFailsKeeps ==
    ASSUME AttemptIInv, RequestFails
    PROVE  AttemptIInv'
BY FailKeeps DEF RequestFails, Resolved

LEMMA RenderPromptKeeps ==
    ASSUME AttemptIInv, RenderPrompt
    PROVE  AttemptIInv'
<1>1. CASE Send("turnStart")
  <2>1. turns < MaxTurns
    BY AttemptAssumption
       DEF RenderPrompt, AttemptIInv, CallCounting, BeforeTurns, Bounds
  <2>2. "turnStart" \notin asked /\ AnswersAt(stdout) = {} /\ EndsAt(stdout) = {}
    BY DEF RenderPrompt, AttemptIInv, TurnProtocol, StartsOnce, EndsOnce,
           BeforeTurns
  <2> QED
    BY <1>1, <2>1, <2>2, SendKeeps DEF RenderPrompt, Quiet
<1>2. CASE Fail(FALSE)
  BY <1>2, FailKeeps DEF RenderPrompt, Quiet
<1> QED
  BY <1>1, <1>2 DEF RenderPrompt

LEMMA BeginTurnKeeps ==
    ASSUME AttemptIInv, BeginTurn
    PROVE  AttemptIInv'
BY DEF BeginTurn, outside, AttemptIInv, AttemptTypeOK, CallCounting,
       AttemptIsContained, ServerIsGone, SchedulerSurvives,
       TurnProtocol, StartsOnce, EndsOnce, TurnEnded, BeforeTurns

LEMMA TurnEndsKeeps ==
    ASSUME AttemptIInv, TurnEnds
    PROVE  AttemptIInv'
<1>1. CASE got = "ok"
  <2>1. /\ pc = "turn" /\ pc' = "tracker" /\ got' = "nothing" /\ alive
        /\ UNCHANGED <<turns, listening, result, child, aborted, tools, alive,
                       server, outside, unanswered, missed, early>>
    BY <1>1 DEF TurnEnds, Resolved
  <2> QED
    BY <1>1, <2>1
       DEF outside, AttemptIInv, AttemptTypeOK, CallCounting,
           AttemptIsContained, ServerIsGone,
           SchedulerSurvives, TurnProtocol, StartsOnce, EndsOnce,
           TurnEnded, BeforeTurns
<1>2. CASE got = "error"
  BY <1>2, FailKeeps DEF TurnEnds, Resolved
<1>3. CASE got = "timeout"
  <2>1. turn # "none" /\ (TurnEnded => missed \/ EndsAt(stdout) # {})
    BY <1>3 DEF TurnEnds, AttemptIInv, TurnProtocol
  <2> QED
    BY <1>3, <2>1, FailKeeps DEF TurnEnds, Resolved
<1> QED
  BY <1>1, <1>2, <1>3 DEF TurnEnds

LEMMA TrackerKeeps ==
    ASSUME AttemptIInv, Tracker
    PROVE  AttemptIInv'
<1>1. CASE TrackerFails
  BY <1>1, FailKeeps DEF TrackerFails, Quiet
<1>2. ASSUME NEW active \in BOOLEAN, TrackerAnswers(active)
      PROVE  AttemptIInv'
  <2>1. turn = "completed" /\ EndsAt(stdout) = {}
    BY <1>2 DEF TrackerAnswers, AttemptIInv, TurnProtocol
  <2>2. "turnStart" \notin asked /\ AnswersAt(stdout) = {}
    BY <1>2 DEF TrackerAnswers, AttemptIInv, TurnProtocol, StartsOnce
  <2>3. CASE Finish("succeeded")
    BY <1>2, <2>1, <2>3, FinishKeeps DEF TrackerAnswers, Quiet
  <2>4. CASE Fail(FALSE)
    BY <1>2, <2>4, FailKeeps DEF TrackerAnswers, Quiet
  <2>5. CASE Send("turnStart") /\ turns < MaxTurns
    BY <1>2, <2>1, <2>2, <2>5, SendKeeps DEF TrackerAnswers, Quiet
  <2>6. turns >= MaxTurns \/ turns < MaxTurns
    BY AttemptAssumption DEF AttemptIInv, AttemptTypeOK, Bounds
  <2>7. \/ Finish("succeeded") \/ Fail(FALSE)
        \/ Send("turnStart") /\ turns < MaxTurns
    BY <1>2, <2>6, Zenon DEF TrackerAnswers
  <2> QED
    BY <2>3, <2>4, <2>5, <2>7
<1> QED
  BY <1>1, <1>2 DEF Tracker

-----------------------------------------------------------------------------
(* Timers, the abort and the exit of the server *)

LEMMA InterruptKeeps ==
    ASSUME AttemptIInv,
           ReadTimeout \/ TurnTimeout \/ Abort \/ ExitSeen \/ Exits
    PROVE  AttemptIInv'
<1>1. CASE ReadTimeout
  BY <1>1
     DEF ReadTimeout, outside, AttemptIInv, AttemptTypeOK,
         CallCounting, AttemptIsContained, ServerIsGone,
         SchedulerSurvives, TurnProtocol, StartsOnce, EndsOnce, TurnEnded,
         BeforeTurns, Requests
<1>2. CASE TurnTimeout
  BY <1>2
     DEF TurnTimeout, Quiet, Terminate, outside,
         AttemptIInv, AttemptTypeOK, CallCounting, AttemptIsContained,
         ServerIsGone, SchedulerSurvives, TurnProtocol, StartsOnce,
         EndsOnce, TurnEnded, BeforeTurns
<1>3. CASE Abort
  BY <1>3
     DEF Abort, Quiet, Terminate, Broken, attempt,
         outside, AttemptIInv, AttemptTypeOK, CallCounting,
         AttemptIsContained, ServerIsGone, SchedulerSurvives,
         TurnProtocol, StartsOnce, EndsOnce, TurnEnded, BeforeTurns
<1>4. CASE ExitSeen
  BY <1>4
     DEF ExitSeen, Quiet, outside, AttemptIInv, AttemptTypeOK,
         CallCounting, AttemptIsContained, ServerIsGone,
         SchedulerSurvives, TurnProtocol, StartsOnce, EndsOnce, TurnEnded,
         BeforeTurns, Requests
<1>5. CASE Exits
  BY <1>5
     DEF Exits, attempt, outside, AttemptIInv, AttemptTypeOK,
         CallCounting, AttemptIsContained, ServerIsGone,
         SchedulerSurvives, TurnProtocol, StartsOnce, EndsOnce, TurnEnded,
         BeforeTurns
<1> QED
  BY <1>1, <1>2, <1>3, <1>4, <1>5

LEMMA ToolAnswersKeep ==
    ASSUME AttemptIInv, ToolAnswers
    PROVE  AttemptIInv'
<1>1. Cardinality(CallsAt(stdout)) \in Nat
  BY CallsFinite DEF AttemptIInv, AttemptTypeOK
<1>2. /\ alive /\ tools > 0 /\ tools' = tools - 1
      /\ \/ /\ child /\ ~Broken
            /\ unanswered' = unanswered - 1 /\ UNCHANGED alive
         \/ ~(child /\ ~Broken) /\ alive' = FALSE /\ UNCHANGED unanswered
      /\ UNCHANGED <<attempt, child, aborted, server, outside, missed,
                     early>>
  BY DEF ToolAnswers, Quiet
<1>6. /\ unanswered = tools + Cardinality(CallsAt(stdout))
      /\ tools \in Nat /\ unanswered > 0
  BY <1>1, <1>2 DEF AttemptIInv, AttemptTypeOK, CallCounting
<1>3. AttemptTypeOK'
  <2>1. tools' \in 0 .. MaxCalls
    BY <1>2, AttemptTypes
  <2>2. unanswered' \in tools' .. made
    <3>1. unanswered' = unanswered \/ unanswered' = unanswered - 1
      BY <1>2
    <3> QED
      BY <1>2, <3>1, AttemptTypes
  <2>3. alive' \in BOOLEAN
    BY <1>2, AttemptTypes
  <2> QED
    BY <1>2, <2>1, <2>2, <2>3
       DEF attempt, outside, AttemptIInv, AttemptTypeOK
<1>5. CallCounting'
  <2>1. alive' => unanswered' = tools' + Cardinality(CallsAt(stdout))
    BY <1>1, <1>2 DEF AttemptIInv, AttemptTypeOK, CallCounting
  <2>2. SchedulerSurvives'
    BY <1>2, <1>6 DEF SchedulerSurvives, Broken
  <2>3. ServerIsGone'
    BY <1>2
       DEF attempt, AttemptIInv, CallCounting, AttemptIsContained,
           ServerIsGone
  <2> QED
    BY <1>2, <2>1, <2>2, <2>3
       DEF attempt, outside, AttemptIInv, CallCounting,
           AttemptIsContained
<1>4. TurnProtocol'
  BY DEF ToolAnswers, attempt, outside, AttemptIInv,
         TurnProtocol, StartsOnce, EndsOnce, TurnEnded
<1> QED
  BY <1>3, <1>4, <1>5 DEF AttemptIInv

-----------------------------------------------------------------------------
(* Lines: written by the server, handled by the attempt *)

\* A line is added that is neither the end of a turn nor, except for one that
\* is due, an answer to turn/start.
LEMMA AnswersKeep ==
    ASSUME AttemptIInv,
           NEW request \in Requests, NEW good \in BOOLEAN,
           Answers(request, good)
    PROVE  AttemptIInv'
<1> DEFINE line == [kind |-> "response", of |-> request, good |-> good]
<1>1. /\ line \in Line /\ line.kind = "response" /\ line.of = request
      /\ line.good = good
      /\ line.kind \notin Calls /\ line.kind # "end"
  BY AttemptAssumption DEF Line, Bounds
<1>2. /\ alive /\ server = "up" /\ request \in asked
      /\ asked' = asked \ {request}
      /\ turn' = IF request = "turnStart" /\ good THEN "open" ELSE turn
      /\ Len(stdout) < MaxLines /\ stdout' = Append(stdout, line)
      /\ UNCHANGED <<more, attempt, child, aborted, tools, alive, server, made,
                     unanswered, missed, early>>
  BY DEF Answers, Says
<1>3. child /\ pc # "ended"
  BY <1>2
     DEF AttemptIInv, CallCounting, AttemptIsContained, ServerIsGone
<1> HIDE DEF line
<1>4. /\ stdout' \in Seq(Line) /\ Len(stdout') = Len(stdout) + 1
      /\ \A n \in DOMAIN stdout : stdout'[n] = stdout[n]
      /\ stdout'[Len(stdout) + 1] = line
      /\ DOMAIN stdout = 1 .. Len(stdout)
      /\ EndsAt(stdout') = EndsAt(stdout)
      /\ AnswersAt(stdout') = IF request = "turnStart"
                              THEN AnswersAt(stdout) \cup {Len(stdout) + 1}
                              ELSE AnswersAt(stdout)
      /\ Cardinality(CallsAt(stdout')) = Cardinality(CallsAt(stdout))
      /\ EndsAt(stdout) \subseteq DOMAIN stdout
      /\ AnswersAt(stdout) \subseteq DOMAIN stdout
  BY <1>1, <1>2, AtEnd, CallsAtEnd, AttemptTypes DEF EndsAt, AnswersAt
<1>5. AttemptTypeOK'
  <2>1. Len(stdout') <= MaxLines /\ more' \in 0 .. Len(stdout')
    BY <1>2, <1>4, AttemptTypes
  <2> QED
    BY <1>2, <1>4, <2>1 DEF attempt, AttemptIInv, AttemptTypeOK
<1>6. CallCounting'
  BY <1>2, <1>4
     DEF attempt, AttemptIInv, CallCounting, AttemptIsContained,
         ServerIsGone, SchedulerSurvives
<1>7. TurnProtocol'
  <2>1. CASE request = "turnStart"
    <3>1. turn = "none" /\ AnswersAt(stdout) = {} /\ EndsAt(stdout) = {}
      BY <1>2, <2>1 DEF AttemptIInv, TurnProtocol, StartsOnce, EndsOnce
    <3>2. AnswersAt(stdout') = {Len(stdout) + 1} /\ EndsAt(stdout') = {}
      BY <1>4, <2>1, <3>1
    <3>3. pc = "turnStart" /\ got # "ok"
      BY <1>2, <1>3, <2>1 DEF AttemptIInv, TurnProtocol, StartsOnce
    <3>4. StartsOnce'
      BY <1>1, <1>2, <1>4, <2>1, <3>2, <3>3 DEF attempt, StartsOnce
    <3>5. EndsOnce'
      BY <3>2 DEF EndsOnce
    <3>6. result # "timed_out" /\ result # "succeeded" /\ result # "cancelled"
      BY <1>3 DEF AttemptIInv, AttemptTypeOK
    <3> QED
      BY <1>2, <2>1, <3>1, <3>3, <3>4, <3>5, <3>6
         DEF attempt, TurnProtocol, BeforeTurns, TurnEnded
  <2>2. CASE request # "turnStart"
    <3>1. StartsOnce'
      BY <1>2, <1>4, <2>2
         DEF attempt, AttemptIInv, TurnProtocol, StartsOnce
    <3>2. EndsOnce'
      BY <1>2, <1>4, <2>2 DEF AttemptIInv, TurnProtocol, EndsOnce
    <3> QED
      BY <1>2, <1>4, <2>2, <3>1, <3>2
         DEF attempt, AttemptIInv, TurnProtocol, TurnEnded
  <2> QED
    BY <2>1, <2>2
<1> QED
  BY <1>5, <1>6, <1>7 DEF AttemptIInv

LEMMA CallingKeeps ==
    ASSUME AttemptIInv, NEW kind \in Calls, Calling(kind)
    PROVE  AttemptIInv'
<1> DEFINE line == [kind |-> kind]
<1>1. line \in Line /\ line.kind = kind /\ kind # "end" /\ kind # "response"
  BY AttemptAssumption DEF Line, Bounds
<1>2. /\ alive /\ server = "up" /\ turn = "open" /\ made < MaxCalls
      /\ made' = made + 1 /\ unanswered' = unanswered + 1
      /\ Len(stdout) < MaxLines /\ stdout' = Append(stdout, line)
      /\ UNCHANGED <<more, attempt, child, aborted, tools, alive, server, asked,
                     turn, missed, early>>
  BY DEF Calling, Says
<1> HIDE DEF line
<1>3. /\ stdout' \in Seq(Line) /\ Len(stdout') = Len(stdout) + 1
      /\ \A n \in DOMAIN stdout : stdout'[n] = stdout[n]
      /\ EndsAt(stdout') = EndsAt(stdout) /\ AnswersAt(stdout') = AnswersAt(stdout)
      /\ EndsAt(stdout) \subseteq DOMAIN stdout
      /\ AnswersAt(stdout) \subseteq DOMAIN stdout
  BY <1>1, <1>2, AtEnd, AttemptTypes DEF EndsAt, AnswersAt
<1>4. Cardinality(CallsAt(stdout')) = Cardinality(CallsAt(stdout)) + 1
  BY <1>1, <1>2, CallsAtEnd, AttemptTypes
<1>5. AttemptTypeOK'
  <2>1. /\ Len(stdout') <= MaxLines /\ more' \in 0 .. Len(stdout')
        /\ made' \in 0 .. MaxCalls /\ unanswered' \in tools' .. made'
        /\ tools' \in 0 .. MaxCalls
    BY <1>2, <1>3, AttemptTypes
  <2> QED
    BY <1>2, <1>3, <2>1 DEF attempt, AttemptIInv, AttemptTypeOK
<1>6. CallCounting'
  <2>1. alive' => unanswered' = tools' + Cardinality(CallsAt(stdout'))
    <3>1. Cardinality(CallsAt(stdout)) \in Nat
      BY CallsFinite, AttemptTypes
    <3>2. unanswered = tools + Cardinality(CallsAt(stdout))
      BY <1>2 DEF AttemptIInv, CallCounting
    <3> QED
      BY <1>2, <1>4, <3>1, <3>2, AttemptTypes
  <2>2. ~(alive' = FALSE)
    BY <1>2
  <2> QED
    BY <1>2, <2>1
       DEF attempt, AttemptIInv, CallCounting, AttemptIsContained,
           ServerIsGone, SchedulerSurvives
<1>7. TurnProtocol'
  <2>1. StartsOnce'
    BY <1>2, <1>3 DEF attempt, AttemptIInv, TurnProtocol, StartsOnce
  <2>2. EndsOnce'
    BY <1>2, <1>3 DEF AttemptIInv, TurnProtocol, EndsOnce
  <2> QED
    BY <1>2, <1>3, <2>1, <2>2
       DEF attempt, AttemptIInv, TurnProtocol, TurnEnded
<1> QED
  BY <1>5, <1>6, <1>7 DEF AttemptIInv

\* The end of a turn is written once, for the turn is open no more.
LEMMA EndsTurnKeeps ==
    ASSUME AttemptIInv, NEW good \in BOOLEAN, EndsTurn(good)
    PROVE  AttemptIInv'
<1> DEFINE line == [kind |-> "end", good |-> good]
<1>1. /\ line \in Line /\ line.kind = "end" /\ line.good = good
      /\ line.kind \notin Calls /\ line.kind # "response"
  BY AttemptAssumption DEF Line, Bounds
<1>2. /\ alive /\ server = "up" /\ turn = "open"
      /\ turn' = IF good THEN "completed" ELSE "failed"
      /\ Len(stdout) < MaxLines /\ stdout' = Append(stdout, line)
      /\ UNCHANGED <<more, attempt, child, aborted, tools, alive, server, asked,
                     made, unanswered, missed, early>>
  BY DEF EndsTurn, Says
<1>3. /\ EndsAt(stdout) = {} /\ pc \notin BeforeTurns \cup {"tracker", "ended"}
      /\ ~(pc = "turn" /\ got = "ok") /\ "turnStart" \notin asked
      /\ result = "none"
  BY <1>2
     DEF AttemptIInv, AttemptTypeOK, TurnProtocol, StartsOnce, EndsOnce,
         CallCounting, AttemptIsContained, ServerIsGone
<1> HIDE DEF line
<1>4. /\ stdout' \in Seq(Line) /\ Len(stdout') = Len(stdout) + 1
      /\ \A n \in DOMAIN stdout : stdout'[n] = stdout[n]
      /\ stdout'[Len(stdout) + 1] = line
      /\ EndsAt(stdout') = {Len(stdout) + 1} /\ AnswersAt(stdout') = AnswersAt(stdout)
      /\ AnswersAt(stdout) \subseteq DOMAIN stdout
      /\ Cardinality(CallsAt(stdout')) = Cardinality(CallsAt(stdout))
  BY <1>1, <1>2, <1>3, AtEnd, CallsAtEnd, AttemptTypes DEF AnswersAt
<1>5. AttemptTypeOK'
  <2>1. Len(stdout') <= MaxLines /\ more' \in 0 .. Len(stdout')
    BY <1>2, <1>4, AttemptTypes
  <2> QED
    BY <1>2, <1>4, <2>1 DEF attempt, AttemptIInv, AttemptTypeOK
<1>6. CallCounting'
  BY <1>2, <1>4
     DEF attempt, AttemptIInv, CallCounting, AttemptIsContained,
         ServerIsGone, SchedulerSurvives
<1>7. TurnProtocol'
  <2>1. StartsOnce'
    BY <1>2, <1>3, <1>4 DEF attempt, AttemptIInv, TurnProtocol, StartsOnce
  <2>2. EndsOnce'
    BY <1>1, <1>2, <1>4 DEF EndsOnce
  <2> QED
    BY <1>2, <1>3, <1>4, <2>1, <2>2 DEF attempt, TurnProtocol, TurnEnded
<1> QED
  BY <1>5, <1>6, <1>7 DEF AttemptIInv

\* What is left when a line is handled has its lines of each kind one place on.
LEMMA AfterHead ==
    ASSUME NEW s \in Seq(Line), s # <<>>
    PROVE  LET r == Tail(s) IN
           /\ \A n \in EndsAt(r) : n \in Nat \ {0} /\ n + 1 \in EndsAt(s) /\ r[n] = s[n + 1]
           /\ \A n \in AnswersAt(r) :
                 n \in Nat \ {0} /\ n + 1 \in AnswersAt(s) /\ r[n] = s[n + 1]
           /\ \A n \in EndsAt(s) : n # 1 => n - 1 \in EndsAt(r)
           /\ \A n \in AnswersAt(s) : n # 1 => n - 1 \in AnswersAt(r)
           /\ 1 \in EndsAt(s) <=> Head(s).kind = "end"
           /\ 1 \in AnswersAt(s) <=> Head(s).kind = "response" /\ Head(s).of = "turnStart"
<1> DEFINE r == Tail(s)
<1>1. /\ Head(s) = s[1] /\ 1 \in DOMAIN s
      /\ DOMAIN r = 1 .. Len(s) - 1 /\ Len(s) \in Nat
      /\ \A n \in DOMAIN r : n + 1 \in DOMAIN s /\ r[n] = s[n + 1]
      /\ \A n \in DOMAIN s : n # 1 => n - 1 \in DOMAIN r /\ r[n - 1] = s[n]
  BY AtHead
<1> HIDE DEF r
<1>2. /\ \A n \in EndsAt(r) : n \in Nat \ {0} /\ n + 1 \in EndsAt(s) /\ r[n] = s[n + 1]
      /\ \A n \in EndsAt(s) : n # 1 => n - 1 \in EndsAt(r)
      /\ 1 \in EndsAt(s) <=> Head(s).kind = "end"
  BY <1>1 DEF EndsAt
<1>3. /\ \A n \in AnswersAt(r) :
            n \in Nat \ {0} /\ n + 1 \in AnswersAt(s) /\ r[n] = s[n + 1]
      /\ \A n \in AnswersAt(s) : n # 1 => n - 1 \in AnswersAt(r)
      /\ 1 \in AnswersAt(s) <=> Head(s).kind = "response" /\ Head(s).of = "turnStart"
  BY <1>1 DEF AnswersAt
<1> QED
  BY <1>2, <1>3 DEF r

\* What a line changes, told apart by what the attempt goes on with.
LEMMA HandleLineKeeps ==
    ASSUME AttemptIInv,
           HandleLine, alive, more' \in 0 .. Len(stdout) - 1
    PROVE  AttemptIInv'
<1> DEFINE line == Head(stdout)
           settled == IF line.good THEN "ok" ELSE "error"
<1>1. /\ stdout # <<>> /\ stdout \in Seq(Line)
      /\ stdout' = Tail(stdout)
      /\ UNCHANGED <<pc, turns, listening, result, aborted, asked, turn, made, early>>
  BY AttemptTypes DEF HandleLine
<1>2. /\ line \in Line
      /\ line.kind \in Calls \cup {"response", "end"}
      /\ line.kind = "response" => line.of \in Requests /\ line.good \in BOOLEAN
      /\ line.kind = "end" => line.good \in BOOLEAN
      /\ "response" \notin Calls /\ "end" \notin Calls
      /\ Calls \subseteq {"approval", "tool", "input"}
  BY <1>1, AtHead, LineFacts, AttemptAssumption DEF Bounds
<1>3. Heard(line)
  BY DEF HandleLine
<1>4. /\ stdout' \in Seq(Line) /\ Len(stdout') = Len(stdout) - 1
      /\ Len(stdout) \in Nat /\ Len(stdout) > 0
      /\ \A n \in EndsAt(stdout') :
            /\ n \in Nat \ {0} /\ n + 1 \in EndsAt(stdout)
            /\ stdout'[n] = stdout[n + 1]
      /\ \A n \in AnswersAt(stdout') :
            /\ n \in Nat \ {0} /\ n + 1 \in AnswersAt(stdout)
            /\ stdout'[n] = stdout[n + 1]
      /\ \A n \in EndsAt(stdout) : n # 1 => n - 1 \in EndsAt(stdout')
      /\ \A n \in AnswersAt(stdout) : n # 1 => n - 1 \in AnswersAt(stdout')
      /\ 1 \in EndsAt(stdout) <=> line.kind = "end"
      /\ 1 \in AnswersAt(stdout) <=> line.kind = "response" /\ line.of = "turnStart"
      /\ line = stdout[1]
  BY <1>1, AtHead, AfterHead
<1>5. /\ Cardinality(CallsAt(stdout)) =
             IF line.kind \in Calls THEN Cardinality(CallsAt(stdout')) + 1
             ELSE Cardinality(CallsAt(stdout'))
      /\ Cardinality(CallsAt(stdout)) \in Nat
      /\ Cardinality(CallsAt(stdout')) \in Nat
  BY <1>1, <1>4, CallsAtHead, CallsFinite
<1>6. unanswered = tools + Cardinality(CallsAt(stdout))
  BY DEF AttemptIInv, CallCounting
<1> HIDE DEF line
<1>7. /\ got' = IF Settles(line) THEN settled ELSE got
      /\ got' \in {"nothing", "ok", "error", "timeout"}
      /\ missed' \in BOOLEAN
      /\ missed => missed'
      /\ line.kind = "end" /\ ~Settles(line) => missed'
  BY <1>3, AttemptTypes DEF Heard, AttemptIInv, AttemptTypeOK
<1>8. /\ tools' = IF line.kind = "tool" THEN tools + 1 ELSE tools
      /\ \/ /\ line.kind = "approval" /\ child /\ ~Broken
            /\ unanswered' = unanswered - 1 /\ alive' = alive
         \/ /\ line.kind # "approval" \/ ~child \/ Broken
            /\ alive' = (line.kind \notin {"approval", "input"})
            /\ unanswered' = unanswered
      /\ \/ /\ line.kind = "input" /\ child' = FALSE
            /\ server' = IF child /\ server = "up" THEN "killed" ELSE server
         \/ line.kind # "input" /\ child' = child /\ server' = server
  BY <1>3 DEF Heard, Terminate
<1> DEFINE calls == Cardinality(CallsAt(stdout))
           left == Cardinality(CallsAt(stdout'))
<1>9. /\ calls \in Nat /\ left \in Nat /\ unanswered = tools + calls
       /\ calls = IF line.kind \in Calls THEN left + 1 ELSE left
  BY <1>5, <1>6
<1> HIDE DEF calls, left
\* What becomes of the counts, by the kind of the line.
<1>10. /\ tools' \in Nat /\ tools' <= unanswered' /\ unanswered' \in Nat
       /\ unanswered' <= unanswered
       /\ alive' => unanswered' = tools' + left
       /\ ~alive' => line.kind \in Calls /\ unanswered' > 0
  <2>1. tools \in Nat /\ unanswered \in Nat
    BY AttemptTypes
  <2>2. CASE line.kind = "tool"
    <3>1. tools' = tools + 1 /\ unanswered' = unanswered /\ alive' /\ line.kind \in Calls
      BY <1>2, <1>8, <2>2
    <3> QED
      BY <1>9, <2>1, <3>1
  <2>3. CASE line.kind = "approval" /\ child /\ ~Broken
    <3>1. tools' = tools /\ unanswered' = unanswered - 1 /\ alive' /\ line.kind \in Calls
      BY <1>2, <1>8, <2>3
    <3> QED
      BY <1>9, <2>1, <3>1
  <2>4. CASE \/ line.kind = "approval" /\ ~(child /\ ~Broken)
             \/ line.kind = "input"
    <3>1. tools' = tools /\ unanswered' = unanswered /\ ~alive' /\ line.kind \in Calls
      BY <1>2, <1>8, <2>4
    <3> QED
      BY <1>9, <2>1, <3>1
  <2>5. CASE line.kind \notin Calls
    <3>1. tools' = tools /\ unanswered' = unanswered /\ alive'
      BY <1>2, <1>8, <2>5
    <3> QED
      BY <1>9, <2>1, <2>5, <3>1
  <2> QED
    BY <1>2, <2>2, <2>3, <2>4, <2>5
<1>11. AttemptTypeOK'
  <2>1. alive' \in BOOLEAN /\ child' \in BOOLEAN
    BY <1>8, AttemptTypes
  <2>2. /\ tools' \in 0 .. MaxCalls /\ unanswered' \in tools' .. made
    BY <1>1, <1>10, AttemptTypes
  <2>3. Len(stdout') <= MaxLines /\ more' \in 0 .. Len(stdout')
    BY <1>4, AttemptTypes
  <2>4. server' \in {"absent", "up", "exited", "killed", "reaped"}
    BY <1>8 DEF AttemptIInv, AttemptTypeOK
  <2> QED
    BY <1>1, <1>4, <1>7, <2>1, <2>2, <2>3, <2>4 DEF AttemptIInv, AttemptTypeOK
<1>12. CallCounting'
  <2>1. alive' => unanswered' = tools' + Cardinality(CallsAt(stdout'))
    BY <1>10 DEF left
  <2>2. server' = "up" => child'
    BY <1>8 DEF AttemptIInv, CallCounting
  <2>3. ServerIsGone'
    BY <1>1, <1>8
       DEF AttemptIInv, CallCounting, AttemptIsContained,
           ServerIsGone
  <2>4. SchedulerSurvives'
    <3>1. CASE ~alive'
      <4>1. line.kind \in Calls /\ unanswered' > 0
        BY <1>10, <3>1
      <4>2. child' => server' = "exited"
        BY <1>8, <3>1 DEF Broken
      <4> QED
        BY <4>1, <4>2 DEF SchedulerSurvives
    <3>2. CASE alive'
      BY <3>2 DEF SchedulerSurvives
    <3> QED
      BY <3>1, <3>2
  <2> QED
    BY <1>1, <2>1, <2>2, <2>3, <2>4
       DEF AttemptIInv, CallCounting, AttemptIsContained
<1>13. StartsOnce'
  <2>1. /\ \A n, m \in AnswersAt(stdout) : n = m
        /\ "turnStart" \in asked => AnswersAt(stdout) = {} /\ turn = "none"
        /\ "turnStart" \in asked \/ AnswersAt(stdout) # {} => pc \in {"turnStart", "ended"}
        /\ \A n \in AnswersAt(stdout) : stdout[n].good => turn # "none"
        /\ pc = "turnStart" /\ got = "ok" =>
                "turnStart" \notin asked /\ AnswersAt(stdout) = {} /\ turn # "none"
    BY DEF AttemptIInv, TurnProtocol, StartsOnce
  <2>2. AnswersAt(stdout) = {} => AnswersAt(stdout') = {}
    BY <1>4
  <2>3. \A n, m \in AnswersAt(stdout') : n = m
    BY <1>4, <2>1
  <2>4. \A n \in AnswersAt(stdout') : stdout'[n].good => turn # "none"
    BY <1>4, <2>1
  <2>5. ASSUME pc = "turnStart", got' = "ok", got # "ok"
        PROVE  "turnStart" \notin asked /\ AnswersAt(stdout') = {} /\ turn # "none"
    <3>1. Settles(line) /\ line.good
      BY <1>7, <2>5
    <3>2. 1 \in AnswersAt(stdout)
      BY <1>4, <3>1, <2>5 DEF Settles
    <3>3. AnswersAt(stdout') = {}
      BY <1>4, <2>1, <3>2
    <3> QED
      BY <1>4, <2>1, <3>1, <3>2, <3>3
  <2> QED
    BY <1>1, <2>1, <2>2, <2>3, <2>4, <2>5 DEF StartsOnce
<1>14. EndsOnce'
  <2>1. /\ \A n, m \in EndsAt(stdout) : n = m
        /\ \A n \in EndsAt(stdout) :
                turn = IF stdout[n].good THEN "completed" ELSE "failed"
    BY DEF AttemptIInv, TurnProtocol, EndsOnce
  <2>2. \A n, m \in EndsAt(stdout') : n = m
    BY <1>4, <2>1
  <2> QED
    BY <1>1, <1>4, <2>1, <2>2 DEF EndsOnce
<1>15. EndsAt(stdout) = {} => EndsAt(stdout') = {}
  BY <1>4
<1>16. ASSUME pc = "turn", got' = "ok", got # "ok"
       PROVE  turn = "completed" /\ EndsAt(stdout') = {}
  <2>1. Settles(line) /\ line.good
    BY <1>7, <1>16
  <2>2. 1 \in EndsAt(stdout) /\ stdout[1].good
    BY <1>2, <1>4, <2>1, <1>16 DEF Settles, Requests
  <2>3. /\ \A n, m \in EndsAt(stdout) : n = m
        /\ \A n \in EndsAt(stdout) :
                turn = IF stdout[n].good THEN "completed" ELSE "failed"
    BY DEF AttemptIInv, TurnProtocol, EndsOnce
  <2>4. EndsAt(stdout') = {}
    BY <1>4, <2>2, <2>3
  <2> QED
    BY <2>2, <2>3, <2>4
<1>17. ASSUME \/ pc = "turnStart"
              \/ pc = "turn" /\ got' \in {"nothing", "timeout"}
              \/ result = "timed_out",
              TurnEnded
       PROVE  missed' \/ EndsAt(stdout') # {}
  <2>1. got' \in {"nothing", "timeout"} => got' = got
    BY <1>7
  <2>2. missed \/ EndsAt(stdout) # {}
    BY <1>17, <2>1 DEF AttemptIInv, TurnProtocol
  <2>3. CASE line.kind = "end"
    <3>1. ~Settles(line)
      BY <1>17, <1>7, <2>3 DEF Settles, AttemptIInv, AttemptTypeOK
    <3> QED
      BY <1>7, <2>3, <3>1
  <2>4. CASE line.kind # "end"
    BY <1>4, <1>7, <2>2, <2>4
  <2> QED
    BY <2>3, <2>4
<1>18. TurnProtocol'
  BY <1>1, <1>13, <1>14, <1>15, <1>16, <1>17
     DEF AttemptIInv, TurnProtocol, TurnEnded
<1> QED
  BY <1>11, <1>12, <1>18 DEF AttemptIInv

LEMMA ReadsKeep ==
    ASSUME AttemptIInv, ReadChunk \/ NextLine
    PROVE  AttemptIInv'
<1>1. CASE ReadChunk
  BY <1>1, HandleLineKeeps DEF ReadChunk, Quiet
<1>2. CASE NextLine
  <2>1. more' \in 0 .. Len(stdout) - 1
    BY <1>2, AttemptTypes DEF NextLine
  <2> QED
    BY <1>2, <2>1, HandleLineKeeps DEF NextLine
<1> QED
  BY <1>1, <1>2

-----------------------------------------------------------------------------
(* Every step, and the theorems *)

LEMMA AttemptStutters ==
    ASSUME AttemptIInv, UNCHANGED attemptVars
    PROVE  AttemptIInv'
BY DEF attemptVars, attempt, outside, AttemptIInv, AttemptTypeOK,
       CallCounting, AttemptIsContained, ServerIsGone,
       SchedulerSurvives, TurnProtocol, StartsOnce, EndsOnce, TurnEnded

LEMMA AttemptStep ==
    ASSUME AttemptIInv, AttemptNext
    PROVE  AttemptIInv'
<1>1. CASE GoOn
  BY <1>1, ReadsKeep, StartServerKeeps, HandshakeKeeps, RequestFailsKeeps, BeginTurnKeeps,
     TurnEndsKeeps DEF GoOn
<1>2. CASE RenderPrompt \/ Tracker
  BY <1>2, RenderPromptKeeps, TrackerKeeps
<1>3. CASE ReadTimeout \/ TurnTimeout \/ Abort \/ ExitSeen
  BY <1>3, InterruptKeeps
<1>4. CASE ReadChunk \/ ToolAnswers
  BY <1>4, ReadsKeep, ToolAnswersKeep
<1>5. CASE AppServer
  BY <1>5, AnswersKeep, CallingKeeps, EndsTurnKeeps, InterruptKeeps
     DEF AppServer
<1> QED
  BY <1>1, <1>2, <1>3, <1>4, <1>5 DEF AttemptNext

\* The inductive invariant holds.
LEMMA AttemptInvariant == AttemptSpec => []AttemptIInv
<1>1. AttemptInit => AttemptIInv
  BY InitAttemptIInv
<1>2. AttemptIInv /\ [AttemptNext]_attemptVars => AttemptIInv'
  BY AttemptStep, AttemptStutters
<1> QED
  BY <1>1, <1>2, PTL DEF AttemptSpec

\* The variables and the status of an attempt keep to their ranges, its turns
\* to agent.maxTurns (runAgentAttempt).
THEOREM AttemptTypeCorrect == AttemptSpec => []AttemptTypeOK
<1>1. AttemptIInv => AttemptTypeOK
  BY DEF AttemptIInv
<1> QED
  BY <1>1, AttemptInvariant, PTL

\* The status that runAgentAttempt returns is what happened to the turn.
THEOREM AttemptOutcome == AttemptSpec => []OutcomeIsTrue
<1>1. AttemptIInv => OutcomeIsTrue
  BY DEF AttemptIInv, AttemptTypeOK, TurnProtocol, TurnEnded, EndsAt,
         OutcomeIsTrue
<1> QED
  BY <1>1, AttemptInvariant, PTL

\* The app server does not outlive the attempt or its abort, and the process of
\* the service ends only when the server could not be spawned, had died unnoticed
\* when written to, or asked for what had no answer any more (start, write,
\* handleLine, terminate).
THEOREM AttemptContained == AttemptSpec => []AttemptIsContained
<1>1. AttemptIInv => AttemptIsContained
  BY DEF AttemptIInv, CallCounting
<1> QED
  BY <1>1, AttemptInvariant, PTL
=============================================================================
