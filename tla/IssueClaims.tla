----------------------------- MODULE IssueClaims -----------------------------
(***************************************************************************)
(* What the scheduler of app-symphony promises for each issue, without     *)
(* ticks, timers, calls, slots or workspaces: the claim on an issue passes *)
(* from stage to stage, and is given up only for a reason that the tracker *)
(* has given.  Orchestrator implements it.                                 *)
(***************************************************************************)
CONSTANT Issues

VARIABLES
    stage,  \* of the claim on each issue
    active  \* the issues that the tracker has in active states

claimVars == <<stage, active>>

Stages == {"unclaimed", "preparing", "running", "stopping", "removing",
           "retry", "lookup"}

ClaimsTypeOK == stage \in [Issues -> Stages] /\ active \subseteq Issues

ClaimsInit ==
    /\ stage = [i \in Issues |-> "unclaimed"]
    /\ active \subseteq Issues

Pass(i, from, to) ==
    /\ stage[i] = from
    /\ stage' = [stage EXCEPT ![i] = to]
    /\ UNCHANGED active

Claim(i) == Pass(i, "unclaimed", "preparing")

Launch(i) == Pass(i, "preparing", "running")

\* The agents of issues that are not active are told to stop.
StopAgents(S) ==
    /\ \A i \in S : stage[i] = "running" /\ i \notin active
    /\ stage' = [i \in Issues |-> IF i \in S THEN "stopping" ELSE stage[i]]
    /\ UNCHANGED active

\* They are told to make way for another attempt instead.
Override(S) ==
    /\ \A i \in S : stage[i] = "stopping"
    /\ stage' = [i \in Issues |-> IF i \in S THEN "running" ELSE stage[i]]
    /\ UNCHANGED active

\* An agent that was told to stop has ended.
EndStopped(i) == \E to \in {"unclaimed", "removing"} : Pass(i, "stopping", to)

Clear(i) == Pass(i, "removing", "unclaimed")

Requeue(i) == \E from \in {"preparing", "running", "lookup"} : Pass(i, from, "retry")

LookUp(i) == Pass(i, "retry", "lookup")

Redispatch(i) == i \in active /\ Pass(i, "lookup", "preparing")

GiveUp(i) == i \notin active /\ Pass(i, "lookup", "unclaimed")

\* The service dies; the tracker is all that its successor has.
Forget ==
    /\ stage' = [i \in Issues |-> "unclaimed"]
    /\ UNCHANGED active

TrackerMoves ==
    /\ active' \subseteq Issues
    /\ UNCHANGED stage

ClaimsNext ==
    \/ \E i \in Issues :
        \/ Claim(i) \/ Launch(i) \/ EndStopped(i) \/ Clear(i) \/ Requeue(i)
        \/ LookUp(i) \/ Redispatch(i) \/ GiveUp(i)
    \/ \E S \in SUBSET Issues : StopAgents(S) \/ Override(S)
    \/ Forget \/ TrackerMoves

ClaimsSpec == ClaimsInit /\ [][ClaimsNext]_claimVars
=============================================================================
