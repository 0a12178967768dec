---------------------------- MODULE DurableState ----------------------------
(***************************************************************************)
(* What the persistence of the app-connectors runtime promises, without    *)
(* processes, statements or jobs: one memory at a time, which starts as    *)
(* what was saved; writes are saved later, but in their order and for      *)
(* good; a close loses none of them, a crash those not saved yet.          *)
(* RuntimeStore implements it.                                             *)
(***************************************************************************)
EXTENDS Integers, Sequences

CONSTANT Writes \* the writes that may be made

VARIABLES
    mode,  \* of the one memory
    live,  \* the writes in memory
    saved  \* the writes on disk

durableVars == <<mode, live, saved>>

Modes == {"closed", "opening", "open", "crashed"}

DurableTypeOK ==
    /\ mode \in Modes
    /\ live \in Seq(Writes)
    /\ saved \in Seq(Writes)

DurableInit == mode = "closed" /\ live = <<>> /\ saved = <<>>

Begin ==
    /\ mode = "closed" /\ mode' = "opening"
    /\ UNCHANGED <<live, saved>>

Open ==
    /\ mode = "opening" /\ mode' = "open"
    /\ live' = saved
    /\ UNCHANGED saved

Add(w) ==
    /\ mode = "open"
    /\ live' = Append(live, w)
    /\ UNCHANGED <<mode, saved>>

\* More of the memory is on disk than before.
MoreSaved ==
    \E n \in Len(saved) .. Len(live) : saved' = SubSeq(live, 1, n)

Save ==
    /\ mode = "open" /\ MoreSaved
    /\ UNCHANGED <<mode, live>>

Shut ==
    /\ mode = "open" /\ saved = live
    /\ mode' = "closed" /\ live' = <<>>
    /\ UNCHANGED saved

\* A save on its way is finished or not.
Fall ==
    /\ \/ mode = "opening" /\ UNCHANGED saved
       \/ mode = "open" /\ MoreSaved
    /\ mode' = "crashed" /\ live' = <<>>

Recover ==
    /\ mode = "crashed" /\ mode' = "closed"
    /\ UNCHANGED <<live, saved>>

DurableNext ==
    \/ Begin \/ Open \/ Save \/ Shut \/ Fall \/ Recover
    \/ \E w \in Writes : Add(w)

DurableSpec == DurableInit /\ [][DurableNext]_durableVars
=============================================================================
