---------------------------- MODULE MCRawEvents ----------------------------
(* Instances of RawEvents for TLC. *)
EXTENDS RawEvents, TLC

Batch1 == <<[id |-> "e1", payload |-> "p"]>>
Batch2 == <<[id |-> "e1", payload |-> "q"], [id |-> "e2", payload |-> "p"]>>
Batch3 == <<[id |-> "e2", payload |-> "q"]>>

\* Two keys push the same event with different contents.
TwoKeys == "k1" :> Batch1 @@ "k2" :> Batch2

Provided == {Batch3}
============================================================================
