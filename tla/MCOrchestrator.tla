--------------------------- MODULE MCOrchestrator ---------------------------
(* Instances of Orchestrator for TLC: of two issues the first blocks the    *)
(* second; or one issue, or two that nothing blocks.                        *)
EXTENDS Orchestrator, TLC

OneIssue == {1}

TwoIssues == {1, 2}

FirstBlocksSecond == (1 :> {} @@ 2 :> {1})

NothingBlocks == [i \in Issues |-> {}]

MCStateLimit == [s \in ActiveStates |-> IF s = "todo" THEN 2 ELSE 1]
=============================================================================
