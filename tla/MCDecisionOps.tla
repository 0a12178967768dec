---------------------------- MODULE MCDecisionOps ----------------------------
(* An instance of DecisionOps for TLC: the two approvals of the coverage    *)
(* template and two calls at a time.                                        *)
EXTENDS DecisionOps, TLC

CONSTANTS s1, s2

Symmetry == Permutations(Sessions)
=============================================================================
