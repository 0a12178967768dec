---------------------------- MODULE MCOnboarding ----------------------------
(* Instances of Onboarding for TLC. *)
EXTENDS Onboarding, TLC

Interchangeable == Permutations(Sessions)

\* Bound: a behaviour ends with the first commit that overwrites another one,
\* which the properties excuse from there on.
UntilClobbered == ~clobbered

\* Bound: drafts are saved for the first task, before, while and after it is
\* the current one.
FirstDraft == \A s \in Sessions : Working(s, "save") => sess[s].task = 1
=============================================================================
