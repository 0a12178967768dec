SPECIFICATION Spec
CONSTANTS
    Issues <- TwoIssues
    BlockedBy <- FirstBlocksSecond
    StateLimit <- MCStateLimit
    Used = {"todo", "in progress", "done"}
    Limits = {2}
    Faults = {"kill", "stat", "lookup", "remove"}
INVARIANTS
    TypeOK
    ClaimsAreSound
PROPERTY
    RemovalSparesAgents
