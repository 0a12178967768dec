SPECIFICATION FairSpec
CONSTANTS
    Issues <- OneIssue
    BlockedBy <- NothingBlocks
    StateLimit <- MCStateLimit
    Used = {"todo", "in progress", "backlog", "done"}
    Limits = {1, 2}
    Faults = {"kill", "stat", "lookup", "remove"}
PROPERTY
    WorkGoesOn
    ImplementsIssueClaims
