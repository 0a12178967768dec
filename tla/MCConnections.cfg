SPECIFICATION Spec
CONSTANTS
    Calls = {k1, k2}
    Rotates = TRUE
    WithIngest = TRUE
    MaxActs = 3
    MaxSessions = 2
    MaxTokens = 3
SYMMETRY Interchangeable
INVARIANTS
    TypeOK
    NewestEntryIsUsed
    AwaitedSessionExists
    StoredTokenIsLive
