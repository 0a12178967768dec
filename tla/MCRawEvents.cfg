SPECIFICATION FairSpec
CONSTANTS
    Deliveries = {d1, d2}
    EventIds = {"e1", "e2"}
    Payloads = {"p", "q"}
    Keys = {"k1", "k2"}
    BatchOf <- TwoKeys
    ProviderBatches <- Provided
    Limits = {1, 2}
    OperatorStatuses = {"active", "disabled"}
INVARIANTS
    TypeOK
    OneRecordPerEvent
    SuccessStoresBatch
    DeliveriesAreSound
PROPERTIES
    SettledOnce
    DeliveriesEnd
CHECK_DEADLOCK FALSE
