SPECIFICATION FairSpec
CONSTANTS
    Request = {r1, r2}
    MaxCalls = 4
    Calls <- RevertCalls
    NoRef = ""
    FreshRef = "fresh"
    TransactionID <- TransactionIDs
INVARIANTS PoolsNeverOverdrawn EntriesExplainPools
PROPERTIES AccountSpec EveryCallEnds
