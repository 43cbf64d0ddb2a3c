SPECIFICATION Spec
CONSTANTS
    Request = {r1}
    MaxCalls = 5
    Calls <- RetryCalls
    NoRef = ""
    FreshRef = "fresh"
    TransactionID <- TransactionIDs
INVARIANTS ReferenceOnce OneBalanceRow ChainLinear
PROPERTIES OldestPointsFirst
