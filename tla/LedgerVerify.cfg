SPECIFICATION Spec
CONSTANTS
    Request = {r1}
    MaxCalls = 2
    Calls <- SpendCalls
    NoRef = ""
    FreshRef = "fresh"
    TransactionID <- TransactionIDs
INVARIANTS ChainVerifies
