SPECIFICATION Spec
CONSTANTS
    Request = {r1, r2}
    MaxCalls = 2
    Calls <- DuplicateCalls
    NoRef = ""
    FreshRef = "fresh"
    TransactionID <- TransactionIDs
INVARIANTS ReferenceOnce
