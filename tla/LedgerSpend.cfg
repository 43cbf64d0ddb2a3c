SPECIFICATION Spec
CONSTANTS
    Request = {r1, r2, r3}
    MaxCalls = 4
    Calls <- SpendCalls
    NoRef = ""
    FreshRef = "fresh"
    TransactionID <- TransactionIDs
SYMMETRY Symmetry
INVARIANTS TypeOK LockOrder BalancesNeverOverdrawn BooksAgree
