SPECIFICATION Spec
CONSTANTS
    Handler = {h1, h2}
    Calls <- AllCalls
    NoRef = ""
    MaxCalls = 3
    MaxFaults = 1
SYMMETRY Symmetry
INVARIANTS TypeOK TransactionsBooked
INVARIANTS EverythingRecorded CreditedOnce BalanceAfterTrue
