SPECIFICATION Spec
CONSTANTS
    Handler = {h1, h2}
    User = {u1, u2}
    Code = {c1, c2, c3}
    u1 = u1
    u2 = u2
    c1 = c1
    c2 = c2
    c3 = c3
    Nobody = Nobody
    Calls <- StockCalls
    MaxCalls = 4
    MaxFaults = 1
INVARIANTS TypeOK StockBalances StockBacked IssuanceTellsOwner
PROPERTIES OwnerKept
