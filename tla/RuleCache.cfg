SPECIFICATION Spec
CONSTANTS
    Tenant = {t1, t2}
    Request = {r1, r2}
    MaxEdits = 2
    MaxRequests = 2
    MaxExpiries = 1
    MaxFaults = 1
SYMMETRY Symmetry
INVARIANTS TenantIsolation WholeSets
INVARIANTS OwnRulesFound RefreshTakesEffect
