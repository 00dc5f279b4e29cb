SPECIFICATION LedgerFairSpec
CONSTANTS
    a = a  w1 = w1  w2 = w2  w3 = w3  w4 = w4  x = x  y = y
    Tenants = {a}
    Writers = {w1, w2, w3, w4}
    TenantOf <- OneTenant
    MaxAppends = 1
    TamperAllowed = TRUE
    Forged = Forged
    NoWriter = NoWriter
    Rows = {x, y}
    RowOf <- SameRequest
    Role <- EveryRole
INVARIANTS
    ChainValid AppendNeverCollides TamperDetected DeadlockNeedsHttpDelete
PROPERTIES
    WaitsEnd
