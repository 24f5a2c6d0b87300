SPECIFICATION Spec
CONSTANTS
    c1 = c1
    m1 = m1
    r1 = r1
    r2 = r2
    j1 = j1
    Customers = {c1}
    Merchants = {m1}
    NoSnapshot = NoSnapshot
    Jobs = {j1}
    Cutoff <- MCEarlyCutoff
    FirstSeen <- MCFirstSeen
    ForeignPayloads <- MCNoForeign
    TTL = 2
    MaxNow = 1
    Requests = {r1, r2}
    Txn <- MCSameTxn
    MaxAge = 1
    Scale = 3
    ReviewThreshold = 1
    BlockThreshold = 2
    ModelVersion = "loaded"
    ModelAnswers <- MCFewAnswers
    CountryMismatch = {r1}
INVARIANTS
    DecisionsMonotone
    Accounting
PROPERTIES
    ImplementsContract
