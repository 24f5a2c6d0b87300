SPECIFICATION Spec
CONSTANTS
    c1 = c1
    m1 = m1
    r1 = r1
    r2 = r2
    j1 = j1
    Customers = {c1}
    Merchants = {m1}
    NoSnapshot = NoSnapshot
    Jobs = {j1}
    Cutoff <- MCOneCutoff
    FirstSeen <- MCFirstSeen
    ForeignPayloads <- MCForeign
    TTL = 2
    MaxNow = 4
    Requests = {r1}
    Txn <- MCOneTxn
    MaxAge = 1
    Scale = 3
    ReviewThreshold = 1
    BlockThreshold = 2
    ModelVersion = "loaded"
    ModelAnswers <- MCModelAnswers
    CountryMismatch = {r1}
INVARIANTS
    TypeOK
    FreshDecisions
    OrphanHasFailedSibling
    FetchAccounting
PROPERTIES
    OutcomeFinal
