SPECIFICATION Spec
CONSTANTS
    c1 = c1
    c2 = c2
    m1 = m1
    m2 = m2
    NoTime = NoTime
    MaxLag = 1
    TxIds = {1, 2, 3}
    Contents <- MCContents
INVARIANTS
    NoLookahead
    SnapshotIsHistory
    ParityUpToTheAge
