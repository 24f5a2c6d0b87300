SPECIFICATION DatasetSpec
CONSTANTS
    Datasets <- MCDatasets
    Boundaries <- MCBoundaries
    Absent = Absent
    Torn = Torn
INVARIANT
    NoLeak
