SPECIFICATION DatasetSpec
CONSTANTS
    Datasets <- MCDatasets
    Boundaries <- MCBoundaries
    Absent = Absent
    Torn = Torn
INVARIANTS
    DatasetTypeOK
    ReadablePartsAreUsable
    NoLeakWhenQuiet
PROPERTIES
    CompletedSplit
