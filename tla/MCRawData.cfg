SPECIFICATION Spec
CONSTANTS
    Days = 3
    Revisions = 2
    Unsound <- MCUnsound
    Absent = Absent
    Torn = Torn
INVARIANT
    WholeDays
PROPERTY
    EveryFileListed
