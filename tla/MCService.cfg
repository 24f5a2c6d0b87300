SPECIFICATION Spec
CONSTANTS
    Requests = {r1}
    MaxAge = 2
    MaxNow = 4
    Absent = Absent
    Malformed = Malformed
INVARIANTS
    TypeOK
    OutageIsReported
    NoNeedlessRefusal
    LegacyFresh
    CleanStop
PROPERTIES
    EveryBackendKeepsContract
    ShutdownCompletes
\* A worker that has stopped stays so, and the clock is bounded.
CHECK_DEADLOCK FALSE
