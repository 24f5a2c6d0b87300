SPECIFICATION ApiSpec
CONSTANTS
    Connections = {k1, k2}
    MaxBytes = 2
    ChunkSizes = {0, 1, 2, 3}
    NoLength = NoLength
    BadLength = BadLength
    Declarations <- MCDeclarations
    AppStatus = {200, 400, 422, 503}
INVARIANTS
    MiddlewareTypeOK
    OneResponse
    BoundedBody
    RequestsCounted
    CountersAgree
    RefusedNotScored
PROPERTIES
    ImplementsMiddleware
\* Every request ends and no more come.
CHECK_DEADLOCK FALSE
