SPECIFICATION FairSpec

CONSTANTS
    Calls = {c1}
    Objects = {o}
    Verb <- AddDelete
    Target <- OneTarget
    MaxRetries = 3
    AuthMode = "password"
    MaxConnects = 3
    Faults = TRUE
    c1 = c1
    c2 = c2
    o = o

INVARIANTS
    TypeOK
    AttemptsAccountedFor
    AnswersAreOwn
    CalmCalls
    ClosedForgets
PROPERTIES
    KeepsContract
    OrphansHaveCause
    CallsRunDown
    CallsEnd

\* every call may have ended and the client be closed
CHECK_DEADLOCK FALSE
