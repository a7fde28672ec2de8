SPECIFICATION Spec

CONSTANTS
    Calls = {c1, c2}
    Objects = {o}
    Verb <- AddDelete
    Target <- OneTarget
    MaxRetries = 2
    AuthMode = "password"
    MaxConnects = 2
    Faults = TRUE
    c1 = c1
    c2 = c2
    o = o

INVARIANTS
    RetryIsSafe

\* every call may have ended and the client be closed
CHECK_DEADLOCK FALSE
