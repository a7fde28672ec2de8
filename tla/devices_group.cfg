SPECIFICATION Spec

CONSTANTS
    Workers = {u, v, x}
    Ops <- GroupOps
    Locked = TRUE
    Faulty = {u}
    MayRefuse = TRUE
    MaxPolls = 1
    u = u
    v = v
    x = x

INVARIANTS
    GroupIsIdempotent

\* every operation may have ended
CHECK_DEADLOCK FALSE
