SPECIFICATION FairSpec

CONSTANTS
    Workers = {u, v, x}
    Ops <- SiteOps
    Locked = FALSE
    Faulty = {u}
    MayRefuse = TRUE
    MaxPolls = 2
    u = u
    v = v
    x = x

INVARIANTS
    IInv
    EnsuredIsThere
    CreatedByItself
    AssignedIsMember
    ListedIsMember
    ErrorsExplained
PROPERTIES
    OperationsEnd

\* every operation may have ended
CHECK_DEADLOCK FALSE
