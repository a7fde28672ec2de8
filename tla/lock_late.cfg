SPECIFICATION Spec

CONSTANTS
    Ctx = {a1, b, c}
    Sessions = {s1, s2, s3}
    SessionOf <- Distinct
    WorkspaceFlag <- AllEnabled
    Faulty = {a1}
    Forcing = {}
    BatchSize = 2
    Overlap = TRUE
    LateProcessing = TRUE
    NoSession = NoSession
    WorkspaceModes = {TRUE}
    LockinfoExposed = FALSE
    RelockOutcomes = {TRUE, FALSE}
    Denied = {s3}
    CommitMayFail = TRUE
    a1 = a1
    a2 = a2
    b = b
    c = c
    s1 = s1
    s2 = s2
    s3 = s3

INVARIANTS
    IInv
PROPERTIES
    BatchesAtomic

\* every context may have ended
CHECK_DEADLOCK FALSE
