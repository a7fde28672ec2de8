SPECIFICATION Spec

CONSTANTS
    Ctx = {a1, a2, b}
    Sessions = {s1, s2}
    SessionOf <- Shared
    WorkspaceFlag <- AllEnabled
    Faulty = {a1, a2}
    Forcing = {a2}
    BatchSize = 2
    Overlap = FALSE
    LateProcessing = FALSE
    NoSession = NoSession
    WorkspaceModes = {TRUE}
    LockinfoExposed = TRUE
    RelockOutcomes = {FALSE}
    Denied = {}
    CommitMayFail = TRUE
    a1 = a1
    a2 = a2
    b = b
    c = c
    s1 = s1
    s2 = s2
    s3 = s3

INVARIANTS
    ExitUnlocks

\* every context may have ended
CHECK_DEADLOCK FALSE
