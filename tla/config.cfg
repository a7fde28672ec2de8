SPECIFICATION FairSpec

CONSTANTS
    Workers = {u, v}
    Programs <- Mixed
    Faulty = {u}
    Names = {1, 2}
    Values = {"", "d", "x", "y", "z"}
    Empty = ""
    Absent = "absent"
    Releases <- AllReleases
    Upgrades <- To76
    Defaults = {"absent"}
    MayRefuse = TRUE
    u = u
    v = v

INVARIANTS
    TypeOK
    WritesTakeEffect
    RaisedIsPrefix
    ErrorsExplained
    AdapterFits
PROPERTIES
    ProgramsEnd

\* every program may have ended
CHECK_DEADLOCK FALSE
