SPECIFICATION Spec

CONSTANTS
    Workers = {u, v}
    Programs <- Sequential
    Faulty = {}
    Names = {1, 2}
    Values = {"", "d", "x", "y", "z"}
    Empty = ""
    Absent = "absent"
    Releases <- Only76
    Upgrades <- NoUpgrade
    Defaults = {"d"}
    MayRefuse = FALSE
    u = u
    v = v

PROPERTIES
    DefaultsKept

\* every program may have ended
CHECK_DEADLOCK FALSE
