SPECIFICATION Spec
CONSTANTS
    Builds = {TRUE, FALSE}
    Holes = {"hole"}
INVARIANTS TypeOK HostIntact MapComplete CleanDestruction
PROPERTY ForeignKept
CHECK_DEADLOCK FALSE
