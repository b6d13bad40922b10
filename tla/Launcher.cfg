SPECIFICATION Spec
CONSTANTS
    Procs = {p1, p2}
    Disks = {d1, d2}
    Junk = junk
    COMPONENTS <- MCComponents
    Hosts <- MCHosts
SYMMETRY Symmetry
INVARIANTS
    CacheVerified
    BuiltAsSelected
    ToolsBeforeBuild
CHECK_DEADLOCK FALSE
