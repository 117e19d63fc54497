(* Safety: two invocations, two days, the first day-file expires on the second *)
SPECIFICATION Spec
CONSTANTS
    p1 = p1
    p2 = p2
    Procs = {p1, p2}
    Nobody = Nobody
    LastDay = 2
    Retention = 0
    MaxInodes = 4
SYMMETRY Symmetry
INVARIANTS TypeOK LinesStand NoSilentPath
PROPERTIES ImplementsTrail
CHECK_DEADLOCK FALSE
