(* Two commands that overlap only when they started in different seconds *)
SPECIFICATION Spec
CONSTANTS
    p1 = p1
    p2 = p2
    v1 = v1
    v2 = v2
    Procs = {p1, p2}
    Files = {1, 2}
    Creds = {1}
    Versions = {v1, v2}
    Seconds = {1, 2}
    Slots = {0, 1}
    Overlap = FALSE
    MaxEdits = 1
    Absent = Absent
    Partial = Partial
SYMMETRY Symmetry
INVARIANTS TypeOK WholeFiles SafetyNet
CHECK_DEADLOCK FALSE
