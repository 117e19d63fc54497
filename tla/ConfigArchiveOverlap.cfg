(* Two backups in one second: both probe a name before either publishes it *)
SPECIFICATION Spec
CONSTANTS
    p1 = p1
    p2 = p2
    v1 = v1
    v2 = v2
    Procs = {p1, p2}
    Files = {1, 2}
    Creds = {1}
    Versions = {v1, v2}
    Seconds = {1}
    Slots = {0, 1}
    Overlap = TRUE
    MaxEdits = 0
    Absent = Absent
    Partial = Partial
PROPERTY BackupsAreKept
CHECK_DEADLOCK FALSE
