(* The comment of pump (local_file.go:203-204) on one file that is truncated while it is followed *)
SPECIFICATION Spec
CONSTANTS
    MaxTail = 1
    RawToo = {}
    MaxFiles = 1
    MaxWrites = 3
    MaxCuts = 1
    MaxFaults = 0
    Chunk = 1
    MaxLines = 0
    MaxRows = 1
    MaxClock = 1
    PageRows = 1
    Tries = 1
    MaxPatchy = 0
    LookBack = 1
INVARIANTS ShrunkenIsReread
CHECK_DEADLOCK FALSE
