(* Every adapter and verb; files of a few cells, one of them cut or rotated *)
SPECIFICATION FairSpec
CONSTANTS
    MaxTail = 1
    RawToo = {"child"}
    MaxFiles = 2
    MaxWrites = 3
    MaxCuts = 1
    MaxFaults = 1
    Chunk = 1
    MaxLines = 2
    MaxRows = 3
    MaxClock = 2
    PageRows = 2
    Tries = 2
    MaxPatchy = 1
    LookBack = 1
INVARIANTS TypeOK OneVerdict Truthful
PROPERTIES Responsive
CHECK_DEADLOCK FALSE
