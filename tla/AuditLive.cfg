(* Liveness: no symmetry; two processes wait on one lock *)
SPECIFICATION FairSpec
CONSTANTS
    p1 = p1
    p2 = p2
    Procs = {p1, p2}
    Nobody = Nobody
    LastDay = 1
    Retention = 0
    MaxInodes = 1
PROPERTIES EveryInvocationEnds
CHECK_DEADLOCK FALSE
