(* An answer of Jenkins that is not the build's JSON, while the build runs *)
SPECIFICATION Spec
CONSTANTS
    p1 = p1
    Procs = {p1}
    Cmds = {"build"}
    MaxSteps = 0
    MaxBuilds = 1
INVARIANT FailureIsFinal
CHECK_DEADLOCK FALSE
