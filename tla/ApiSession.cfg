(* Two commands on one session file; a login ends the earlier sessions *)
SPECIFICATION MCSpec
CONSTANTS
    p1 = p1
    p2 = p2
    Procs = {p1, p2}
    MaxTokens = 3
    Steps = 2
    Kinds = {"flow", "none"}
    Signals = {"status", "body"}
    Styles = {"capture", "cookie"}
    Unseens = {{}, {"ok_when", "expired_when"}}
    Exclusive = TRUE
    None = None
    Torn = Torn
SYMMETRY Symmetry
INVARIANTS TypeOK SoundFile ActsOnce TruthOnRecord
CHECK_DEADLOCK FALSE
