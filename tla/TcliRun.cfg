(* Two case files of up to three actions each; a wait of one retry. *)
CONSTANTS
    MaxFiles = 2
    MaxActions = 3
    MaxWait = 1
SPECIFICATION FairSpec
INVARIANTS TypeOK FailsCleanly
PROPERTIES VerdictIsEarned EveryRunEnds
CHECK_DEADLOCK FALSE
