(* A command that builds, deploys or cancels among other users' builds; or up *)
(* to three that meet in the jobs cache; or a reader of a console.            *)
SPECIFICATION JcliSpec
CONSTANTS
    p1 = p1
    Procs = {p1}
    Cmds = {"build", "deploy", "cancel"}
    MaxSteps = 2
    MaxBuilds = 3
    Letters = {"a", "b", "/"}
    Clis = {"c1", "c2", "c3"}
    Trees <- JobTrees
    Levels = 2
    Errands <- ErrandSets
    MaxCells = 5
    MaxCuts = 1
INVARIANTS JcliTypeOK StepsFollowSuccess SuccessOnRecord CancelSparesNewer
           JobIsRouted CacheTrue ConsoleTrue
PROPERTIES CommandsEnd
CHECK_DEADLOCK FALSE
