(* The process ends before its watcher has cancelled the statement *)
SPECIFICATION Spec
CONSTANTS
    MaxRows = 1
INVARIANT TimeoutStopsQuery
CHECK_DEADLOCK FALSE
