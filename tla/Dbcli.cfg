(* Every invocation against a server and against a local file; every two      *)
(* against two web services with one session file; redis commands, with a cap *)
(* of three rows; the statements of a grammar for mongo, with two documents.  *)
SPECIFICATION DbcliSpec
CONSTANTS
    MaxRows = 2
    Users = {"u1", "u2"}
    Sites = {"s1", "s2"}
    RowCap = 3
    Keys = {"k1", "k2"}
    Buckets = 3
    DocCap = 2
    Texts <- MCTexts
INVARIANTS DbcliTypeOK VerdictIsTrue GuardedBeforeSent OneVerdict
           TokensStayHome RetriedAfresh NosqlServed
PROPERTIES InvocationsEnd
CHECK_DEADLOCK FALSE
