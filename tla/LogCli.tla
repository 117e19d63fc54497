-------------------------------- MODULE LogCli --------------------------------
(***************************************************************************)
(* logcli as a whole: one invocation (LogRun) with the adapter it names.   *)
(***************************************************************************)
EXTENDS LogFile, LogChild, LogSls

vars == <<run, filevars, childvars, slsvars>>

Init ==
    /\ RunInit /\ FileInit /\ ChildInit /\ SlsInit
    /\ ~Chosen => files = 1

Next ==
    \/ /\ Step \/ BadRequest \/ Panics \/ Cancel
       /\ UNCHANGED <<filevars, childvars, slsvars>>
    \/ /\ Writer \/ FileStep \/ StopFollow
       /\ UNCHANGED <<childvars, slsvars>>
    \/ /\ Program \/ ChildStep \/ KillChild
       /\ UNCHANGED <<filevars, slsvars>>
    \/ /\ Arrive \/ Second \/ SlsStep
       /\ UNCHANGED <<filevars, childvars>>

Spec == Init /\ [][Next]_vars

\* File system calls return (MaxFaults of a poll fail), requests are answered or
\* fail within the client's 30 s, the ticker ticks, and select does not overlook
\* a context that is done for ever.  Nothing is assumed of the writer of a file,
\* of a program that was started or of what it leaves behind, but that a kill
\* ends it.
FairSpec ==
    /\ Spec
    /\ WF_vars((Step \/ BadRequest) /\ UNCHANGED <<filevars, childvars, slsvars>>)
    /\ WF_vars(FileStep /\ UNCHANGED <<childvars, slsvars>>)
    /\ SF_vars(StopFollow /\ UNCHANGED <<childvars, slsvars>>)
    /\ WF_vars((ChildStep \/ KillChild) /\ UNCHANGED <<filevars, slsvars>>)
    /\ WF_vars(SlsStep /\ UNCHANGED <<filevars, childvars>>)

-----------------------------------------------------------------------------
(* Properties *)

\* Every variable has its type; and a batch is shown at once, a stream line by
\* line, never both.
TypeOK ==
    /\ call \in Calls /\ late \in BOOLEAN /\ told \in BOOLEAN
    /\ pc \in {"start", "run", "return", "audit", "exited",
               "tail", "tail read", "tick", "stat", "open", "read",
               "launch", "scan", "wait", "loop", "fetch", "asked"}
    /\ mode \in {"none", "batch", "stream"}
    /\ mode = "none" => shown = <<>>
    /\ mode = "stream" => held = <<>>
    /\ ends \in {<<>>, <<"data">>, <<"end">>, <<"error">>}
    /\ err \in Errors
    /\ files \in 1 .. MaxFiles /\ gone \subseteq Paths
    /\ written \in 0 .. MaxWrites /\ cuts \in 0 .. MaxCuts
    /\ at \in 1 .. files + 1 /\ fd \in Nat /\ size \in Nat /\ pos \in Nat
    /\ off \in [Paths -> 0 .. MaxWrites]
    /\ child \in {"none", "running", "ok", "bad", "killed"} /\ heir \in BOOLEAN
    /\ taken \in 0 .. lines /\ lines \in 0 .. MaxLines
    /\ rows \in Seq(0 .. MaxClock) /\ want \in 0 .. MaxRows /\ try \in 1 .. Tries
    /\ from \in 0 .. MaxClock /\ to \in 0 .. MaxClock /\ offset \in Nat
    /\ newest \in BOOLEAN /\ misses \in 0 .. MaxPatchy

\* What logcli shows is true of its source, for each of the adapters.
Truthful == FileTrue /\ ChildTrue /\ SlsTrue

\* Following p, with more to read.
Behind(p) ==
    /\ p \in Paths /\ mode = "stream" /\ pc \notin {"return", "audit", "exited"}
    /\ base[p] >= 0 /\ p \notin hurt /\ off[p] < Len(Current(p))

\* A follower catches up with what was appended to each of its files, when the
\* writer pauses; and once the context is done every invocation ends, unless it
\* waits for the heir of a program that was killed.
Responsive ==
    /\ \A p \in 1 .. MaxFiles : Behind(p) ~> ~Behind(p)
    /\ late ~> (Over \/ heir)
===============================================================================
