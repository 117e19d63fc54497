------------------------------- MODULE TcliRun -------------------------------
(***************************************************************************)
(* tcli run: the cases of a file or a directory, one after the other; each *)
(* case's setup, steps, assertions and cleanup; each action's attempts     *)
(* under its wait (internal/tcli/run.go, runner.go, report.go).            *)
(*                                                                         *)
(* apicli, dbcli and logcli are child processes: whether they ever reply,  *)
(* and what, is chosen by the environment.  A reply is abstracted to what  *)
(* the runner branches on.  A case has one variable that a capture sets    *)
(* and templates use.  Actions are chosen when the runner gets to them.    *)
(* The temporary files of inline actors are left out.                      *)
(***************************************************************************)
EXTENDS Naturals

CONSTANTS
    MaxFiles,    \* bound: case files under the path
    MaxActions,  \* bound: actions of a case, all phases together
    MaxWait      \* bound: a wait's timeout, in retries that fit into it

ASSUME TcliAssumption == MaxFiles \in Nat /\ MaxActions \in Nat /\ MaxWait \in Nat

Main     == {"setup", "steps", "assertions"}
Phases   == Main \union {"cleanup"}
Kinds    == {"api", "db", "log", "expect", "invalid"}
Verdicts == {"PASS", "FAIL", "ERROR", "SAFETY_BLOCKED"}

\* Failure.Category
Categories == {"config", "auth", "timeout", "remote", "assertion", "template", "safety"}

Actions == [kind : Kinds, write : BOOLEAN, uses : BOOLEAN, takes : BOOLEAN]

\* Only a db step writes; an expect action captures nothing.
Written(a) ==
    /\ a.write => a.kind = "db"
    /\ a.kind \in {"expect", "invalid"} => ~a.takes

VARIABLES
    dir,       \* is the path a directory?
    files,     \* case files that were found
    file,      \* files read so far
    verdicts,  \* verdict -> the cases that ended with it
    pc,
    exit,      \* the exit code
    report,    \* what is printed: "none", "data" or "error"
    \* of the current case
    plan,      \* phase -> number of its actions
    allow,     \* safety.allow_db_write
    phase,
    ran,       \* phase -> actions that have a result
    good,      \* phase -> those of them that are OK or SKIPPED
    first,     \* category of the first failure, "none" before it
    has,       \* is the variable set?
    \* of the current action
    act,
    left,      \* retries that fit before the deadline of its wait
    \* observed by the properties only
    taken,     \* did a capture of this case succeed?
    missed     \* was a cleanup action skipped although one did?

suite   == <<dir, files, file, verdicts, exit, report>>
thecase == <<plan, allow, phase, ran, good, first>>
seen    == <<taken, missed>>
action  == <<act, left>>
vars    == <<suite, pc, thecase, has, action, seen>>

Plans == {p \in [Phases -> 0 .. MaxActions] :
            p["setup"] + p["steps"] + p["assertions"] + p["cleanup"] <= MaxActions}

NoAction == [kind |-> "invalid", write |-> FALSE, uses |-> FALSE, takes |-> FALSE]
Zero     == [f \in Phases |-> 0]

Init ==
    /\ dir \in BOOLEAN
    /\ files \in IF dir THEN 0 .. MaxFiles ELSE {1}
    /\ file = 0
    /\ verdicts = [v \in Verdicts |-> 0]
    /\ pc = "file" /\ exit = 0 /\ report = "none"
    /\ plan = Zero /\ allow = FALSE /\ phase = "setup"
    /\ ran = Zero /\ good = Zero /\ first = "none" /\ has = FALSE
    /\ act = NoAction /\ left = 0
    /\ taken = FALSE /\ missed = FALSE

-----------------------------------------------------------------------------
(* RunCases *)

\* The run returns: the output, the exit code.
Return(code, what) ==
    /\ pc' = "done"
    /\ exit' = code
    /\ report' = what

StartCase ==
    /\ pc = "file" /\ file < files
    /\ file' = file + 1
    /\ plan' \in Plans
    /\ allow' \in BOOLEAN
    /\ pc' = "next"
    /\ UNCHANGED <<dir, files, verdicts, exit, report, phase, ran, good, first, has,
                   action, seen>>

\* A case without the wanted tags is not counted.
SkipCase ==
    /\ pc = "file" /\ file < files
    /\ file' = file + 1
    /\ UNCHANGED <<dir, files, verdicts, exit, report, pc, thecase, has, action, seen>>

\* A file that does not parse ends the run: no later case runs, and what the
\* earlier ones found is not printed.
BadCase ==
    /\ pc = "file" /\ file < files
    /\ Return(2, "error")
    /\ UNCHANGED <<dir, files, file, verdicts, thecase, has, action, seen>>

Cases == verdicts["PASS"] + verdicts["FAIL"] + verdicts["ERROR"] + verdicts["SAFETY_BLOCKED"]

\* verdictExit of the case, or of the suite: that is PASS or FAIL.
ExitCode ==
    IF verdicts["PASS"] = Cases THEN 0
    ELSE IF ~dir /\ verdicts["SAFETY_BLOCKED"] > 0 THEN 2 ELSE 1

\* Seeded bug: a directory without a matching case is a suite that passed.
ReportEmpty ==
    /\ pc = "file" /\ file = files
    /\ Return(ExitCode, "data")
    /\ UNCHANGED <<dir, files, file, verdicts, thecase, has, action, seen>>

\* No case at all is an error, not a suite that passed.
Report ==
    /\ pc = "file" /\ file = files
    /\ IF Cases = 0 THEN Return(2, "error") ELSE Return(ExitCode, "data")
    /\ UNCHANGED <<dir, files, file, verdicts, thecase, has, action, seen>>

-----------------------------------------------------------------------------
(* RunCase and runPhase *)

\* Seeded bug: cleanup stops at its first failure.
PhaseOverEager == ran[phase] = plan[phase] \/ good[phase] < ran[phase]

\* A main phase stops at its first failure, cleanup goes through all of it.
PhaseOver ==
    \/ ran[phase] = plan[phase]
    \/ phase # "cleanup" /\ good[phase] < ran[phase]

\* Seeded bug: a failed setup does not keep the steps from running.
FollowingAlways ==
    CASE phase = "setup"      -> "steps"
      [] phase = "steps"      -> IF first = "none" THEN "assertions" ELSE "cleanup"
      [] phase = "assertions" -> "cleanup"

Following ==
    CASE phase = "setup"      -> IF first = "none" THEN "steps" ELSE "cleanup"
      [] phase = "steps"      -> IF first = "none" THEN "assertions" ELSE "cleanup"
      [] phase = "assertions" -> "cleanup"

\* Seeded bug: every phase starts from the variables of the case.
NextPhaseForgets ==
    /\ pc = "next" /\ PhaseOver /\ phase # "cleanup"
    /\ phase' = Following
    /\ has' = FALSE
    /\ UNCHANGED <<suite, pc, plan, allow, ran, good, first, action, seen>>

NextPhase ==
    /\ pc = "next" /\ PhaseOver /\ phase # "cleanup"
    /\ phase' = Following
    /\ UNCHANGED <<suite, pc, plan, allow, ran, good, first, has, action, seen>>

Verdict ==
    CASE first = "none"      -> "PASS"
      [] first = "safety"    -> "SAFETY_BLOCKED"
      [] first = "assertion" -> "FAIL"
      [] OTHER               -> "ERROR"

\* The variables of the case are gone.
Forget ==
    /\ plan' = Zero /\ allow' = FALSE /\ phase' = "setup"
    /\ ran' = Zero /\ good' = Zero /\ first' = "none" /\ has' = FALSE
    /\ taken' = FALSE /\ missed' = FALSE

EndCase ==
    /\ pc = "next" /\ PhaseOver /\ phase = "cleanup"
    /\ verdicts' = [verdicts EXCEPT ![Verdict] = @ + 1]
    /\ pc' = "file"
    /\ Forget
    /\ UNCHANGED <<dir, files, file, exit, report, action>>

StartAction ==
    /\ pc = "next" /\ ~PhaseOver
    /\ \E a \in Actions :
        /\ Written(a)
        /\ act' = a
        /\ left' \in IF a.kind \in {"expect", "invalid"} THEN {0} ELSE {0, MaxWait}
        /\ pc' = CASE a.kind \in {"api", "db"} -> "attempt"
                   [] a.kind = "log"           -> "needle"
                   [] a.kind = "expect"        -> "assert"
                   [] a.kind = "invalid"       -> "reject"
    /\ UNCHANGED <<suite, thecase, has, seen>>

\* Seeded bug: a failed setup action ends its phase but is not the failure of
\* the case.
ResultOfSetupLost(c) ==
    /\ pc' = "next"
    /\ ran' = [ran EXCEPT ![phase] = @ + 1]
    /\ good' = [good EXCEPT ![phase] = IF c = "none" THEN @ + 1 ELSE @]
    /\ first' = IF phase \in {"steps", "assertions"} /\ first = "none" THEN c ELSE first
    /\ act' = NoAction /\ left' = 0
    /\ UNCHANGED <<plan, allow, phase>>

\* The action has a result: OK or SKIPPED (category "none"), or a failure, of
\* which the first in a main phase is kept.
Result(c) ==
    /\ pc' = "next"
    /\ ran' = [ran EXCEPT ![phase] = @ + 1]
    /\ good' = [good EXCEPT ![phase] = IF c = "none" THEN @ + 1 ELSE @]
    /\ first' = IF phase # "cleanup" /\ first = "none" THEN c ELSE first
    /\ act' = NoAction /\ left' = 0
    /\ UNCHANGED <<plan, allow, phase>>

RejectAction ==
    /\ pc = "reject"
    /\ Result("config")
    /\ UNCHANGED <<suite, has, seen>>

-----------------------------------------------------------------------------
(* runAction: the attempts of an api, db or log step, and the expect action *)

\* The template of the action has no value.
Unset == act.uses /\ ~has

\* A write without safety.allow_db_write.
Blocked == act.write /\ ~allow

\* What an attempt renders before it calls the child.
Rendered == act.kind # "log" /\ ~Blocked

\* A cleanup action whose template has no value is skipped, and so is a log
\* step in any phase.
SkipUnset ==
    /\ Unset
    /\ \/ pc = "needle"
       \/ pc = "assert" /\ phase = "cleanup"
       \/ pc = "attempt" /\ Rendered /\ phase = "cleanup"
    /\ Result("none")
    /\ missed' = (missed \/ (phase = "cleanup" /\ taken))
    /\ UNCHANGED <<suite, has, taken>>

\* A needle with a value that is blank.
SkipBlank ==
    /\ pc = "needle" /\ ~Unset
    /\ Result("none")
    /\ UNCHANGED <<suite, has, seen>>

\* The adapter of the target is known.
NeedleReady ==
    /\ pc = "needle" /\ ~Unset
    /\ pc' = "attempt"
    /\ UNCHANGED <<suite, thecase, has, action, seen>>

\* Drivers and adapters are asked for once: by a child, `dbcli targets` or
\* `logcli targets`.
Discover ==
    /\ ~Unset
    /\ pc = "needle" \/ (pc = "attempt" /\ act.kind = "db" /\ ~Blocked)
    /\ pc' = "discover"
    /\ UNCHANGED <<suite, thecase, has, action, seen>>

Discovered ==
    /\ pc = "discover"
    /\ pc' = IF act.kind = "log" THEN "attempt" ELSE "child"
    /\ UNCHANGED <<suite, thecase, has, action, seen>>

DiscoverFails ==
    /\ pc = "discover"
    /\ Result("config")
    /\ UNCHANGED <<suite, has, seen>>

\* Target, driver or adapter are not in the configuration, or an inline actor's
\* file cannot be written.
PrepareFails ==
    /\ \/ pc = "needle" /\ ~Unset
       \/ pc = "attempt" /\ act.kind # "log"
    /\ Result("config")
    /\ UNCHANGED <<suite, has, seen>>

BlockWrite ==
    /\ pc = "attempt" /\ Blocked
    /\ Result("safety")
    /\ UNCHANGED <<suite, has, seen>>

\* Outside cleanup a missing value is a failure; in an inline actor it is
\* reported as one of the configuration.
TemplateFails ==
    /\ Unset /\ phase # "cleanup"
    /\ \/ pc = "assert" /\ Result("template")
       \/ pc = "attempt" /\ Rendered /\ Result("template")
       \/ pc = "attempt" /\ act.kind = "api" /\ Result("config")
    /\ UNCHANGED <<suite, has, seen>>

ExpectHolds ==
    /\ pc = "assert" /\ ~Unset
    /\ Result("none")
    /\ UNCHANGED <<suite, has, seen>>

ExpectFails ==
    /\ pc = "assert" /\ ~Unset
    /\ Result("assertion")
    /\ UNCHANGED <<suite, has, seen>>

-----------------------------------------------------------------------------
(* One call of apicli, dbcli or logcli, and what is made of its reply *)

Call ==
    /\ pc = "attempt"
    /\ Rendered \/ act.kind = "log"
    /\ act.kind # "log" => ~Unset
    /\ pc' = "child"
    /\ UNCHANGED <<suite, thecase, has, action, seen>>

\* The child has returned; an api step's script, too, if there is one.
Returned == pc = "child" /\ UNCHANGED <<suite, missed>>

\* Captures are applied one by one: TRUE once that of the variable was.
Capture(done) ==
    /\ has' = (has \/ done)
    /\ taken' = (taken \/ done)

Succeeds ==
    /\ Returned
    /\ Capture(act.takes)
    /\ Result("none")

\* A capture's path is not in the reply: those before it, in the order of a map
\* iteration, are kept.
CaptureFails ==
    /\ Returned
    /\ act.takes
    /\ \E done \in BOOLEAN : Capture(done)
    /\ Result("assertion")

\* The assert_script of an api step, after the captures.
ScriptFails ==
    /\ Returned
    /\ act.kind = "api"
    /\ Capture(act.takes)
    /\ Result("assertion") \/ Result("template")

\* The pending failure is dropped, and sleepCtx runs.
Sleep(rest) ==
    /\ left' = rest
    /\ pc' = "sleep"
    /\ UNCHANGED <<thecase, act>>

\* Seeded bug: the attempt that misses the deadline is followed by another one.
RetryOverdue(category) == Result(category) \/ (left >= 0 /\ Sleep(left - 1))

\* Seeded bug: the deadline of the wait is set anew for every attempt.
RetryForever(category) == Result(category) \/ (left > 0 /\ Sleep(left))

\* Another attempt when the category is one for it and some time of the wait
\* remains, else the failure.
Retry(category) ==
    \/ Result(category)
    \/ /\ category \in {"remote", "timeout", "assertion"} /\ left > 0
       /\ \E rest \in 0 .. left - 1 : Sleep(rest)

Awake ==
    /\ pc = "sleep"
    /\ pc' = "attempt"
    /\ UNCHANGED <<suite, thecase, has, action, seen>>

\* The expect of the step does not hold of the reply.
ExpectationFails ==
    /\ Returned
    /\ Retry("assertion")
    /\ UNCHANGED <<has, taken>>

\* The child's error gets its category by the words in its code: any of these,
\* and not always that of its exit code.  (A configuration error whose code has
\* none of the words, DDL_REFUSED, is "remote" and is tried again.)
ChildFails ==
    /\ Returned
    /\ \E category \in {"config", "auth", "timeout", "remote"} : Retry(category)
    /\ UNCHANGED <<has, taken>>

-----------------------------------------------------------------------------
\* There is no signal handler: whatever ends the process ends it where it is.
Kill ==
    /\ pc \notin {"done", "killed"}
    /\ pc' = "killed"
    /\ Forget
    /\ act' = NoAction /\ left' = 0
    /\ UNCHANGED suite

\* What the runner does of itself, and what it waits for.
Own ==
    \/ StartCase \/ SkipCase \/ BadCase \/ Report
    \/ NextPhase \/ EndCase \/ StartAction \/ RejectAction
    \/ SkipUnset \/ SkipBlank \/ NeedleReady \/ Discover \/ PrepareFails \/ BlockWrite
    \/ TemplateFails \/ ExpectHolds \/ ExpectFails \/ Call \/ Awake

Reply ==
    \/ Discovered \/ DiscoverFails
    \/ Succeeds \/ CaptureFails \/ ScriptFails \/ ExpectationFails \/ ChildFails

Next == Own \/ Reply \/ Kill

Spec == Init /\ [][Next]_vars

\* The runner goes on as long as it can.  Nothing says that a child returns: it
\* runs under a context that is never done.
FairSpec == Spec /\ WF_vars(Own)

-----------------------------------------------------------------------------
(* Properties *)

\* The variables have their types.
TypeOK ==
    /\ dir \in BOOLEAN /\ files \in 0 .. MaxFiles + 1 /\ file \in 0 .. files
    /\ verdicts \in [Verdicts -> 0 .. files]
    /\ pc \in {"file", "next", "attempt", "discover", "child", "sleep", "needle", "assert",
               "reject", "done", "killed"}
    /\ exit \in 0 .. 2 /\ report \in {"none", "data", "error"}
    /\ plan \in [Phases -> 0 .. MaxActions] /\ allow \in BOOLEAN /\ phase \in Phases
    /\ ran \in [Phases -> 0 .. MaxActions] /\ good \in [Phases -> 0 .. MaxActions]
    /\ first \in Categories \union {"none"} /\ has \in BOOLEAN
    /\ act \in Actions /\ left \in 0 .. MaxWait
    /\ {taken, missed} \subseteq BOOLEAN

\* What a failure leaves behind.  No main action runs after one has failed: at
\* most the last one that ran did not end well, and no later phase but cleanup
\* has run any.  And once an action captured a value, no cleanup action that
\* needs it is skipped for want of it, whatever failed in between.
FailsCleanly ==
    /\ \A p \in Main :
         /\ good[p] >= ran[p] - 1
         /\ good[p] < ran[p] /\ p = "setup" => ran["steps"] = 0 /\ ran["assertions"] = 0
         /\ good[p] < ran[p] /\ p = "steps" => ran["assertions"] = 0
    /\ ~missed

\* A case is over only after each of its cleanup actions had its turn, however
\* the main phases or other cleanup actions ended; and it gets PASS only if
\* every setup, step and assertion action ran and ended OK or SKIPPED.  A run
\* exits 0 only with a report about at least one case, all of which passed: an
\* empty directory, or tags that match nothing, are not green.
VerdictIsEarned ==
    /\ [][(\E v \in Verdicts : verdicts'[v] # verdicts[v]) =>
             /\ ran["cleanup"] = plan["cleanup"]
             /\ verdicts'["PASS"] # verdicts["PASS"] => \A p \in Main : good[p] = plan[p]]_vars
    /\ [](pc = "done" /\ exit = 0 =>
             /\ report = "data"
             /\ verdicts["PASS"] > 0
             /\ \A v \in Verdicts \ {"PASS"} : verdicts[v] = 0)

\* Every run ends, or waits for ever for one child that does not return: the
\* retries of a wait are bounded by its timeout.
EveryRunEnds == <>(pc \in {"done", "killed"}) \/ <>[](pc \in {"discover", "child"})
=============================================================================
