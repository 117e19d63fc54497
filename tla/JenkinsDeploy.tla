---------------------------- MODULE JenkinsDeploy ----------------------------
(***************************************************************************)
(* jcli build, deploy and cancel against one Jenkins job: trigger a build, *)
(* wait for the queue to give it a number, poll it until it has a result,  *)
(* read its artifacts and console, then run the deploy steps, all under    *)
(* one --timeout (internal/jcli, cmd/jcli).                                *)
(*                                                                         *)
(* Jenkins is external: a queue that numbers builds when it starts them,   *)
(* builds that run and end, other users.  A request is one step: Jenkins   *)
(* acts or not, and the answer arrives, arrives unreadable (an error page, *)
(* a cut body) or not at all.  So are the programs of the deploy steps,    *)
(* and the heirs they leave, which hold the pipe a step is read from.      *)
(***************************************************************************)
EXTENDS Naturals, Sequences

CONSTANTS
    Procs,       \* the running commands
    Cmds,        \* subset of {"build", "deploy", "cancel"}
    MaxSteps,    \* bound: steps a deploy is configured with
    MaxBuilds    \* bound: builds Jenkins starts

ASSUME JenkinsAssumption ==
    /\ Cmds \subseteq {"build", "deploy", "cancel"}
    /\ MaxSteps \in Nat
    /\ MaxBuilds \in Nat \ {0}

VARIABLES
    builds,      \* the job's builds: number -> "running" or how it ended
    item,        \* command -> its queue item: "none", "waiting", "cancelled", "started"
    number,      \* command -> the build its item became, 0 before
    pc,
    opt,         \* command -> what it was asked to do
    late,        \* commands whose --timeout passed
    build,       \* command -> the build it works on, 0 before it knows
    step,        \* command -> deploy steps that ended well
    prog,        \* command -> the program of its step: "none", "running", "ok", "bad"
    heirs,       \* commands whose pipe is held by what such a program left behind
    out,         \* command -> how it ended
    trail,       \* command -> its last audit line, if any
    named,       \* command -> the build its last line names
    \* observed by the properties only
    ran,         \* command -> how each step it started ended
    stopped,     \* <<command, number>> of the builds a command aborted
    last         \* cancel -> the last build there was when it chose one

jenkins == <<builds, item, number>>
steps   == <<step, prog, heirs>>
local   == <<opt, build, steps>>
ending  == <<out, trail, named>>
seen    == <<ran, stopped, last>>
vars    == <<jenkins, pc, local, late, ending, seen>>

Numbers == 1 .. MaxBuilds
Final   == {"SUCCESS", "FAILURE", "ABORTED"}

Options == [cmd : Cmds, wait : BOOLEAN, steps : 0 .. MaxSteps, extract : BOOLEAN,
            target : {0, 1}]

\* Only a deploy has steps and extracts, only a cancel takes a build number,
\* and a cancel does not wait.
Asked(o) ==
    /\ o.cmd # "deploy" => o.steps = 0 /\ ~o.extract
    /\ o.cmd = "cancel" => ~o.wait
    /\ o.cmd # "cancel" => o.target = 0

Goto(p, l) == pc' = [pc EXCEPT ![p] = l]

\* Seeded bug: an error of the wait leaves the build out of the last line.
FinishUnnumbered(p, o) ==
    /\ Goto(p, "done")
    /\ out' = [out EXCEPT ![p] = o]
    /\ trail' = [trail EXCEPT ![p] = "ended"]
    /\ named' = [named EXCEPT ![p] = IF o = "ok" THEN build'[p] ELSE 0]

\* The command ends; its last audit line names the build it learned of.
Finish(p, o) ==
    /\ Goto(p, "done")
    /\ out' = [out EXCEPT ![p] = o]
    /\ trail' = [trail EXCEPT ![p] = "ended"]
    /\ named' = [named EXCEPT ![p] = build'[p]]

Ends(p, o) == UNCHANGED <<late, local>> /\ Finish(p, o)

Init ==
    /\ builds \in {<<>>, <<"running">>}
    /\ item = [p \in Procs |-> "none"]
    /\ number = [p \in Procs |-> 0]
    /\ pc = [p \in Procs |-> "idle"]
    /\ opt \in [Procs -> {o \in Options : Asked(o)}]
    /\ late = {}
    /\ build = [p \in Procs |-> 0]
    /\ step = [p \in Procs |-> 0]
    /\ prog = [p \in Procs |-> "none"]
    /\ heirs = {}
    /\ out = [p \in Procs |-> "none"]
    /\ trail = [p \in Procs |-> "none"]
    /\ named = [p \in Procs |-> 0]
    /\ ran = [p \in Procs |-> <<>>]
    /\ stopped = {}
    /\ last = [p \in Procs |-> 0]

-----------------------------------------------------------------------------
(* Starting: build and deploy write the started line at once, cancel when it *)
(* has a number                                                              *)

Reject(p) ==
    /\ pc[p] = "idle"
    /\ Ends(p, "error")
    /\ UNCHANGED <<jenkins, seen>>

Begin(p) ==
    /\ pc[p] = "idle"
    /\ IF opt[p].cmd = "cancel"
       THEN Goto(p, "resolve") /\ UNCHANGED trail
       ELSE Goto(p, "trigger") /\ trail' = [trail EXCEPT ![p] = "started"]
    /\ UNCHANGED <<jenkins, local, late, out, named, seen>>

\* A deploy preset that does not expand ends the deploy before it triggers.
PresetFails(p) ==
    /\ pc[p] = "trigger" /\ opt[p].cmd = "deploy"
    /\ Ends(p, "error")
    /\ UNCHANGED <<jenkins, seen>>

-----------------------------------------------------------------------------
(* Trigger and awaitQueue *)

Trigger(p) ==
    /\ pc[p] = "trigger" /\ p \notin late
    /\ item' = [item EXCEPT ![p] = "waiting"]
    /\ Goto(p, "queue")
    /\ UNCHANGED <<builds, number, local, late, ending, seen>>

\* No answer, not a 201, or no Location: Jenkins may have queued the build.
TriggerFails(p) ==
    /\ pc[p] = "trigger"
    /\ item' \in {item, [item EXCEPT ![p] = "waiting"]}
    /\ Ends(p, "error")
    /\ UNCHANGED <<builds, number, seen>>

\* Seeded bug: the job's last build is taken for the one that was queued.
QueueTakesLast(p) ==
    /\ pc[p] = "queue" /\ p \notin late
    /\ item[p] = "started"
    /\ build' = [build EXCEPT ![p] = Len(builds)]
    /\ IF opt[p].wait THEN Goto(p, "poll") /\ UNCHANGED ending ELSE Finish(p, "ok")
    /\ UNCHANGED <<jenkins, opt, late, steps, seen>>

\* The queue item has become a build.
QueueNumbers(p) ==
    /\ pc[p] = "queue" /\ p \notin late
    /\ item[p] = "started"
    /\ build' = [build EXCEPT ![p] = number[p]]
    /\ IF opt[p].wait THEN Goto(p, "poll") /\ UNCHANGED ending ELSE Finish(p, "ok")
    /\ UNCHANGED <<jenkins, opt, late, steps, seen>>

QueueCancelled(p) ==
    /\ pc[p] = "queue" /\ p \notin late
    /\ item[p] = "cancelled"
    /\ Ends(p, "error")
    /\ UNCHANGED <<jenkins, seen>>

\* Still waiting; or an answer that does not decode, such as that of an item
\* Jenkins has forgotten, which reads as one that waits.
QueueWaits(p) ==
    /\ pc[p] = "queue" /\ p \notin late
    /\ Goto(p, "queue nap")
    /\ UNCHANGED <<jenkins, local, late, ending, seen>>

\* Any error of the request, the deadline's too, is passed on as it is.
QueueFails(p) ==
    /\ pc[p] = "queue"
    /\ Ends(p, "error")
    /\ UNCHANGED <<jenkins, seen>>

\* sleepCtx
Nap(p) ==
    /\ pc[p] \in {"queue nap", "poll nap"}
    /\ IF p \in late
       THEN Ends(p, "timeout")
       ELSE /\ Goto(p, IF pc[p] = "queue nap" THEN "queue" ELSE "poll")
            /\ UNCHANGED <<local, late, ending>>
    /\ UNCHANGED <<jenkins, seen>>

-----------------------------------------------------------------------------
(* Wait, Artifacts and Console *)

PollRunning(p) ==
    /\ pc[p] = "poll" /\ p \notin late
    /\ builds[build[p]] = "running"
    /\ Goto(p, "poll nap")
    /\ UNCHANGED <<jenkins, local, late, ending, seen>>

\* Seeded bug: whatever ended ended well.
PollEnded(p) ==
    /\ pc[p] = "poll" /\ p \notin late
    /\ builds[build[p]] \in Final
    /\ Goto(p, "artifacts")
    /\ UNCHANGED <<jenkins, local, late, ending, seen>>

PollSuccess(p) ==
    /\ pc[p] = "poll" /\ p \notin late
    /\ builds[build[p]] = "SUCCESS"
    /\ Goto(p, "artifacts")
    /\ UNCHANGED <<jenkins, local, late, ending, seen>>

\* Any other result; an answer that does not decode has the empty one.
PollFailed(p) ==
    /\ pc[p] = "poll" /\ p \notin late
    /\ Ends(p, "build failed")
    /\ UNCHANGED <<jenkins, seen>>

PollFails(p) ==
    /\ pc[p] = "poll"
    /\ Ends(p, IF p \in late THEN "timeout" ELSE "error")
    /\ UNCHANGED <<jenkins, seen>>

Artifacts(p) ==
    /\ pc[p] = "artifacts" /\ p \notin late
    /\ IF opt[p].extract \/ opt[p].steps > 0
       THEN Goto(p, "console") /\ UNCHANGED <<late, local, ending>>
       ELSE Ends(p, "ok")
    /\ UNCHANGED <<jenkins, seen>>

\* The console, and the extracts taken from it.
Console(p) ==
    /\ pc[p] = "console" /\ p \notin late
    /\ IF opt[p].steps > 0
       THEN Goto(p, "step") /\ UNCHANGED <<late, local, ending>>
       ELSE Ends(p, "ok")
    /\ UNCHANGED <<jenkins, seen>>

\* A request that fails, a pattern that matches nothing, a token of a step
\* that does not expand, a binary that is not allowed.
StageFails(p) ==
    /\ pc[p] \in {"artifacts", "console", "step"} /\ prog[p] = "none"
    /\ Ends(p, "error")
    /\ UNCHANGED <<jenkins, seen>>

-----------------------------------------------------------------------------
(* runSteps, and exec.Local for each of them *)

StepStarts(p) ==
    /\ pc[p] = "step" /\ p \notin late /\ prog[p] = "none"
    /\ prog' = [prog EXCEPT ![p] = "running"]
    /\ UNCHANGED <<jenkins, pc, opt, build, step, heirs, late, ending, seen>>

\* The program is over; others that it started may hold the pipe.
ProgramOver(p, how) ==
    /\ pc[p] = "step" /\ prog[p] = "running"
    /\ prog' = [prog EXCEPT ![p] = how]
    /\ heirs' \in {heirs, heirs \union {p}}
    /\ UNCHANGED <<jenkins, pc, opt, build, step, late, ending, seen>>

StepExits(p) == ProgramOver(p, "ok") \/ ProgramOver(p, "bad")

\* Seeded bug: the deadline does not reach the program.
StepOutlives(p) == p \in late /\ prog[p] = "running" /\ UNCHANGED vars

\* The deadline kills the program, and nothing that it started.
StepKilled(p) == p \in late /\ ProgramOver(p, "bad")

HeirExits(p) ==
    /\ p \in heirs
    /\ heirs' = heirs \ {p}
    /\ UNCHANGED <<jenkins, pc, opt, build, step, prog, late, ending, seen>>

\* The pipe has come to its end.
PipeRead(p) == pc[p] = "step" /\ prog[p] \in {"ok", "bad"} /\ p \notin heirs

\* A step that ended well; the last one ends the command.
StepDone(p) ==
    /\ PipeRead(p) /\ prog[p] = "ok"
    /\ ran' = [ran EXCEPT ![p] = Append(@, "ok")]
    /\ step' = [step EXCEPT ![p] = @ + 1]
    /\ prog' = [prog EXCEPT ![p] = "none"]
    /\ UNCHANGED <<opt, build, heirs>>
    /\ IF step[p] + 1 = opt[p].steps
       THEN Finish(p, "ok")
       ELSE UNCHANGED <<pc, ending>>
    /\ UNCHANGED <<jenkins, late, stopped, last>>

\* Seeded bug: the flow goes on after a step that failed.
StepFailsOn(p) ==
    /\ PipeRead(p)
    /\ ran' = [ran EXCEPT ![p] = Append(@, "failed")]
    /\ step' = [step EXCEPT ![p] = @ + 1]
    /\ prog' = [prog EXCEPT ![p] = "none"]
    /\ UNCHANGED <<opt, build, heirs>>
    /\ IF step[p] + 1 = opt[p].steps
       THEN Finish(p, "error")
       ELSE UNCHANGED <<pc, ending>>
    /\ UNCHANGED <<jenkins, late, stopped, last>>

\* A program that exited with an error or was killed; or a line that is too
\* long, whatever became of the program.
StepFails(p) ==
    /\ PipeRead(p)
    /\ ran' = [ran EXCEPT ![p] = Append(@, "failed")]
    /\ Ends(p, "error")
    /\ UNCHANGED <<jenkins, stopped, last>>

-----------------------------------------------------------------------------
(* Cancel: ResolveBuild, then a POST to that build's stop *)

Resolve(p) ==
    /\ pc[p] = "resolve"
    /\ LET n == IF opt[p].target > 0 THEN opt[p].target ELSE Len(builds) IN
        IF n = 0
        THEN Ends(p, "error")
        ELSE /\ build' = [build EXCEPT ![p] = n]
             /\ Goto(p, "stop")
             /\ trail' = [trail EXCEPT ![p] = "started"]
             /\ UNCHANGED <<opt, late, steps, out, named>>
    /\ last' = [last EXCEPT ![p] = Len(builds)]
    /\ UNCHANGED <<jenkins, ran, stopped>>

ResolveFails(p) ==
    /\ pc[p] = "resolve" /\ opt[p].target = 0
    /\ Ends(p, "error")
    /\ UNCHANGED <<jenkins, seen>>

\* Jenkins aborts a build that runs, and has nothing to do for another one.
Abort(p, n) ==
    IF n \in DOMAIN builds /\ builds[n] = "running"
    THEN /\ builds' = [builds EXCEPT ![n] = "ABORTED"]
         /\ stopped' = stopped \union {<<p, n>>}
    ELSE UNCHANGED <<builds, stopped>>

\* Seeded bug: the last build is looked up by Jenkins when it stops.
StopLast(p) ==
    /\ pc[p] = "stop"
    /\ Abort(p, IF opt[p].target > 0 THEN opt[p].target ELSE Len(builds))
    /\ Ends(p, "ok")
    /\ UNCHANGED <<item, number, ran, last>>

Stop(p) ==
    /\ pc[p] = "stop"
    /\ Abort(p, build[p])
    /\ Ends(p, "ok")
    /\ UNCHANGED <<item, number, ran, last>>

StopFails(p) ==
    /\ pc[p] = "stop"
    /\ Abort(p, build[p]) \/ UNCHANGED <<builds, stopped>>
    /\ Ends(p, "error")
    /\ UNCHANGED <<item, number, ran, last>>

-----------------------------------------------------------------------------
(* Jenkins, the clock and the kill *)

JenkinsStarts(p) ==
    /\ item[p] = "waiting" /\ Len(builds) < MaxBuilds
    /\ builds' = Append(builds, "running")
    /\ item' = [item EXCEPT ![p] = "started"]
    /\ number' = [number EXCEPT ![p] = Len(builds) + 1]
    /\ UNCHANGED <<pc, local, late, ending, seen>>

JenkinsCancels(p) ==
    /\ item[p] = "waiting"
    /\ item' = [item EXCEPT ![p] = "cancelled"]
    /\ UNCHANGED <<builds, number, pc, local, late, ending, seen>>

\* FAILURE stands for every result but SUCCESS.
JenkinsEnds(n) ==
    /\ builds[n] = "running"
    /\ \E r \in {"SUCCESS", "FAILURE"} : builds' = [builds EXCEPT ![n] = r]
    /\ UNCHANGED <<item, number, pc, local, late, ending, seen>>

OthersBuild ==
    /\ Len(builds) < MaxBuilds
    /\ builds' = Append(builds, "running")
    /\ UNCHANGED <<item, number, pc, local, late, ending, seen>>

Running(p) == pc[p] \notin {"idle", "done", "killed"}

\* Seeded bug: only a command that waits gets the deadline.
DeadlineOfWait(p) ==
    /\ Running(p) /\ opt[p].wait /\ p \notin late
    /\ late' = late \union {p}
    /\ UNCHANGED <<jenkins, pc, local, ending, seen>>

\* --timeout: cancel has none.
Deadline(p) ==
    /\ Running(p) /\ opt[p].cmd # "cancel" /\ p \notin late
    /\ late' = late \union {p}
    /\ UNCHANGED <<jenkins, pc, local, ending, seen>>

Kill(p) ==
    /\ Running(p)
    /\ Goto(p, "killed")
    /\ UNCHANGED <<jenkins, local, late, ending, seen>>

Request(p) ==
    \/ PresetFails(p)
    \/ Trigger(p) \/ TriggerFails(p)
    \/ QueueNumbers(p) \/ QueueCancelled(p) \/ QueueWaits(p) \/ QueueFails(p)
    \/ Nap(p)
    \/ PollRunning(p) \/ PollSuccess(p) \/ PollFailed(p) \/ PollFails(p)
    \/ Artifacts(p) \/ Console(p)
    \/ Resolve(p) \/ ResolveFails(p) \/ Stop(p) \/ StopFails(p)

Next ==
    \/ \E p \in Procs :
        \/ Reject(p) \/ Begin(p)
        \/ Request(p) \/ StageFails(p)
        \/ StepStarts(p) \/ StepExits(p) \/ StepKilled(p) \/ HeirExits(p)
        \/ StepDone(p) \/ StepFails(p)
        \/ Deadline(p) \/ Kill(p)
        \/ JenkinsStarts(p) \/ JenkinsCancels(p)
    \/ \E n \in DOMAIN builds : JenkinsEnds(n)
    \/ OthersBuild

Spec == Init /\ [][Next]_vars

\* What the command does of itself in a step: it starts the program, has it
\* killed at the deadline, and reads to the end of the pipe.
Stepping(p) == StepStarts(p) \/ StepKilled(p) \/ StepDone(p) \/ StepFails(p)

\* A request is answered or fails within the client's 30 s, or at the deadline;
\* nothing says that Jenkins ever starts or ends a build, or that a program or
\* its heirs ever exit.
FairSpec ==
    /\ Spec
    /\ \A p \in Procs :
        /\ WF_vars(Request(p)) /\ WF_vars(Deadline(p))
        /\ WF_vars(p \in late /\ StageFails(p)) /\ WF_vars(Stepping(p))

-----------------------------------------------------------------------------
(* Properties *)

\* Every variable has its type; and the build a command polls is the one its
\* queue item became, whoever else builds the job (awaitQueue).
TypeOK ==
    /\ builds \in Seq({"running"} \union Final) /\ Len(builds) <= MaxBuilds
    /\ item \in [Procs -> {"none", "waiting", "cancelled", "started"}]
    /\ number \in [Procs -> 0 .. MaxBuilds]
    /\ pc \in [Procs -> {"idle", "trigger", "queue", "queue nap", "poll", "poll nap",
                         "artifacts", "console", "step", "resolve", "stop", "done",
                         "killed"}]
    /\ opt \in [Procs -> {o \in Options : Asked(o)}]
    /\ late \subseteq Procs
    /\ build \in [Procs -> Nat] /\ step \in [Procs -> 0 .. MaxSteps]
    /\ prog \in [Procs -> {"none", "running", "ok", "bad"}] /\ heirs \subseteq Procs
    /\ out \in [Procs -> {"none", "ok", "error", "timeout", "build failed"}]
    /\ trail \in [Procs -> {"none", "started", "ended"}] /\ named \in [Procs -> Nat]
    /\ ran \in [Procs -> Seq({"ok", "failed"})]
    /\ stopped \subseteq Procs \X Numbers /\ last \in [Procs -> 0 .. MaxBuilds]
    /\ \A p \in Procs : pc[p] \in {"poll", "poll nap", "artifacts", "console", "step"} =>
            build[p] \in DOMAIN builds /\ build[p] = number[p]

\* docs/cli-jcli.md:137, "steps never run after a failed build": a deploy step
\* is started only after the very build this deploy triggered, and no other
\* user's, ended in SUCCESS; and none is started after one that failed.
StepsFollowSuccess ==
    \A p \in Procs :
        /\ prog[p] # "none" \/ ran[p] # <<>> =>
            /\ number[p] \in DOMAIN builds
            /\ builds[number[p]] = "SUCCESS"
        /\ \A i, j \in DOMAIN ran[p] : i < j \/ prog[p] = "running" => ran[p][i] = "ok"

\* A build or deploy that reports success after waiting has a build of its own
\* that succeeded, and ran all its steps; without waiting, one that Jenkins has
\* started.
SuccessIsReal ==
    \A p \in Procs : out[p] = "ok" /\ opt[p].cmd # "cancel" =>
        /\ number[p] \in DOMAIN builds
        /\ opt[p].wait =>
            /\ builds[number[p]] = "SUCCESS"
            /\ ran[p] = [i \in 1 .. opt[p].steps |-> "ok"]

\* What reached Jenkins is on record: a started line was there before a build
\* was queued or stopped, and the last line names the build if the command
\* ever learned its number, whatever failed later.
OnRecord ==
    \A p \in Procs :
        /\ item[p] # "none" \/ (\E n \in Numbers : <<p, n>> \in stopped) => trail[p] # "none"
        /\ trail[p] = "ended" /\ build[p] > 0 => named[p] = build[p]

\* A cancel aborts at most the build it chose: never one that was started
\* after it had looked up the job's last build.
CancelSparesNewer ==
    \A p \in Procs, n \in Numbers : <<p, n>> \in stopped =>
        n <= last[p] \/ n = opt[p].target

\* Every command that is not killed ends, whatever Jenkins does: no queue item
\* that is never numbered, no build that hangs and no step's program outlasts
\* --timeout; only an heir that holds its pipe for ever holds the command, too.
EveryCommandEnds ==
    \A p \in Procs :
        []<>(p \notin heirs) => (pc[p] # "idle" ~> pc[p] \in {"done", "killed"})

\* internal/jcli/build.go:77-78: Wait "polls a build until it finishes and
\* returns the final result"; only a finished build is reported as failed.
FailureIsFinal ==
    \A p \in Procs : out[p] = "build failed" => builds[build[p]] \in Final
===============================================================================
