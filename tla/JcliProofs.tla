---------------------------- MODULE JcliProofs ----------------------------
(***************************************************************************)
(* What holds of jcli for any number of commands, builds, deploy steps,    *)
(* groups, job trees and cuts of a console.                                *)
(*                                                                         *)
(* Builds: what is claimed of a command concerns its own state and the     *)
(* builds.  So the invariant is one of each command, which a step of       *)
(* another command or of Jenkins keeps because it at most adds builds and  *)
(* ends those that run (OthersKeep).                                       *)
(*                                                                         *)
(* Jobs cache: every cell of the file and of what was read of it is a      *)
(* brace or a job that was heard of, so that what lies between two braces  *)
(* was heard of, however the writes fell (CacheInv).                       *)
(*                                                                         *)
(* Routing: what is found for a target is right whatever the groups        *)
(* (TargetRight); the one step that takes thought is that turning a        *)
(* template round finds exactly the services it makes the job of (Turned). *)
(***************************************************************************)
EXTENDS Jcli, FiniteSetTheorems, WellFoundedInduction, NaturalsInduction, SequenceTheorems, TLAPS

Polling == {"poll", "poll nap"}
Deploys == {"artifacts", "console", "step"}
Active  == {"trigger", "queue", "queue nap", "stop"} \union Polling \union Deploys

TrailLines    == {"none", "started", "ended"}
Programs == {"none", "running", "ok", "bad"}
Outcomes == {"none", "ok", "error", "timeout", "build failed"}
Places   == {"idle", "resolve", "done", "killed"} \union Active

\* The types alone, without what TypeOK says of the build that is polled.
Typed ==
    /\ builds \in Seq({"running"} \union Final) /\ Len(builds) <= MaxBuilds
    /\ item \in [Procs -> {"none", "waiting", "cancelled", "started"}]
    /\ number \in [Procs -> 0 .. MaxBuilds]
    /\ pc \in [Procs -> Places]
    /\ opt \in [Procs -> {o \in Options : Asked(o)}]
    /\ late \subseteq Procs
    /\ build \in [Procs -> Nat] /\ step \in [Procs -> 0 .. MaxSteps]
    /\ prog \in [Procs -> Programs] /\ heirs \subseteq Procs
    /\ out \in [Procs -> Outcomes]
    /\ trail \in [Procs -> TrailLines] /\ named \in [Procs -> Nat]
    /\ ran \in [Procs -> Seq({"ok", "failed"})]
    /\ stopped \subseteq Procs \X Numbers /\ last \in [Procs -> 0 .. MaxBuilds]

\* A command that has reported success, other than a cancel.
Well(p) == out[p] = "ok" /\ opt[p].cmd # "cancel"

\* The build a command polls is the one that its queue item became.
Queued(p) ==
    /\ item[p] = "started" => number[p] \in 1 .. Len(builds)
    /\ pc[p] \in Polling \union Deploys => item[p] = "started" /\ build[p] = number[p]
    /\ Well(p) => item[p] = "started"

\* Past the poll, and as long as anything shows of what followed, that build
\* has ended well.
Proven(p) ==
    pc[p] \in Deploys \/ prog[p] # "none" \/ ran[p] # <<>> \/ (Well(p) /\ opt[p].wait) =>
        item[p] = "started" /\ builds[number[p]] = "SUCCESS"

\* Which steps have run.
Stepped(p) ==
    /\ pc[p] \notin {"step", "done", "killed"} =>
        ran[p] = <<>> /\ step[p] = 0 /\ prog[p] = "none"
    /\ prog[p] = "running" => \A i \in 1 .. Len(ran[p]) : ran[p][i] = "ok"
    /\ pc[p] = "step" =>
        /\ step[p] < opt[p].steps /\ Len(ran[p]) = step[p]
        /\ \A i \in 1 .. Len(ran[p]) : ran[p][i] = "ok"
    /\ \A i \in 1 .. Len(ran[p]) : i < Len(ran[p]) => ran[p][i] = "ok"
    /\ Well(p) /\ opt[p].wait =>
        Len(ran[p]) = opt[p].steps /\ \A i \in 1 .. Len(ran[p]) : ran[p][i] = "ok"

\* What is on record, of what was done and at the end.
Recorded(p) ==
    /\ pc[p] \in Active \/ item[p] # "none" => trail[p] # "none"
    /\ \A n \in Numbers : <<p, n>> \in stopped => trail[p] # "none" /\ pc[p] = "done"
    /\ trail[p] = "ended" => pc[p] = "done" /\ named[p] = build[p]
    /\ out[p] # "none" => pc[p] = "done"

\* Which builds a cancel may stop.
Spared(p) ==
    /\ pc[p] \in {"resolve", "stop"} => opt[p].cmd = "cancel"
    /\ pc[p] = "stop" => build[p] <= last[p] \/ build[p] = opt[p].target
    /\ \A n \in Numbers : <<p, n>> \in stopped => n <= last[p] \/ n = opt[p].target

Held(p) == Queued(p) /\ Proven(p) /\ Stepped(p) /\ Recorded(p) /\ Spared(p)

JenkinsInv == Typed /\ \A p \in Procs : Held(p)

\* Builds are added, and a build that succeeded stays so.
Grown ==
    /\ Len(builds) <= Len(builds')
    /\ \A n \in 1 .. Len(builds) : builds[n] = "SUCCESS" => builds'[n] = "SUCCESS"

\* What belongs to the command p stays.
Still(p) ==
    /\ item'[p] = item[p] /\ number'[p] = number[p] /\ pc'[p] = pc[p] /\ opt'[p] = opt[p]
    /\ build'[p] = build[p] /\ step'[p] = step[p] /\ out'[p] = out[p] /\ trail'[p] = trail[p]
    /\ named'[p] = named[p] /\ ran'[p] = ran[p] /\ prog'[p] = prog[p] /\ last'[p] = last[p]
    /\ \A n \in Numbers : <<p, n>> \in stopped' <=> <<p, n>> \in stopped

LEMMA OthersKeep ==
  ASSUME JenkinsInv, NEW p \in Procs, Still(p), Grown
  PROVE  Held(p)'
<1>1. Held(p) /\ Len(builds) \in Nat /\ Len(builds') >= Len(builds)
  BY DEF JenkinsInv, Typed, Grown
<1>2. Queued(p)' /\ Proven(p)'
  <2>1. item[p] = "started" => number[p] \in 1 .. Len(builds) /\ number[p] \in 1 .. Len(builds')
    BY <1>1 DEF Held, Queued, JenkinsInv, Typed, Grown
  <2>2. Queued(p)'
    BY <1>1, <2>1 DEF Held, Still, Queued, Well
  <2>3. item[p] = "started" /\ builds[number[p]] = "SUCCESS" => builds'[number[p]] = "SUCCESS"
    BY <2>1 DEF Grown
  <2>4. Proven(p)'
    BY <1>1, <2>3 DEF Held, Still, Proven, Well
  <2> QED BY <2>2, <2>4
<1>3. Stepped(p)'
  BY <1>1 DEF Held, Still, Stepped, Well
<1>4. Recorded(p)' /\ Spared(p)'
  BY <1>1 DEF Held, Still, Recorded, Spared
<1> QED BY <1>2, <1>3, <1>4 DEF Held

LEMMA JenkinsInit_Inv == Init => JenkinsInv
<1> SUFFICES ASSUME Init PROVE JenkinsInv
  OBVIOUS
<1> USE JenkinsAssumption
<1>1. builds \in Seq({"running"} \union Final) /\ Len(builds) <= MaxBuilds
  <2>1. CASE builds = <<>>
    BY <2>1
  <2>2. CASE builds = <<"running">>
    BY <2>2
  <2> QED BY <2>1, <2>2 DEF Init
<1>2. Typed
  BY <1>1 DEF Init, Typed, Places, TrailLines, Outcomes, Programs
<1>3. ASSUME NEW p \in Procs PROVE Held(p)
  BY <1>1 DEF Init, Held, Queued, Proven, Stepped, Recorded, Spared, Well, Polling, Deploys, Active
<1> QED BY <1>2, <1>3 DEF JenkinsInv

LEMMA SameGrown == ASSUME JenkinsInv, UNCHANGED builds PROVE Grown
<1>1. Len(builds) \in Nat /\ Len(builds') = Len(builds)
  BY DEF JenkinsInv, Typed
<1> QED BY <1>1 DEF Grown

\* A step that concerns p only.
LEMMA OneKeeps ==
  ASSUME JenkinsInv, NEW p \in Procs, Typed', Grown, Held(p)',
         \A q \in Procs \ {p} : Still(q)
  PROVE  JenkinsInv'
BY OthersKeep DEF JenkinsInv

\* p goes to another place, and that is all.
LEMMA GotoKeeps ==
  ASSUME JenkinsInv, NEW p \in Procs, NEW l \in Places, Goto(p, l),
         UNCHANGED <<jenkins, local, late, ending, seen>>,
         \/ l = "killed" /\ Running(p)
         \/ pc[p] = "trigger" /\ l = "queue"
         \/ pc[p] \in {"queue", "queue nap"} /\ l \in {"queue", "queue nap"}
         \/ pc[p] \in Polling /\ l \in Polling
         \/ pc[p] = "poll" /\ l = "artifacts" /\ builds[build[p]] = "SUCCESS"
         \/ pc[p] = "artifacts" /\ l = "console"
         \/ pc[p] = "console" /\ l = "step" /\ opt[p].steps > 0
  PROVE  JenkinsInv'
<1> USE JenkinsAssumption
<1> UNCHANGED <<builds, item, number, opt, build, step, prog, heirs, late, out, trail, named, ran,
                stopped, last>>
  BY DEF jenkins, local, steps, ending, seen
<1>1. Typed /\ Held(p)
  BY DEF JenkinsInv
<1>2. pc' \in [Procs -> Places] /\ pc'[p] = l /\ \A q \in Procs \ {p} : pc'[q] = pc[q]
  BY <1>1 DEF Goto, Typed
<1>3. Typed'
  BY <1>1, <1>2 DEF Typed
<1>g. Grown
  BY SameGrown
<1>4. \A q \in Procs \ {p} : Still(q)
  BY <1>2 DEF Still
<1>5. Queued(p)' /\ Proven(p)'
  BY <1>1, <1>2 DEF Held, Queued, Proven, Stepped, Well, Polling, Deploys
<1>6. Stepped(p)'
  <2>1. CASE l = "killed"
    BY <1>1, <1>2, <2>1 DEF Held, Stepped, Recorded, Well, Running
  <2>2. CASE l = "step"
    BY <1>1, <1>2, <2>2 DEF Held, Stepped, Recorded, Well, Polling, Typed, Options
  <2>3. CASE l \notin {"killed", "step"}
    BY <1>1, <1>2, <2>3 DEF Held, Stepped, Recorded, Well, Polling
  <2> QED BY <2>1, <2>2, <2>3
<1>7. Recorded(p)' /\ Spared(p)'
  BY <1>1, <1>2 DEF Held, Recorded, Spared, Active, Running, Polling, Deploys
<1> QED BY <1>3, <1>4, <1>5, <1>6, <1>7, <1>g, OneKeeps DEF Held

\* What the end of a command leaves of it.
LEMMA EndFrame ==
  ASSUME JenkinsInv, NEW p \in Procs, NEW o \in Outcomes, Finish(p, o), build' \in [Procs -> Nat]
  PROVE  /\ pc' \in [Procs -> Places] /\ pc'[p] = "done"
         /\ out' \in [Procs -> Outcomes] /\ out'[p] = o
         /\ trail' \in [Procs -> TrailLines] /\ trail'[p] = "ended"
         /\ named' \in [Procs -> Nat] /\ named'[p] = build'[p]
         /\ \A q \in Procs \ {p} :
                pc'[q] = pc[q] /\ out'[q] = out[q] /\ trail'[q] = trail[q] /\ named'[q] = named[q]
<1>1. Typed /\ build'[p] \in Nat
  BY DEF JenkinsInv
<1>2. pc' \in [Procs -> Places] /\ pc'[p] = "done" /\ \A q \in Procs \ {p} : pc'[q] = pc[q]
  BY <1>1 DEF Typed, Finish, Goto, Places
<1>3. out' \in [Procs -> Outcomes] /\ out'[p] = o /\ \A q \in Procs \ {p} : out'[q] = out[q]
  BY <1>1 DEF Typed, Finish
<1>4. trail' \in [Procs -> TrailLines] /\ trail'[p] = "ended" /\ \A q \in Procs \ {p} : trail'[q] = trail[q]
  BY <1>1 DEF Typed, Finish, TrailLines
<1>5. named' \in [Procs -> Nat] /\ named'[p] = build'[p] /\ \A q \in Procs \ {p} : named'[q] = named[q]
  BY <1>1 DEF Typed, Finish
<1> QED BY <1>2, <1>3, <1>4, <1>5

\* p ends, and that is all; it succeeds only when it has nothing more to do.
LEMMA EndKeeps ==
  ASSUME JenkinsInv, NEW p \in Procs, NEW o \in Outcomes, Ends(p, o), UNCHANGED <<jenkins, seen>>,
         pc[p] \in Active \union {"idle", "resolve"},
         o = "ok" => pc[p] \in {"artifacts", "console"} /\ opt[p].steps = 0
  PROVE  JenkinsInv'
<1> USE JenkinsAssumption
<1> UNCHANGED <<builds, item, number, opt, build, step, prog, heirs, late, ran, stopped, last>>
  BY DEF Ends, jenkins, local, steps, seen
<1>1. Typed /\ Held(p) /\ build' \in [Procs -> Nat] /\ Finish(p, o)
  BY DEF JenkinsInv, Typed, Ends
<1>2. /\ pc' \in [Procs -> Places] /\ pc'[p] = "done"
      /\ out' \in [Procs -> Outcomes] /\ out'[p] = o
      /\ trail' \in [Procs -> TrailLines] /\ trail'[p] = "ended"
      /\ named' \in [Procs -> Nat] /\ named'[p] = build'[p]
      /\ \A q \in Procs \ {p} :
             pc'[q] = pc[q] /\ out'[q] = out[q] /\ trail'[q] = trail[q] /\ named'[q] = named[q]
  BY <1>1, EndFrame
<1>3. Typed'
  BY <1>1, <1>2 DEF Typed
<1>g. Grown
  BY SameGrown
<1>4. \A q \in Procs \ {p} : Still(q)
  BY <1>2 DEF Still
<1>5. Queued(p)' /\ Proven(p)'
  BY <1>1, <1>2 DEF Held, Queued, Proven, Well, Polling, Deploys
<1>6. Stepped(p)'
  BY <1>1, <1>2 DEF Held, Stepped, Well
<1>7. Recorded(p)' /\ Spared(p)'
  BY <1>1, <1>2 DEF Held, Recorded, Spared, Active, Polling, Deploys
<1> QED BY <1>3, <1>4, <1>5, <1>6, <1>7, <1>g, OneKeeps DEF Held

LEMMA BeginKeeps == ASSUME JenkinsInv, NEW p \in Procs, Begin(p) PROVE JenkinsInv'
<1> UNCHANGED <<builds, item, number, opt, build, step, prog, heirs, late, out, named, ran, stopped,
                last>>
  BY DEF Begin, jenkins, local, steps, seen
<1>1. Typed /\ Held(p) /\ pc[p] = "idle"
  BY DEF JenkinsInv, Begin
<1>2. /\ pc' \in [Procs -> Places] /\ trail' \in [Procs -> TrailLines]
      /\ \/ opt[p].cmd = "cancel" /\ pc'[p] = "resolve" /\ trail'[p] = trail[p]
         \/ pc'[p] = "trigger" /\ trail'[p] = "started"
      /\ \A q \in Procs \ {p} : pc'[q] = pc[q] /\ trail'[q] = trail[q]
  BY <1>1 DEF Begin, Goto, Typed, Places, Active, TrailLines
<1>3. Typed'
  BY <1>1, <1>2 DEF Typed
<1>4. \A q \in Procs \ {p} : Still(q)
  BY <1>2 DEF Still
<1>5. Queued(p)' /\ Proven(p)' /\ Stepped(p)'
  BY <1>1, <1>2 DEF Held, Queued, Proven, Stepped, Well, Polling, Deploys
<1>6. Recorded(p)' /\ Spared(p)'
  BY <1>1, <1>2 DEF Held, Recorded, Spared, Active, Polling, Deploys
<1> QED BY <1>3, <1>4, <1>5, <1>6, OneKeeps, SameGrown DEF Held

LEMMA TriggerKeeps ==
  ASSUME JenkinsInv, NEW p \in Procs, Trigger(p) \/ TriggerFails(p)
  PROVE  JenkinsInv'
<1> UNCHANGED <<builds, number, opt, build, step, prog, heirs, late, ran, stopped, last>>
  BY DEF Trigger, TriggerFails, Ends, local, steps, seen
<1>2. Typed /\ Held(p) /\ pc[p] = "trigger" /\ trail[p] # "none"
  BY DEF JenkinsInv, Trigger, TriggerFails, Held, Recorded, Active
<1>3. /\ item' \in [Procs -> {"none", "waiting", "cancelled", "started"}]
      /\ item'[p] \in {item[p], "waiting"} /\ \A q \in Procs \ {p} : item'[q] = item[q]
  BY <1>2 DEF Trigger, TriggerFails, Typed
<1>4. /\ pc' \in [Procs -> Places] /\ out' \in [Procs -> Outcomes]
      /\ trail' \in [Procs -> TrailLines] /\ named' \in [Procs -> Nat]
      /\ \/ pc'[p] = "queue" /\ out'[p] = out[p] /\ trail'[p] = trail[p] /\ named'[p] = named[p]
         \/ pc'[p] = "done" /\ out'[p] = "error" /\ trail'[p] = "ended" /\ named'[p] = build[p]
      /\ \A q \in Procs \ {p} :
             pc'[q] = pc[q] /\ out'[q] = out[q] /\ trail'[q] = trail[q] /\ named'[q] = named[q]
  <2>1. CASE Trigger(p)
    BY <1>2, <2>1 DEF Trigger, Goto, Typed, Places, Active, ending
  <2>2. CASE TriggerFails(p)
    <3>1. Finish(p, "error") /\ build' \in [Procs -> Nat]
      BY <1>2, <2>2 DEF TriggerFails, Ends, Typed
    <3> QED BY <3>1, EndFrame DEF Outcomes
  <2> QED BY <2>1, <2>2
<1>5. Typed'
  BY <1>2, <1>3, <1>4 DEF Typed
<1>6. \A q \in Procs \ {p} : Still(q)
  BY <1>3, <1>4 DEF Still
<1>7. out[p] = "none"
  BY <1>2 DEF Held, Recorded
<1>8. Queued(p)' /\ Proven(p)' /\ Stepped(p)'
  BY <1>2, <1>3, <1>4, <1>7 DEF Held, Queued, Proven, Stepped, Well, Polling, Deploys
<1>9. Recorded(p)' /\ Spared(p)'
  BY <1>2, <1>3, <1>4, <1>7 DEF Held, Recorded, Spared, Active, Polling, Deploys
<1> QED BY <1>5, <1>6, <1>8, <1>9, OneKeeps, SameGrown DEF Held

LEMMA NumberKeeps == ASSUME JenkinsInv, NEW p \in Procs, QueueNumbers(p) PROVE JenkinsInv'
<1> USE JenkinsAssumption
<1> UNCHANGED <<builds, item, number, opt, step, prog, heirs, late, ran, stopped, last>>
  BY DEF QueueNumbers, jenkins, steps, seen
<1>1. Typed /\ Held(p) /\ pc[p] = "queue" /\ item[p] = "started" /\ out[p] = "none"
  BY DEF JenkinsInv, QueueNumbers, Held, Recorded
<1>2. /\ build' \in [Procs -> Nat] /\ build'[p] = number[p]
      /\ \A q \in Procs \ {p} : build'[q] = build[q]
  BY <1>1 DEF QueueNumbers, Typed
<1>3. /\ pc' \in [Procs -> Places] /\ out' \in [Procs -> Outcomes]
      /\ trail' \in [Procs -> TrailLines] /\ named' \in [Procs -> Nat]
      /\ \/ pc'[p] = "poll" /\ out'[p] = out[p] /\ trail'[p] = trail[p] /\ named'[p] = named[p]
         \/ /\ pc'[p] = "done" /\ out'[p] = "ok" /\ trail'[p] = "ended" /\ named'[p] = build'[p]
            /\ ~opt[p].wait
      /\ \A q \in Procs \ {p} :
             pc'[q] = pc[q] /\ out'[q] = out[q] /\ trail'[q] = trail[q] /\ named'[q] = named[q]
  <2>1. CASE opt[p].wait
    BY <1>1, <2>1 DEF QueueNumbers, Goto, Typed, Places, Active, Polling, ending
  <2>2. CASE ~opt[p].wait
    <3>1. Finish(p, "ok")
      BY <2>2 DEF QueueNumbers
    <3> QED BY <1>2, <2>2, <3>1, EndFrame DEF Outcomes
  <2> QED BY <2>1, <2>2
<1>4. Typed'
  BY <1>1, <1>2, <1>3 DEF Typed
<1>5. \A q \in Procs \ {p} : Still(q)
  BY <1>2, <1>3 DEF Still
<1>6. Queued(p)' /\ Proven(p)' /\ Stepped(p)'
  BY <1>1, <1>2, <1>3 DEF Held, Queued, Proven, Stepped, Well, Polling, Deploys
<1>7. Recorded(p)' /\ Spared(p)'
  BY <1>1, <1>2, <1>3 DEF Held, Recorded, Spared, Active, Polling, Deploys
<1> QED BY <1>4, <1>5, <1>6, <1>7, OneKeeps, SameGrown DEF Held

LEMMA DeployStepKeeps ==
  ASSUME JenkinsInv, NEW p \in Procs, StepDone(p) \/ StepFails(p)
  PROVE  JenkinsInv'
<1> USE JenkinsAssumption
<1> UNCHANGED <<builds, item, number, opt, build, heirs, late, stopped, last>>
  BY DEF StepDone, StepFails, Ends, jenkins, local, steps
<1>1. /\ Typed /\ Held(p) /\ pc[p] = "step" /\ out[p] = "none" /\ build' \in [Procs -> Nat]
      /\ prog[p] # "running"
  BY DEF JenkinsInv, StepDone, StepFails, PipeRead, Held, Recorded, Typed
<1>p. /\ prog' \in [Procs -> Programs] /\ prog'[p] # "running"
      /\ \A q \in Procs \ {p} : prog'[q] = prog[q]
  BY <1>1 DEF StepDone, StepFails, Ends, local, steps, Typed, Programs
<1>2. PICK r \in {"ok", "failed"} :
        /\ ran' = [ran EXCEPT ![p] = Append(@, r)]
        /\ StepDone(p) => r = "ok"
  BY DEF StepDone, StepFails
<1>3. /\ ran[p] \in Seq({"ok", "failed"}) /\ Len(ran[p]) = step[p]
      /\ step[p] \in Nat /\ opt[p].steps \in 0 .. MaxSteps /\ step[p] < opt[p].steps
      /\ \A i \in 1 .. Len(ran[p]) : ran[p][i] = "ok"
      /\ item[p] = "started" /\ build[p] = number[p] /\ builds[number[p]] = "SUCCESS"
  BY <1>1 DEF Typed, Options, Held, Queued, Proven, Stepped, Deploys
<1>4. /\ ran' \in [Procs -> Seq({"ok", "failed"})]
      /\ Len(ran'[p]) = step[p] + 1 /\ ran'[p][step[p] + 1] = r
      /\ \A i \in 1 .. step[p] : ran'[p][i] = "ok"
      /\ \A q \in Procs \ {p} : ran'[q] = ran[q]
  BY <1>1, <1>2, <1>3 DEF Typed
<1>5. /\ step' \in [Procs -> 0 .. MaxSteps] /\ step'[p] \in {step[p], step[p] + 1}
      /\ StepDone(p) => step'[p] = step[p] + 1
      /\ \A q \in Procs \ {p} : step'[q] = step[q]
  <2>1. CASE StepDone(p)
    BY <1>1, <1>3, <2>1 DEF Typed, StepDone
  <2>2. CASE ~StepDone(p)
    BY <1>1, <2>2 DEF Typed, StepFails, Ends, local, steps
  <2> QED BY <2>1, <2>2
<1>6. /\ pc' \in [Procs -> Places] /\ out' \in [Procs -> Outcomes]
      /\ trail' \in [Procs -> TrailLines] /\ named' \in [Procs -> Nat]
      /\ \/ /\ pc'[p] = "step" /\ out'[p] = out[p] /\ trail'[p] = trail[p] /\ named'[p] = named[p]
            /\ r = "ok" /\ step'[p] = step[p] + 1 /\ step[p] + 1 # opt[p].steps
         \/ /\ pc'[p] = "done" /\ trail'[p] = "ended" /\ named'[p] = build[p]
            /\ out'[p] = "ok" => r = "ok" /\ step[p] + 1 = opt[p].steps
      /\ \A q \in Procs \ {p} :
             pc'[q] = pc[q] /\ out'[q] = out[q] /\ trail'[q] = trail[q] /\ named'[q] = named[q]
  <2>1. CASE StepDone(p) /\ step[p] + 1 = opt[p].steps
    <3>1. Finish(p, "ok") /\ r = "ok"
      BY <1>2, <2>1 DEF StepDone
    <3> QED BY <1>1, <2>1, <3>1, EndFrame DEF Outcomes
  <2>2. CASE StepDone(p) /\ step[p] + 1 # opt[p].steps
    <3>1. UNCHANGED <<pc, out, trail, named>> /\ r = "ok"
      BY <1>2, <2>2 DEF StepDone, ending
    <3> QED BY <1>1, <1>5, <2>2, <3>1 DEF Typed
  <2>3. CASE StepFails(p)
    <3>1. Finish(p, "error")
      BY <2>3 DEF StepFails, Ends
    <3> QED BY <1>1, <3>1, EndFrame DEF Outcomes
  <2> QED BY <2>1, <2>2, <2>3
<1>7. Typed'
  BY <1>1, <1>p, <1>4, <1>5, <1>6 DEF Typed
<1>8. \A q \in Procs \ {p} : Still(q)
  BY <1>p, <1>4, <1>5, <1>6 DEF Still
<1>9. Queued(p)' /\ Proven(p)'
  BY <1>1, <1>3, <1>6 DEF Held, Queued, Proven, Well, Polling, Deploys
<1>10. Stepped(p)'
  <2>1. \A i \in 1 .. Len(ran'[p]) : i < Len(ran'[p]) => ran'[p][i] = "ok"
    BY <1>3, <1>4
  <2>2. r = "ok" => \A i \in 1 .. Len(ran'[p]) : ran'[p][i] = "ok"
    BY <1>3, <1>4
  <2>3. pc'[p] \in {"step", "done"}
    BY <1>6
  <2>4. pc'[p] = "step" => step'[p] = step[p] + 1 /\ r = "ok" /\ step[p] + 1 # opt[p].steps
    BY <1>6
  <2>5. Well(p)' => r = "ok" /\ step[p] + 1 = opt[p].steps
    BY <1>1, <1>6 DEF Well
  <2> QED BY <1>3, <1>p, <1>4, <2>1, <2>2, <2>3, <2>4, <2>5 DEF Stepped
<1>11. Recorded(p)' /\ Spared(p)'
  BY <1>1, <1>6 DEF Held, Recorded, Spared, Active, Polling, Deploys
<1> QED BY <1>7, <1>8, <1>9, <1>10, <1>11, OneKeeps, SameGrown DEF Held

\* The program of a step starts or is over.
LEMMA ProgramKeeps ==
  ASSUME JenkinsInv, NEW p \in Procs, StepStarts(p) \/ StepExits(p) \/ StepKilled(p)
  PROVE  JenkinsInv'
<1> UNCHANGED <<builds, item, number, pc, opt, build, step, late, out, trail, named, ran, stopped,
                last>>
  BY DEF StepStarts, StepExits, StepKilled, ProgramOver, jenkins, ending, seen
<1>1. Typed /\ Held(p) /\ pc[p] = "step"
  BY DEF JenkinsInv, StepStarts, StepExits, StepKilled, ProgramOver
<1>2. /\ prog' \in [Procs -> Programs] /\ heirs' \subseteq Procs
      /\ \A q \in Procs \ {p} : prog'[q] = prog[q]
  BY <1>1 DEF StepStarts, StepExits, StepKilled, ProgramOver, Typed, Programs
<1>3. Typed'
  BY <1>1, <1>2 DEF Typed
<1>4. \A q \in Procs \ {p} : Still(q)
  BY <1>2 DEF Still
<1>5. Queued(p)' /\ Proven(p)' /\ Stepped(p)' /\ Recorded(p)' /\ Spared(p)'
  BY <1>1 DEF Held, Queued, Proven, Stepped, Recorded, Spared, Well, Deploys
<1> QED BY <1>3, <1>4, <1>5, OneKeeps, SameGrown DEF Held

LEMMA HeirKeeps == ASSUME JenkinsInv, NEW p \in Procs, HeirExits(p) PROVE JenkinsInv'
<1> UNCHANGED <<builds, item, number, pc, opt, build, step, prog, late, out, trail, named, ran,
                stopped, last>>
  BY DEF HeirExits, jenkins, ending, seen
<1>1. Typed'
  BY DEF HeirExits, JenkinsInv, Typed
<1>2. \A q \in Procs : Still(q)
  BY DEF Still
<1> QED BY <1>1, <1>2, OthersKeep, SameGrown DEF JenkinsInv

LEMMA ResolveKeeps == ASSUME JenkinsInv, NEW p \in Procs, Resolve(p) PROVE JenkinsInv'
<1> USE JenkinsAssumption
<1> UNCHANGED <<builds, item, number, opt, step, prog, heirs, late, ran, stopped>>
  BY DEF Resolve, Ends, jenkins, local, steps
<1>1. /\ Typed /\ Held(p) /\ pc[p] = "resolve" /\ out[p] = "none" /\ opt[p].cmd = "cancel"
      /\ \A n \in Numbers : <<p, n>> \notin stopped
  BY DEF JenkinsInv, Resolve, Held, Recorded, Spared
<1>2. /\ last' \in [Procs -> 0 .. MaxBuilds] /\ last'[p] = Len(builds) /\ Len(builds) \in Nat
      /\ opt[p].target \in Nat /\ \A q \in Procs \ {p} : last'[q] = last[q]
  BY <1>1 DEF Resolve, Typed, Options
<1>3. /\ build' \in [Procs -> Nat] /\ \A q \in Procs \ {p} : build'[q] = build[q]
      /\ pc' \in [Procs -> Places] /\ out' \in [Procs -> Outcomes]
      /\ trail' \in [Procs -> TrailLines] /\ named' \in [Procs -> Nat]
      /\ \/ /\ pc'[p] = "stop" /\ out'[p] = "none" /\ trail'[p] = "started" /\ named'[p] = named[p]
            /\ build'[p] = Len(builds) \/ build'[p] = opt[p].target
         \/ pc'[p] = "done" /\ out'[p] = "error" /\ trail'[p] = "ended" /\ named'[p] = build'[p]
      /\ \A q \in Procs \ {p} :
             pc'[q] = pc[q] /\ out'[q] = out[q] /\ trail'[q] = trail[q] /\ named'[q] = named[q]
  <2> DEFINE n == IF opt[p].target > 0 THEN opt[p].target ELSE Len(builds)
  <2>1. n \in Nat /\ (n = Len(builds) \/ n = opt[p].target)
    BY <1>2
  <2>2. CASE n = 0
    <3>1. Finish(p, "error") /\ build' = build
      BY <2>2 DEF Resolve, Ends, local
    <3> QED BY <1>1, <3>1, EndFrame DEF Outcomes, Typed
  <2>3. CASE n # 0
    <3>1. /\ build' = [build EXCEPT ![p] = n] /\ Goto(p, "stop")
          /\ trail' = [trail EXCEPT ![p] = "started"] /\ UNCHANGED <<out, named>>
      BY <2>3 DEF Resolve
    <3> HIDE DEF n
    <3> QED BY <1>1, <2>1, <3>1 DEF Goto, Typed, Places, Active, TrailLines
  <2> QED BY <2>2, <2>3
<1>4. Typed'
  BY <1>1, <1>2, <1>3 DEF Typed
<1>5. \A q \in Procs \ {p} : Still(q)
  BY <1>2, <1>3 DEF Still
<1>6. Queued(p)' /\ Proven(p)' /\ Stepped(p)'
  BY <1>1, <1>3 DEF Held, Queued, Proven, Stepped, Well, Polling, Deploys
<1>7. Recorded(p)'
  BY <1>1, <1>3 DEF Held, Recorded, Active, Polling, Deploys
<1>8. Spared(p)'
  BY <1>1, <1>2, <1>3 DEF Held, Spared
<1> QED BY <1>4, <1>5, <1>6, <1>7, <1>8, OneKeeps, SameGrown DEF Held

\* A build that runs gets its result.
LEMMA ResultGiven ==
  ASSUME Typed, NEW n \in 1 .. Len(builds), builds[n] = "running", NEW r \in Final,
         builds' = [builds EXCEPT ![n] = r]
  PROVE  /\ builds' \in Seq({"running"} \union Final) /\ Len(builds') = Len(builds)
         /\ \A m \in 1 .. Len(builds) : builds[m] = "SUCCESS" => builds'[m] = "SUCCESS"
<1> DEFINE S == {"running"} \union Final
<1>1. builds \in Seq(S) /\ r \in S
  BY DEF Typed
<1> HIDE DEF S
<1>2. builds' \in Seq(S) /\ Len(builds') = Len(builds)
  BY <1>1
<1>3. \A m \in 1 .. Len(builds) : builds[m] = "SUCCESS" => builds'[m] = "SUCCESS"
  BY <1>1
<1> QED BY <1>2, <1>3 DEF S

LEMMA StopKeeps == ASSUME JenkinsInv, NEW p \in Procs, Stop(p) \/ StopFails(p) PROVE JenkinsInv'
<1> USE JenkinsAssumption
<1> UNCHANGED <<item, number, opt, build, step, prog, heirs, late, ran, last>>
  BY DEF Stop, StopFails, Ends, local, steps
<1>1. Typed /\ Held(p) /\ pc[p] = "stop" /\ opt[p].cmd = "cancel" /\ build' \in [Procs -> Nat]
      /\ (build[p] <= last[p] \/ build[p] = opt[p].target)
  BY DEF JenkinsInv, Stop, StopFails, Held, Spared, Typed
<1>2. PICK o \in {"ok", "error"} : Finish(p, o)
  BY DEF Stop, StopFails, Ends
<1>3. /\ pc' \in [Procs -> Places] /\ pc'[p] = "done"
      /\ out' \in [Procs -> Outcomes] /\ out'[p] = o
      /\ trail' \in [Procs -> TrailLines] /\ trail'[p] = "ended"
      /\ named' \in [Procs -> Nat] /\ named'[p] = build'[p]
      /\ \A q \in Procs \ {p} :
             pc'[q] = pc[q] /\ out'[q] = out[q] /\ trail'[q] = trail[q] /\ named'[q] = named[q]
  BY <1>1, <1>2, EndFrame DEF Outcomes
<1>4. /\ builds' \in Seq({"running"} \union Final) /\ Len(builds') = Len(builds)
      /\ \A n \in 1 .. Len(builds) : builds[n] = "SUCCESS" => builds'[n] = "SUCCESS"
      /\ stopped' \in {stopped, stopped \union {<<p, build[p]>>}}
      /\ stopped' # stopped => build[p] \in 1 .. Len(builds)
  <2>1. CASE Abort(p, build[p])
    <3>1. CASE build[p] \in DOMAIN builds /\ builds[build[p]] = "running"
      <4>1. builds' = [builds EXCEPT ![build[p]] = "ABORTED"] /\ build[p] \in 1 .. Len(builds)
            /\ stopped' = stopped \union {<<p, build[p]>>}
        BY <1>1, <2>1, <3>1 DEF Abort, Typed
      <4> QED BY <1>1, <3>1, <4>1, ResultGiven DEF Final
    <3>2. CASE ~(build[p] \in DOMAIN builds /\ builds[build[p]] = "running")
      BY <1>1, <2>1, <3>2 DEF Abort, Typed
    <3> QED BY <3>1, <3>2
  <2>2. CASE UNCHANGED <<builds, stopped>>
    BY <1>1, <2>2 DEF Typed
  <2> QED BY <2>1, <2>2 DEF Stop, StopFails
<1>5. Len(builds) \in Nat /\ Len(builds) <= MaxBuilds /\ (stopped' # stopped => build[p] \in Numbers)
  BY <1>1, <1>4 DEF Typed, Numbers
<1>6. Grown
  BY <1>4, <1>5 DEF Grown
<1>7. stopped' \subseteq Procs \X Numbers
  BY <1>1, <1>4, <1>5 DEF Typed
<1>8. Typed'
  BY <1>1, <1>3, <1>4, <1>5, <1>7 DEF Typed
<1>9. \A q \in Procs \ {p} : Still(q)
  <2> SUFFICES ASSUME NEW q \in Procs \ {p}, NEW n \in Numbers
               PROVE  <<q, n>> \in stopped' <=> <<q, n>> \in stopped
    BY <1>3 DEF Still
  <2> QED BY <1>4
<1>10. Queued(p)' /\ Stepped(p)'
  BY <1>1, <1>3, <1>4 DEF Held, Queued, Stepped, Well, Polling, Deploys
<1>11. Proven(p)'
  <2>1. ran[p] = <<>> /\ prog[p] = "none"
    BY <1>1 DEF Held, Stepped
  <2> QED BY <1>1, <1>3, <2>1 DEF Proven, Well, Deploys
<1>12. Recorded(p)'
  BY <1>1, <1>3 DEF Held, Recorded, Active, Polling, Deploys
<1>13. Spared(p)'
  <2>1. ASSUME NEW n \in Numbers, <<p, n>> \in stopped' PROVE n <= last[p] \/ n = opt[p].target
    BY <1>1, <1>4, <2>1 DEF Held, Spared
  <2> QED BY <1>3, <2>1 DEF Spared
<1> QED BY <1>6, <1>8, <1>9, <1>10, <1>11, <1>12, <1>13, OneKeeps DEF Held

\* Jenkins, other users, the clock.
LEMMA WorldKeeps ==
  ASSUME JenkinsInv,
         \/ \E p \in Procs : JenkinsStarts(p) \/ JenkinsCancels(p) \/ Deadline(p)
         \/ \E n \in DOMAIN builds : JenkinsEnds(n)
         \/ OthersBuild
  PROVE  JenkinsInv'
<1> USE JenkinsAssumption
<1> UNCHANGED <<pc, opt, build, step, prog, heirs, out, trail, named, ran, stopped, last>>
  BY DEF JenkinsStarts, JenkinsCancels, Deadline, JenkinsEnds, OthersBuild, local, steps, ending, seen
<1>t. Typed
  BY DEF JenkinsInv
<1>b. builds \in Seq({"running"} \union Final)
  BY <1>t DEF Typed
<1>1. Typed /\ Len(builds) \in Nat /\ builds \in Seq({"running"} \union Final)
  BY <1>t, <1>b
<1>2. ASSUME NEW p \in Procs, JenkinsStarts(p) PROVE JenkinsInv'
  <2>1. item[p] = "waiting" /\ builds' = Append(builds, "running") /\ late' = late
        /\ item' = [item EXCEPT ![p] = "started"]
        /\ number' = [number EXCEPT ![p] = Len(builds) + 1] /\ Len(builds) < MaxBuilds
    BY <1>2 DEF JenkinsStarts
  <2>2. builds' \in Seq({"running"} \union Final) /\ Len(builds') = Len(builds) + 1
        /\ Len(builds') <= MaxBuilds /\ \A n \in 1 .. Len(builds) : builds'[n] = builds[n]
    BY <1>1, <2>1
  <2>3. /\ item' \in [Procs -> {"none", "waiting", "cancelled", "started"}] /\ item'[p] = "started"
        /\ number' \in [Procs -> 0 .. MaxBuilds] /\ number'[p] = Len(builds')
        /\ \A q \in Procs \ {p} : item'[q] = item[q] /\ number'[q] = number[q]
    <3>1. item \in [Procs -> {"none", "waiting", "cancelled", "started"}]
          /\ number \in [Procs -> 0 .. MaxBuilds]
      BY <1>1 DEF Typed
    <3>2. Len(builds) + 1 \in 0 .. MaxBuilds
      BY <1>1, <2>1, <2>2
    <3>3. /\ item' \in [Procs -> {"none", "waiting", "cancelled", "started"}] /\ item'[p] = "started"
          /\ \A q \in Procs \ {p} : item'[q] = item[q]
      BY <2>1, <3>1
    <3>4. /\ number' \in [Procs -> 0 .. MaxBuilds] /\ number'[p] = Len(builds) + 1
          /\ \A q \in Procs \ {p} : number'[q] = number[q]
      BY <2>1, <3>1, <3>2
    <3> QED BY <2>2, <3>3, <3>4
  <2>4. Typed'
    BY <1>1, <2>1, <2>2, <2>3 DEF Typed
  <2>5. Grown
    BY <1>1, <2>2 DEF Grown
  <2>6. \A q \in Procs \ {p} : Still(q)
    BY <2>3 DEF Still
  <2>7. Held(p)
    BY DEF JenkinsInv
  <2>8. Queued(p)' /\ Proven(p)'
    BY <1>1, <2>1, <2>2, <2>3, <2>7 DEF Held, Queued, Proven, Well
  <2>9. Stepped(p)' /\ Recorded(p)' /\ Spared(p)'
    BY <2>1, <2>7 DEF Held, Stepped, Recorded, Spared, Well
  <2> QED BY <2>4, <2>5, <2>6, <2>8, <2>9, OneKeeps DEF Held
<1>3. ASSUME NEW p \in Procs, JenkinsCancels(p) PROVE JenkinsInv'
  <2>1. item[p] = "waiting" /\ item' = [item EXCEPT ![p] = "cancelled"]
        /\ UNCHANGED <<builds, number, late>>
    BY <1>3 DEF JenkinsCancels
  <2>2. /\ item' \in [Procs -> {"none", "waiting", "cancelled", "started"}]
        /\ item'[p] = "cancelled" /\ \A q \in Procs \ {p} : item'[q] = item[q]
    BY <1>1, <2>1 DEF Typed
  <2>3. Typed'
    BY <1>1, <2>1, <2>2 DEF Typed
  <2>4. \A q \in Procs \ {p} : Still(q)
    BY <2>1, <2>2 DEF Still
  <2>5. Held(p)
    BY DEF JenkinsInv
  <2>6. Queued(p)' /\ Proven(p)' /\ Stepped(p)' /\ Recorded(p)' /\ Spared(p)'
    BY <2>1, <2>2, <2>5 DEF Held, Queued, Proven, Stepped, Recorded, Spared, Well
  <2> QED BY <2>1, <2>3, <2>4, <2>6, OneKeeps, SameGrown DEF Held
<1>4. ASSUME NEW p \in Procs, Deadline(p) PROVE JenkinsInv'
  <2>1. late' = late \union {p} /\ UNCHANGED <<builds, item, number>>
    BY <1>4 DEF Deadline, jenkins
  <2>2. Typed'
    BY <1>1, <2>1 DEF Typed
  <2>3. \A q \in Procs : Still(q)
    BY <2>1 DEF Still
  <2> QED BY <2>1, <2>2, <2>3, OthersKeep, SameGrown DEF JenkinsInv
<1>5. ASSUME (\E n \in DOMAIN builds : JenkinsEnds(n)) \/ OthersBuild PROVE JenkinsInv'
  <2>1. UNCHANGED <<item, number, late>>
    BY <1>5 DEF JenkinsEnds, OthersBuild
  <2>2. /\ builds' \in Seq({"running"} \union Final)
        /\ Len(builds) <= Len(builds') /\ Len(builds') <= MaxBuilds
        /\ \A n \in 1 .. Len(builds) : builds[n] = "SUCCESS" => builds'[n] = "SUCCESS"
    <3>1. CASE \E n \in DOMAIN builds : JenkinsEnds(n)
      <4>1. PICK n \in DOMAIN builds : JenkinsEnds(n)
        BY <3>1
      <4>2. PICK r \in {"SUCCESS", "FAILURE"} :
              builds[n] = "running" /\ builds' = [builds EXCEPT ![n] = r]
        BY <4>1 DEF JenkinsEnds
      <4>3. Len(builds) <= MaxBuilds /\ n \in 1 .. Len(builds)
        BY <1>1, <4>1 DEF Typed
      <4> QED BY <1>1, <4>2, <4>3, ResultGiven DEF Final
    <3>2. CASE OthersBuild
      BY <1>1, <3>2 DEF OthersBuild
    <3> QED BY <1>5, <3>1, <3>2
  <2>3. Typed'
    BY <1>1, <2>1, <2>2 DEF Typed
  <2>4. \A q \in Procs : Still(q)
    BY <2>1 DEF Still
  <2>5. Grown
    BY <2>2 DEF Grown
  <2> QED BY <2>3, <2>4, <2>5, OthersKeep DEF JenkinsInv
<1> QED BY <1>2, <1>3, <1>4, <1>5

LEMMA JenkinsNext_Inv == JenkinsInv /\ [Next]_vars => JenkinsInv'
<1> SUFFICES ASSUME JenkinsInv, [Next]_vars PROVE JenkinsInv'
  OBVIOUS
<1>1. ASSUME NEW p \in Procs,
             Begin(p) \/ Trigger(p) \/ TriggerFails(p) \/ QueueNumbers(p) \/ StepDone(p)
             \/ StepFails(p) \/ Resolve(p) \/ Stop(p) \/ StopFails(p)
             \/ StepStarts(p) \/ StepExits(p) \/ StepKilled(p) \/ HeirExits(p)
      PROVE  JenkinsInv'
  BY <1>1, BeginKeeps, TriggerKeeps, NumberKeeps, DeployStepKeeps, ResolveKeeps, StopKeeps,
     ProgramKeeps, HeirKeeps
<1>2. ASSUME NEW p \in Procs,
             Reject(p) \/ PresetFails(p) \/ QueueCancelled(p) \/ QueueFails(p) \/ PollFailed(p)
             \/ PollFails(p) \/ StageFails(p) \/ ResolveFails(p)
      PROVE  JenkinsInv'
  <2>1. PICK o \in Outcomes \ {"ok"} : Ends(p, o)
    BY <1>2 DEF Reject, PresetFails, QueueCancelled, QueueFails, PollFailed, PollFails,
                StageFails, ResolveFails, Outcomes
  <2>2. UNCHANGED <<jenkins, seen>> /\ pc[p] \in Active \union {"idle", "resolve"}
    BY <1>2 DEF Reject, PresetFails, QueueCancelled, QueueFails, PollFailed, PollFails,
                StageFails, ResolveFails, Active, Polling, Deploys
  <2> QED BY <2>1, <2>2, EndKeeps
<1>3. ASSUME NEW p \in Procs, QueueWaits(p) \/ PollRunning(p) \/ PollSuccess(p) \/ Kill(p)
      PROVE  JenkinsInv'
  <2>1. CASE QueueWaits(p)
    BY <2>1, GotoKeeps DEF QueueWaits, Places, Active
  <2>2. CASE PollRunning(p)
    BY <2>2, GotoKeeps DEF PollRunning, Places, Active, Polling
  <2>3. CASE PollSuccess(p)
    BY <2>3, GotoKeeps DEF PollSuccess, Places, Active, Deploys
  <2>4. CASE Kill(p)
    BY <2>4, GotoKeeps DEF Kill, Places
  <2> QED BY <1>3, <2>1, <2>2, <2>3, <2>4
<1>4. ASSUME NEW p \in Procs, Nap(p) PROVE JenkinsInv'
  <2>1. CASE p \in late
    BY <1>4, <2>1, EndKeeps DEF Nap, Outcomes, Active, Polling
  <2>2. CASE p \notin late
    <3> DEFINE l == IF pc[p] = "queue nap" THEN "queue" ELSE "poll"
    <3>1. Goto(p, l) /\ UNCHANGED <<jenkins, local, late, ending, seen>>
          /\ pc[p] \in {"queue nap", "poll nap"}
      BY <1>4, <2>2 DEF Nap
    <3>2. l \in Places /\ (\/ pc[p] \in {"queue", "queue nap"} /\ l \in {"queue", "queue nap"}
                           \/ pc[p] \in Polling /\ l \in Polling)
      BY <3>1 DEF Places, Active, Polling
    <3> HIDE DEF l
    <3> QED BY <3>1, <3>2, GotoKeeps
  <2> QED BY <2>1, <2>2
<1>5. ASSUME NEW p \in Procs, Artifacts(p) \/ Console(p) PROVE JenkinsInv'
  <2>1. opt[p].steps \in Nat
    BY JenkinsAssumption DEF JenkinsInv, Typed, Options
  <2>2. CASE Artifacts(p)
    <3>1. CASE opt[p].extract \/ opt[p].steps > 0
      BY <2>2, <3>1, GotoKeeps DEF Artifacts, Places, Active, Deploys
    <3>2. CASE ~(opt[p].extract \/ opt[p].steps > 0)
      <4>1. Ends(p, "ok") /\ UNCHANGED <<jenkins, seen>> /\ pc[p] = "artifacts" /\ opt[p].steps = 0
        BY <2>1, <2>2, <3>2 DEF Artifacts
      <4> QED BY <4>1, EndKeeps DEF Outcomes, Active, Deploys
    <3> QED BY <3>1, <3>2
  <2>3. CASE Console(p)
    <3>1. CASE opt[p].steps > 0
      BY <2>3, <3>1, GotoKeeps DEF Console, Places, Active, Deploys
    <3>2. CASE ~(opt[p].steps > 0)
      <4>1. Ends(p, "ok") /\ UNCHANGED <<jenkins, seen>> /\ pc[p] = "console" /\ opt[p].steps = 0
        BY <2>1, <2>3, <3>2 DEF Console
      <4> QED BY <4>1, EndKeeps DEF Outcomes, Active, Deploys
    <3> QED BY <3>1, <3>2
  <2> QED BY <1>5, <2>2, <2>3
<1>6. ASSUME \/ \E p \in Procs : JenkinsStarts(p) \/ JenkinsCancels(p) \/ Deadline(p)
             \/ \E n \in DOMAIN builds : JenkinsEnds(n)
             \/ OthersBuild
      PROVE  JenkinsInv'
  BY <1>6, WorldKeeps
<1>7. CASE UNCHANGED vars
  <2> UNCHANGED <<builds, item, number, pc, opt, build, step, prog, heirs, late, out, trail, named,
                  ran, stopped, last>>
    BY <1>7 DEF vars, jenkins, local, steps, ending, seen
  <2>1. Typed' /\ \A p \in Procs : Still(p)
    BY DEF JenkinsInv, Typed, Still
  <2> QED BY <2>1, OthersKeep, SameGrown DEF JenkinsInv
<1> QED BY <1>1, <1>2, <1>3, <1>4, <1>5, <1>6, <1>7, Zenon DEF Next, Request

\* The invariant, for any number of commands, builds and steps.
THEOREM JenkinsInvariant == Spec => []JenkinsInv
BY JenkinsInit_Inv, JenkinsNext_Inv, PTL DEF Spec

\* Every variable has its type, and the build that a command polls, or whose
\* steps it runs, is the one that its queue item became.
THEOREM JenkinsTypeCorrect == Spec => []TypeOK
<1>1. JenkinsInv => TypeOK
  <2> SUFFICES ASSUME JenkinsInv PROVE TypeOK
    OBVIOUS
  <2>1. Typed
    BY DEF JenkinsInv
  <2>2. ASSUME NEW p \in Procs, pc[p] \in {"poll", "poll nap", "artifacts", "console", "step"}
        PROVE  build[p] \in DOMAIN builds /\ build[p] = number[p]
    <3>1. Queued(p)
      BY DEF JenkinsInv, Held
    <3>2. build[p] = number[p] /\ number[p] \in 1 .. Len(builds)
      BY <2>2, <3>1 DEF Queued, Polling, Deploys
    <3>3. DOMAIN builds = 1 .. Len(builds)
      BY <2>1 DEF Typed
    <3> QED BY <3>2, <3>3
  <2>3. Places = {"idle", "trigger", "queue", "queue nap", "poll", "poll nap",
                  "artifacts", "console", "step", "resolve", "stop", "done", "killed"}
    BY DEF Places, Active, Polling, Deploys
  <2> QED BY <2>1, <2>2, <2>3, Zenon DEF Typed, TypeOK, Outcomes, Programs, TrailLines
<1> QED BY <1>1, JenkinsInvariant, PTL

\* Deploy steps run only after the build this deploy triggered ended in
\* SUCCESS, and none after one that failed.
THEOREM StepsAfterSuccess == Spec => []StepsFollowSuccess
<1>1. JenkinsInv => StepsFollowSuccess
  <2> SUFFICES ASSUME JenkinsInv, NEW p \in Procs
               PROVE  /\ prog[p] # "none" \/ ran[p] # <<>> =>
                           number[p] \in DOMAIN builds /\ builds[number[p]] = "SUCCESS"
                      /\ \A i, j \in DOMAIN ran[p] :
                           i < j \/ prog[p] = "running" => ran[p][i] = "ok"
    BY DEF StepsFollowSuccess
  <2>1. Typed /\ Queued(p) /\ Proven(p) /\ Stepped(p)
    BY DEF JenkinsInv, Held
  <2>2. builds \in Seq({"running"} \union Final) /\ ran[p] \in Seq({"ok", "failed"})
    BY <2>1 DEF Typed
  <2>3. prog[p] # "none" \/ ran[p] # <<>> =>
          number[p] \in DOMAIN builds /\ builds[number[p]] = "SUCCESS"
    BY <2>1, <2>2 DEF Queued, Proven
  <2>4. ASSUME NEW i \in DOMAIN ran[p], NEW j \in DOMAIN ran[p], i < j \/ prog[p] = "running"
        PROVE  ran[p][i] = "ok"
    BY <2>1, <2>2, <2>4 DEF Stepped
  <2> QED BY <2>3, <2>4
<1> QED BY <1>1, JenkinsInvariant, PTL

\* A command that reports success has a build that Jenkins started, after
\* waiting one that succeeded, and all its steps; what reached Jenkins is on
\* record, under the number of its build.
THEOREM SuccessTrue == Spec => []SuccessOnRecord
<1>1. JenkinsInv => SuccessIsReal
  <2> SUFFICES ASSUME JenkinsInv, NEW p \in Procs, Well(p)
               PROVE  /\ number[p] \in DOMAIN builds
                      /\ opt[p].wait => /\ builds[number[p]] = "SUCCESS"
                                        /\ ran[p] = [i \in 1 .. opt[p].steps |-> "ok"]
    BY DEF SuccessIsReal, Well
  <2>1. Typed /\ Queued(p) /\ Proven(p) /\ Stepped(p)
    BY DEF JenkinsInv, Held
  <2>2. builds \in Seq({"running"} \union Final) /\ ran[p] \in Seq({"ok", "failed"})
    BY <2>1 DEF Typed
  <2>3. number[p] \in DOMAIN builds
    BY <2>1, <2>2 DEF Queued
  <2>4. opt[p].wait => builds[number[p]] = "SUCCESS"
    BY <2>1 DEF Proven
  <2>5. opt[p].wait =>
          Len(ran[p]) = opt[p].steps /\ \A i \in 1 .. Len(ran[p]) : ran[p][i] = "ok"
    BY <2>1 DEF Stepped
  <2>6. ran[p] = [i \in 1 .. Len(ran[p]) |-> ran[p][i]]
    BY <2>2
  <2> QED BY <2>3, <2>4, <2>5, <2>6
<1>2. JenkinsInv => OnRecord
  BY DEF JenkinsInv, Held, Recorded, OnRecord
<1> QED BY <1>1, <1>2, JenkinsInvariant, PTL DEF SuccessOnRecord

\* A cancel never aborts a build that was started after it had chosen one.
THEOREM CancelSpares == Spec => []CancelSparesNewer
<1>1. JenkinsInv => CancelSparesNewer
  BY DEF JenkinsInv, Held, Spared, CancelSparesNewer
<1> QED BY <1>1, JenkinsInvariant, PTL

\* A behaviour of jcli is one of its builds, deploys and cancels, beside
\* commands that leave them alone: so all of this holds of jcli.
THEOREM JcliBuilds ==
  JcliSpec => Spec /\ [](TypeOK /\ StepsFollowSuccess /\ SuccessOnRecord /\ CancelSparesNewer)
<1>1. JcliInit => Init
  BY Zenon DEF JcliInit
<1>2. [JcliNext]_jclivars => [Next]_vars
  <2>1. ASSUME Builds(Next) PROVE Next
    BY <2>1, Zenon DEF Builds
  <2>2. ASSUME Caches(CacheStep) \/ Logs(BuildPrints \/ BuildOver \/ LogStep \/ LogKilled)
        PROVE  UNCHANGED vars
    BY <2>2, Zenon DEF Caches, Logs
  <2>3. ASSUME UNCHANGED jclivars PROVE UNCHANGED vars
    BY <2>3, Zenon DEF jclivars
  <2> QED BY <2>1, <2>2, <2>3, Zenon DEF JcliNext
<1>3. JcliSpec => Spec
  BY <1>1, <1>2, PTL DEF JcliSpec, Spec
<1> QED BY <1>3, JenkinsTypeCorrect, StepsAfterSuccess, SuccessTrue, CancelSpares, PTL

-----------------------------------------------------------------------------
(* The jobs cache *)

CacheSpec == CacheInit /\ [][CacheStep]_cachevars

CachePlaces == {"start", "open", "write", "read", "over"}

\* What a cell of the file may be.
Cells == {Head_, Tail_} \union heard

CacheTyped ==
    /\ groups \in {e.groups : e \in Errands} /\ errand \in {e.errand : e \in Errands}
    /\ at \in [Clis -> CachePlaces]
    /\ disk \in Seq(Cells) /\ there \in BOOLEAN /\ (disk # <<>> => there)
    /\ buf \in [Clis -> Seq(Cells)]
    /\ result = [c \in Clis |-> result[c]]
    /\ heard \subseteq Seq(Letters) /\ marred \in BOOLEAN

\* What a sync is about to write are jobs that it heard of.
Listed(c) ==
    /\ at[c] \in {"open", "write"} => errand[c].verb = "sync" /\ buf[c] \in Seq(heard)
    /\ at[c] = "write" => there

Judged(c) == at[c] # "over" <=> result[c] = Pending

\* Nothing has gone wrong with the file: whoever writes it is alone and has it
\* empty before him, and what nobody writes is whole.
Clean ==
    ~marred =>
        /\ \A c, d \in Clis : at[c] = "write" /\ at[d] = "write" => c = d
        /\ \A c \in Clis : at[c] = "write" => disk = <<>>
        /\ there /\ (\A c \in Clis : at[c] # "write") => Decodes(disk)

CacheInv == CacheTyped /\ (\A c \in Clis : Listed(c) /\ Judged(c)) /\ Clean

\* No path is written like the braces around the paths.
LEMMA BracesApart == Head_ \notin Seq(Letters) /\ Tail_ \notin Seq(Letters)
<1>1. ASSUME Head_ \in Seq(Letters) PROVE FALSE
  <2>0. 1 \in 1 .. Len(Head_)
    BY DEF Head_
  <2>1. Head_[1] \in Letters
    BY <1>1, <2>0, ElementOfSeq
  <2> QED BY <2>1, CacheAssumption DEF Head_
<1>2. ASSUME Tail_ \in Seq(Letters) PROVE FALSE
  <2>0. 1 \in 1 .. Len(Tail_)
    BY DEF Tail_
  <2>1. Tail_[1] \in Letters
    BY <1>2, <2>0, ElementOfSeq
  <2> QED BY <2>1, CacheAssumption DEF Tail_
<1> QED BY <1>1, <1>2

\* What a sync writes is whole, and is what a reader makes of it.
LEMMA EncodedWhole ==
  ASSUME NEW H, H \subseteq Seq(Letters), NEW jobs \in Seq(H)
  PROVE  /\ Encode(jobs) \in Seq({Head_, Tail_} \union H)
         /\ Decodes(Encode(jobs))
<1> DEFINE K == {Head_, Tail_} \union H
           n == Len(jobs)
           front == <<Head_>> \o jobs
           whole == front \o <<Tail_>>
<1>1. jobs \in Seq(K) /\ <<Head_>> \in Seq(K) /\ <<Tail_>> \in Seq(K)
  BY SeqMonotonic
<1>2. n \in Nat /\ Len(<<Head_>>) = 1 /\ Len(<<Tail_>>) = 1
      /\ <<Head_>>[1] = Head_ /\ <<Tail_>>[1] = Tail_
  BY <1>1, LenProperties
<1>3. ASSUME NEW i \in 1 .. n PROVE jobs[i] \notin {Head_, Tail_}
  BY <1>3, ElementOfSeq, BracesApart
<1> HIDE DEF K
<1>4. /\ front \in Seq(K) /\ Len(front) = Len(<<Head_>>) + Len(jobs)
      /\ \A i \in 1 .. Len(<<Head_>>) + Len(jobs) :
            front[i] = IF i <= Len(<<Head_>>) THEN <<Head_>>[i] ELSE jobs[i - Len(<<Head_>>)]
  BY <1>1, ConcatProperties
<1> HIDE DEF front
<1>5. /\ whole \in Seq(K) /\ Len(whole) = Len(front) + Len(<<Tail_>>)
      /\ \A i \in 1 .. Len(front) + Len(<<Tail_>>) :
            whole[i] = IF i <= Len(front) THEN front[i] ELSE <<Tail_>>[i - Len(front)]
  BY <1>1, <1>4, ConcatProperties
<1> HIDE DEF whole
<1>6. Len(front) = n + 1 /\ Len(whole) = n + 2
  BY <1>2, <1>4, <1>5
<1>7. front[1] = Head_ /\ \A i \in 2 .. n + 1 : front[i] = jobs[i - 1]
  <2>1. \A i \in 1 .. n + 1 : front[i] = IF i <= 1 THEN <<Head_>>[i] ELSE jobs[i - 1]
    BY <1>2, <1>4
  <2> HIDE DEF n
  <2> QED BY <1>2, <2>1
<1>8. whole[n + 2] = Tail_ /\ \A i \in 1 .. n + 1 : whole[i] = front[i]
  <2>1. \A i \in 1 .. n + 2 : whole[i] = IF i <= n + 1 THEN front[i] ELSE <<Tail_>>[i - (n + 1)]
    BY <1>2, <1>5, <1>6
  <2> HIDE DEF n
  <2>2. whole[n + 2] = <<Tail_>>[(n + 2) - (n + 1)] /\ (n + 2) - (n + 1) = 1
    BY <1>2, <2>1
  <2> QED BY <1>2, <2>1, <2>2
<1> HIDE DEF n
<1>9. Decodes(whole)
  <2>1. ASSUME NEW i \in 2 .. Len(whole) - 1 PROVE whole[i] \notin {Head_, Tail_}
    <3>1. i \in 2 .. n + 1 /\ i \in 1 .. n + 1 /\ i - 1 \in 1 .. n
      BY <1>2, <1>6
    <3>2. whole[i] = jobs[i - 1]
      BY <1>7, <1>8, <3>1
    <3> QED BY <1>3, <3>1, <3>2
  <2>2. Len(whole) >= 2 /\ whole[1] = Head_ /\ whole[Len(whole)] = Tail_
    BY <1>2, <1>6, <1>7, <1>8
  <2> QED BY <2>1, <2>2 DEF Decodes
<1> QED BY <1>5, <1>9 DEF Encode, whole, front, K

\* What is read from a file that is whole lies between its braces.
LEMMA DecodedHeard ==
  ASSUME NEW H, NEW cells \in Seq({Head_, Tail_} \union H), Decodes(cells)
  PROVE  Decoded(cells) \in Seq(H)
<1>1. Len(cells) \in Nat
  BY LenProperties
<1>2. ASSUME NEW i \in 2 .. Len(cells) - 1 PROVE cells[i] \in H
  <2>1. i \in 1 .. Len(cells)
    BY <1>1
  <2>2. cells[i] \in {Head_, Tail_} \union H
    BY <2>1, ElementOfSeq
  <2> QED BY <2>2 DEF Decodes
<1> QED BY <1>1, <1>2, SubSeqProperties DEF Decoded

LEMMA CacheInit_Inv == CacheInit => CacheInv
<1> SUFFICES ASSUME CacheInit PROVE CacheInv
  OBVIOUS
<1>1. groups \in {e.groups : e \in Errands} /\ errand \in {e.errand : e \in Errands}
  BY DEF CacheInit
<1>2. CacheTyped
  BY <1>1, EmptySeq DEF CacheInit, CacheTyped, CachePlaces, Cells
<1>3. Clean
  BY DEF CacheInit, Clean
<1> QED BY <1>2, <1>3 DEF CacheInit, CacheInv, Listed, Judged

LEMMA CacheShown == CacheInv => CacheTrue
<1> SUFFICES ASSUME CacheInv PROVE CacheTrue
  OBVIOUS
<1>1. there /\ ~marred /\ Writers = {} => Decodes(disk)
  BY DEF CacheInv, Clean, Writers
<1>2. ASSUME NEW c \in Clis, Decodes(buf[c]) PROVE Range(Decoded(buf[c])) \subseteq heard
  <2>1. buf[c] \in Seq({Head_, Tail_} \union heard)
    BY DEF CacheInv, CacheTyped, Cells
  <2>2. Decoded(buf[c]) \in Seq(heard)
    BY <1>2, <2>1, DecodedHeard
  <2> QED BY <2>2, RangeOfSeq
<1> QED BY <1>1, <1>2 DEF CacheTrue

LEMMA CellsGrow ==
  ASSUME heard \subseteq heard'
  PROVE  /\ \A q \in Seq(Cells) : q \in Seq(Cells')
         /\ \A q \in Seq(heard) : q \in Seq(heard')
<1>1. Cells \subseteq Cells'
  BY DEF Cells, Head_, Tail_
<1> QED BY <1>1, SeqMonotonic

\* A look-up has an outcome.
LEMMA ResolveErr ==
  ASSUME NEW gs, NEW flags, NEW cache
  PROVE  ResolveTarget(gs, flags, cache) # Pending
<1>1. \A code : code # "pending" => Refused(code) # Pending /\ Refused(code).err # "pending"
  BY DEF Refused, Pending
<1>2. \A name, job : Found(name, job) # Pending /\ Found(name, job).err # "pending"
  BY DEF Found, Pending
<1>3. \A name : Group(gs, name) # Pending /\ Group(gs, name).err # "pending"
  BY <1>1, <1>2 DEF Group
<1>4. ASSUME NEW names, NEW none, NEW many, none # "pending", many # "pending"
      PROVE  TheOne(names, none, many) # Pending /\ TheOne(names, none, many).err # "pending"
  BY <1>1, <1>2, <1>4 DEF TheOne
<1>5. ResolveByJob(gs, flags) # Pending
  BY <1>2, <1>3 DEF ResolveByJob
<1>6. AutoResolveGroup(gs, flags.service, cache) # Pending
  BY <1>1, <1>2, <1>4 DEF AutoResolveGroup
<1>7. \A name : ResolveByName(gs, name, flags.service, cache) # Pending
  BY <1>1, <1>2 DEF ResolveByName
<1> QED BY <1>1, <1>3, <1>5, <1>6, <1>7 DEF ResolveTarget

LEMMA UseEnds ==
  ASSUME NEW c \in Clis, NEW cache, Use(c, cache)
  PROVE  \E r : Ended(c, r) /\ r # Pending
<1>1. \A name, job : [err |-> "none", group |-> name, job |-> job] # Pending
  BY DEF Pending
<1>2. Refused("CACHE") # Pending
  BY DEF Pending, Refused
<1>3. CASE errand[c].verb = "list"
  BY <1>1, <1>2, <1>3 DEF Use, Done
<1>4. CASE errand[c].verb # "list"
  BY <1>4, ResolveErr DEF Use
<1> QED BY <1>3, <1>4

\* A command ends, and leaves the file whole or is known to have marred it.
LEMMA EndKeepsCache ==
  ASSUME CacheInv, NEW c \in Clis, NEW r, Ended(c, r), r # Pending,
         UNCHANGED <<groups, errand, there, buf, heard>>,
         disk' \in Seq(Cells), disk' # <<>> => there, marred' \in BOOLEAN,
         ~marred' => /\ ~marred
                     /\ \/ at[c] # "write" /\ disk' = disk
                        \/ at[c] = "write" /\ Decodes(disk')
  PROVE  CacheInv'
<1>1. at' = [at EXCEPT ![c] = "over"] /\ result' = [result EXCEPT ![c] = r]
  BY DEF Ended, CGoto
<1>2. /\ at \in [Clis -> CachePlaces]
      /\ result = [d \in Clis |-> result[d]]
  BY DEF CacheInv, CacheTyped
<1>3. /\ at' \in [Clis -> CachePlaces] /\ result' = [d \in Clis |-> result'[d]]
      /\ at'[c] = "over" /\ result'[c] = r
      /\ \A d \in Clis : d # c => at'[d] = at[d] /\ result'[d] = result[d]
  BY <1>1, <1>2 DEF CachePlaces
<1>4. CacheTyped'
  <2>1. Cells' = Cells
    BY DEF Cells, Head_, Tail_
  <2> QED BY <1>3, <2>1 DEF CacheInv, CacheTyped
<1>5. ASSUME NEW d \in Clis PROVE Listed(d)' /\ Judged(d)'
  <2>1. Listed(d) /\ Judged(d)
    BY DEF CacheInv
  <2>2. Pending' = Pending
    BY DEF Pending, NoGroup, NoJob
  <2>3. CASE d = c
    BY <1>3, <2>2, <2>3 DEF Listed, Judged
  <2>4. CASE d # c
    BY <1>3, <2>1, <2>2, <2>4 DEF Listed, Judged
  <2> QED BY <2>3, <2>4
<1>6. Clean'
  <2> SUFFICES ASSUME ~marred' PROVE Clean'
    BY DEF Clean
  <2>1. ~marred /\ Clean
    BY DEF CacheInv
  <2>2. CASE at[c] # "write" /\ disk' = disk
    <3>1. \A d \in Clis : at'[d] = "write" <=> at[d] = "write"
      BY <1>3, <2>2
    <3> QED BY <2>1, <2>2, <3>1 DEF Clean, Decodes, Head_, Tail_
  <2>3. CASE at[c] = "write" /\ Decodes(disk')
    <3>1. \A d \in Clis : at'[d] # "write"
      BY <1>3, <2>1, <2>3 DEF Clean
    <3>2. Decodes(disk)'
      BY <2>3 DEF Decodes, Head_, Tail_
    <3> QED BY <3>1, <3>2 DEF Clean
  <2> QED BY <2>2, <2>3
<1> QED BY <1>4, <1>5, <1>6 DEF CacheInv

\* What a sync has heard is a sequence of paths.
LEMMA WalkTyped ==
  ASSUME NEW tree \in Trees
  PROVE  WalkJobs(tree, Levels) \in Seq(Seq(Letters))
<1>1. IsFiniteSet(tree) /\ tree \subseteq Seq(Letters)
  BY CacheAssumption
<1>2. ASSUME NEW S \in SUBSET tree PROVE SetToSeq(S) \in Seq(Seq(Letters))
  <2>1. Cardinality(S) \in Nat /\ ExistsBijection(1 .. Cardinality(S), S)
    BY <1>1, FS_Subset, FS_CardinalityType
  <2>2. \E f \in [1 .. Cardinality(S) -> S] : IsInjective(f)
    BY <2>1 DEF ExistsBijection, Bijection, Injection
  <2>3. SetToSeq(S) \in [1 .. Cardinality(S) -> S]
    BY <2>2, Zenon DEF SetToSeq
  <2>4. SetToSeq(S) \in Seq(S)
    BY <2>1, <2>3
  <2> QED BY <1>1, <2>4, SeqMonotonic
<1> QED BY <1>2 DEF WalkJobs

LEMMA FetchKeeps ==
  ASSUME CacheInv, NEW c \in Clis, Fetch(c)
  PROVE  CacheInv'
<1>1. PICK tree \in Trees :
        /\ buf' = [buf EXCEPT ![c] = WalkJobs(tree, Levels)]
        /\ heard' = heard \union Range(buf'[c])
  BY DEF Fetch
<1>2. /\ at[c] = "start" /\ errand[c].verb = "sync"
      /\ at' = [at EXCEPT ![c] = "open"]
      /\ UNCHANGED <<groups, errand, disk, there, result, marred>>
  BY DEF Fetch, CGoto
<1>3. CacheTyped
  BY DEF CacheInv
<1>4. buf'[c] \in Seq(Seq(Letters)) /\ \A d \in Clis : d # c => buf'[d] = buf[d]
  BY <1>1, <1>3, WalkTyped DEF CacheTyped
<1>5. /\ Range(buf'[c]) \subseteq Seq(Letters) /\ buf'[c] \in Seq(Range(buf'[c]))
  <2> DEFINE b == buf'[c]
  <2>1. b \in Seq(Seq(Letters))
    BY <1>4
  <2> HIDE DEF b
  <2>2. b \in Seq(Range(b)) /\ Range(b) \in SUBSET Seq(Letters)
    BY <2>1, RangeOfSeq, SeqOfRange
  <2> QED BY <2>2 DEF b
<1>6. heard \subseteq heard' /\ heard' \subseteq Seq(Letters) /\ buf'[c] \in Seq(heard')
  BY <1>1, <1>3, <1>5, SeqMonotonic DEF CacheTyped
<1>7. buf'[c] \in Seq(Cells')
  BY <1>6, SeqMonotonic DEF Cells
<1>8. CacheTyped'
  <2>1. buf' \in [Clis -> Seq(Cells')]
    <3>1. \A d \in Clis : buf'[d] \in Seq(Cells')
      BY <1>3, <1>4, <1>6, <1>7, CellsGrow DEF CacheTyped
    <3>2. buf' = [d \in Clis |-> buf'[d]]
      BY <1>1, <1>3 DEF CacheTyped
    <3> QED BY <3>1, <3>2
  <2>2. at' \in [Clis -> CachePlaces]
    BY <1>2, <1>3 DEF CacheTyped, CachePlaces
  <2>3. disk' \in Seq(Cells')
    BY <1>2, <1>3, <1>6, CellsGrow DEF CacheTyped
  <2> QED BY <1>2, <1>3, <1>6, <2>1, <2>2, <2>3 DEF CacheTyped
<1>9. \A d \in Clis : at'[d] = (IF d = c THEN "open" ELSE at[d])
  BY <1>2, <1>3 DEF CacheTyped
<1>10. ASSUME NEW d \in Clis PROVE Listed(d)' /\ Judged(d)'
  <2>1. Listed(d) /\ Judged(d) /\ Pending' = Pending
    BY DEF CacheInv, Pending, NoGroup, NoJob
  <2>2. CASE d = c
    BY <1>2, <1>6, <1>9, <2>1, <2>2 DEF Listed, Judged
  <2>3. CASE d # c
    BY <1>2, <1>4, <1>6, <1>9, <2>1, <2>3, CellsGrow DEF Listed, Judged
  <2> QED BY <2>2, <2>3
<1>11. Clean'
  <2>1. \A d \in Clis : at'[d] = "write" <=> at[d] = "write"
    BY <1>2, <1>9
  <2> QED BY <1>2, <2>1 DEF CacheInv, Clean, Decodes, Head_, Tail_
<1> QED BY <1>8, <1>10, <1>11 DEF CacheInv

LEMMA OpenKeeps ==
  ASSUME CacheInv, NEW c \in Clis, Open(c)
  PROVE  CacheInv'
<1>1. /\ at[c] = "open" /\ at' = [at EXCEPT ![c] = "write"]
      /\ there' = TRUE /\ disk' = <<>> /\ marred' = (Writers # {})
      /\ UNCHANGED <<groups, errand, buf, result, heard>>
  BY DEF Open, CGoto
<1>2. CacheTyped
  BY DEF CacheInv
<1>3. \A d \in Clis : at'[d] = (IF d = c THEN "write" ELSE at[d])
  BY <1>1, <1>2 DEF CacheTyped
<1>4. CacheTyped'
  <2>1. at' \in [Clis -> CachePlaces]
    BY <1>1, <1>2 DEF CacheTyped, CachePlaces
  <2>2. Cells' = Cells
    BY <1>1 DEF Cells, Head_, Tail_
  <2>3. <<>> \in Seq(Cells)
    BY EmptySeq
  <2> QED BY <1>1, <1>2, <2>1, <2>2, <2>3 DEF CacheTyped
<1>5. ASSUME NEW d \in Clis PROVE Listed(d)' /\ Judged(d)'
  <2>1. Listed(d) /\ Judged(d) /\ Pending' = Pending
    BY DEF CacheInv, Pending, NoGroup, NoJob
  <2> QED BY <1>1, <1>3, <2>1 DEF Listed, Judged
<1>6. Clean'
  <2> SUFFICES ASSUME ~marred' PROVE Clean'
    BY DEF Clean
  <2>1. \A d \in Clis : at[d] # "write"
    BY <1>1 DEF Writers
  <2> QED BY <1>1, <1>3, <2>1 DEF Clean
<1> QED BY <1>4, <1>5, <1>6 DEF CacheInv

LEMMA OverTyped ==
  ASSUME disk \in Seq(Cells), NEW q \in Seq(Cells)
  PROVE  Over(q) \in Seq(Cells)
<1>1. Len(q) \in Nat /\ Len(disk) \in Nat
  BY LenProperties
<1>2. \A i \in Len(q) + 1 .. Len(disk) : disk[i] \in Cells
  BY <1>1, ElementOfSeq
<1>3. SubSeq(disk, Len(q) + 1, Len(disk)) \in Seq(Cells)
  BY <1>1, <1>2, SubSeqProperties
<1> QED BY <1>3, ConcatProperties DEF Over

LEMMA WriteKeeps ==
  ASSUME CacheInv, NEW c \in Clis, Write(c) \/ WriteShort(c) \/ KillWriter(c)
  PROVE  CacheInv'
<1> DEFINE text == Encode(buf[c])
<1>1. /\ CacheTyped /\ Listed(c) /\ Clean /\ at[c] = "write"
      /\ UNCHANGED <<groups, errand, there, buf, heard>>
  BY DEF CacheInv, Write, WriteShort, KillWriter
<1>2. buf[c] \in Seq(heard) /\ heard \subseteq Seq(Letters) /\ there /\ disk \in Seq(Cells)
      /\ marred \in BOOLEAN
  BY <1>1 DEF Listed, CacheTyped
<1>3. text \in Seq(Cells) /\ Decodes(text)
  BY <1>2, EncodedWhole DEF Cells
<1> HIDE DEF text
<1>4. Refused("failed") # Pending /\ [err |-> "none", group |-> NoGroup, job |-> NoJob] # Pending
  BY DEF Refused, Pending
<1>5. CASE Write(c)
  <2>1. disk' = Over(text) /\ marred' = marred
        /\ Ended(c, [err |-> "none", group |-> NoGroup, job |-> NoJob])
    BY <1>5 DEF Write, Done, text
  <2>2. disk' \in Seq(Cells)
    BY <1>2, <1>3, <2>1, OverTyped
  <2>3. ASSUME ~marred PROVE Decodes(disk')
    <3>1. disk = <<>>
      BY <1>1, <2>3 DEF Clean
    <3>2. Len(text) \in Nat /\ Len(<<>>) = 0
      BY <1>3, LenProperties
    <3>3. SubSeq(disk, Len(text) + 1, Len(disk)) = <<>>
      BY <3>1, <3>2, SubSeqEmpty
    <3>4. disk' = text
      BY <1>3, <2>1, <3>3, ConcatEmptySeq DEF Over
    <3> QED BY <1>3, <3>4
  <2> QED BY <1>1, <1>2, <1>4, <2>1, <2>2, <2>3, EndKeepsCache
<1>6. CASE WriteShort(c)
  <2>1. PICK k \in 0 .. Len(text) - 1 : disk' = Over(SubSeq(text, 1, k))
    BY <1>6 DEF WriteShort, text
  <2>2. marred' = TRUE /\ Ended(c, Refused("failed"))
    BY <1>6 DEF WriteShort
  <2>3. Len(text) \in Nat
    BY <1>3, LenProperties
  <2>4. \A i \in 1 .. k : text[i] \in Cells
    BY <1>3, <2>3, ElementOfSeq
  <2>5. SubSeq(text, 1, k) \in Seq(Cells)
    BY <2>3, <2>4, SubSeqProperties
  <2>6. disk' \in Seq(Cells)
    BY <1>2, <2>1, <2>5, OverTyped
  <2> QED BY <1>1, <1>2, <1>4, <2>2, <2>6, EndKeepsCache
<1>7. CASE KillWriter(c)
  <2>1. marred' = TRUE /\ Ended(c, Refused("failed")) /\ disk' = disk
    BY <1>7 DEF KillWriter
  <2> QED BY <1>1, <1>2, <1>4, <2>1, EndKeepsCache
<1> QED BY <1>5, <1>6, <1>7

LEMMA ReadKeeps ==
  ASSUME CacheInv, NEW c \in Clis, BeginRead(c) \/ ReadSome(c)
  PROVE  CacheInv'
<1>1. CacheTyped
  BY DEF CacheInv
<1>2. /\ UNCHANGED <<groups, errand, disk, there, result, heard, marred>>
      /\ \A d \in Clis : d # c => at'[d] = at[d] /\ buf'[d] = buf[d]
      /\ at[c] \in {"start", "read"} /\ at'[c] = "read" /\ at' \in [Clis -> CachePlaces]
  BY <1>1 DEF BeginRead, ReadSome, CGoto, CacheTyped, CachePlaces
<1>3. buf' \in [Clis -> Seq(Cells)]
  <2>1. CASE BeginRead(c)
    BY <1>1, <2>1 DEF BeginRead, CacheTyped
  <2>2. CASE ReadSome(c)
    <3> DEFINE b == buf[c]
    <3>1. PICK n \in Len(b) + 1 .. Len(disk) :
             buf' = [buf EXCEPT ![c] = b \o SubSeq(disk, Len(b) + 1, n)]
      BY <2>2 DEF ReadSome
    <3>2. b \in Seq(Cells) /\ disk \in Seq(Cells)
      BY <1>1 DEF CacheTyped
    <3> HIDE DEF b
    <3>3. Len(b) \in Nat /\ Len(disk) \in Nat
      BY <3>2, LenProperties
    <3>4. \A i \in Len(b) + 1 .. n : disk[i] \in Cells
      BY <3>2, <3>3, ElementOfSeq
    <3>5. SubSeq(disk, Len(b) + 1, n) \in Seq(Cells)
      BY <3>3, <3>4, SubSeqProperties
    <3>6. b \o SubSeq(disk, Len(b) + 1, n) \in Seq(Cells)
      BY <3>2, <3>5, ConcatProperties
    <3> QED BY <1>1, <3>1, <3>6 DEF CacheTyped
  <2> QED BY <2>1, <2>2
<1>4. CacheTyped'
  <2>1. Cells' = Cells
    BY <1>2 DEF Cells, Head_, Tail_
  <2> QED BY <1>1, <1>2, <1>3, <2>1 DEF CacheTyped
<1>5. ASSUME NEW d \in Clis PROVE Listed(d)' /\ Judged(d)'
  <2>1. Listed(d) /\ Judged(d) /\ Pending' = Pending
    BY DEF CacheInv, Pending, NoGroup, NoJob
  <2> QED BY <1>2, <2>1 DEF Listed, Judged
<1>6. Clean'
  <2>1. \A d \in Clis : at'[d] = "write" <=> at[d] = "write"
    BY <1>2
  <2> QED BY <1>2, <2>1 DEF CacheInv, Clean, Decodes, Head_, Tail_
<1> QED BY <1>4, <1>5, <1>6 DEF CacheInv

LEMMA CacheNext_Inv == CacheInv /\ [CacheStep]_cachevars => CacheInv'
<1> SUFFICES ASSUME CacheInv, [CacheStep]_cachevars PROVE CacheInv'
  OBVIOUS
<1>1. disk \in Seq(Cells) /\ (disk # <<>> => there) /\ marred \in BOOLEAN
  BY DEF CacheInv, CacheTyped
<1>2. ASSUME NEW c \in Clis, SyncFails(c) \/ NoClient(c) \/ Decide(c) \/ ReadEnds(c)
      PROVE  CacheInv'
  <2>1. UNCHANGED <<groups, errand, disk, there, buf, heard, marred>> /\ at[c] # "write"
    BY <1>2 DEF SyncFails, NoClient, Decide, ReadEnds
  <2>2. PICK r : Ended(c, r) /\ r # Pending
    <3>1. Refused("failed") # Pending
      BY DEF Refused, Pending
    <3> QED BY <1>2, <3>1, UseEnds, Zenon DEF SyncFails, NoClient, Decide, ReadEnds
  <2> QED BY <1>1, <2>1, <2>2, EndKeepsCache
<1>3. CASE UNCHANGED cachevars
  <2>1. UNCHANGED <<groups, errand, at, disk, there, buf, result, heard, marred>>
    BY <1>3 DEF cachevars
  <2> QED BY <2>1 DEF CacheInv, CacheTyped, Listed, Judged, Clean, Cells, Decodes, Head_, Tail_,
                      Pending, NoGroup, NoJob
<1> QED BY <1>2, <1>3, FetchKeeps, OpenKeeps, WriteKeeps, ReadKeeps, Zenon DEF CacheStep

LEMMA CacheInvariant == CacheSpec => []CacheInv
BY CacheInit_Inv, CacheNext_Inv, PTL DEF CacheSpec

-----------------------------------------------------------------------------
(* The reader of a console *)

ConsoleNext == BuildPrints \/ BuildOver \/ LogStep \/ LogKilled
ConsoleSpec == ConsoleInit /\ [][ConsoleNext]_logvars

Breaks == BOOLEAN

\* The next request asks for what Jenkins has, or for less, but for error pages.
Within ==
    /\ console \in Seq(Breaks)
    /\ start \in Nat /\ pages \in Nat /\ start <= Len(console) + pages

ConsoleTyped ==
    /\ Within
    /\ spot \in {"start", "last", "whole", "chunk", "pause", "over", "killed"}
    /\ closed \in {"", "end", "data", "error"}

LEMMA ConsoleNext_Typed == ConsoleTyped /\ [ConsoleNext]_logvars => ConsoleTyped'
<1> SUFFICES ASSUME ConsoleTyped, [ConsoleNext]_logvars PROVE ConsoleTyped'
  OBVIOUS
<1>1. Within /\ Len(console) \in Nat
  BY LenProperties DEF ConsoleTyped, Within
<1>2. CASE BuildPrints
  <2>1. PICK break \in Breaks : console' = Append(console, break)
    BY <1>2, Zenon DEF BuildPrints, Breaks
  <2>2. console' \in Seq(Breaks) /\ Len(console') = Len(console) + 1
    BY <1>1, <2>1, AppendProperties DEF Within
  <2>3. UNCHANGED <<spot, start, closed, pages>>
    BY <1>2 DEF BuildPrints
  <2>4. Within'
    BY <1>1, <2>2, <2>3 DEF Within
  <2> QED BY <2>3, <2>4 DEF ConsoleTyped
<1>3. CASE BuildOver
  BY <1>1, <1>3 DEF BuildOver, ConsoleTyped, Within
<1>4. CASE LogRefused
  BY <1>1, <1>4 DEF LogRefused, LogEnds, LogGoto, jenkinslog, ConsoleTyped, Within
<1>5. CASE LogTarget \/ LastBuild \/ LogPause \/ LogKilled
  BY <1>1, <1>5 DEF LogTarget, LastBuild, LogPause, LogKilled, LogGoto, jenkinslog, ConsoleTyped,
                    Within
<1>6. CASE Whole
  BY <1>1, <1>6 DEF Whole, LogEnds, LogGoto, jenkinslog, ConsoleTyped, Within
<1>7. ASSUME NEW more, OnOrEnd(more), Within'
      PROVE  ConsoleTyped'
  BY <1>7 DEF OnOrEnd, LogEnds, LogGoto, ConsoleTyped
<1>8. CASE Follow
  <2>1. start' = Len(console) /\ UNCHANGED <<console, pages>>
    BY <1>8 DEF Follow, jenkinslog
  <2>2. Within'
    BY <1>1, <2>1 DEF Within
  <2> QED BY <1>7, <1>8, <2>2 DEF Follow
<1>9. CASE FollowCut
  <2>1. start' \in start .. Len(console) - 1 /\ UNCHANGED <<console, pages>>
    BY <1>9 DEF FollowCut, jenkinslog
  <2>2. Within'
    BY <1>1, <2>1 DEF Within
  <2> QED BY <1>7, <1>9, <2>2 DEF FollowCut
<1>10. CASE FollowPage
  <2>1. start' = start + 1 /\ pages' = pages + 1 /\ UNCHANGED console
    BY <1>10 DEF FollowPage, jenkinslog
  <2>2. Within'
    BY <1>1, <2>1 DEF Within
  <2> QED BY <1>7, <1>10, <2>2 DEF FollowPage
<1>11. CASE UNCHANGED logvars
  BY <1>1, <1>11 DEF logvars, ConsoleTyped, Within
<1> QED BY <1>2, <1>3, <1>4, <1>5, <1>6, <1>8, <1>9, <1>10, <1>11, Zenon DEF ConsoleNext, LogStep

LEMMA ConsoleTypes == ConsoleSpec => []ConsoleTyped
<1>1. ConsoleInit => ConsoleTyped
  <2> SUFFICES ASSUME ConsoleInit PROVE ConsoleTyped
    OBVIOUS
  <2>1. console = <<>> /\ start = 0 /\ pages = 0 /\ spot = "start" /\ closed = ""
    BY DEF ConsoleInit
  <2>2. Within
    <3>1. <<>> \in Seq(Breaks) /\ Len(<<>>) = 0
      BY EmptySeq
    <3>2. console \in Seq(Breaks) /\ Len(console) = 0
      BY <2>1, <3>1, Zenon
    <3>3. start = 0 /\ pages = 0
      BY <2>1
    <3> QED BY <3>2, <3>3 DEF Within
  <2> QED BY <2>1, <2>2 DEF ConsoleTyped
<1> QED BY <1>1, ConsoleNext_Typed, PTL DEF ConsoleSpec

LEMMA JcliParts == JcliSpec => CacheSpec /\ ConsoleSpec
<1>1. JcliInit => CacheInit /\ ConsoleInit
  BY Zenon DEF JcliInit
<1>2. [JcliNext]_jclivars => [CacheStep]_cachevars
  BY Zenon DEF JcliNext, Builds, Caches, Logs, jclivars
<1>3. [JcliNext]_jclivars => [ConsoleNext]_logvars
  BY Zenon DEF JcliNext, Builds, Caches, Logs, jclivars, ConsoleNext
<1> QED BY <1>1, <1>2, <1>3, PTL DEF JcliSpec, CacheSpec, ConsoleSpec

-----------------------------------------------------------------------------
(* From a service to a job and back *)

\* A set of naturals has a least member, so that what is to be shown of every
\* natural can be shown by way of the least one it does not hold of.
LEMMA HasLeast ==
  ASSUME NEW S, S \subseteq Nat, S # {}
  PROVE  \E x \in S : \A y \in S : x <= y
<1> DEFINE R == {ss \in Nat \X Nat : ss[1] < ss[2]}
<1>1. IsWellFoundedOn(R, Nat)
  BY NatLessThanWellFounded, Zenon DEF OpToRel
<1> HIDE DEF R
<1>2. PICK x \in S : \A y \in S : ~ (<<y, x>> \in R)
  BY <1>1, WFMin
<1>3. ASSUME NEW y \in S PROVE x <= y
  <2>1. x \in Nat /\ y \in Nat /\ ~ (<<y, x>> \in R)
    BY <1>2
  <2>2. y < x => <<y, x>> \in R
    BY <2>1 DEF R
  <2> QED BY <2>1, <2>2
<1> QED BY <1>3

\* The pieces up to the i-th, one after the other.
Flattens(f, q, n) == f = [i \in 1 .. n |-> IF i = 1 THEN q[i] ELSE f[i - 1] \o q[i]]

LEMMA CanFlatten == \A n \in Nat : \A q : \E f : Flattens(f, q, n)
<1> DEFINE Bad == {n \in Nat : \E q : ~\E f : Flattens(f, q, n)}
<1> SUFFICES ASSUME Bad # {} PROVE FALSE
  OBVIOUS
<1>1. PICK n \in Bad : \A m \in Bad : n <= m
  BY HasLeast
<1>2. PICK q : ~\E f : Flattens(f, q, n)
  OBVIOUS
<1>3. n \in Nat
  OBVIOUS
<1>4. n # 0
  <2>1. ASSUME n = 0 PROVE Flattens(<<>>, q, n)
    BY <2>1 DEF Flattens
  <2> QED BY <1>2, <2>1
<1>5. n - 1 \in Nat /\ n - 1 \notin Bad
  <2>1. n - 1 \in Nat /\ ~(n <= n - 1)
    BY <1>3, <1>4
  <2> HIDE DEF Bad
  <2> QED BY <1>1, <2>1
<1>6. PICK f : Flattens(f, q, n - 1)
  BY <1>5
<1> DEFINE piece(i) == IF i = 1 THEN q[i] ELSE f[i - 1] \o q[i]
           g == [i \in 1 .. n |-> piece(i)]
<1>7. ASSUME NEW i \in 1 .. n PROVE g[i] = IF i = 1 THEN q[i] ELSE g[i - 1] \o q[i]
  <2>1. CASE i = 1
    BY <2>1
  <2>2. CASE i # 1
    <3>1. i - 1 \in 1 .. n - 1 /\ i - 1 \in 1 .. n
      BY <1>3, <2>2
    <3>2. f[i - 1] = piece(i - 1)
      BY <1>6, <3>1 DEF Flattens
    <3>3. g[i - 1] = piece(i - 1)
      BY <3>1
    <3> QED BY <2>2, <3>2, <3>3
  <2> QED BY <2>1, <2>2
<1>8. Flattens(g, q, n)
  <2>1. g = [i \in 1 .. n |-> g[i]]
    OBVIOUS
  <2> HIDE DEF g
  <2> QED BY <1>7, <2>1 DEF Flattens
<1> QED BY <1>2, <1>8

LEMMA FlattenIs ==
  ASSUME NEW L, NEW q \in Seq(Seq(L)), Len(q) > 0
  PROVE  \E f : /\ FlattenSeq(q) = f[Len(q)]
                /\ \A i \in 1 .. Len(q) :
                      f[i] \in Seq(L) /\ f[i] = IF i = 1 THEN q[i] ELSE f[i - 1] \o q[i]
<1> DEFINE n == Len(q)
           f == CHOOSE f : Flattens(f, q, n)
<1>1. n \in Nat
  BY LenProperties
<1>2. Flattens(f, q, n)
  BY <1>1, CanFlatten, Zenon
<1>3. FlattenSeq(q) = f[n]
  <2>1. n # 0
    BY <1>1
  <2> QED BY <2>1 DEF FlattenSeq, Flattens
<1> HIDE DEF f
<1>4. \A i \in 1 .. n : f[i] = IF i = 1 THEN q[i] ELSE f[i - 1] \o q[i]
  BY <1>2, Zenon DEF Flattens
<1> DEFINE Bad == {i \in 1 .. n : f[i] \notin Seq(L)}
<1>5. Bad = {}
  <2> SUFFICES ASSUME Bad # {} PROVE FALSE
    OBVIOUS
  <2>1. Bad \subseteq Nat
    OBVIOUS
  <2>2. PICK i \in Bad : \A j \in Bad : i <= j
    <3> HIDE DEF Bad
    <3> QED BY <2>1, HasLeast
  <2>3. i \in 1 .. n /\ q[i] \in Seq(L)
    BY ElementOfSeq
  <2>4. CASE i = 1
    BY <1>4, <2>3, <2>4
  <2>5. CASE i # 1
    <3>1. i - 1 \in 1 .. n /\ ~(i <= i - 1)
      BY <1>1, <2>3, <2>5
    <3>2. f[i - 1] \in Seq(L)
      BY <2>2, <3>1
    <3>3. f[i] \in Seq(L)
      BY <1>4, <2>3, <2>5, <3>2, ConcatProperties
    <3> QED BY <3>3
  <2> QED BY <2>4, <2>5
<1> QED BY <1>3, <1>4, <1>5

LEMMA JoinedNext ==
  ASSUME NEW L, NEW t \in Seq(L), NEW x \in Seq(L), NEW m \in 1 .. Len(t), NEW n \in m .. Len(t)
  PROVE  (x \o SubSeq(t, m, n - 1)) \o <<t[n]>> = x \o SubSeq(t, m, n)
<1> DEFINE y == SubSeq(t, m, n - 1)
           z == <<t[n]>>
<1>1. Len(t) \in Nat
  BY LenProperties
<1>2. \A i \in m .. n - 1 : t[i] \in L
  <2>1. ASSUME NEW i \in m .. n - 1 PROVE i \in 1 .. Len(t)
    BY <1>1
  <2> QED BY <2>1, ElementOfSeq
<1>3. y \in Seq(L)
  BY <1>1, <1>2, SubSeqProperties
<1>4. z \in Seq(L)
  <2>1. n \in 1 .. Len(t)
    BY <1>1
  <2> QED BY <2>1, ElementOfSeq
<1>5. SubSeq(t, m, n) = y \o z
  BY SubSeqRecursiveSecond
<1> HIDE DEF y, z
<1>6. (x \o y) \o z = x \o (y \o z)
  BY <1>3, <1>4, SMT
<1> QED BY <1>5, <1>6 DEF y, z

\* A template with one placeholder puts the service between its two halves.
LEMMA OneHole ==
  ASSUME NEW L, NEW t \in Seq(L), NEW s \in Seq(L), NEW h \in 1 .. Len(t),
         \A i \in 1 .. Len(t) : t[i] = PH <=> i = h
  PROVE  Subst(t, s) = (SubSeq(t, 1, h - 1) \o s) \o SubSeq(t, h + 1, Len(t))
<1> DEFINE n == Len(t)
           q == [i \in DOMAIN t |-> IF t[i] = PH THEN s ELSE <<t[i]>>]
           front == SubSeq(t, 1, h - 1) \o s
           Want(i) == IF i < h THEN SubSeq(t, 1, i) ELSE front \o SubSeq(t, h + 1, i)
<1>1. n \in Nat /\ h \in 1 .. n /\ DOMAIN t = 1 .. n
  BY LenProperties
<1>2. /\ q \in Seq(Seq(L)) /\ Len(q) = n
      /\ \A i \in 1 .. n : q[i] = IF i = h THEN s ELSE <<t[i]>>
  <2>1. \A i \in 1 .. n : t[i] \in L /\ <<t[i]>> \in Seq(L)
    BY ElementOfSeq
  <2>2. q = [i \in 1 .. n |-> IF t[i] = PH THEN s ELSE <<t[i]>>]
    BY <1>1
  <2>3. q \in [1 .. n -> Seq(L)]
    BY <2>1, <2>2
  <2> QED BY <1>1, <2>2, <2>3
<1> HIDE DEF q
<1>3. PICK f : /\ FlattenSeq(q) = f[n]
               /\ \A i \in 1 .. n :
                     f[i] \in Seq(L) /\ f[i] = IF i = 1 THEN q[i] ELSE f[i - 1] \o q[i]
  BY <1>1, <1>2, FlattenIs
<1> HIDE DEF n
<1>4. /\ \A i, j \in Int : 1 <= i /\ j <= n => SubSeq(t, i, j) \in Seq(L)
      /\ front \in Seq(L)
  <2>1. ASSUME NEW i \in Int, NEW j \in Int, 1 <= i, j <= n PROVE SubSeq(t, i, j) \in Seq(L)
    <3>1. \A k \in i .. j : k \in 1 .. n
      BY <1>1, <2>1
    <3>2. \A k \in i .. j : t[k] \in L
      BY <3>1, ElementOfSeq DEF n
    <3> QED BY <3>2, SubSeqProperties
  <2>2. SubSeq(t, 1, h - 1) \in Seq(L)
    BY <1>1, <2>1
  <2> QED BY <2>1, <2>2, ConcatProperties
<1>w. \A i \in 1 .. n :
        /\ i < h => Want(i) = SubSeq(t, 1, i)
        /\ ~(i < h) => Want(i) = front \o SubSeq(t, h + 1, i)
  OBVIOUS
<1> HIDE DEF Want, front
<1> DEFINE Bad == {i \in 1 .. n : f[i] # Want(i)}
<1>5. Bad = {}
  <2> SUFFICES ASSUME Bad # {} PROVE FALSE
    OBVIOUS
  <2>1. PICK i \in Bad : \A j \in Bad : i <= j
    <3>1. Bad \subseteq Nat
      OBVIOUS
    <3> HIDE DEF Bad
    <3> QED BY <3>1, HasLeast
  <2>2. i \in 1 .. n /\ f[i] # Want(i) /\ t[i] \in L
    BY ElementOfSeq DEF n
  <2>3. i # 1 => i - 1 \in 1 .. n /\ f[i - 1] = Want(i - 1)
    <3>1. i # 1 => i - 1 \in 1 .. n /\ ~(i <= i - 1)
      BY <1>1, <2>2
    <3> QED BY <2>1, <3>1
  <2>4. CASE i < h
    <3>1. q[i] = <<t[i]>>
      BY <1>1, <1>2, <2>2, <2>4
    <3>2. SubSeq(t, 1, i) = SubSeq(t, 1, i - 1) \o <<t[i]>>
      <4>1. 1 \in 1 .. n /\ i \in 1 .. n
        BY <1>1, <2>2
      <4> QED BY <4>1, SubSeqRecursiveSecond DEF n
    <3>3. CASE i = 1
      <4>0. i - 1 \in Int /\ i - 1 < 1
        BY <3>3
      <4>1. SubSeq(t, 1, i - 1) = <<>> /\ <<t[i]>> \in Seq(L)
        BY <2>2, <4>0, SubSeqEmpty
      <4>2. SubSeq(t, 1, i) = <<t[i]>>
        BY <3>2, <3>3, <4>1, ConcatEmptySeq
      <4>3. f[i] = q[i]
        BY <1>3, <2>2, <3>3
      <4> QED BY <1>w, <2>2, <2>4, <3>1, <4>2, <4>3
    <3>4. CASE i # 1
      <4>0. i - 1 < h
        BY <1>1, <2>2, <2>4
      <4>1. f[i - 1] = SubSeq(t, 1, i - 1)
        BY <1>w, <2>3, <3>4, <4>0
      <4>2. f[i] = f[i - 1] \o q[i]
        BY <1>3, <2>2, <3>4
      <4> QED BY <1>w, <2>2, <2>4, <3>1, <3>2, <4>1, <4>2
    <3> QED BY <3>3, <3>4
  <2>5. CASE i = h
    <3>1. q[i] = s
      BY <1>2, <2>2, <2>5
    <3>2. SubSeq(t, h + 1, i) = <<>>
      BY <1>1, <2>5, SubSeqEmpty
    <3>3. Want(i) = front
      <4>1. front \o <<>> = front
        BY <1>4, ConcatEmptySeq
      <4>2. ~(i < h)
        BY <1>1, <2>5
      <4> QED BY <1>w, <2>2, <3>2, <4>1, <4>2
    <3>4. CASE i = 1
      <4>1. SubSeq(t, 1, h - 1) = <<>>
        BY <1>1, <2>5, <3>4, SubSeqEmpty
      <4>2. front = s
        BY <4>1, ConcatEmptySeq DEF front
      <4>3. f[i] = q[i]
        BY <1>3, <2>2, <3>4
      <4> QED BY <2>2, <3>1, <3>3, <4>2, <4>3
    <3>5. CASE i # 1
      <4>0. i - 1 < h /\ i - 1 = h - 1
        BY <1>1, <2>2, <2>5
      <4>1. f[i - 1] = SubSeq(t, 1, h - 1)
        BY <1>w, <2>3, <3>5, <4>0
      <4>2. f[i] = f[i - 1] \o q[i]
        BY <1>3, <2>2, <3>5
      <4> QED BY <2>2, <3>1, <3>3, <4>1, <4>2 DEF front
    <3> QED BY <3>4, <3>5
  <2>6. CASE i > h
    <3>1. q[i] = <<t[i]>> /\ i # 1 /\ ~(i < h) /\ ~(i - 1 < h) /\ h + 1 \in 1 .. n
          /\ i \in h + 1 .. n
      BY <1>1, <1>2, <2>2, <2>6
    <3>2. f[i - 1] = front \o SubSeq(t, h + 1, i - 1)
      BY <1>w, <2>3, <3>1
    <3>3. f[i] = (front \o SubSeq(t, h + 1, i - 1)) \o <<t[i]>>
      BY <1>3, <2>2, <3>1, <3>2
    <3>4. (front \o SubSeq(t, h + 1, i - 1)) \o <<t[i]>> = front \o SubSeq(t, h + 1, i)
      BY <1>4, <3>1, JoinedNext DEF n
    <3> QED BY <1>w, <2>2, <3>1, <3>3, <3>4
  <2> QED BY <1>1, <2>2, <2>4, <2>5, <2>6
<1>6. f[n] = Want(n)
  BY <1>1, <1>5
<1>7. Want(n) = front \o SubSeq(t, h + 1, n)
  <2>1. n \in 1 .. n /\ ~(n < h)
    BY <1>1
  <2> QED BY <1>w, <2>1
<1>8. Subst(t, s) = FlattenSeq(q)
  BY Zenon DEF Subst, q
<1> QED BY <1>3, <1>6, <1>7, <1>8 DEF n, front

\* What three pieces give, place by place.
LEMMA Pieces ==
  ASSUME NEW L, NEW a \in Seq(L), NEW s \in Seq(L), NEW b \in Seq(L),
         NEW front, front = a \o s, NEW all, all = front \o b
  PROVE  /\ all \in Seq(L) /\ Len(all) = Len(a) + Len(s) + Len(b)
         /\ \A i \in 1 .. Len(a) : all[i] = a[i]
         /\ \A i \in 1 .. Len(s) : all[Len(a) + i] = s[i]
         /\ \A i \in 1 .. Len(b) : all[Len(a) + Len(s) + i] = b[i]
<1> DEFINE j == Len(a)
           k == Len(s)
           l == Len(b)
<1>1. j \in Nat /\ k \in Nat /\ l \in Nat
  BY LenProperties
<1>2. /\ front \in Seq(L) /\ Len(front) = j + k
      /\ \A i \in 1 .. j + k : front[i] = IF i <= j THEN a[i] ELSE s[i - j]
  BY ConcatProperties
<1>3. /\ all \in Seq(L) /\ Len(all) = j + k + l
      /\ \A i \in 1 .. j + k + l : all[i] = IF i <= j + k THEN front[i] ELSE b[i - (j + k)]
  <2>1. /\ all \in Seq(L) /\ Len(all) = Len(front) + l
        /\ \A i \in 1 .. Len(front) + l : all[i] = IF i <= Len(front) THEN front[i] ELSE b[i - Len(front)]
    <3>1. front \in Seq(L)
      BY <1>2
    <3> QED BY <3>1, ConcatProperties
  <2> QED BY <1>2, <2>1
<1> HIDE DEF j, k, l
<1>4. ASSUME NEW i \in 1 .. j PROVE all[i] = a[i]
  <2>1. i \in 1 .. j + k /\ i \in 1 .. j + k + l /\ i <= j /\ i <= j + k
    BY <1>1
  <2> QED BY <1>2, <1>3, <2>1
<1>5. ASSUME NEW i \in 1 .. k PROVE all[j + i] = s[i]
  <2>1. /\ j + i \in 1 .. j + k /\ j + i \in 1 .. j + k + l /\ ~(j + i <= j)
        /\ j + i <= j + k /\ (j + i) - j = i
    BY <1>1
  <2> QED BY <1>2, <1>3, <2>1
<1>6. ASSUME NEW i \in 1 .. l PROVE all[j + k + i] = b[i]
  <2>1. /\ j + k + i \in 1 .. j + k + l /\ ~(j + k + i <= j + k)
        /\ (j + k + i) - (j + k) = i
    BY <1>1
  <2> QED BY <1>3, <2>1
<1> QED BY <1>3, <1>4, <1>5, <1>6 DEF j, k, l

LEMMA PrefixIs ==
  ASSUME NEW L, NEW a \in Seq(L), NEW job \in Seq(L)
  PROVE  IsPrefix(a, job) <=> Len(a) <= Len(job) /\ \A i \in 1 .. Len(a) : a[i] = job[i]
<1>1. Len(a) \in Nat /\ Len(job) \in Nat
  BY LenProperties
<1>2. SubSeq(a, 1, Len(a)) = a
  BY SubSeqFull
<1> SUFFICES ASSUME Len(a) <= Len(job)
             PROVE  a = SubSeq(job, 1, Len(a)) <=> \A i \in 1 .. Len(a) : a[i] = job[i]
  BY <1>1, <1>2 DEF IsPrefix
<1> DEFINE front == SubSeq(job, 1, Len(a))
<1>3. \A i \in 1 .. Len(a) : job[i] \in L
  BY <1>1, ElementOfSeq
<1>4. /\ front \in Seq(L) /\ Len(front) = Len(a)
      /\ \A i \in 1 .. Len(a) : front[i] = job[i]
  <2>1. /\ front \in Seq(L) /\ Len(front) = IF 1 <= Len(a) THEN Len(a) - 1 + 1 ELSE 0
        /\ \A i \in 1 .. Len(a) - 1 + 1 : front[i] = job[1 + i - 1]
    BY <1>1, <1>3, SubSeqProperties
  <2> HIDE DEF front
  <2>2. Len(front) = Len(a)
    BY <1>1, <2>1
  <2>3. ASSUME NEW i \in 1 .. Len(a) PROVE front[i] = job[i]
    <3>1. i \in 1 .. Len(a) - 1 + 1 /\ 1 + i - 1 = i
      BY <1>1
    <3> QED BY <2>1, <3>1
  <2> QED BY <2>1, <2>2, <2>3
<1> HIDE DEF front
<1>5. ASSUME \A i \in 1 .. Len(a) : a[i] = job[i] PROVE a = front
  BY <1>4, <1>5, SeqEqual
<1> QED BY <1>4, <1>5 DEF front

LEMMA SuffixIs ==
  ASSUME NEW L, NEW b \in Seq(L), NEW job \in Seq(L)
  PROVE  IsSuffix(b, job) <=>
           /\ Len(b) <= Len(job)
           /\ \A i \in 1 .. Len(b) : b[i] = job[Len(job) - Len(b) + i]
<1> DEFINE m == Len(b)
           n == Len(job)
<1>1. m \in Nat /\ n \in Nat
  BY LenProperties
<1>2. /\ Reverse(b) \in Seq(L) /\ Len(Reverse(b)) = m
      /\ Reverse(job) \in Seq(L) /\ Len(Reverse(job)) = n
      /\ \A i \in 1 .. m : Reverse(b)[i] = b[m - i + 1]
      /\ \A i \in 1 .. n : Reverse(job)[i] = job[n - i + 1]
  <2>1. ASSUME NEW q \in Seq(L)
        PROVE  /\ Reverse(q) \in Seq(L) /\ Len(Reverse(q)) = Len(q)
               /\ \A i \in 1 .. Len(q) : Reverse(q)[i] = q[Len(q) - i + 1]
    <3>1. Len(q) \in Nat
      BY LenProperties
    <3>2. \A i \in 1 .. Len(q) : q[(Len(q) - i) + 1] \in L
      <4>1. ASSUME NEW i \in 1 .. Len(q) PROVE (Len(q) - i) + 1 \in 1 .. Len(q)
        BY <3>1
      <4> QED BY <4>1, ElementOfSeq
    <3> QED BY <3>1, <3>2 DEF Reverse
  <2> QED BY <2>1
<1>3. IsSuffix(b, job) <=>
        m <= n /\ \A i \in 1 .. m : Reverse(b)[i] = Reverse(job)[i]
  <2>1. IsPrefix(Reverse(b), Reverse(job)) <=>
          Len(Reverse(b)) <= Len(Reverse(job))
          /\ \A i \in 1 .. Len(Reverse(b)) : Reverse(b)[i] = Reverse(job)[i]
    BY <1>2, PrefixIs
  <2> QED BY <1>2, <2>1 DEF IsSuffix
<1> HIDE DEF m, n
<1>4. ASSUME m <= n, \A i \in 1 .. m : Reverse(b)[i] = Reverse(job)[i], NEW i \in 1 .. m
      PROVE  b[i] = job[n - m + i]
  <2>1. m - i + 1 \in 1 .. m /\ m - i + 1 \in 1 .. n
    BY <1>1, <1>4
  <2>2. m - (m - i + 1) + 1 = i /\ n - (m - i + 1) + 1 = n - m + i
    BY <1>1
  <2>3. Reverse(b)[m - i + 1] = b[i] /\ Reverse(job)[m - i + 1] = job[n - m + i]
    BY <1>2, <2>1, <2>2
  <2> QED BY <1>4, <2>1, <2>3
<1>5. ASSUME m <= n, \A i \in 1 .. m : b[i] = job[n - m + i], NEW i \in 1 .. m
      PROVE  Reverse(b)[i] = Reverse(job)[i]
  <2>1. m - i + 1 \in 1 .. m /\ i \in 1 .. n
    BY <1>1, <1>5
  <2>2. n - m + (m - i + 1) = n - i + 1
    BY <1>1
  <2>3. b[m - i + 1] = job[n - i + 1]
    BY <1>5, <2>1, <2>2
  <2> QED BY <1>2, <2>1, <2>3
<1> QED BY <1>3, <1>4, <1>5 DEF m, n

\* A template that can be turned round: one placeholder, and something beside it.
Turns(t) == Cardinality({i \in DOMAIN t : t[i] = PH}) = 1 /\ Len(t) > 1

LEMMA TheHole ==
  ASSUME NEW L, NEW t \in Seq(L), Turns(t)
  PROVE  \E h \in 1 .. Len(t) : {i \in DOMAIN t : t[i] = PH} = {h}
<1> DEFINE holes == {i \in DOMAIN t : t[i] = PH}
<1>1. Len(t) \in Nat /\ DOMAIN t = 1 .. Len(t)
  BY LenProperties
<1>2. IsFiniteSet(1 .. Len(t)) /\ holes \in SUBSET (1 .. Len(t))
  BY <1>1, FS_Interval
<1>3. IsFiniteSet(holes)
  <2> HIDE DEF holes
  <2> QED BY <1>2, FS_Subset
<1>4. PICK h : holes = {h}
  <2>1. Cardinality(holes) = 1
    BY DEF Turns
  <2> HIDE DEF holes
  <2> QED BY <1>3, <2>1, FS_Singleton
<1> QED BY <1>2, <1>4

LEMMA MidIs ==
  ASSUME NEW L, NEW job \in Seq(L), NEW j \in Nat, NEW l \in Nat, j + l < Len(job),
         NEW mid, mid = SubSeq(job, j + 1, Len(job) - l)
  PROVE  /\ mid \in Seq(L) /\ Len(mid) = Len(job) - l - j
         /\ \A i \in 1 .. Len(job) - l - j : mid[i] = job[j + i]
<1> DEFINE p == j + 1
           n == Len(job)
           m == n - l
<1>1. n \in Nat /\ p \in Int /\ m \in Int /\ p <= m /\ m - p + 1 = n - l - j
  BY LenProperties
<1>2. \A i \in p .. m : i \in 1 .. n
  BY <1>1
<1>3. \A i \in p .. m : job[i] \in L
  BY <1>2, ElementOfSeq
<1>4. \A i \in 1 .. n - l - j : p + i - 1 = j + i
  OBVIOUS
<1>0. mid = SubSeq(job, p, m)
  OBVIOUS
<1> HIDE DEF p, m
<1>5. /\ mid \in Seq(L) /\ Len(mid) = IF p <= m THEN m - p + 1 ELSE 0
      /\ \A i \in 1 .. m - p + 1 : mid[i] = job[p + i - 1]
  <2> DEFINE cut == SubSeq(job, p, m)
  <2>1. /\ cut \in Seq(L) /\ Len(cut) = IF p <= m THEN m - p + 1 ELSE 0
        /\ \A i \in 1 .. m - p + 1 : cut[i] = job[p + i - 1]
    BY <1>1, <1>3, SubSeqProperties
  <2> HIDE DEF cut
  <2>2. mid = cut
    BY <1>0 DEF cut
  <2> QED BY <2>1, <2>2
<1> HIDE DEF n
<1>6. Len(mid) = n - l - j /\ \A i \in 1 .. n - l - j : mid[i] = job[j + i]
  BY <1>1, <1>4, <1>5
<1> QED BY <1>5, <1>6 DEF n

\* What fits around a service gives it back.
LEMMA CutOut ==
  ASSUME NEW L, NEW a \in Seq(L), NEW b \in Seq(L), NEW job \in Seq(L), NEW s \in Seq(L),
         Len(a) + Len(b) < Len(job), IsPrefix(a, job), IsSuffix(b, job),
         Len(s) = Len(job) - Len(b) - Len(a),
         \A i \in 1 .. Len(s) : s[i] = job[Len(a) + i]
  PROVE  s # <<>> /\ (a \o s) \o b = job
<1> DEFINE j == Len(a)
           l == Len(b)
           n == Len(job)
           k == Len(s)
           front == a \o s
           all == front \o b
<1>1. j \in Nat /\ l \in Nat /\ n \in Nat /\ k \in Nat /\ j + l < n /\ k = n - l - j
  BY LenProperties
<1>2. /\ \A i \in 1 .. j : a[i] = job[i]
      /\ \A i \in 1 .. l : b[i] = job[n - l + i]
  BY PrefixIs, SuffixIs
<1>5. s # <<>>
  <2>1. k # 0
    <3> HIDE DEF j, l, n, k
    <3> QED BY <1>1
  <2>2. Len(<<>>) = 0
    OBVIOUS
  <2> QED BY <2>1, <2>2, Zenon
<1>6. /\ all \in Seq(L) /\ Len(all) = j + k + l
      /\ \A i \in 1 .. j : all[i] = a[i]
      /\ \A i \in 1 .. k : all[j + i] = s[i]
      /\ \A i \in 1 .. l : all[j + k + i] = b[i]
  <2>1. front = a \o s /\ all = front \o b
    OBVIOUS
  <2> HIDE DEF all, front
  <2> QED BY <2>1, Pieces
<1>s. \A i \in 1 .. k : s[i] = job[j + i]
  OBVIOUS
<1> HIDE DEF all, j, l, n, k
<1>7. Len(all) = n
  BY <1>1, <1>6
<1>8. ASSUME NEW i \in 1 .. n PROVE all[i] = job[i]
  <2>1. CASE i <= j
    <3>1. i \in 1 .. j
      BY <1>1, <2>1
    <3> QED BY <1>2, <1>6, <3>1
  <2>2. CASE i > j /\ i <= j + k
    <3>1. i - j \in 1 .. k /\ j + (i - j) = i
      BY <1>1, <2>2
    <3>2. all[j + (i - j)] = job[j + (i - j)]
      BY <1>s, <1>6, <3>1
    <3> QED BY <3>1, <3>2
  <2>3. CASE i > j + k
    <3> DEFINE e == i - (j + k)
    <3>1. e \in 1 .. l /\ j + k + e = i /\ n - l + e = i
      BY <1>1, <2>3
    <3> HIDE DEF e
    <3>2. all[j + k + e] = job[n - l + e]
      BY <1>2, <1>6, <3>1
    <3> QED BY <3>1, <3>2
  <2>4. j \in Nat /\ k \in Int /\ i \in Int
    BY <1>1
  <2> QED BY <2>1, <2>2, <2>3, <2>4
<1>9. all = job
  BY <1>6, <1>7, <1>8, SeqEqual DEF n
<1> QED BY <1>5, <1>9 DEF all, front

LEMMA PutIn ==
  ASSUME NEW L, NEW a \in Seq(L), NEW b \in Seq(L), NEW s \in Seq(L), s # <<>>,
         NEW front, front = a \o s, NEW job, job = front \o b
  PROVE  /\ Len(a) + Len(b) < Len(job) /\ IsPrefix(a, job) /\ IsSuffix(b, job)
         /\ job \in Seq(L) /\ s = SubSeq(job, Len(a) + 1, Len(job) - Len(b))
<1> DEFINE j == Len(a)
           l == Len(b)
           n == Len(job)
           k == Len(s)
<1>1. j \in Nat /\ l \in Nat /\ k \in Nat /\ k # 0
  BY LenProperties, EmptySeq
<1>2. /\ job \in Seq(L) /\ n = j + k + l
      /\ \A i \in 1 .. j : job[i] = a[i]
      /\ \A i \in 1 .. k : job[j + i] = s[i]
      /\ \A i \in 1 .. l : job[j + k + i] = b[i]
  BY Pieces
<1>3. j + l < n /\ n \in Nat /\ j <= n /\ l <= n /\ n - l - j = k
  <2> HIDE DEF j, k, l, n
  <2> QED BY <1>1, <1>2
<1>4. IsPrefix(a, job)
  BY <1>2, <1>3, PrefixIs
<1>5. IsSuffix(b, job)
  <2>1. ASSUME NEW i \in 1 .. l PROVE b[i] = job[n - l + i]
    <3>1. n - l + i = j + k + i
      <4> HIDE DEF j, k, l, n
      <4> QED BY <1>1, <1>2
    <3> QED BY <1>2, <3>1
  <2> QED BY <1>2, <1>3, <2>1, SuffixIs
<1>6. s = SubSeq(job, Len(a) + 1, Len(job) - Len(b))
  <2>0. PICK mid : mid = SubSeq(job, j + 1, n - l)
    OBVIOUS
  <2>1. /\ mid \in Seq(L) /\ Len(mid) = n - l - j
        /\ \A i \in 1 .. n - l - j : mid[i] = job[j + i]
    BY <1>1, <1>2, <1>3, <2>0, MidIs
  <2>2. mid = s
    <3> DEFINE q == n - l - j
    <3>1. /\ q = k /\ Len(mid) = q
          /\ \A i \in 1 .. q : mid[i] = job[j + i]
          /\ \A i \in 1 .. k : job[j + i] = s[i]
      BY <1>2, <1>3, <2>1
    <3> HIDE DEF q, j, k, l, n
    <3>2. Len(mid) = k /\ \A i \in 1 .. k : mid[i] = s[i]
      BY <3>1
    <3>3. Len(mid) = Len(s) /\ \A i \in 1 .. Len(s) : mid[i] = s[i]
      BY <3>2 DEF k
    <3> QED BY <2>1, <3>3, SeqEqual
  <2> QED BY <2>0, <2>2
<1> QED BY <1>2, <1>3, <1>4, <1>5, <1>6

\* A template turned round gives the services that it makes into the job.
LEMMA Turned ==
  ASSUME NEW L, NEW t \in Seq(L), NEW s \in Seq(L), NEW job \in Seq(L)
  PROVE  s \in ReverseTemplate(t, job) <=> Turns(t) /\ s # <<>> /\ Subst(t, s) = job
<1>1. CASE ~Turns(t)
  BY <1>1 DEF ReverseTemplate, Turns
<1>2. CASE Turns(t)
  <2>1. PICK h \in 1 .. Len(t) : {i \in DOMAIN t : t[i] = PH} = {h}
    BY <1>2, TheHole
  <2> DEFINE n == Len(t)
             m == Len(job)
             a == SubSeq(t, 1, h - 1)
             b == SubSeq(t, h + 1, n)
             Inverts == n - 1 < m /\ IsPrefix(a, job) /\ IsSuffix(b, job)
             mid == SubSeq(job, h, m - (n - h))
  <2>2. n \in Nat /\ m \in Nat /\ h \in 1 .. n /\ DOMAIN t = 1 .. n
    BY <2>1, LenProperties
  <2>3. \A i \in 1 .. n : t[i] = PH <=> i = h
    BY <2>1, <2>2
  <2>4. a \in Seq(L) /\ Len(a) = h - 1 /\ b \in Seq(L) /\ Len(b) = n - h
    <3>1. \A i \in 1 .. n : t[i] \in L
      BY ElementOfSeq
    <3>2. (\A i \in 1 .. h - 1 : t[i] \in L) /\ (\A i \in h + 1 .. n : t[i] \in L)
      BY <2>2, <3>1
    <3>3. a \in Seq(L) /\ Len(a) = IF 1 <= h - 1 THEN (h - 1) - 1 + 1 ELSE 0
      BY <2>2, <3>2, SubSeqProperties
    <3>4. b \in Seq(L) /\ Len(b) = IF h + 1 <= n THEN n - (h + 1) + 1 ELSE 0
      BY <2>2, <3>2, SubSeqProperties
    <3> HIDE DEF a, b, n
    <3> QED BY <2>2, <3>3, <3>4
  <2>5. ReverseTemplate(t, job) = IF Inverts THEN {mid} ELSE {}
    <3> DEFINE holes == {i \in DOMAIN t : t[i] = PH}
    <3>1. holes = {h} /\ Cardinality(holes) = 1 /\ Len(t) > 1
      BY <1>2, <2>1 DEF Turns
    <3>2. (CHOOSE i \in holes : TRUE) = h
      BY <3>1
    <3> QED BY <3>1, <3>2, Zenon DEF ReverseTemplate
  <2>6. Subst(t, s) = (a \o s) \o b
    BY <2>1, <2>3, OneHole
  <2>7. ASSUME Inverts, s = mid PROVE s # <<>> /\ (a \o s) \o b = job
    <3>1. h - 1 \in Nat /\ n - h \in Nat /\ (h - 1) + (n - h) < m /\ (h - 1) + 1 = h
      <4>1. n - 1 < m
        BY <2>7
      <4> HIDE DEF n, m
      <4> QED BY <2>2, <4>1
    <3>2. /\ Len(s) = m - (n - h) - (h - 1)
          /\ \A i \in 1 .. m - (n - h) - (h - 1) : s[i] = job[(h - 1) + i]
      <4> DEFINE j == h - 1
                 l == n - h
      <4>1. j \in Nat /\ l \in Nat /\ j + l < Len(job) /\ s = SubSeq(job, j + 1, Len(job) - l)
        BY <2>7, <3>1
      <4>2. /\ Len(s) = Len(job) - l - j
            /\ \A i \in 1 .. Len(job) - l - j : s[i] = job[j + i]
        <5> HIDE DEF j, l
        <5> QED BY <4>1, MidIs
      <4> QED BY <4>2
    <3>4. /\ Len(a) + Len(b) < Len(job)
          /\ Len(s) = Len(job) - Len(b) - Len(a)
          /\ \A i \in 1 .. Len(s) : s[i] = job[Len(a) + i]
      <4> HIDE DEF n, a, b, mid
      <4>1. Len(s) = m - (n - h) - (h - 1) /\ \A i \in 1 .. Len(s) : s[i] = job[(h - 1) + i]
        BY <3>2
      <4> QED BY <2>4, <3>1, <4>1
    <3>5. IsPrefix(a, job) /\ IsSuffix(b, job)
      BY <2>7
    <3> HIDE DEF a, b
    <3> QED BY <2>4, <3>4, <3>5, CutOut
  <2>8. ASSUME s # <<>>, (a \o s) \o b = job PROVE Inverts /\ s = mid
    <3> DEFINE front == a \o s
    <3>1. front = a \o s /\ job = front \o b
      BY <2>8
    <3>0. s # <<>>
      BY <2>8
    <3> HIDE DEF front, Inverts, mid, n, m
    <3>2. /\ Len(a) + Len(b) < Len(job) /\ IsPrefix(a, job) /\ IsSuffix(b, job)
          /\ s = SubSeq(job, Len(a) + 1, Len(job) - Len(b))
      <4> HIDE DEF a, b
      <4>1. s = SubSeq(job, Len(a) + 1, Len(job) - Len(b))
        BY <2>4, <3>0, <3>1, PutIn
      <4>2. Len(a) + Len(b) < Len(job) /\ IsPrefix(a, job) /\ IsSuffix(b, job)
        BY <2>4, <3>0, <3>1, PutIn
      <4> QED BY <4>1, <4>2
    <3>3. n - 1 < m /\ Len(a) + 1 = h
      <4> HIDE DEF n, m, a, b
      <4>1. Len(a) + Len(b) < m
        BY <3>2 DEF m
      <4> QED BY <2>2, <2>4, <4>1
    <3>4. SubSeq(job, Len(a) + 1, Len(job) - Len(b)) = mid
      BY <2>4, <3>3 DEF mid, m
    <3> QED BY <3>2, <3>3, <3>4 DEF Inverts
  <2> QED BY <1>2, <2>5, <2>6, <2>7, <2>8
<1> QED BY <1>1, <1>2

\* What it gives is a part of the job.
LEMMA TurnedPart ==
  ASSUME NEW L, NEW t \in Seq(L), NEW job \in Seq(L), NEW s, s \in ReverseTemplate(t, job)
  PROVE  s \in SubSeqs(job) /\ s \in Seq(L)
<1>1. Turns(t)
  BY DEF ReverseTemplate, Turns
<1>2. PICK h \in 1 .. Len(t) : {i \in DOMAIN t : t[i] = PH} = {h}
  BY <1>1, TheHole
<1> DEFINE n == Len(t)
           m == Len(job)
           mid == SubSeq(job, h, m - (n - h))
<1>3. n \in Nat /\ m \in Nat /\ h \in 1 .. n
  BY <1>2, LenProperties
<1>4. n - 1 < m /\ s = mid
  <2> DEFINE holes == {i \in DOMAIN t : t[i] = PH}
  <2>1. (CHOOSE i \in holes : TRUE) = h
    BY <1>2
  <2>2. ReverseTemplate(t, job) =
          IF /\ Cardinality(holes) = 1 /\ Len(t) > 1 /\ n - 1 < m
             /\ IsPrefix(SubSeq(t, 1, h - 1), job) /\ IsSuffix(SubSeq(t, h + 1, Len(t)), job)
          THEN {mid} ELSE {}
    BY <2>1, Zenon DEF ReverseTemplate
  <2> HIDE DEF n, m, mid, holes
  <2> QED BY <2>2
<1>5. h - 1 \in 0 .. m /\ (h - 1) + 1 = h /\ m - (n - h) \in 0 .. m /\ m - (n - h) \in Nat
  <2> HIDE DEF n, m, mid
  <2> QED BY <1>3, <1>4
<1>6. s \in SubSeqs(job)
  <2> DEFINE i == h - 1
             j == m - (n - h)
  <2>1. i \in 0 .. Len(job) /\ j \in 0 .. Len(job) /\ s = SubSeq(job, i + 1, j)
    BY <1>4, <1>5
  <2> HIDE DEF i, j
  <2>2. \A q, u, v : u \in 0 .. Len(q) /\ v \in 0 .. Len(q) => SubSeq(q, u + 1, v) \in SubSeqs(q)
    BY DEF SubSeqs
  <2> QED BY <2>1, <2>2
<1>7. s \in Seq(L)
  <2>1. \A i \in 1 .. m : job[i] \in L
    BY ElementOfSeq
  <2>2. \A i \in h .. m - (n - h) : job[i] \in L
    BY <1>3, <1>5, <2>1
  <2>3. h \in Int /\ m - (n - h) \in Int
    BY <1>3
  <2> QED BY <1>4, <2>2, <2>3, SubSeqProperties
<1> QED BY <1>6, <1>7

LEMMA PartTyped ==
  ASSUME NEW L, NEW job \in Seq(L), NEW s \in SubSeqs(job)
  PROVE  s \in Seq(L)
<1>1. PICK i \in 0 .. Len(job), j \in 0 .. Len(job) : s = SubSeq(job, i + 1, j)
  BY DEF SubSeqs
<1> DEFINE m == Len(job)
           p == i + 1
<1>2. m \in Nat /\ p \in Int /\ j \in Int
  BY LenProperties
<1>3. \A k \in 1 .. m : job[k] \in L
  BY ElementOfSeq
<1>4. \A k \in p .. j : job[k] \in L
  BY <1>2, <1>3
<1> QED BY <1>1, <1>2, <1>4, SubSeqProperties

\* An override is the job of the service it is for.
LEMMA Overridden ==
  ASSUME NEW g, NEW s, s \in DOMAIN g.overrides
  PROVE  ResolveJobName(g, s) = g.overrides[s]
BY DEF ResolveJobName

\* The test by turning templates round finds the groups that make a job.
LEMMA ClaimsMakes ==
  ASSUME NEW L, NEW g, Templates(g) \subseteq Seq(L), NEW job \in Seq(L)
  PROVE  ClaimsJob(g, job) <=> Makes(g, job)
<1>1. ASSUME job \in Range(g.overrides) PROVE Makes(g, job)
  <2>1. PICK s \in DOMAIN g.overrides : g.overrides[s] = job
    BY <1>1 DEF Range
  <2>2. ResolveJobName(g, s) = job /\ s \in Probes(g, job)
    BY <2>1, Overridden DEF Probes
  <2> QED BY <2>1, <2>2 DEF Makes
<1>2. ASSUME NEW t \in Templates(g), NEW s, s \in ReverseTemplate(t, job), ResolveJobName(g, s) = job
      PROVE  Makes(g, job)
  <2>1. t \in Seq(L)
    OBVIOUS
  <2>2. s \in SubSeqs(job) /\ s \in Seq(L)
    BY <1>2, <2>1, TurnedPart
  <2>3. Turns(t) /\ s # <<>> /\ Subst(t, s) = job
    BY <1>2, <2>1, <2>2, Turned
  <2>4. s \in Probes(g, job)
    BY <2>2 DEF Probes
  <2> QED BY <1>2, <2>3, <2>4, Zenon DEF Makes, Turns
<1>3. ASSUME NEW s \in Probes(g, job), ResolveJobName(g, s) = job, s \in DOMAIN g.overrides
      PROVE  ClaimsJob(g, job)
  <2>1. job \in Range(g.overrides)
    BY <1>3, Overridden DEF Range
  <2> QED BY <2>1 DEF ClaimsJob
<1>4. ASSUME NEW s \in Probes(g, job), ResolveJobName(g, s) = job, s \notin DOMAIN g.overrides,
             s # <<>>, NEW t \in Templates(g), Turns(t), Subst(t, s) = job
      PROVE  ClaimsJob(g, job)
  <2>1. t \in Seq(L)
    OBVIOUS
  <2>2. s \in Seq(L)
    BY <1>4, PartTyped DEF Probes
  <2>3. s \in ReverseTemplate(t, job)
    BY <1>4, <2>1, <2>2, Turned
  <2> QED BY <1>4, <2>3, Zenon DEF ClaimsJob
<1>5. ASSUME ClaimsJob(g, job) PROVE Makes(g, job)
  BY <1>1, <1>2, <1>5, Zenon DEF ClaimsJob
<1>6. ASSUME Makes(g, job) PROVE ClaimsJob(g, job)
  BY <1>3, <1>4, <1>6, Zenon DEF Makes, Turns
<1> QED BY <1>5, <1>6

GroupsTyped ==
    /\ IsFiniteSet(DOMAIN groups)
    /\ \A n \in DOMAIN groups : Templates(groups[n]) \subseteq Seq(Letters \union {PH})

LEMMA OutcomeFields ==
  /\ \A code : Refused(code).err = code /\ Refused(code).group = NoGroup
  /\ \A n, j : Found(n, j).err = "none" /\ Found(n, j).group = n /\ Found(n, j).job = j
BY DEF Refused, Found

LEMMA GroupIs ==
  ASSUME NEW name
  PROVE  LET found == Group(groups, name) IN
         /\ found.err = "none" =>
              /\ found.group \in DOMAIN groups /\ name \in {"", found.group}
              /\ name # "" \/ Cardinality(DOMAIN groups) = 1
         /\ found.err # "none" =>
              /\ found.err \in {"GROUP_UNKNOWN", "GROUP_REQUIRED"}
              /\ name = "" => Cardinality(DOMAIN groups) # 1
<1> DEFINE found == Group(groups, name)
           only == CHOOSE n \in DOMAIN groups : TRUE
<1>1. CASE name # "" /\ name \in DOMAIN groups
  <2>1. found = Found(name, NoJob)
    BY <1>1, Zenon DEF Group
  <2> HIDE DEF found
  <2>2. found.err = "none" /\ found.group = name
    BY <2>1, OutcomeFields
  <2> QED BY <1>1, <2>2 DEF found
<1>2. CASE name # "" /\ name \notin DOMAIN groups
  <2>1. found = Refused("GROUP_UNKNOWN")
    BY <1>2, Zenon DEF Group
  <2> HIDE DEF found
  <2>2. found.err = "GROUP_UNKNOWN"
    BY <2>1, OutcomeFields
  <2> QED BY <1>2, <2>2 DEF found
<1>3. CASE name = "" /\ Cardinality(DOMAIN groups) = 1
  <2>1. found = Found(only, NoJob)
    BY <1>3, Zenon DEF Group
  <2>2. DOMAIN groups # {}
    <3>1. ASSUME NEW S, Cardinality(S) = 1 PROVE S # {}
      BY <3>1, FS_EmptySet
    <3> QED BY <1>3, <3>1
  <2>3. only \in DOMAIN groups
    BY <2>2
  <2> HIDE DEF found, only
  <2>4. found.err = "none" /\ found.group = only
    BY <2>1, OutcomeFields
  <2> QED BY <1>3, <2>3, <2>4 DEF found
<1>4. CASE name = "" /\ Cardinality(DOMAIN groups) # 1
  <2>1. found = Refused("GROUP_REQUIRED")
    BY <1>4, Zenon DEF Group
  <2> HIDE DEF found
  <2>2. found.err = "GROUP_REQUIRED"
    BY <2>1, OutcomeFields
  <2> QED BY <1>4, <2>2 DEF found
<1> QED BY <1>1, <1>2, <1>3, <1>4

\* A finite set of one element.
LEMMA Single ==
  ASSUME NEW S, IsFiniteSet(S)
  PROVE  Cardinality(S) = 1 <=> S = {CHOOSE n \in S : TRUE}
<1>1. ASSUME Cardinality(S) = 1 PROVE S = {CHOOSE n \in S : TRUE}
  <2>1. PICK x : S = {x}
    BY <1>1, FS_Singleton
  <2> QED BY <2>1
<1>2. ASSUME S = {CHOOSE n \in S : TRUE} PROVE Cardinality(S) = 1
  BY <1>2, FS_Singleton
<1> QED BY <1>1, <1>2

LEMMA TheOneIs ==
  ASSUME NEW S, IsFiniteSet(S), NEW none, NEW many, none # "none", many # "none", none # many
  PROVE  LET one == TheOne(S, none, many) IN
         /\ one.group = IF Cardinality(S) = 1 THEN CHOOSE n \in S : TRUE ELSE NoGroup
         /\ one.err \in {"none", none, many}
         /\ one.err = "none" => S = {one.group}
         /\ one.err = none => S = {}
         /\ one.err = many => \E m, n \in S : m # n
<1> DEFINE one == TheOne(S, none, many)
           x == CHOOSE n \in S : TRUE
<1>1. CASE Cardinality(S) = 1
  <2>0. S # {}
    BY <1>1, FS_EmptySet
  <2>1. one = Found(x, NoJob)
    BY <1>1, <2>0, Zenon DEF TheOne
  <2>2. S = {x}
    BY <1>1, Single
  <2> HIDE DEF one
  <2>3. one.err = "none" /\ one.group = x
    BY <2>1, OutcomeFields
  <2> QED BY <1>1, <2>2, <2>3 DEF one
<1>2. CASE S = {}
  <2>1. Cardinality(S) # 1
    BY <1>2, FS_EmptySet
  <2>2. one = Refused(none)
    BY <1>2, <2>1, Zenon DEF TheOne
  <2> HIDE DEF one
  <2>3. one.err = none /\ one.group = NoGroup
    BY <2>2, OutcomeFields
  <2> QED BY <1>2, <2>1, <2>3 DEF one
<1>3. CASE Cardinality(S) # 1 /\ S # {}
  <2>1. one = Refused(many)
    BY <1>3, Zenon DEF TheOne
  <2>2. x \in S /\ S # {x}
    BY <1>3, Single
  <2> HIDE DEF one
  <2>3. one.err = many /\ one.group = NoGroup
    BY <2>1, OutcomeFields
  <2>4. \E m, n \in S : m # n
    BY <2>2
  <2> QED BY <1>3, <2>3, <2>4 DEF one
<1> QED BY <1>1, <1>2, <1>3

\* --job: the group is the one given, or the one that makes the job.
LEMMA JobFlagRight ==
  ASSUME GroupsTyped, NEW f, f.job \in Seq(Letters), f.job # NoJob, NEW L
  PROVE  RoutedAs(f, ResolveByJob(groups, f), L)
<1> DEFINE given == Group(groups, f.group)
           r == ResolveByJob(groups, f)
<1>1. CASE given.err = "none"
  <2>1. r = Found(given.group, f.job)
    BY <1>1, Zenon DEF ResolveByJob
  <2>2. given.group \in DOMAIN groups /\ f.group \in {"", given.group} /\ Given(f)
    BY <1>1, GroupIs DEF Given
  <2> HIDE DEF r, given
  <2>3. r.err = "none" /\ r.group = given.group /\ r.job = f.job
    BY <2>1, OutcomeFields
  <2> QED BY <2>2, <2>3 DEF RoutedAs, r
<1>2. CASE given.err # "none" /\ f.group # ""
  <2>1. r = given
    BY <1>2, Zenon DEF ResolveByJob
  <2>2. given.err \in {"GROUP_UNKNOWN", "GROUP_REQUIRED"}
    BY <1>2, GroupIs
  <2> HIDE DEF r, given
  <2> QED BY <2>1, <2>2 DEF RoutedAs, r
<1>3. CASE given.err # "none" /\ f.group = ""
  <2> DEFINE claim == GroupForJob(groups, f.job)
  <2>1. r = Found(claim.group, f.job)
    BY <1>3, Zenon DEF ResolveByJob
  <2>2. Makers(f.job) = {n \in DOMAIN groups : ClaimsJob(groups[n], f.job)}
    <3>1. f.job \in Seq(Letters \union {PH})
      BY SeqMonotonic
    <3>2. \A n \in DOMAIN groups : ClaimsJob(groups[n], f.job) <=> Makes(groups[n], f.job)
      BY <3>1, ClaimsMakes DEF GroupsTyped
    <3> QED BY <3>2 DEF Makers
  <2>3. claim.group = IF Cardinality(Makers(f.job)) = 1
                      THEN CHOOSE n \in Makers(f.job) : TRUE ELSE NoGroup
    <3>1. claim = TheOne(Makers(f.job), "JOB_NO_GROUP", "GROUP_AMBIGUOUS")
      BY <2>2, Zenon DEF GroupForJob
    <3>2. IsFiniteSet(Makers(f.job))
      BY FS_Subset DEF GroupsTyped, Makers
    <3> HIDE DEF claim
    <3> QED BY <3>1, <3>2, TheOneIs
  <2>4. ~Given(f)
    BY <1>3, GroupIs DEF Given
  <2> HIDE DEF r, claim
  <2>5. r.err = "none" /\ r.group = claim.group /\ r.job = f.job
    BY <2>1, OutcomeFields
  <2> QED BY <2>3, <2>4, <2>5 DEF RoutedAs, r
<1> QED BY <1>1, <1>2, <1>3

\* A <service> with several groups: the one whose job for it is listed.
LEMMA AutoRight ==
  ASSUME GroupsTyped, NEW f, f.job = NoJob, NEW cache, ~Given(f)
  PROVE  RoutedAs(f, AutoResolveGroup(groups, f.service, cache), Range(cache.jobs))
<1> DEFINE L == Range(cache.jobs)
           S == Fits(f.service, L)
           one == TheOne(S, "SERVICE_UNKNOWN", "GROUP_AMBIGUOUS")
           r == AutoResolveGroup(groups, f.service, cache)
<1>1. CASE ~cache.read
  <2>1. r = Refused("GROUP_REQUIRED")
    BY <1>1, Zenon DEF AutoResolveGroup
  <2> HIDE DEF r
  <2>2. r.err = "GROUP_REQUIRED"
    BY <2>1, OutcomeFields
  <2> QED BY <2>2 DEF RoutedAs, r
<1>2. CASE cache.read
  <2>1. S = {n \in DOMAIN groups : HasPath(cache, ResolveJobName(groups[n], f.service))}
    BY DEF Fits, HasPath
  <2> HIDE DEF S
  <2>2. r = IF one.err = "none"
            THEN Found(one.group, ResolveJobName(groups[one.group], f.service)) ELSE one
    BY <1>2, <2>1, Zenon DEF AutoResolveGroup
  <2>3. IsFiniteSet(S)
    BY <2>1, FS_Subset DEF GroupsTyped
  <2>4. /\ one.err \in {"none", "SERVICE_UNKNOWN", "GROUP_AMBIGUOUS"}
        /\ one.err = "none" => S = {one.group}
        /\ one.err = "SERVICE_UNKNOWN" => S = {}
        /\ one.err = "GROUP_AMBIGUOUS" => \E m, n \in S : m # n
    BY <2>3, TheOneIs
  <2> HIDE DEF one, r
  <2>5. CASE one.err = "none"
    <3>1. r.err = "none" /\ r.group = one.group /\ r.job = ResolveJobName(groups[one.group], f.service)
      BY <2>2, <2>5, OutcomeFields
    <3> QED BY <2>4, <2>5, <3>1 DEF RoutedAs, r, S
  <2>6. CASE one.err # "none"
    BY <2>2, <2>4, <2>6 DEF RoutedAs, r, S
  <2> QED BY <2>5, <2>6
<1> QED BY <1>1, <1>2

\* A <service> of a group that is known.
LEMMA NameRight ==
  ASSUME GroupsTyped, NEW f, f.job = NoJob, NEW cache, IsFiniteSet(DOMAIN cache.jobs),
         NEW name \in DOMAIN groups, Given(f), f.group \in {"", name}
  PROVE  RoutedAs(f, ResolveByName(groups, name, f.service, cache), Range(cache.jobs))
<1> DEFINE L == Range(cache.jobs)
           job == ResolveJobName(groups[name], f.service)
           hits == IF job = f.service THEN FindByName(cache, f.service) ELSE {}
           x == CHOOSE i \in hits : TRUE
           r == ResolveByName(groups, name, f.service, cache)
           alike == {j \in L : LeafName(j) = f.service}
<1>1. r = IF hits = {} THEN Found(name, job)
          ELSE IF Cardinality(hits) = 1 THEN Found(name, cache.jobs[x])
          ELSE Refused("JOB_AMBIGUOUS")
  BY Zenon DEF ResolveByName
<1>2. JobsOf(groups[name], f.service, L) = IF job # f.service \/ alike = {} THEN {job} ELSE alike
  BY Zenon DEF JobsOf
<1>3. job = f.service => hits = {i \in DOMAIN cache.jobs : LeafName(cache.jobs[i]) = f.service}
  BY DEF FindByName
<1>4. alike = {cache.jobs[i] : i \in {k \in DOMAIN cache.jobs : LeafName(cache.jobs[k]) = f.service}}
  BY DEF Range
<1>5. job # f.service => hits = {}
  OBVIOUS
<1>6. IsFiniteSet(hits)
  BY FS_Subset, FS_EmptySet DEF FindByName
<1> HIDE DEF hits, alike, job, r
<1>7. ASSUME NEW j, JobsOf(groups[name], f.service, L) = {j}, r = Found(name, j)
      PROVE  RoutedAs(f, r, L)
  <2>1. r.err = "none" /\ r.group = name /\ r.job = j
    BY <1>7, OutcomeFields
  <2> QED BY <1>7, <2>1 DEF RoutedAs
<1>8. CASE hits = {}
  <2>1. JobsOf(groups[name], f.service, L) = {job}
    BY <1>2, <1>3, <1>4, <1>8
  <2> QED BY <1>1, <1>7, <1>8, <2>1 DEF r
<1>9. CASE hits # {} /\ Cardinality(hits) = 1
  <2>1. hits = {x}
    BY <1>6, <1>9, Single
  <2>2. JobsOf(groups[name], f.service, L) = {cache.jobs[x]}
    <3> HIDE DEF x
    <3> QED BY <1>2, <1>3, <1>4, <1>5, <1>9, <2>1
  <2> QED BY <1>1, <1>7, <1>9, <2>2 DEF r
<1>10. CASE hits # {} /\ Cardinality(hits) # 1
  <2>1. r = Refused("JOB_AMBIGUOUS")
    BY <1>1, <1>10
  <2>2. r.err = "JOB_AMBIGUOUS"
    BY <2>1, OutcomeFields
  <2> QED BY <2>2 DEF RoutedAs, r
<1> QED BY <1>8, <1>9, <1>10

\* Whatever is found for a target is right.
LEMMA TargetRight ==
  ASSUME GroupsTyped, NEW f, f.job \in Seq(Letters), NEW cache, IsFiniteSet(DOMAIN cache.jobs)
  PROVE  RoutedAs(f, ResolveTarget(groups, f, cache), Range(cache.jobs))
<1> DEFINE given == Group(groups, f.group)
           r == ResolveTarget(groups, f, cache)
<1>1. CASE f.job # NoJob
  <2>1. r = ResolveByJob(groups, f)
    BY <1>1, Zenon DEF ResolveTarget
  <2> QED BY <1>1, <2>1, JobFlagRight
<1>2. CASE f.job = NoJob /\ given.err # "none" /\ f.group = "" /\ f.service # <<>>
  <2>1. r = AutoResolveGroup(groups, f.service, cache)
    BY <1>2, Zenon DEF ResolveTarget
  <2>2. ~Given(f)
    BY <1>2, GroupIs DEF Given
  <2> QED BY <1>2, <2>1, <2>2, AutoRight
<1>3. CASE f.job = NoJob /\ given.err # "none" /\ ~(f.group = "" /\ f.service # <<>>)
  <2>1. r = given
    BY <1>3, Zenon DEF ResolveTarget
  <2>2. given.err \in {"GROUP_UNKNOWN", "GROUP_REQUIRED"}
    BY <1>3, GroupIs
  <2> HIDE DEF r, given
  <2> QED BY <2>1, <2>2 DEF RoutedAs, r
<1>4. CASE f.job = NoJob /\ given.err = "none" /\ f.service = <<>>
  <2>1. r = Refused("NO_TARGET")
    BY <1>4, Zenon DEF ResolveTarget
  <2> HIDE DEF r
  <2>2. r.err = "NO_TARGET"
    BY <2>1, OutcomeFields
  <2> QED BY <2>2 DEF RoutedAs, r
<1>5. CASE f.job = NoJob /\ given.err = "none" /\ f.service # <<>>
  <2>1. r = ResolveByName(groups, given.group, f.service, cache)
    BY <1>5, Zenon DEF ResolveTarget
  <2>2. given.group \in DOMAIN groups /\ f.group \in {"", given.group} /\ Given(f)
    BY <1>5, GroupIs DEF Given
  <2> HIDE DEF given
  <2> QED BY <1>5, <2>1, <2>2, NameRight
<1> QED BY <1>1, <1>2, <1>3, <1>4, <1>5

\* Groups and errands are text.
LEMMA ErrandText ==
  ASSUME CacheTyped
  PROVE  GroupsTyped /\ \A c \in Clis : errand[c].job \in Seq(Letters)
<1> DEFINE T == Seq(Letters \union {PH})
<1>1. PICK e \in Errands : groups = e.groups
  BY DEF CacheTyped
<1>2. PICK d \in Errands : errand = d.errand
  BY DEF CacheTyped
<1>3. ASSUME NEW n \in DOMAIN groups PROVE Templates(groups[n]) \subseteq T
  <2> DEFINE g == groups[n]
  <2>1. g.template \in T /\ \A p \in DOMAIN g.templates : g.templates[p] \in T
    BY <1>1, ErrandAssumption
  <2> HIDE DEF g, T
  <2>2. Templates(g) \subseteq T
    BY <2>1 DEF Templates, Range
  <2> QED BY <2>2 DEF g
<1>4. \A c \in Clis : errand[c].job \in Seq(Letters)
  BY <1>2, ErrandAssumption
<1>5. IsFiniteSet(DOMAIN groups)
  BY <1>1, ErrandAssumption
<1> QED BY <1>3, <1>4, <1>5 DEF GroupsTyped

\* A command that has not begun to read has read nothing; one that is over has
\* found what is right, given what it has read.
Routed(c) ==
    /\ at[c] = "start" => buf[c] = <<>>
    /\ errand[c].verb = "target" => RoutedAs(errand[c], result[c], JobsRead(c))

AllRouted == \A c \in Clis : Routed(c)

LEMMA RoutedIs == AllRouted => JobIsRouted
BY Zenon DEF JobIsRouted, AllRouted, Routed

LEMMA PendingRouted == \A f, L : RoutedAs(f, Pending, L)
<1>1. Pending.err = "pending"
  BY DEF Pending
<1> QED BY <1>1 DEF RoutedAs

\* A refusal that has nothing to do with groups.
LEMMA FailedRouted == \A f, L : RoutedAs(f, Refused("failed"), L)
<1>1. Refused("failed").err = "failed"
  BY OutcomeFields
<1> QED BY <1>1 DEF RoutedAs

LEMMA RoutedSame ==
  ASSUME UNCHANGED groups
  PROVE  \A f, r, L : RoutedAs(f, r, L)' <=> RoutedAs(f, r, L)
BY DEF RoutedAs, Given, Fits, Makers

\* A command that ends has found what is right.
LEMMA EndKeepsRouted ==
  ASSUME CacheTyped, AllRouted, NEW c \in Clis, NEW r, Ended(c, r),
         UNCHANGED <<groups, errand, buf>>,
         errand[c].verb = "target" => RoutedAs(errand[c], r, JobsRead(c))
  PROVE  AllRouted'
<1>1. /\ result = [d \in Clis |-> result[d]] /\ result' = [result EXCEPT ![c] = r]
      /\ at \in [Clis -> CachePlaces] /\ at' = [at EXCEPT ![c] = "over"]
  BY DEF CacheTyped, Ended, CGoto
<1>2. /\ result'[c] = r /\ \A d \in Clis : d # c => result'[d] = result[d]
      /\ at'[c] = "over" /\ \A d \in Clis : d # c => at'[d] = at[d]
  BY <1>1
<1>3. \A f, q, L : RoutedAs(f, q, L)' <=> RoutedAs(f, q, L)
  BY RoutedSame
<1>4. \A d \in Clis : JobsRead(d)' = JobsRead(d)
  BY DEF JobsRead
<1>5. ASSUME NEW d \in Clis PROVE Routed(d)'
  <2>1. Routed(d)
    BY DEF AllRouted
  <2>2. CASE d = c
    BY <1>2, <1>3, <1>4, <2>2 DEF Routed
  <2>3. CASE d # c
    BY <1>2, <1>3, <1>4, <2>1, <2>3 DEF Routed
  <2> QED BY <2>2, <2>3
<1> QED BY <1>5 DEF AllRouted

\* What a command uses is what it has read.
LEMMA UseKeepsRouted ==
  ASSUME CacheTyped, AllRouted, NEW c \in Clis, NEW cache, IsFiniteSet(DOMAIN cache.jobs),
         Range(cache.jobs) = JobsRead(c), Use(c, cache), UNCHANGED <<groups, errand, buf>>
  PROVE  AllRouted'
<1>1. CASE errand[c].verb = "list"
  <2>1. PICK r : Ended(c, r)
    BY <1>1 DEF Use, Done
  <2> QED BY <1>1, <2>1, EndKeepsRouted
<1>2. CASE errand[c].verb # "list"
  <2> DEFINE r == ResolveTarget(groups, errand[c], cache)
  <2>1. Ended(c, r)
    BY <1>2 DEF Use
  <2>2. RoutedAs(errand[c], r, JobsRead(c))
    BY ErrandText, TargetRight
  <2> HIDE DEF r
  <2> QED BY <2>1, <2>2, EndKeepsRouted
<1> QED BY <1>1, <1>2

\* A command that goes on has found nothing yet.
LEMMA GoOnKeepsRouted ==
  ASSUME CacheTyped, AllRouted, NEW c \in Clis, result[c] = Pending, NEW l, l # "start", CGoto(c, l),
         UNCHANGED <<groups, errand, result>>, \A d \in Clis : d # c => buf'[d] = buf[d]
  PROVE  AllRouted'
<1>1. at \in [Clis -> CachePlaces] /\ at' = [at EXCEPT ![c] = l]
  BY DEF CacheTyped, CGoto
<1>2. at'[c] = l /\ \A d \in Clis : d # c => at'[d] = at[d]
  BY <1>1
<1>3. \A f, q, L : RoutedAs(f, q, L)' <=> RoutedAs(f, q, L)
  BY RoutedSame
<1>4. ASSUME NEW d \in Clis PROVE Routed(d)'
  <2>1. Routed(d)
    BY DEF AllRouted
  <2>2. CASE d = c
    BY <1>2, <1>3, <2>2, PendingRouted DEF Routed
  <2>3. CASE d # c
    <3>1. JobsRead(d)' = JobsRead(d)
      BY <2>3 DEF JobsRead
    <3> QED BY <1>2, <1>3, <2>1, <2>3, <3>1 DEF Routed
  <2> QED BY <2>2, <2>3
<1> QED BY <1>4 DEF AllRouted

LEMMA NothingCached == IsFiniteSet(DOMAIN NoCache.jobs) /\ Range(NoCache.jobs) = {}
<1>1. NoCache.jobs = <<>> /\ DOMAIN <<>> = {}
  BY DEF NoCache
<1> QED BY <1>1, FS_EmptySet DEF Range

LEMMA RoutedStep ==
  ASSUME CacheInv, AllRouted, [CacheStep]_cachevars
  PROVE  AllRouted'
<1>0. CacheTyped /\ \A c \in Clis : at[c] # "over" <=> result[c] = Pending
  BY DEF CacheInv, Judged
<1>1. CASE UNCHANGED cachevars
  <2>1. \A f, q, L : RoutedAs(f, q, L)' <=> RoutedAs(f, q, L)
    BY <1>1, RoutedSame DEF cachevars
  <2>2. \A c \in Clis : JobsRead(c)' = JobsRead(c)
    BY <1>1 DEF JobsRead, cachevars
  <2> QED BY <1>1, <2>1, <2>2 DEF AllRouted, Routed, cachevars
<1>2. ASSUME NEW c \in Clis, Fetch(c) \/ Open(c) \/ BeginRead(c) PROVE AllRouted'
  <2>1. PICK l \in {"open", "write", "read"} : CGoto(c, l)
    BY <1>2 DEF Fetch, Open, BeginRead
  <2>2. UNCHANGED <<groups, errand, result>> /\ at[c] # "over"
    BY <1>2 DEF Fetch, Open, BeginRead
  <2>3. \A d \in Clis : d # c => buf'[d] = buf[d]
    BY <1>0, <1>2 DEF Fetch, Open, BeginRead, CacheTyped
  <2> QED BY <1>0, <2>1, <2>2, <2>3, GoOnKeepsRouted
<1>3. ASSUME NEW c \in Clis, ReadSome(c) PROVE AllRouted'
  <2>1. at[c] = "read" /\ UNCHANGED <<at, groups, errand, result>>
    BY <1>3 DEF ReadSome
  <2>2. \A d \in Clis : d # c => buf'[d] = buf[d]
    BY <1>0, <1>3 DEF ReadSome, CacheTyped
  <2>3. CGoto(c, "read")
    BY <1>0, <2>1 DEF CGoto, CacheTyped
  <2> QED BY <1>0, <2>1, <2>2, <2>3, GoOnKeepsRouted
<1>4. ASSUME NEW c \in Clis, SyncFails(c) \/ WriteShort(c) \/ KillWriter(c) \/ NoClient(c)
      PROVE  AllRouted'
  <2>1. Ended(c, Refused("failed")) /\ UNCHANGED <<groups, errand, buf>>
    BY <1>4 DEF SyncFails, WriteShort, KillWriter, NoClient
  <2> QED BY <1>0, <2>1, FailedRouted, EndKeepsRouted
<1>5. ASSUME NEW c \in Clis, Write(c) PROVE AllRouted'
  <2>1. errand[c].verb # "target"
    BY <1>5 DEF CacheInv, Listed, Write
  <2>2. (\E r : Ended(c, r)) /\ UNCHANGED <<groups, errand, buf>>
    BY <1>5 DEF Write, Done
  <2> QED BY <1>0, <2>1, <2>2, EndKeepsRouted
<1>6. ASSUME NEW c \in Clis, Decide(c) PROVE AllRouted'
  <2>1. Use(c, NoCache) /\ UNCHANGED <<groups, errand, buf>>
    BY <1>6 DEF Decide
  <2>2. buf[c] = <<>>
    BY <1>6 DEF Decide, AllRouted, Routed
  <2>3. JobsRead(c) = {}
    BY <2>2 DEF JobsRead, Decodes
  <2> QED BY <1>0, <2>1, <2>3, NothingCached, UseKeepsRouted
<1>7. ASSUME NEW c \in Clis, ReadEnds(c) PROVE AllRouted'
  <2>1. Use(c, IF Decodes(buf[c]) THEN Cache(Decoded(buf[c])) ELSE NoCache) /\ UNCHANGED <<groups, errand, buf>>
    BY <1>7 DEF ReadEnds
  <2>3. CASE Decodes(buf[c])
    <3>1. buf[c] \in Seq({Head_, Tail_} \union heard)
      BY <1>0 DEF CacheTyped, Cells
    <3>2. Decoded(buf[c]) \in Seq(heard)
      BY <2>3, <3>1, DecodedHeard
    <3>3. Cache(Decoded(buf[c])).jobs = Decoded(buf[c])
      BY DEF Cache
    <3>4. IsFiniteSet(DOMAIN Cache(Decoded(buf[c])).jobs)
      <4>1. DOMAIN Decoded(buf[c]) = 1 .. Len(Decoded(buf[c])) /\ Len(Decoded(buf[c])) \in Nat
        BY <3>2, LenProperties
      <4>2. IsFiniteSet(1 .. Len(Decoded(buf[c])))
        BY <4>1, FS_Interval
      <4> QED BY <3>3, <4>1, <4>2, Zenon
    <3>5. Range(Cache(Decoded(buf[c])).jobs) = JobsRead(c)
      BY <2>3, <3>3 DEF JobsRead
    <3> QED BY <1>0, <2>1, <2>3, <3>4, <3>5, UseKeepsRouted
  <2>4. CASE ~Decodes(buf[c])
    <3>1. JobsRead(c) = {}
      BY <2>4 DEF JobsRead
    <3> QED BY <1>0, <2>1, <2>4, <3>1, NothingCached, UseKeepsRouted
  <2> QED BY <2>3, <2>4
<1> QED BY <1>1, <1>2, <1>3, <1>4, <1>5, <1>6, <1>7 DEF CacheStep

\* The job and the group that a command finds are those that the flags, the groups'
\* rules and the listing it has read determine, and it is turned away where they
\* determine none, whatever other commands do to the cache meanwhile (resolve.go,
\* config.go).
THEOREM JobRoutedRight == JcliSpec => []JobIsRouted
<1>1. CacheInit => AllRouted
  <2> SUFFICES ASSUME CacheInit, NEW c \in Clis PROVE Routed(c)
    BY DEF AllRouted
  <2>1. buf[c] = <<>> /\ result[c] = Pending
    BY DEF CacheInit
  <2> QED BY <2>1, PendingRouted DEF Routed
<1>2. CacheInv /\ AllRouted /\ [CacheStep]_cachevars => AllRouted'
  BY RoutedStep
<1>3. CacheSpec => []AllRouted
  BY <1>1, <1>2, CacheInvariant, PTL DEF CacheSpec
<1> QED BY <1>3, JcliParts, RoutedIs, PTL

-----------------------------------------------------------------------------
(* The end of a console *)

\* Where the command is tells what it was asked for, and how it ended.
Ending ==
    /\ spot = "whole" => ~want.follow
    /\ spot \in {"chunk", "pause"} => want.follow
    /\ tally = IF spot = "over" THEN <<closed # "error">> ELSE <<>>

ConsoleInv == ConsoleTyped /\ cutoffs \in Nat /\ Ending /\ FollowComplete

LEMMA ConsoleInit_Inv == ConsoleInit => Ending /\ FollowComplete /\ cutoffs \in Nat
<1> SUFFICES ASSUME ConsoleInit PROVE Ending /\ FollowComplete /\ cutoffs \in Nat
  OBVIOUS
<1>1. spot = "start" /\ tally = <<>> /\ cutoffs = 0
  BY DEF ConsoleInit
<1>2. Ending
  BY <1>1 DEF Ending
<1> QED BY <1>1, <1>2 DEF FollowComplete

\* The command ends: one line, and where it ends well it has shown everything.
LEMMA LogEndsTold ==
  ASSUME ConsoleInv, NEW how, LogEnds(how), spot # "over", UNCHANGED want, cutoffs' \in Nat,
         want.follow /\ how # "error" /\ pages' = 0 /\ cutoffs' = 0 =>
            ~building' /\ start' = Len(console')
  PROVE  Ending' /\ FollowComplete' /\ cutoffs' \in Nat
<1>1. /\ spot' = "over" /\ tally' = Append(tally, how # "error")
      /\ closed' = IF how # "error" /\ want.raw THEN "" ELSE how
  BY DEF LogEnds, LogGoto
<1>2. tally = <<>>
  BY DEF ConsoleInv, Ending
<1>3. closed' # "error" <=> how # "error"
  BY <1>1
<1>4. tally' = <<closed' # "error">>
  <2>1. Append(<<>>, how # "error") = <<how # "error">>
    OBVIOUS
  <2>2. (how # "error") = (closed' # "error")
    BY <1>3
  <2> QED BY <1>1, <1>2, <2>1, <2>2, Zenon
<1>5. Ending'
  BY <1>1, <1>4, Zenon DEF Ending
<1>6. FollowComplete'
  BY <1>1, <1>3 DEF FollowComplete
<1> QED BY <1>5, <1>6

\* The command goes on.
LEMMA LogGoesOn ==
  ASSUME ConsoleInv, NEW l, LogGoto(l), l # "over", spot # "over", UNCHANGED <<want, tally>>,
         l = "whole" => ~want.follow, l \in {"chunk", "pause"} => want.follow, cutoffs' \in Nat
  PROVE  Ending' /\ FollowComplete' /\ cutoffs' \in Nat
<1>1. tally = <<>> /\ spot' = l
  BY DEF ConsoleInv, Ending, LogGoto
<1>2. Ending'
  BY <1>1 DEF Ending
<1> QED BY <1>1, <1>2 DEF FollowComplete

LEMMA ConsoleStep_Inv ==
  ASSUME ConsoleInv, [ConsoleNext]_logvars
  PROVE  Ending' /\ FollowComplete' /\ cutoffs' \in Nat
<1>0. /\ cutoffs \in Nat /\ pages \in Nat /\ Ending /\ FollowComplete
      /\ tally = IF spot = "over" THEN <<closed # "error">> ELSE <<>>
  BY DEF ConsoleInv, ConsoleTyped, Within, Ending
<1>1. CASE BuildPrints
  <2>1. building /\ UNCHANGED <<building, want, spot, start, closed, tally, cutoffs, pages>>
    BY <1>1 DEF BuildPrints
  <2>2. ~(want.follow /\ closed # "error" /\ spot = "over" /\ pages = 0 /\ cutoffs = 0)
    BY <1>0, <2>1, Zenon DEF FollowComplete
  <2> QED BY <1>0, <2>1, <2>2, Zenon DEF FollowComplete, Ending
<1>2. CASE BuildOver
  <2>1. building /\ UNCHANGED <<console, want, spot, start, closed, tally, cutoffs, pages>>
    BY <1>2 DEF BuildOver
  <2>2. ~(want.follow /\ closed # "error" /\ spot = "over" /\ pages = 0 /\ cutoffs = 0)
    BY <1>0, <2>1, Zenon DEF FollowComplete
  <2> QED BY <1>0, <2>1, <2>2, Zenon DEF FollowComplete, Ending
<1>3. CASE UNCHANGED logvars
  BY <1>0, <1>3 DEF logvars, FollowComplete, Ending
<1>4. CASE LogRefused
  <2>1. LogEnds("error") /\ spot # "over" /\ UNCHANGED <<want, cutoffs>>
    BY <1>4 DEF LogRefused
  <2> QED BY <1>0, <2>1, LogEndsTold
<1>5. CASE Whole
  <2>1. LogEnds("data") /\ spot = "whole" /\ UNCHANGED <<want, cutoffs>>
    BY <1>5 DEF Whole
  <2>2. ~want.follow
    BY <1>0, <2>1 DEF Ending
  <2> QED BY <1>0, <2>1, <2>2, LogEndsTold
<1>6. CASE LogTarget \/ LastBuild
  <2>1. PICK l \in {"last", "whole", "chunk"} : LogGoto(l) /\ (l = "whole" => ~want.follow)
                                               /\ (l = "chunk" => want.follow)
    BY <1>6 DEF LogTarget, LastBuild
  <2>2. spot # "over" /\ UNCHANGED <<want, tally, cutoffs>>
    BY <1>6 DEF LogTarget, LastBuild
  <2> QED BY <1>0, <2>1, <2>2, LogGoesOn
<1>7. CASE LogPause
  <2>1. LogGoto("chunk") /\ spot = "pause" /\ UNCHANGED <<want, tally, cutoffs>>
    BY <1>7 DEF LogPause
  <2> QED BY <1>0, <2>1, LogGoesOn DEF Ending
<1>8. CASE LogKilled
  <2>1. LogGoto("killed") /\ spot # "over" /\ UNCHANGED <<want, tally, cutoffs>>
    BY <1>8 DEF LogKilled
  <2> QED BY <1>0, <2>1, LogGoesOn
\* An answer of a follow: it goes on while the build runs, and ends else.
<1>9. ASSUME NEW more, OnOrEnd(more), spot = "chunk", UNCHANGED want, cutoffs' \in Nat,
             ~more /\ pages' = 0 /\ cutoffs' = 0 => ~building' /\ start' = Len(console')
      PROVE  Ending' /\ FollowComplete' /\ cutoffs' \in Nat
  <2>1. CASE more
    <3>1. LogGoto("pause") /\ UNCHANGED tally
      BY <1>9, <2>1 DEF OnOrEnd
    <3> QED BY <1>0, <1>9, <3>1, LogGoesOn DEF Ending
  <2>2. CASE ~more
    <3>1. LogEnds("end")
      BY <1>9, <2>2 DEF OnOrEnd
    <3> QED BY <1>9, <2>2, <3>1, LogEndsTold
  <2> QED BY <2>1, <2>2
<1>10. CASE Follow
  <2>1. /\ OnOrEnd(building) /\ spot = "chunk" /\ start' = Len(console)
        /\ UNCHANGED <<console, building, want, cutoffs>>
    BY <1>10 DEF Follow, jenkinslog
  <2> QED BY <1>0, <1>9, <2>1
<1>11. CASE FollowCut
  <2>1. OnOrEnd(building) /\ spot = "chunk" /\ cutoffs' = cutoffs + 1 /\ UNCHANGED want
    BY <1>11 DEF FollowCut
  <2>2. cutoffs' \in Nat /\ cutoffs' # 0
    BY <1>0, <2>1
  <2> QED BY <1>9, <2>1, <2>2
<1>12. CASE FollowPage
  <2>1. OnOrEnd(FALSE) /\ spot = "chunk" /\ pages' = pages + 1 /\ UNCHANGED <<want, cutoffs>>
    BY <1>12 DEF FollowPage
  <2>2. pages' # 0
    BY <1>0, <2>1
  <2> QED BY <1>0, <1>9, <2>1, <2>2
<1> QED BY <1>1, <1>2, <1>3, <1>4, <1>5, <1>6, <1>7, <1>8, <1>10, <1>11, <1>12, Zenon
        DEF ConsoleNext, LogStep

\* A follow that ends well has shown all of the console, and one line of the
\* audit log says how the command ended (console.go, log.go).
THEOREM FollowShowsAll == JcliSpec => [](FollowComplete /\ EndIsTold)
<1>1. ConsoleInit => Ending /\ FollowComplete /\ cutoffs \in Nat
  BY ConsoleInit_Inv
<1>2. ConsoleTyped /\ Ending /\ FollowComplete /\ cutoffs \in Nat /\ [ConsoleNext]_logvars
        => (Ending /\ FollowComplete /\ cutoffs \in Nat)'
  BY ConsoleStep_Inv DEF ConsoleInv
<1>3. Ending => EndIsTold
  <2> SUFFICES ASSUME Ending PROVE EndIsTold
    OBVIOUS
  <2>1. CASE spot = "over"
    <3>1. tally = <<closed # "error">>
      BY <2>1 DEF Ending
    <3> QED BY <2>1, <3>1 DEF EndIsTold
  <2>2. CASE spot # "over"
    <3>1. tally = <<>>
      BY <2>2 DEF Ending
    <3> QED BY <2>2, <3>1 DEF EndIsTold
  <2> QED BY <2>1, <2>2
<1> QED BY <1>1, <1>2, <1>3, ConsoleTypes, JcliParts, PTL DEF ConsoleSpec

-----------------------------------------------------------------------------
(* What the reader of a console has shown *)

\* The cell c is the a-th of the i-th record.
LEMMA TextIs ==
  ASSUME NEW R \in Seq(Seq(Nat)), NEW c
  PROVE  c \in Text(R) <=> \E i \in DOMAIN R : \E a \in DOMAIN R[i] : c = R[i][a] /\ c > 0
  BY DEF Text, Range

\* Records that show just these cells.
Shows(R, some) == R \in Seq(Seq(Nat)) /\ InOrder(R) /\ Text(R) = some

LEMMA ShowsNothing == Shows(<<>>, {})
  BY DEF Shows, InOrder, Text

LEMMA ShowsConcat ==
  ASSUME NEW A, NEW B, NEW S, NEW T, Shows(A, S), Shows(B, T),
         \A c \in S, d \in T : c < d
  PROVE  Shows(A \o B, S \union T)
<1> DEFINE R == A \o B
<1>1. /\ A \in Seq(Seq(Nat)) /\ B \in Seq(Seq(Nat)) /\ InOrder(A) /\ InOrder(B)
      /\ Text(A) = S /\ Text(B) = T
  BY DEF Shows
<1>2. /\ R \in Seq(Seq(Nat)) /\ Len(R) = Len(A) + Len(B)
      /\ \A i \in 1 .. Len(A) + Len(B) : R[i] = IF i <= Len(A) THEN A[i] ELSE B[i - Len(A)]
  BY <1>1, ConcatProperties
<1>3. /\ Len(A) \in Nat /\ Len(B) \in Nat
      /\ DOMAIN A = 1 .. Len(A) /\ DOMAIN B = 1 .. Len(B) /\ DOMAIN R = 1 .. Len(A) + Len(B)
  BY <1>1, <1>2, LenProperties
<1> HIDE DEF R
<1>4. ASSUME NEW i \in DOMAIN A PROVE i \in DOMAIN R /\ i <= Len(A) /\ R[i] = A[i]
  BY <1>2, <1>3
<1>5. ASSUME NEW i \in DOMAIN B
      PROVE  Len(A) + i \in DOMAIN R /\ Len(A) + i > Len(A) /\ R[Len(A) + i] = B[i]
  <2>1. i \in 1 .. Len(B) /\ Len(A) + i \in 1 .. Len(A) + Len(B) /\ ~(Len(A) + i <= Len(A))
    BY <1>3
  <2>2. R[Len(A) + i] = B[Len(A) + i - Len(A)] /\ Len(A) + i - Len(A) = i
    BY <1>2, <1>3, <2>1
  <2> QED BY <1>3, <2>1, <2>2
<1>6. ASSUME NEW i \in DOMAIN R
      PROVE  \/ i \in DOMAIN A
             \/ \E k \in DOMAIN B : i = Len(A) + k
  <2>1. CASE i <= Len(A)
    BY <1>3, <2>1
  <2>2. CASE i > Len(A)
    <3>1. i - Len(A) \in DOMAIN B /\ i = Len(A) + (i - Len(A))
      BY <1>3, <2>2
    <3> QED BY <3>1
  <2> QED BY <1>3, <2>1, <2>2
<1>7. Text(R) = S \union T
  <2>1. ASSUME NEW c \in Text(R) PROVE c \in S \union T
    <3>1. PICK i \in DOMAIN R : \E a \in DOMAIN R[i] : c = R[i][a] /\ c > 0
      BY <1>2, TextIs
    <3>2. CASE i \in DOMAIN A
      BY <1>1, <1>4, <3>1, <3>2, TextIs
    <3>3. ASSUME NEW k \in DOMAIN B, i = Len(A) + k PROVE c \in T
      BY <1>1, <1>5, <3>1, <3>3, TextIs
    <3> QED BY <1>6, <3>2, <3>3, <1>1, <1>4, <3>1, TextIs
  <2>2. ASSUME NEW c \in S PROVE c \in Text(R)
    <3>1. PICK i \in DOMAIN A : \E a \in DOMAIN A[i] : c = A[i][a] /\ c > 0
      BY <1>1, <2>2, TextIs
    <3>2. i \in DOMAIN R /\ R[i] = A[i]
      BY <1>4
    <3> QED BY <1>2, <3>1, <3>2, TextIs
  <2>3. ASSUME NEW c \in T PROVE c \in Text(R)
    <3>1. PICK i \in DOMAIN B : \E a \in DOMAIN B[i] : c = B[i][a] /\ c > 0
      BY <1>1, <2>3, TextIs
    <3>2. Len(A) + i \in DOMAIN R /\ R[Len(A) + i] = B[i]
      BY <1>5
    <3> QED BY <1>2, <3>1, <3>2, TextIs
  <2> QED BY <2>1, <2>2, <2>3
<1>8. InOrder(R)
  <2> SUFFICES ASSUME NEW i \in DOMAIN R, NEW j \in DOMAIN R,
                      NEW a \in DOMAIN R[i], NEW b \in DOMAIN R[j]
               PROVE  /\ i = j => R[j][b] + a = R[i][a] + b
                      /\ i < j /\ R[i][a] > 0 /\ R[j][b] > 0 => R[i][a] < R[j][b]
    BY DEF InOrder
  <2>1. CASE i \in DOMAIN A /\ j \in DOMAIN A
    BY <1>1, <1>4, <2>1 DEF InOrder
  <2>2. ASSUME NEW k \in DOMAIN B, NEW l \in DOMAIN B, i = Len(A) + k, j = Len(A) + l
        PROVE  /\ i = j => R[j][b] + a = R[i][a] + b
               /\ i < j /\ R[i][a] > 0 /\ R[j][b] > 0 => R[i][a] < R[j][b]
    <3>1. R[i] = B[k] /\ R[j] = B[l] /\ (i = j <=> k = l) /\ (i < j <=> k < l)
      BY <1>3, <1>5, <2>2
    <3> QED BY <1>1, <3>1 DEF InOrder
  <2>3. ASSUME NEW l \in DOMAIN B, i \in DOMAIN A, j = Len(A) + l
        PROVE  i < j /\ (R[i][a] > 0 /\ R[j][b] > 0 => R[i][a] < R[j][b])
    <3>1. R[i] = A[i] /\ R[j] = B[l] /\ i < j
      BY <1>3, <1>4, <1>5, <2>3
    <3>2. ASSUME R[i][a] > 0, R[j][b] > 0 PROVE R[i][a] \in S /\ R[j][b] \in T
      BY <1>1, <2>3, <3>1, <3>2, TextIs
    <3> QED BY <3>1, <3>2
  <2>4. ASSUME NEW k \in DOMAIN B, j \in DOMAIN A, i = Len(A) + k
        PROVE  ~(i < j) /\ i # j
    BY <1>3, <2>4
  <2> QED BY <1>6, <2>1, <2>2, <2>3, <2>4, <1>3
<1> QED BY <1>2, <1>7, <1>8 DEF Shows, R

\* An unbroken piece of the console; an error page.
Piece(s, k) == [i \in 1 .. k |-> s + i]

LEMMA PieceIs ==
  ASSUME NEW s \in Nat, NEW k \in Nat
  PROVE  /\ Piece(s, k) \in Seq(Nat) /\ Len(Piece(s, k)) = k /\ DOMAIN Piece(s, k) = 1 .. k
         /\ \A i \in 1 .. k : Piece(s, k)[i] = s + i
<1>1. \A i \in 1 .. k : s + i \in Nat
  OBVIOUS
<1> QED BY <1>1 DEF Piece

LEMMA ShowsPiece ==
  ASSUME NEW s \in Nat, NEW k \in Nat
  PROVE  Shows(<<Piece(s, k)>>, s + 1 .. s + k)
<1> DEFINE q == Piece(s, k)
           R == <<q>>
<1>1. /\ q \in Seq(Nat) /\ DOMAIN q = 1 .. k
      /\ \A i \in 1 .. k : q[i] = s + i
  BY PieceIs
<1> HIDE DEF q
<1>2. R \in Seq(Seq(Nat)) /\ DOMAIN R = {1} /\ R[1] = q
  BY <1>1
<1> HIDE DEF R
<1>3. InOrder(R)
  <2> SUFFICES ASSUME NEW a \in 1 .. k, NEW b \in 1 .. k PROVE q[b] + a = q[a] + b
    BY <1>1, <1>2 DEF InOrder
  <2> QED BY <1>1
<1>4. \A c : c \in Text(R) <=> c \in s + 1 .. s + k
  <2>1. ASSUME NEW c \in Text(R) PROVE c \in s + 1 .. s + k
    <3>1. \E a \in 1 .. k : c = q[a]
      BY <1>1, <1>2, TextIs
    <3> QED BY <1>1, <3>1
  <2>2. ASSUME NEW c \in s + 1 .. s + k PROVE c \in Text(R)
    <3>1. c - s \in 1 .. k /\ c > 0 /\ c = s + (c - s)
      OBVIOUS
    <3>2. c = q[c - s] /\ c - s \in DOMAIN q
      BY <1>1, <3>1
    <3> QED BY <1>2, <3>1, <3>2, TextIs
  <2> QED BY <2>1, <2>2
<1> QED BY <1>2, <1>3, <1>4 DEF Shows, R, q

LEMMA ShowsPage == Shows(<<Page>>, {})
<1> DEFINE R == <<Page>>
<1>1. Page \in Seq(Nat) /\ DOMAIN Page = {1} /\ Page[1] = 0
  BY DEF Page
<1>2. R \in Seq(Seq(Nat)) /\ DOMAIN R = {1} /\ R[1] = Page
  BY <1>1
<1> HIDE DEF R
<1>3. InOrder(R)
  BY <1>1, <1>2 DEF InOrder
<1>4. \A c : c \notin Text(R)
  BY <1>1, <1>2, TextIs
<1>5. Text(R) = {}
  BY <1>4
<1> QED BY <1>2, <1>3, <1>5 DEF Shows, R

\* The records up to a cell, when it has been added to those before it.
Added(R, c) ==
    IF console[c] THEN Append(R, <<>>) ELSE [R EXCEPT ![Len(R)] = Append(@, c)]

Splits(f, q, n) == f = [i \in 0 .. n |-> IF i = 0 THEN << <<>> >> ELSE Added(f[i - 1], q[i])]

LEMMA CanSplit ==
  ASSUME NEW q
  PROVE  \A n \in Nat : \E f : Splits(f, q, n)
<1> DEFINE Bad == {n \in Nat : ~\E f : Splits(f, q, n)}
<1> SUFFICES ASSUME Bad # {} PROVE FALSE
  OBVIOUS
<1>1. PICK n \in Bad : \A m \in Bad : n <= m
  BY HasLeast
<1>2. n \in Nat /\ ~\E f : Splits(f, q, n)
  OBVIOUS
<1>3. n # 0
  <2> DEFINE g == [i \in 0 .. 0 |-> << <<>> >>]
  <2>1. g = [i \in 0 .. 0 |-> IF i = 0 THEN << <<>> >> ELSE Added(g[i - 1], q[i])]
    <3>1. ASSUME NEW i \in 0 .. 0 PROVE i = 0
      OBVIOUS
    <3> QED BY <3>1
  <2>2. n = 0 => Splits(g, q, n)
    BY <2>1 DEF Splits
  <2> QED BY <1>2, <2>2
<1>4. n - 1 \in Nat /\ n - 1 \notin Bad
  <2>1. n - 1 \in Nat /\ ~(n <= n - 1)
    BY <1>2, <1>3
  <2> HIDE DEF Bad
  <2> QED BY <1>1, <2>1
<1>5. PICK f : Splits(f, q, n - 1)
  BY <1>4
<1> DEFINE next(i) == IF i = 0 THEN << <<>> >> ELSE Added(f[i - 1], q[i])
           g == [i \in 0 .. n |-> next(i)]
<1>6. ASSUME NEW i \in 0 .. n PROVE g[i] = IF i = 0 THEN << <<>> >> ELSE Added(g[i - 1], q[i])
  <2>1. CASE i = 0
    BY <2>1
  <2>2. CASE i # 0
    <3>1. i - 1 \in 0 .. n - 1 /\ i - 1 \in 0 .. n
      BY <1>2, <2>2
    <3>2. f[i - 1] = next(i - 1)
      BY <1>5, <3>1 DEF Splits
    <3>3. g[i - 1] = next(i - 1)
      BY <3>1
    <3> QED BY <2>2, <3>2, <3>3
  <2> QED BY <2>1, <2>2
<1>7. Splits(g, q, n)
  <2>1. g = [i \in 0 .. n |-> g[i]]
    OBVIOUS
  <2> HIDE DEF g
  <2> QED BY <1>6, <2>1 DEF Splits
<1> QED BY <1>2, <1>7

LEMMA HasMost ==
  ASSUME NEW n \in Nat, NEW some \in SUBSET (1 .. n), some # {}
  PROVE  \E i \in some : \A j \in some : j <= i
<1> DEFINE Back == {d \in 0 .. n : n - d \in some}
<1>1. Back # {}
  <2>1. PICK i \in some : TRUE
    OBVIOUS
  <2>2. n - i \in 0 .. n /\ n - (n - i) = i /\ i \in some
    BY <2>1
  <2>3. n - i \in Back
    BY <2>2
  <2> QED BY <2>3
<1>2. Back \subseteq Nat
  OBVIOUS
<1>3. PICK d \in Back : \A x \in Back : d <= x
  <2> HIDE DEF Back
  <2> QED BY <1>1, <1>2, HasLeast
<1>4. d \in 0 .. n /\ n - d \in some
  OBVIOUS
<1>5. ASSUME NEW j \in some PROVE j <= n - d
  <2>1. n - j \in 0 .. n /\ n - (n - j) = j /\ j \in 1 .. n
    OBVIOUS
  <2>2. n - j \in Back
    BY <2>1
  <2>3. d <= n - j
    <3> HIDE DEF Back
    <3> QED BY <1>3, <2>2
  <2> QED BY <1>4, <2>1, <2>3
<1> QED BY <1>4, <1>5

\* The cells after s up to another that are no break.
Solid(s, n) == {c \in s + 1 .. s + n : ~console[c]}

\* Records that show them, the last of which may be gone on with.
Going(R, s, n) ==
    /\ Shows(R, Solid(s, n)) /\ Len(R) > 0
    /\ R[Len(R)] # <<>> => R[Len(R)][Len(R[Len(R)])] = s + n

LEMMA GoingFirst ==
  ASSUME NEW s \in Nat
  PROVE  Going(<< <<>> >>, s, 0)
<1>1. Shows(<<Piece(s, 0)>>, s + 1 .. s + 0)
  BY ShowsPiece
<1>2. Piece(s, 0) = <<>> /\ s + 1 .. s + 0 = {} /\ Solid(s, 0) = {}
  BY DEF Piece, Solid
<1> DEFINE R == << <<>> >>
<1>3. Len(R) = 1 /\ R[1] = <<>>
  OBVIOUS
<1>4. Shows(R, Solid(s, 0))
  BY <1>1, <1>2
<1> HIDE DEF R
<1>5. Going(R, s, 0)
  BY <1>3, <1>4 DEF Going
<1> QED BY <1>5 DEF R

LEMMA GoingBreak ==
  ASSUME NEW s \in Nat, NEW n \in Nat, NEW R, Going(R, s, n), console[s + n + 1]
  PROVE  Going(Append(R, <<>>), s, n + 1)
<1>1. R \in Seq(Seq(Nat)) /\ Shows(R, Solid(s, n))
  BY DEF Going, Shows
<1>2. Shows(<< <<>> >>, {})
  BY GoingFirst DEF Going, Solid
<1>3. Shows(R \o << <<>> >>, Solid(s, n) \union {})
  BY <1>1, <1>2, ShowsConcat
<1>4. <<>> \in Seq(Nat)
  OBVIOUS
<1>5. /\ Append(R, <<>>) = R \o << <<>> >> /\ Len(Append(R, <<>>)) = Len(R) + 1
      /\ Append(R, <<>>)[Len(R) + 1] = <<>> /\ Len(R) \in Nat
  BY <1>1, <1>4, AppendIsConcat, AppendProperties, LenProperties
<1>6. Solid(s, n + 1) = Solid(s, n)
  <2>1. ASSUME NEW c \in s + 1 .. s + (n + 1), ~console[c] PROVE c \in s + 1 .. s + n
    BY <2>1
  <2> QED BY <2>1 DEF Solid
<1> DEFINE T == Append(R, <<>>)
<1>7. Len(T) = Len(R) + 1 /\ T[Len(R) + 1] = <<>> /\ Len(R) \in Nat
  BY <1>5
<1>8. Shows(T, Solid(s, n + 1))
  <2>1. Solid(s, n) \union {} = Solid(s, n + 1)
    BY <1>6
  <2>2. T = R \o << <<>> >>
    BY <1>5
  <2> QED BY <1>3, <2>1, <2>2
<1> HIDE DEF T
<1>9. Len(T) > 0 /\ T[Len(T)] = <<>>
  BY <1>7
<1>10. Going(T, s, n + 1)
  BY <1>8, <1>9 DEF Going
<1> QED BY <1>10 DEF T

LEMMA GoingCell ==
  ASSUME NEW s \in Nat, NEW n \in Nat, NEW R, Going(R, s, n), ~console[s + n + 1]
  PROVE  Going([R EXCEPT ![Len(R)] = Append(@, s + n + 1)], s, n + 1)
<1> DEFINE m == Len(R)
           L == R[m]
           c == s + n + 1
           K == Append(L, c)
           T == [R EXCEPT ![m] = K]
<1>1. /\ R \in Seq(Seq(Nat)) /\ InOrder(R) /\ Text(R) = Solid(s, n)
      /\ m \in Nat /\ m \in 1 .. m /\ DOMAIN R = 1 .. m
      /\ L # <<>> => L[Len(L)] = s + n
  <2>1. R \in Seq(Seq(Nat)) /\ m > 0
    BY DEF Going, Shows
  <2>2. m \in Nat /\ DOMAIN R = 1 .. m
    BY <2>1, LenProperties
  <2> QED BY <2>1, <2>2 DEF Going, Shows
<1>b. m = Len(R)
  OBVIOUS
<1> HIDE DEF m
<1>2. L \in Seq(Nat) /\ Len(L) \in Nat /\ DOMAIN L = 1 .. Len(L)
  BY <1>1, <1>b, ElementOfSeq, LenProperties
<1> HIDE DEF L
<1>3. /\ K \in Seq(Nat) /\ Len(K) = Len(L) + 1 /\ K[Len(L) + 1] = c
      /\ \A i \in 1 .. Len(L) : K[i] = L[i]
      /\ DOMAIN K = 1 .. Len(L) + 1
  <2>1. c \in Nat
    OBVIOUS
  <2> QED BY <1>2, <2>1, AppendProperties, LenProperties
<1> HIDE DEF K
<1>4. /\ T \in Seq(Seq(Nat)) /\ Len(T) = m /\ DOMAIN T = 1 .. m
      /\ \A j \in 1 .. m : T[j] = IF j = m THEN K ELSE R[j]
  BY <1>1, <1>3, <1>b, ExceptSeq, LenProperties
<1> HIDE DEF T
<1>a. T[m] = K /\ (\A j \in 1 .. m : j # m => T[j] = R[j]) /\ m > 0
  BY <1>1, <1>4
<1>5. ASSUME NEW i \in 1 .. m, NEW a \in DOMAIN R[i], R[i][a] > 0 PROVE R[i][a] \in Solid(s, n)
  BY <1>1, <1>5, TextIs
<1>6. ASSUME NEW i \in 1 .. m, NEW a \in DOMAIN R[i], R[i][a] > 0 PROVE R[i][a] < c
  BY <1>5, <1>6 DEF Solid
<1>7. ASSUME NEW a \in 1 .. Len(L), NEW b \in 1 .. Len(L) PROVE L[b] + a = L[a] + b
  <2>1. m \in DOMAIN R /\ a \in DOMAIN R[m] /\ b \in DOMAIN R[m]
    BY <1>1, <1>2 DEF L
  <2>2. R[m][b] + a = R[m][a] + b
    BY <1>1, <2>1 DEF InOrder
  <2> QED BY <2>2 DEF L
<1>8. ASSUME NEW a \in 1 .. Len(L) PROVE c + a = L[a] + (Len(L) + 1)
  <2>1. L # <<>>
    BY <1>2
  <2>2. Len(L) \in 1 .. Len(L) /\ L[Len(L)] = s + n
    BY <1>1, <1>2, <2>1
  <2>3. L[Len(L)] + a = L[a] + Len(L) /\ L[a] \in Nat
    BY <1>2, <1>7, <2>2, ElementOfSeq
  <2> QED BY <1>2, <2>2, <2>3
<1>9. ASSUME NEW a \in 1 .. Len(L) + 1, NEW b \in 1 .. Len(L) + 1 PROVE K[b] + a = K[a] + b
  <2>1. CASE a <= Len(L) /\ b <= Len(L)
    <3>1. a \in 1 .. Len(L) /\ b \in 1 .. Len(L)
      BY <1>2, <2>1
    <3> QED BY <1>3, <1>7, <3>1
  <2>2. CASE a <= Len(L) /\ b = Len(L) + 1
    <3>1. a \in 1 .. Len(L)
      BY <1>2, <2>2
    <3> QED BY <1>3, <1>8, <2>2, <3>1
  <2>3. CASE a = Len(L) + 1 /\ b <= Len(L)
    <3>1. b \in 1 .. Len(L)
      BY <1>2, <2>3
    <3> QED BY <1>3, <1>8, <2>3, <3>1
  <2>4. CASE a = Len(L) + 1 /\ b = Len(L) + 1
    BY <2>4
  <2> QED BY <1>2, <2>1, <2>2, <2>3, <2>4
<1>10. InOrder(T)
  <2> SUFFICES ASSUME NEW i \in 1 .. m, NEW j \in 1 .. m, NEW a \in DOMAIN T[i], NEW b \in DOMAIN T[j]
               PROVE  /\ i = j => T[j][b] + a = T[i][a] + b
                      /\ i < j /\ T[i][a] > 0 /\ T[j][b] > 0 => T[i][a] < T[j][b]
    BY <1>4 DEF InOrder
  <2>1. CASE i # m /\ j # m
    <3>1. T[i] = R[i] /\ T[j] = R[j]
      BY <1>a, <2>1
    <3>2. i \in DOMAIN R /\ j \in DOMAIN R /\ a \in DOMAIN R[i] /\ b \in DOMAIN R[j]
      BY <1>1, <3>1
    <3>3. /\ i = j => R[j][b] + a = R[i][a] + b
          /\ i < j /\ R[i][a] > 0 /\ R[j][b] > 0 => R[i][a] < R[j][b]
      BY <1>1, <3>2 DEF InOrder
    <3> QED BY <3>1, <3>3
  <2>2. CASE i = m
    <3>1. ~(i < j) /\ T[i] = K
      BY <1>1, <1>a, <2>2
    <3>2. ASSUME i = j PROVE T[j][b] + a = T[i][a] + b
      BY <1>3, <1>9, <3>1, <3>2
    <3> QED BY <3>1, <3>2
  <2>3. CASE i # m /\ j = m
    <3>1. i < j /\ T[i] = R[i] /\ T[j] = K
      BY <1>1, <1>a, <2>3
    <3>2. CASE b \in 1 .. Len(L)
      <4>1. K[b] = L[b] /\ b \in DOMAIN L
        BY <1>2, <1>3, <3>2
      <4> QED BY <1>1, <2>3, <3>1, <4>1 DEF InOrder, L
    <3>3. CASE b = Len(L) + 1
      BY <1>3, <1>6, <3>1, <3>3
    <3> QED BY <1>2, <1>3, <3>1, <3>2, <3>3
  <2> QED BY <2>1, <2>2, <2>3
<1>11. \A x : x \in Text(T) <=> x \in Solid(s, n + 1)
  <2>1. ASSUME NEW x \in Text(T) PROVE x \in Solid(s, n + 1)
    <3>0. \E i \in DOMAIN T : \E a \in DOMAIN T[i] : x = T[i][a] /\ x > 0
      BY <1>4, <2>1, TextIs
    <3>1. PICK i \in 1 .. m : \E a \in DOMAIN T[i] : x = T[i][a] /\ x > 0
      BY <1>4, <3>0
    <3>2. x = c \/ x \in Solid(s, n)
      <4>1. CASE i = m
        <5>1. PICK a \in 1 .. Len(L) + 1 : x = K[a] /\ x > 0
          BY <1>3, <1>4, <3>1, <4>1
        <5>2. CASE a \in 1 .. Len(L)
          BY <1>1, <1>2, <1>3, <1>5, <5>1, <5>2 DEF L
        <5>3. CASE a = Len(L) + 1
          BY <1>3, <5>1, <5>3
        <5> QED BY <1>2, <5>2, <5>3
      <4>2. CASE i # m
        BY <1>4, <1>5, <3>1, <4>2
      <4> QED BY <4>1, <4>2
    <3>3. c \in s + 1 .. s + (n + 1) /\ \A y \in s + 1 .. s + n : y \in s + 1 .. s + (n + 1)
      OBVIOUS
    <3> QED BY <3>2, <3>3 DEF Solid
  <2>2. ASSUME NEW x \in Solid(s, n + 1) PROVE x \in Text(T)
    <3>1. x \in s + 1 .. s + (n + 1) /\ ~console[x] /\ x > 0
      BY DEF Solid
    <3>2. CASE x = c
      <4>1. m \in 1 .. m /\ Len(L) + 1 \in DOMAIN K /\ T[m] = K /\ K[Len(L) + 1] = x
        BY <1>1, <1>2, <1>3, <1>a, <3>2
      <4> QED BY <1>4, <3>1, <4>1, TextIs
    <3>3. CASE x # c
      <4>1. x \in Text(R)
        <5>1. x \in s + 1 .. s + n
          BY <3>1, <3>3
        <5> QED BY <1>1, <3>1, <5>1 DEF Solid
      <4>2. PICK i \in 1 .. m : \E a \in DOMAIN R[i] : x = R[i][a] /\ x > 0
        BY <1>1, <4>1, TextIs
      <4>3. CASE i = m
        <5>1. PICK a \in 1 .. Len(L) : x = L[a]
          BY <1>2, <4>2, <4>3 DEF L
        <5>2. a \in DOMAIN K /\ K[a] = x /\ T[m] = K
          BY <1>1, <1>2, <1>3, <1>a, <5>1
        <5> QED BY <1>1, <1>4, <3>1, <5>2, TextIs
      <4>4. CASE i # m
        BY <1>4, <4>2, <4>4, TextIs
      <4> QED BY <4>3, <4>4
    <3> QED BY <3>2, <3>3
  <2> QED BY <2>1, <2>2
<1>12. Shows(T, Solid(s, n + 1))
  BY <1>4, <1>10, <1>11 DEF Shows
<1>13. Len(T) > 0 /\ T[Len(T)] = K /\ K[Len(K)] = s + (n + 1)
  <2>1. Len(T) = m /\ m > 0
    BY <1>4, <1>a
  <2>2. K[Len(K)] = c /\ c = s + (n + 1)
    BY <1>2, <1>3
  <2> QED BY <1>a, <2>1, <2>2
<1>14. Going(T, s, n + 1)
  BY <1>12, <1>13 DEF Going
<1> QED BY <1>14 DEF T, K, L, m

\* A chunk is shown from its first cell to its last that is no break.
LEMMA LinesShow ==
  ASSUME NEW s \in Nat, NEW k \in Nat, s + k <= Len(console), console \in Seq(Breaks)
  PROVE  Shows(Lines(Piece(s, k)), Solid(s, k))
<1> DEFINE q     == Piece(s, k)
           solid == {i \in DOMAIN q : ~console[q[i]]}
           e     == IF solid = {} THEN 0 ELSE CHOOSE i \in solid : \A j \in solid : j <= i
           f     == CHOOSE f : Splits(f, q, e)
<1>1. /\ q \in Seq(Nat) /\ DOMAIN q = 1 .. k
      /\ \A i \in 1 .. k : q[i] = s + i
  BY PieceIs
<1>2. Lines(q) = f[e]
  BY DEF Lines, Splits, Added
<1> HIDE DEF q
<1>3. solid \in SUBSET (1 .. k)
  BY <1>1
<1>4. e \in 0 .. k /\ \A i \in solid : i <= e
  <2>1. CASE solid = {}
    BY <2>1
  <2>2. CASE solid # {}
    <3> DEFINE x == solid
    <3>1. e = CHOOSE i \in x : \A j \in x : j <= i
      BY <2>2
    <3>2. x \in SUBSET (1 .. k) /\ x # {}
      BY <1>3, <2>2
    <3> HIDE DEF x, e
    <3>3. \E i \in x : \A j \in x : j <= i
      BY <3>2, HasMost
    <3>4. e \in x /\ \A j \in x : j <= e
      BY <3>1, <3>3
    <3>5. e \in 0 .. k
      BY <3>2, <3>4
    <3> QED BY <3>4, <3>5 DEF x
  <2> QED BY <2>1, <2>2
<1> HIDE DEF e
<1>5. \A i \in 1 .. k : i > e => console[s + i]
  <2> SUFFICES ASSUME NEW i \in 1 .. k, i > e, ~console[s + i] PROVE FALSE
    OBVIOUS
  <2>1. i \in solid
    BY <1>1
  <2> QED BY <1>4, <2>1
<1>6. Splits(f, q, e)
  <2>1. e \in Nat
    BY <1>4
  <2> QED BY <2>1, CanSplit
<1> HIDE DEF f
<1>7. \A i \in 0 .. e : f[i] = IF i = 0 THEN << <<>> >> ELSE Added(f[i - 1], q[i])
  BY <1>6, Zenon DEF Splits
<1> DEFINE Bad == {i \in 0 .. e : ~Going(f[i], s, i)}
<1>8. Bad = {}
  <2> SUFFICES ASSUME Bad # {} PROVE FALSE
    OBVIOUS
  <2>1. Bad \subseteq Nat
    BY <1>4
  <2>2. PICK i \in Bad : \A j \in Bad : i <= j
    <3> HIDE DEF Bad
    <3> QED BY <2>1, HasLeast
  <2>3. i \in 0 .. e /\ i \in Nat /\ ~Going(f[i], s, i)
    BY <1>4
  <2>4. i # 0
    <3>1. 0 \in 0 .. e
      BY <1>4
    <3>2. f[0] = << <<>> >>
      BY <1>7, <3>1
    <3> QED BY <2>3, <3>2, GoingFirst
  <2>5. i - 1 \in 0 .. e /\ i - 1 \in Nat /\ ~(i <= i - 1) /\ i \in 1 .. k
    BY <1>4, <2>3, <2>4
  <2>6. Going(f[i - 1], s, i - 1)
    BY <2>2, <2>5
  <2>7. f[i] = Added(f[i - 1], q[i]) /\ q[i] = s + i /\ s + i = s + (i - 1) + 1 /\ i = (i - 1) + 1
    BY <1>1, <1>7, <2>3, <2>4, <2>5
  <2> DEFINE h == i - 1
             R == f[h]
  <2>8. h \in Nat /\ Going(R, s, h) /\ f[i] = Added(R, s + h + 1) /\ i = h + 1
    BY <2>5, <2>6, <2>7
  <2> HIDE DEF R, h
  <2>9. CASE console[s + h + 1]
    <3>1. Going(Append(R, <<>>), s, h + 1)
      BY <2>8, <2>9, GoingBreak
    <3> QED BY <2>3, <2>8, <2>9, <3>1 DEF Added
  <2>10. CASE ~console[s + h + 1]
    <3>1. Going([R EXCEPT ![Len(R)] = Append(@, s + h + 1)], s, h + 1)
      BY <2>8, <2>10, GoingCell
    <3> QED BY <2>3, <2>8, <2>10, <3>1 DEF Added
  <2> QED BY <2>9, <2>10
<1>9. Going(f[e], s, e)
  <2>1. e \in 0 .. e /\ e \notin Bad
    BY <1>4, <1>8
  <2> QED BY <2>1
<1>10. Solid(s, e) = Solid(s, k)
  <2>1. ASSUME NEW c \in s + 1 .. s + k, ~console[c] PROVE c \in s + 1 .. s + e
    <3>1. c - s \in 1 .. k /\ s + (c - s) = c
      OBVIOUS
    <3>2. ~(c - s > e)
      BY <1>5, <2>1, <3>1
    <3> QED BY <1>4, <3>1, <3>2
  <2>2. s + 1 .. s + e \subseteq s + 1 .. s + k
    BY <1>4
  <2> QED BY <2>1, <2>2 DEF Solid
<1> QED BY <1>2, <1>9, <1>10 DEF Going, q

\* What has been printed, and how far a follow has come.
Printed ==
    /\ printed \in Seq(Seq(Nat)) /\ count \in Nat
    /\ pages # 0 => spot = "over"
    /\ pages <= start
    /\ TextShown

LEMMA ConsoleInit_Printed == ConsoleInit => Printed
<1> SUFFICES ASSUME ConsoleInit PROVE Printed
  OBVIOUS
<1>1. console = <<>> /\ start = 0 /\ pages = 0 /\ printed = <<>> /\ count = 0
  BY DEF ConsoleInit
<1>2. Shows(printed, {})
  BY <1>1, ShowsNothing
<1>3. 1 .. start - pages = {} /\ 1 .. 0 = {} /\ Len(printed) = 0 /\ Len(console) = 0
  BY <1>1
<1>4. TextShown
  <2>1. 0 \in 0 .. Len(console)
    BY <1>3
  <2> QED BY <1>1, <1>2, <1>3, <2>1 DEF TextShown, Shows
<1> QED BY <1>1, <1>2, <1>4 DEF Printed, Shows

LEMMA PrintedRests ==
  ASSUME Printed, UNCHANGED <<console, want, start, count, printed, pages>>,
         spot = "over" => spot' = "over"
  PROVE  Printed'
<1>1. TextShown'
  BY DEF Printed, TextShown, InOrder, Text
<1> QED BY <1>1 DEF Printed

\* The cells that a follow shows of those up to an offset.
Wanted(s, n) == {c \in s + 1 .. s + n : want.raw \/ ~console[c]}

LEMMA ShowKeeps ==
  ASSUME Printed, Within, want.follow, pages = 0, NEW upto \in start .. Len(console),
         Show(Chunk(upto)), start' = upto, UNCHANGED <<console, want, pages>>
  PROVE  Printed'
<1> DEFINE k == upto - start
           cells == Chunk(upto)
           new == IF cells = <<>> THEN <<>> ELSE IF want.raw THEN <<cells>> ELSE Lines(cells)
<1>1. /\ start \in Nat /\ k \in Nat /\ start + k = upto /\ start + k <= Len(console)
      /\ Len(console) \in Nat /\ console \in Seq(Breaks)
  <2>1. start \in Nat /\ console \in Seq(Breaks) /\ Len(console) \in Nat
    BY LenProperties DEF Within
  <2> QED BY <2>1
<1>2. cells = Piece(start, k)
  BY DEF Chunk, Piece
<1>3. /\ printed' = printed \o new
      /\ count' = IF want.raw THEN count ELSE count + Len(new)
  BY DEF Show
<1>4. Shows(new, Wanted(start, k))
  <2>1. CASE cells = <<>>
    <3>1. k = 0
      <4>1. Len(Piece(start, k)) = k
        BY <1>1, PieceIs
      <4>2. Len(<<>>) = 0
        OBVIOUS
      <4> QED BY <1>2, <2>1, <4>1, <4>2, Zenon
    <3>2. Wanted(start, k) = {}
      BY <1>1, <3>1 DEF Wanted
    <3> QED BY <2>1, <3>2, ShowsNothing
  <2>2. CASE cells # <<>> /\ want.raw
    <3>1. Wanted(start, k) = start + 1 .. start + k
      BY <2>2 DEF Wanted
    <3> QED BY <1>1, <1>2, <2>2, <3>1, ShowsPiece
  <2>3. CASE cells # <<>> /\ ~want.raw
    <3>1. Wanted(start, k) = Solid(start, k)
      BY <2>3 DEF Wanted, Solid
    <3> QED BY <1>1, <1>2, <2>3, <3>1, LinesShow
  <2> QED BY <2>1, <2>2, <2>3
<1>5. Shows(printed, Wanted(0, start))
  <2>1. Text(printed) = {c \in 1 .. start - pages : want.raw \/ ~console[c]}
    BY DEF Printed, TextShown
  <2>2. 1 .. start - pages = 0 + 1 .. 0 + start
    BY <1>1
  <2>3. Text(printed) = Wanted(0, start)
    BY <2>1, <2>2 DEF Wanted
  <2> QED BY <2>3 DEF Printed, TextShown, Shows
<1> HIDE DEF k, cells, new
<1>6. Shows(printed \o new, Wanted(0, start) \union Wanted(start, k))
  <2>1. \A c \in Wanted(0, start), d \in Wanted(start, k) : c < d
    BY <1>1 DEF Wanted
  <2> QED BY <1>4, <1>5, <2>1, ShowsConcat
<1>7. Wanted(0, start) \union Wanted(start, k) = {c \in 1 .. upto : want.raw \/ ~console[c]}
  <2>1. 1 .. upto = (0 + 1 .. 0 + start) \union (start + 1 .. start + k)
    BY <1>1
  <2> QED BY <2>1 DEF Wanted
<1>8. printed' \in Seq(Seq(Nat)) /\ InOrder(printed') /\ Text(printed') = Text(printed)'
      /\ Text(printed') = {c \in 1 .. upto : want.raw \/ ~console[c]}
  BY <1>3, <1>6, <1>7 DEF Shows, Text
<1>9. /\ count' \in Nat
      /\ want.raw \/ (count = Len(printed) => count' = Len(printed'))
  <2>1. new \in Seq(Seq(Nat)) /\ printed \in Seq(Seq(Nat)) /\ count \in Nat
    BY <1>4 DEF Shows, Printed
  <2>2. Len(printed') = Len(printed) + Len(new) /\ Len(new) \in Nat
    BY <1>3, <2>1, ConcatProperties, LenProperties
  <2>3. CASE want.raw
    BY <1>3, <2>1, <2>3
  <2>4. CASE ~want.raw
    <3>1. count' = count + Len(new)
      BY <1>3, <2>4
    <3> QED BY <2>1, <2>2, <3>1
  <2> QED BY <2>3, <2>4
<1>10. TextShown'
  <2>1. InOrder(printed)'
    BY <1>8 DEF InOrder
  <2>2. Text(printed)' = {c \in 1 .. start' - pages' : want'.raw \/ ~console'[c]}
    <3>1. start' - pages' = upto
      BY <1>1
    <3> QED BY <1>8, <3>1
  <2>3. want.raw \/ count = Len(printed)
    BY DEF Printed, TextShown
  <2> QED BY <1>9, <2>1, <2>2, <2>3 DEF TextShown
<1> QED BY <1>1, <1>8, <1>9, <1>10 DEF Printed

LEMMA ConsoleNext_Printed ==
  ASSUME Printed, ConsoleTyped, Ending, [ConsoleNext]_logvars
  PROVE  Printed'
<1>1. /\ console \in Seq(Breaks) /\ Len(console) \in Nat /\ start \in Nat /\ pages \in Nat
      /\ start - pages <= Len(console) /\ start - pages \in Nat /\ Within
  <2>1. console \in Seq(Breaks) /\ start \in Nat /\ pages \in Nat /\ start <= Len(console) + pages
    BY DEF ConsoleTyped, Within
  <2>2. Len(console) \in Nat /\ pages <= start
    BY <2>1, LenProperties DEF Printed
  <2>3. start - pages <= Len(console) /\ start - pages \in Nat
    BY <2>1, <2>2
  <2> QED BY <2>1, <2>2, <2>3 DEF ConsoleTyped
<1>2. CASE BuildPrints
  <2>1. PICK break \in Breaks : console' = Append(console, break)
    BY <1>2, Zenon DEF BuildPrints, Breaks
  <2>2. /\ Len(console') = Len(console) + 1
        /\ \A c \in 1 .. Len(console) : console'[c] = console[c]
    BY <1>1, <2>1, AppendProperties
  <2>3. UNCHANGED <<want, spot, start, count, printed, pages>>
    BY <1>2 DEF BuildPrints
  <2>4. \A c \in 1 .. start - pages : c \in 1 .. Len(console)
    BY <1>1
  <2>5. {c \in 1 .. start - pages : want.raw \/ ~console[c]}
          = {c \in 1 .. start' - pages' : want'.raw \/ ~console'[c]}
    BY <2>2, <2>3, <2>4
  <2>6. \A n \in 0 .. Len(console) : n \in 0 .. Len(console')
    BY <1>1, <2>2
  <2>7. InOrder(printed)' /\ Text(printed)' = Text(printed)
    BY <2>3 DEF Printed, TextShown, InOrder, Text
  <2>8. TextShown'
    BY <2>3, <2>5, <2>6, <2>7 DEF Printed, TextShown
  <2> QED BY <2>3, <2>8 DEF Printed
<1>3. CASE BuildOver \/ LogTarget \/ LastBuild \/ LogPause \/ LogKilled
  BY <1>3, PrintedRests DEF BuildOver, LogTarget, LastBuild, LogPause, LogKilled, jenkinslog
<1>4. CASE LogRefused
  BY <1>4, PrintedRests DEF LogRefused, LogEnds, LogGoto, jenkinslog
<1>5. CASE UNCHANGED logvars
  BY <1>5, PrintedRests DEF logvars
<1>6. CASE Whole
  <2>1. /\ spot = "whole" /\ spot' = "over" /\ printed' = << [i \in DOMAIN console |-> i] >>
        /\ UNCHANGED <<console, want, start, count, pages>>
    BY <1>6 DEF Whole, LogEnds, LogGoto, jenkinslog
  <2>2. ~want.follow
    BY <2>1 DEF Ending
  <2>3. [i \in DOMAIN console |-> i] = Piece(0, Len(console))
    <3>1. DOMAIN console = 1 .. Len(console) /\ \A i \in 1 .. Len(console) : 0 + i = i
      BY <1>1, LenProperties
    <3> QED BY <3>1 DEF Piece
  <2>4. Shows(printed', 0 + 1 .. 0 + Len(console))
    BY <1>1, <2>1, <2>3, ShowsPiece
  <2>5. 0 + 1 .. 0 + Len(console) = 1 .. Len(console) /\ Len(console) \in 0 .. Len(console')
    BY <1>1, <2>1
  <2>6. /\ printed' \in Seq(Seq(Nat)) /\ InOrder(printed)' /\ Text(printed)' = 1 .. Len(console)
    BY <2>4, <2>5 DEF Shows, InOrder, Text
  <2>7. TextShown'
    BY <2>1, <2>2, <2>5, <2>6 DEF TextShown
  <2> QED BY <2>1, <2>6, <2>7 DEF Printed
<1>7. CASE Follow \/ FollowCut
  <2>1. /\ spot = "chunk" /\ UNCHANGED <<console, want, pages>>
        /\ \E upto \in start .. Len(console) : Show(Chunk(upto)) /\ start' = upto
    <3>1. CASE Follow
      <4>0. pages = 0
        BY <3>1 DEF Follow, Printed
      <4>1. Len(console) \in start .. Len(console)
        BY <1>1, <4>0
      <4> QED BY <3>1, <4>1 DEF Follow, jenkinslog
    <3>2. CASE FollowCut
      <4>1. \A u \in start .. Len(console) - 1 : u \in start .. Len(console)
        BY <1>1
      <4> QED BY <3>2, <4>1 DEF FollowCut, jenkinslog
    <3> QED BY <1>7, <3>1, <3>2
  <2>2. want.follow /\ pages = 0
    BY <2>1 DEF Ending, Printed
  <2> QED BY <1>1, <2>1, <2>2, ShowKeeps
<1>8. CASE FollowPage
  <2>1. /\ spot = "chunk" /\ UNCHANGED <<console, want>> /\ printed' = Append(printed, Page)
        /\ count' = IF want.raw THEN count ELSE count + 1
        /\ start' = start + 1 /\ pages' = pages + 1 /\ spot' = "over"
    BY <1>8 DEF FollowPage, OnOrEnd, LogEnds, LogGoto, jenkinslog
  <2>2. want.follow /\ printed \in Seq(Seq(Nat)) /\ count \in Nat
    BY <2>1 DEF Ending, Printed
  <2>3. Page \in Seq(Nat)
    BY DEF Page
  <2>4. printed' = printed \o <<Page>> /\ Len(printed') = Len(printed) + 1
    BY <2>1, <2>2, <2>3, AppendIsConcat, AppendProperties
  <2>5. Shows(printed, Text(printed))
    BY DEF Printed, TextShown, Shows
  <2>6. Shows(printed', Text(printed) \union {})
    BY <2>4, <2>5, ShowsPage, ShowsConcat
  <2>7. /\ printed' \in Seq(Seq(Nat)) /\ InOrder(printed)' /\ Text(printed)' = Text(printed)
    BY <2>6 DEF Shows, InOrder, Text
  <2>8. start' - pages' = start - pages /\ count' \in Nat /\ pages' <= start'
    BY <1>1, <2>1, <2>2
  <2>9. want.raw \/ count' = Len(printed')
    BY <2>1, <2>2, <2>4 DEF Printed, TextShown
  <2>10. TextShown'
    BY <2>1, <2>2, <2>7, <2>8, <2>9 DEF Printed, TextShown
  <2> QED BY <2>1, <2>7, <2>8, <2>10 DEF Printed
<1> QED BY <1>2, <1>3, <1>4, <1>5, <1>6, <1>7, <1>8 DEF ConsoleNext, LogStep

\* `jcli log` shows the console: its pieces in order, nothing twice, nothing left
\* out before the offset, no record longer than a line, however chunks fall and
\* break off; to its end if it ends well; and one line of the audit log says how
\* it ended (console.go, log.go).
THEOREM ConsoleIsShown == JcliSpec => []ConsoleTrue
<1>1. ConsoleInit => Printed /\ Ending /\ FollowComplete /\ cutoffs \in Nat
  BY ConsoleInit_Printed, ConsoleInit_Inv
<1>2. ConsoleTyped /\ Printed /\ Ending /\ FollowComplete /\ cutoffs \in Nat /\ [ConsoleNext]_logvars
        => (Printed /\ Ending /\ FollowComplete /\ cutoffs \in Nat)'
  BY ConsoleNext_Printed, ConsoleStep_Inv DEF ConsoleInv
<1>3. Printed /\ FollowComplete /\ EndIsTold => ConsoleTrue
  BY DEF Printed, ConsoleTrue
<1> QED BY <1>1, <1>2, <1>3, FollowShowsAll, ConsoleTypes, JcliParts, PTL DEF ConsoleSpec

-----------------------------------------------------------------------------
(* jcli *)

\* Whatever the order of syncs, kills and readers: the jobs cache is whole unless
\* syncs overlapped or one was cut short, and a reader that finds it whole finds
\* jobs that Jenkins listed (cache.go).
THEOREM CacheStaysTrue == JcliSpec => []CacheTrue
BY JcliParts, CacheInvariant, CacheShown, PTL

\* Every variable of jcli has its type.
THEOREM JcliTypeCorrect == JcliSpec => []JcliTypeOK
<1>1. TypeOK /\ CacheInv /\ ConsoleTyped => JcliTypeOK
  <2> SUFFICES ASSUME TypeOK, CacheInv, ConsoleTyped PROVE JcliTypeOK
    OBVIOUS
  <2>1. /\ at \in [Clis -> CachePlaces] /\ (disk # <<>> => there)
        /\ \A c \in Clis : at[c] # "over" <=> result[c] = Pending
    BY Zenon DEF CacheInv, CacheTyped, Judged
  <2>2. /\ spot \in {"start", "last", "whole", "chunk", "pause", "over", "killed"}
        /\ closed \in {"", "end", "data", "error"} /\ start <= Len(console) + pages
    BY Zenon DEF ConsoleTyped, Within
  <2> QED BY <2>1, <2>2, Zenon DEF JcliTypeOK, CachePlaces
<1>2. JcliSpec => []TypeOK
  BY JcliBuilds, PTL
<1> QED BY <1>1, <1>2, JcliParts, CacheInvariant, ConsoleTypes, PTL
===============================================================================
