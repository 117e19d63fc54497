------------------------------ MODULE TcliProofs ------------------------------
(***************************************************************************)
(* What holds of tcli for any number of case files, actions and retries.   *)
(*                                                                         *)
(* The invariant counts: the cases that ended against the files that were  *)
(* read (Counted), the actions of a case that have a result against those  *)
(* it has (Progress, Acting), and relates both to the first failure.       *)
(***************************************************************************)
EXTENDS TcliRun, TLAPS

Busy == {"attempt", "discover", "child", "sleep", "needle", "assert", "reject"}

\* Between two cases nothing of a case is left.
Blank ==
    pc \in {"file", "done", "killed"} =>
        /\ plan = Zero /\ ran = Zero /\ good = Zero
        /\ phase = "setup" /\ first = "none"
        /\ ~has /\ ~taken /\ ~missed

\* A case that ended is one of the files read, the current one is not.
Counted ==
    /\ Cases <= file
    /\ pc \in {"next"} \union Busy => Cases < file
    /\ pc \in {"file", "next"} \union Busy => exit = 0 /\ report = "none"
    /\ pc = "done" /\ exit = 0 => report = "data" /\ Cases > 0 /\ verdicts["PASS"] = Cases

\* How far the phases are: those to come have not begun, those behind are
\* complete unless something failed.
Progress ==
    /\ \A p \in Phases : good[p] <= ran[p] /\ ran[p] <= plan[p]
    /\ \A p \in Main : ran[p] <= good[p] + 1
    /\ first = "none" <=> \A p \in Main : good[p] = ran[p]
    /\ phase = "setup" => ran["steps"] = 0 /\ ran["assertions"] = 0 /\ ran["cleanup"] = 0
    /\ phase = "steps" => good["setup"] = plan["setup"] /\ ran["assertions"] = 0 /\ ran["cleanup"] = 0
    /\ phase = "assertions" =>
         good["setup"] = plan["setup"] /\ good["steps"] = plan["steps"] /\ ran["cleanup"] = 0
    /\ phase = "cleanup" /\ first = "none" => \A p \in Main : good[p] = plan[p]
    /\ good["setup"] < ran["setup"] => ran["steps"] = 0 /\ ran["assertions"] = 0
    /\ good["steps"] < ran["steps"] => ran["assertions"] = 0

\* An action that runs is due; a value that was captured is still there.
Acting ==
    /\ pc \in Busy => ~PhaseOver
    /\ taken => has
    /\ ~missed

TcliInv == TypeOK /\ Blank /\ Counted /\ Progress /\ Acting

LEMMA TcliInit_Inv == Init => TcliInv
<1> SUFFICES ASSUME Init PROVE TcliInv
  OBVIOUS
<1> USE TcliAssumption
<1>1. TypeOK
  <2>1. files \in 0 .. MaxFiles + 1 /\ file \in 0 .. files
    BY DEF Init
  <2>2. verdicts \in [Verdicts -> 0 .. files]
    BY <2>1 DEF Init
  <2>3. Zero \in [Phases -> 0 .. MaxActions] /\ phase \in Phases
    BY DEF Init, Zero, Phases, Main
  <2>4. act \in Actions
    BY DEF Init, NoAction, Actions, Kinds
  <2>5. left \in 0 .. MaxWait /\ exit \in 0 .. 2
    BY DEF Init
  <2>6. {taken, missed} \subseteq BOOLEAN
    BY Zenon DEF Init
  <2> QED BY <2>1, <2>2, <2>3, <2>4, <2>5, <2>6 DEF Init, TypeOK
<1>2. Blank
  BY DEF Init, Blank
<1>3. Counted
  BY DEF Init, Counted, Cases, Verdicts, Busy
<1>4. Progress
  BY DEF Init, Progress, Zero, Phases, Main
<1>5. Acting
  BY DEF Init, Acting, Busy
<1> QED BY <1>1, <1>2, <1>3, <1>4, <1>5 DEF TcliInv

\* An action that was due got its result.
LEMMA ResultKeeps ==
  ASSUME TcliInv, pc \in Busy, NEW c \in Categories \union {"none"}, Result(c),
         UNCHANGED suite, has' \in BOOLEAN, taken' \in BOOLEAN, taken' => has',
         missed' = FALSE
  PROVE  TcliInv'
<1> USE TcliAssumption
<1>t. TypeOK /\ UNCHANGED <<dir, files, file, verdicts, exit, report, plan, allow, phase>>
  BY DEF TcliInv, Result, suite
<1>1. phase \in Phases /\ ran[phase] \in Nat /\ plan[phase] \in 0 .. MaxActions
      /\ good[phase] \in Nat /\ good[phase] <= ran[phase] /\ ran[phase] < plan[phase]
      /\ (phase # "cleanup" => good[phase] = ran[phase])
  BY DEF TcliInv, TypeOK, Progress, Acting, PhaseOver
<1>2. /\ ran'[phase] = ran[phase] + 1
      /\ good'[phase] = IF c = "none" THEN good[phase] + 1 ELSE good[phase]
      /\ \A p \in Phases \ {phase} : ran'[p] = ran[p] /\ good'[p] = good[p]
      /\ first' = IF phase # "cleanup" /\ first = "none" THEN c ELSE first
      /\ pc' = "next"
  BY <1>t, <1>1 DEF Result, TypeOK
<1>3. TypeOK'
  <2>1. ran' \in [Phases -> 0 .. MaxActions] /\ good' \in [Phases -> 0 .. MaxActions]
    BY <1>t, <1>1 DEF Result, TypeOK
  <2>2. act' \in Actions /\ left' \in 0 .. MaxWait
    BY DEF Result, NoAction, Actions, Kinds
  <2>3. first' \in Categories \union {"none"}
    BY <1>t, <1>2 DEF TypeOK
  <2>4. {taken, missed}' \subseteq BOOLEAN
    OBVIOUS
  <2> QED BY <1>t, <1>2, <2>1, <2>2, <2>3, <2>4 DEF TypeOK
<1>4. Blank'
  BY <1>2 DEF Blank
<1>5. Counted'
  BY <1>t, <1>2 DEF TcliInv, Counted, Cases
<1>6. Progress'
  <2> USE <1>t, <1>1, <1>2 DEF Main, Phases
  <2>1. \A p \in Phases : good'[p] <= ran'[p] /\ ran'[p] <= plan'[p]
    BY DEF TcliInv, Progress, TypeOK
  <2>2. \A p \in Main : ran'[p] <= good'[p] + 1
    BY DEF TcliInv, Progress, TypeOK
  <2>3. first' = "none" <=> \A p \in Main : good'[p] = ran'[p]
    BY DEF TcliInv, Progress, TypeOK
  <2>4. /\ phase' = "setup" => ran'["steps"] = 0 /\ ran'["assertions"] = 0 /\ ran'["cleanup"] = 0
        /\ phase' = "steps" =>
             good'["setup"] = plan'["setup"] /\ ran'["assertions"] = 0 /\ ran'["cleanup"] = 0
        /\ phase' = "assertions" =>
             good'["setup"] = plan'["setup"] /\ good'["steps"] = plan'["steps"] /\ ran'["cleanup"] = 0
        /\ phase' = "cleanup" /\ first' = "none" => \A p \in Main : good'[p] = plan'[p]
    BY DEF TcliInv, Progress
  <2>5. /\ good'["setup"] < ran'["setup"] => ran'["steps"] = 0 /\ ran'["assertions"] = 0
        /\ good'["steps"] < ran'["steps"] => ran'["assertions"] = 0
    BY DEF TcliInv, Progress, TypeOK
  <2> QED BY <2>1, <2>2, <2>3, <2>4, <2>5 DEF Progress
<1>7. Acting'
  BY <1>2 DEF Acting, Busy
<1> QED BY <1>3, <1>4, <1>5, <1>6, <1>7 DEF TcliInv

\* Another attempt is made of the action that is due.
LEMMA SleepKeeps ==
  ASSUME TcliInv, pc \in Busy, NEW rest \in 0 .. MaxWait, Sleep(rest),
         UNCHANGED <<suite, has, taken, missed>>
  PROVE  TcliInv'
<1> UNCHANGED <<dir, files, file, verdicts, exit, report, plan, allow, phase, ran, good, first, act, has, taken, missed>>
  BY DEF Sleep, suite, thecase
<1>1. pc' = "sleep" /\ left' = rest
  BY DEF Sleep
<1>2. TypeOK'
  BY <1>1 DEF TcliInv, TypeOK
<1>3. Blank' /\ Counted'
  BY <1>1 DEF TcliInv, Blank, Counted, Cases, Busy
<1>4. Progress'
  BY DEF TcliInv, Progress
<1>5. Acting'
  BY DEF TcliInv, Acting, PhaseOver
<1> QED BY <1>2, <1>3, <1>4, <1>5 DEF TcliInv

\* Only pc moves, from one place of the action to another.
LEMMA MoveKeeps ==
  ASSUME TcliInv, pc \in Busy, pc' \in Busy,
         UNCHANGED <<suite, thecase, has, action, seen>>
  PROVE  TcliInv'
<1> UNCHANGED <<dir, files, file, verdicts, exit, report, plan, allow, phase, ran, good, first, act, left, has, taken, missed>>
  BY DEF suite, thecase, action, seen
<1>1. TypeOK'
  BY DEF TcliInv, TypeOK, Busy
<1>2. Blank' /\ Counted'
  BY DEF TcliInv, Blank, Counted, Cases, Busy
<1>3. Progress' /\ Acting'
  BY DEF TcliInv, Progress, Acting, PhaseOver
<1> QED BY <1>1, <1>2, <1>3 DEF TcliInv

\* Between two cases: the next file, or the end of the run.
LEMMA FilesKeep ==
  ASSUME TcliInv, StartCase \/ SkipCase \/ BadCase \/ Report
  PROVE  TcliInv'
<1> USE TcliAssumption DEF TcliInv
<1>n. verdicts \in [Verdicts -> Nat] /\ Cases \in Nat /\ (pc = "file" => Cases <= file)
  BY DEF TypeOK, Counted, Cases, Verdicts
<1>1. CASE StartCase
  <2> UNCHANGED <<dir, files, verdicts, exit, report, phase, ran, good, first, has, act, left, taken, missed>>
    BY <1>1 DEF StartCase, action, seen
  <2>1. pc = "file" /\ pc' = "next" /\ file < files /\ file' = file + 1
        /\ plan' \in [Phases -> 0 .. MaxActions] /\ allow' \in BOOLEAN
    BY <1>1 DEF StartCase, Plans
  <2>2. TypeOK'
    BY <2>1 DEF TypeOK
  <2>3. Blank' /\ Acting'
    BY <2>1 DEF Blank, Acting, Busy
  <2>4. Cases' = Cases
    BY DEF Cases
  <2>5. Counted'
    BY <1>n, <2>1, <2>4 DEF Counted, Busy, TypeOK
  <2>6. Progress'
    BY <2>1 DEF Progress, Blank, Zero, Phases, Main
  <2> QED BY <2>2, <2>3, <2>5, <2>6
<1>2. CASE SkipCase
  <2> UNCHANGED <<dir, files, verdicts, exit, report, pc, plan, allow, phase, ran, good, first, has, act, left, taken, missed>>
    BY <1>2 DEF SkipCase, thecase, action, seen
  <2>1. pc = "file" /\ file < files /\ file' = file + 1
    BY <1>2 DEF SkipCase
  <2>2. TypeOK'
    BY <2>1 DEF TypeOK
  <2>3. Blank' /\ Acting' /\ Progress'
    BY DEF Blank, Acting, Progress, PhaseOver
  <2>4. Cases' = Cases
    BY DEF Cases
  <2>5. Counted'
    BY <1>n, <2>1, <2>4 DEF Counted, Busy, TypeOK
  <2> QED BY <2>2, <2>3, <2>5
<1>3. CASE BadCase \/ Report
  <2> UNCHANGED <<dir, files, file, verdicts, plan, allow, phase, ran, good, first, has, act, left, taken, missed>>
    BY <1>3 DEF BadCase, Report, thecase, action, seen
  <2>1. /\ pc = "file" /\ pc' = "done" /\ exit' \in 0 .. 2 /\ report' \in {"error", "data"}
        /\ exit' = 0 => report' = "data" /\ Cases # 0 /\ verdicts["PASS"] = Cases
    BY <1>3 DEF BadCase, Report, Return, ExitCode
  <2>2. TypeOK'
    BY <2>1 DEF TypeOK
  <2>3. Blank' /\ Acting' /\ Progress'
    BY <2>1 DEF Blank, Acting, Progress, Busy
  <2>4. Cases' = Cases
    BY DEF Cases
  <2>5. Counted'
    BY <1>n, <2>1, <2>4 DEF Counted, Busy
  <2> QED BY <2>2, <2>3, <2>5
<1> QED BY <1>1, <1>2, <1>3

\* Within a case: the next phase, or the next action of this one.
LEMMA CaseKeeps ==
  ASSUME TcliInv, NextPhase \/ StartAction
  PROVE  TcliInv'
<1> USE TcliAssumption DEF TcliInv
<1>1. CASE NextPhase
  <2> UNCHANGED <<dir, files, file, verdicts, exit, report, pc, plan, allow, ran, good, first, has, act, left, taken, missed>>
    BY <1>1 DEF NextPhase, suite, action, seen
  <2>1. pc = "next" /\ PhaseOver /\ phase # "cleanup" /\ phase' = Following
    BY <1>1 DEF NextPhase
  <2>2. phase \in Main /\ phase' \in Phases
    BY <2>1 DEF TypeOK, Phases, Main, Following
  <2>3. TypeOK'
    BY <2>2 DEF TypeOK
  <2>4. Blank' /\ Counted' /\ Acting'
    BY <2>1 DEF Blank, Counted, Acting, Busy, Cases
  <2>5. first = "none" => good[phase] = plan[phase]
    BY <2>1, <2>2 DEF PhaseOver, Progress, TypeOK
  <2>6. Progress'
    BY <2>1, <2>2, <2>5 DEF Progress, Following, Main, Phases
  <2> QED BY <2>3, <2>4, <2>6
<1>2. CASE StartAction
  <2> UNCHANGED <<dir, files, file, verdicts, exit, report, plan, allow, phase, ran, good, first, has,
                  taken, missed>>
    BY <1>2 DEF StartAction, suite, thecase, seen
  <2>1. pc = "next" /\ ~PhaseOver /\ act' \in Actions /\ left' \in 0 .. MaxWait
    BY <1>2 DEF StartAction
  <2>2. pc' \in Busy
    BY <1>2 DEF StartAction, Actions, Kinds, Busy
  <2>3. TypeOK'
    BY <2>1, <2>2 DEF TypeOK, Busy
  <2>4. Blank' /\ Counted'
    BY <2>1, <2>2 DEF Blank, Counted, Busy, Cases
  <2>5. Progress' /\ Acting'
    BY <2>1 DEF Progress, Acting, PhaseOver
  <2> QED BY <2>3, <2>4, <2>5
<1> QED BY <1>1, <1>2

\* A case is over, or the process is: nothing of the case is left.
LEMMA ForgetKeeps ==
  ASSUME TcliInv, EndCase \/ Kill
  PROVE  TcliInv'
<1> USE TcliAssumption DEF TcliInv
<1>1. Forget /\ UNCHANGED <<dir, files, file, exit, report>> /\ pc' \in {"file", "killed"}
  BY DEF EndCase, Kill, suite
<1>2. plan' \in [Phases -> 0 .. MaxActions] /\ ran' \in [Phases -> 0 .. MaxActions]
      /\ good' \in [Phases -> 0 .. MaxActions] /\ phase' \in Phases
  BY <1>1 DEF Forget, Zero, Phases, Main
<1>3. act' \in Actions /\ left' \in 0 .. MaxWait
  <2>1. NoAction \in Actions
    BY DEF NoAction, Actions, Kinds
  <2>2. \/ act' = act /\ left' = left
        \/ act' = NoAction /\ left' = 0
    BY DEF EndCase, Kill, action
  <2> QED BY <2>1, <2>2 DEF TypeOK
<1>4. Blank' /\ Acting'
  BY <1>1, Zenon DEF Forget, Blank, Acting, Busy
<1>5. Progress'
  BY <1>1 DEF Forget, Progress, Zero, Phases, Main
<1>6. /\ verdicts' \in [Verdicts -> 0 .. files]
      /\ Cases' <= file
      /\ pc' = "file" => exit = 0 /\ report = "none"
  <2>1. CASE EndCase
    <3>1. pc = "next" /\ verdicts' = [verdicts EXCEPT ![Verdict] = @ + 1]
      BY <2>1 DEF EndCase
    <3>2. Verdict \in Verdicts
      BY DEF Verdict, Verdicts
    <3>3. \A v \in Verdicts : verdicts[v] \in Nat
      BY DEF TypeOK
    <3>4. Cases \in Nat /\ file \in Nat /\ files \in Nat /\ file <= files
          /\ Cases < file /\ \A v \in Verdicts : verdicts[v] <= Cases
      BY <3>1, <3>3 DEF TypeOK, Counted, Cases, Verdicts
    <3>5. \A v \in Verdicts : verdicts'[v] = IF v = Verdict THEN verdicts[v] + 1 ELSE verdicts[v]
      BY <3>1, <3>2 DEF TypeOK
    <3>6. Cases' = Cases + 1
      BY <3>2, <3>3, <3>5 DEF Cases, Verdicts
    <3>7. verdicts' \in [Verdicts -> 0 .. files]
      BY <3>1, <3>2, <3>3, <3>4 DEF TypeOK
    <3> QED BY <3>1, <3>4, <3>6, <3>7 DEF Counted
  <2>2. CASE Kill
    <3>1. UNCHANGED verdicts /\ pc' = "killed"
      BY <2>2 DEF Kill, suite
    <3> QED BY <3>1 DEF TypeOK, Counted, Cases
  <2> QED BY <2>1, <2>2
<1>7. Counted'
  BY <1>1, <1>6 DEF Counted, Busy
<1>8. {taken, missed}' \subseteq BOOLEAN
  BY <1>1, Zenon DEF Forget
<1>9. TypeOK'
  BY <1>1, <1>2, <1>3, <1>6, <1>8 DEF TypeOK, Forget
<1> QED BY <1>4, <1>5, <1>7, <1>9

\* What runs an action leaves the cases that ended alone.
LEMMA ActionKeeps ==
  ASSUME TcliInv,
         \/ RejectAction \/ SkipUnset \/ SkipBlank \/ NeedleReady \/ PrepareFails \/ BlockWrite
         \/ TemplateFails \/ ExpectHolds \/ ExpectFails \/ Succeeds \/ CaptureFails \/ ScriptFails
         \/ ExpectationFails \/ ChildFails \/ Awake
         \/ Discover \/ Discovered \/ DiscoverFails \/ Call
  PROVE  TcliInv' /\ verdicts' = verdicts
<1> USE TcliAssumption
<1>t. /\ has \in BOOLEAN /\ taken \in BOOLEAN /\ missed = FALSE /\ (taken => has)
      /\ act \in Actions /\ left \in 0 .. MaxWait
  <2>1. has \in BOOLEAN /\ {taken, missed} \subseteq BOOLEAN /\ act \in Actions /\ left \in 0 .. MaxWait
    BY DEF TcliInv, TypeOK
  <2>2. ~missed /\ (taken => has)
    BY DEF TcliInv, Acting
  <2> QED BY <2>1, <2>2, Zenon
<1>v. UNCHANGED suite => verdicts' = verdicts
  BY DEF suite
<1>1. CASE \/ RejectAction \/ SkipBlank \/ PrepareFails \/ BlockWrite \/ TemplateFails
           \/ ExpectHolds \/ ExpectFails \/ DiscoverFails
  <2>1. /\ pc \in Busy /\ UNCHANGED <<suite, has, seen>>
        /\ \E c \in Categories \union {"none"} : Result(c)
    BY <1>1 DEF RejectAction, SkipBlank, PrepareFails, BlockWrite, TemplateFails, ExpectHolds,
                ExpectFails, DiscoverFails, Busy, Categories
  <2> QED BY <2>1, <1>t, <1>v, ResultKeeps DEF seen
<1>2. CASE SkipUnset
  <2>1. pc \in Busy /\ ~has /\ Result("none") /\ UNCHANGED <<suite, has, taken>>
        /\ missed' = (missed \/ (phase = "cleanup" /\ taken))
    BY <1>2 DEF SkipUnset, Unset, Busy
  <2>2. missed' = FALSE
    BY <2>1, <1>t
  <2> QED BY <2>1, <2>2, <1>t, <1>v, ResultKeeps
<1>3. CASE NeedleReady \/ Awake \/ Discover \/ Discovered \/ Call
  <2>1. /\ pc \in Busy /\ pc' \in Busy
        /\ UNCHANGED <<suite, thecase, has, action, seen>>
    BY <1>3 DEF NeedleReady, Awake, Discover, Discovered, Call, Busy
  <2> QED BY <2>1, <1>v, MoveKeeps
<1>4. CASE Succeeds \/ CaptureFails \/ ScriptFails
  <2>1. /\ pc \in Busy /\ UNCHANGED <<suite, missed>>
        /\ \E c \in Categories \union {"none"} : Result(c)
        /\ \E done \in BOOLEAN : Capture(done)
    BY <1>4, <1>t DEF Succeeds, CaptureFails, ScriptFails, Returned, Busy, Categories, Actions
  <2>2. has' \in BOOLEAN /\ taken' \in BOOLEAN /\ (taken' => has') /\ missed' = FALSE
    BY <2>1, <1>t, Zenon DEF Capture
  <2> QED BY <2>1, <2>2, <1>v, ResultKeeps
<1>5. CASE ExpectationFails \/ ChildFails
  <2>1. /\ pc \in Busy /\ UNCHANGED <<suite, has, taken, missed>>
        /\ \/ \E c \in Categories \union {"none"} : Result(c)
           \/ \E rest \in 0 .. MaxWait : Sleep(rest)
    <3>1. pc \in Busy /\ UNCHANGED <<suite, has, taken, missed>>
      BY <1>5 DEF ExpectationFails, ChildFails, Returned, Busy
    <3>2. PICK category \in Categories : Retry(category)
      BY <1>5 DEF ExpectationFails, ChildFails, Categories
    <3> QED BY <3>1, <3>2, <1>t DEF Retry
  <2>2. CASE \E c \in Categories \union {"none"} : Result(c)
    BY <2>1, <2>2, <1>t, <1>v, ResultKeeps
  <2>3. CASE \E rest \in 0 .. MaxWait : Sleep(rest)
    BY <2>1, <2>3, <1>v, SleepKeeps
  <2> QED BY <2>1, <2>2, <2>3
<1> QED BY <1>1, <1>2, <1>3, <1>4, <1>5

LEMMA TcliNext_Inv == TcliInv /\ [Next]_vars => TcliInv'
<1> SUFFICES ASSUME TcliInv, [Next]_vars PROVE TcliInv'
  OBVIOUS
<1>1. CASE StartCase \/ SkipCase \/ BadCase \/ Report
  BY <1>1, FilesKeep
<1>2. CASE NextPhase \/ StartAction
  BY <1>2, CaseKeeps
<1>3. CASE EndCase \/ Kill
  BY <1>3, ForgetKeeps
<1>4. CASE \/ RejectAction \/ SkipUnset \/ SkipBlank \/ NeedleReady \/ PrepareFails \/ BlockWrite
           \/ TemplateFails \/ ExpectHolds \/ ExpectFails \/ Succeeds \/ CaptureFails
           \/ ScriptFails \/ ExpectationFails \/ ChildFails \/ Awake
           \/ Discover \/ Discovered \/ DiscoverFails \/ Call
  BY <1>4, ActionKeeps
<1>5. CASE UNCHANGED vars
  <2> UNCHANGED <<dir, files, file, verdicts, exit, report, pc, plan, allow, phase, ran, good, first, has, act, left, taken, missed>>
    BY <1>5 DEF vars, suite, thecase, action, seen
  <2> QED BY DEF TcliInv, TypeOK, Blank, Counted, Cases, Progress, Acting, PhaseOver
<1> QED BY <1>1, <1>2, <1>3, <1>4, <1>5, Zenon DEF Next, Own, Reply

\* The invariant, for any number of case files, actions and retries.
THEOREM TcliInvariant == Spec => []TcliInv
BY TcliInit_Inv, TcliNext_Inv, PTL DEF Spec

\* The variables of the runner have their types: no more cases are counted
\* than there are files, no more results than there are actions.
THEOREM TcliTypeCorrect == Spec => []TypeOK
<1>1. TcliInv => TypeOK
  BY DEF TcliInv
<1> QED BY <1>1, TcliInvariant, PTL

\* After a failure no main action runs, and a cleanup action is never skipped
\* for want of what the case captured.
THEOREM TcliFailsCleanly == Spec => []FailsCleanly
<1>1. TcliInv => FailsCleanly
  <2> SUFFICES ASSUME TcliInv PROVE FailsCleanly
    OBVIOUS
  <2>1. \A p \in Main : good[p] \in Nat /\ ran[p] \in Nat /\ ran[p] <= good[p] + 1
    BY DEF TcliInv, TypeOK, Progress, Main, Phases
  <2>2. \A p \in Main : good[p] >= ran[p] - 1
    BY <2>1
  <2> QED BY <2>2 DEF TcliInv, Progress, Acting, FailsCleanly
<1> QED BY <1>1, TcliInvariant, PTL

\* PASS is given to a case whose main actions all ended well, after its whole
\* cleanup; exit 0 to a report of at least one case, all of them PASS.
THEOREM TcliVerdictEarned == Spec => VerdictIsEarned
<1> DEFINE Counts == (\E v \in Verdicts : verdicts'[v] # verdicts[v]) =>
             /\ ran["cleanup"] = plan["cleanup"]
             /\ verdicts'["PASS"] # verdicts["PASS"] => \A p \in Main : good[p] = plan[p]
           Green == pc = "done" /\ exit = 0 =>
             /\ report = "data"
             /\ verdicts["PASS"] > 0
             /\ \A v \in Verdicts \ {"PASS"} : verdicts[v] = 0
<1>1. TcliInv => Green
  <2> SUFFICES ASSUME TcliInv, pc = "done", exit = 0
               PROVE  /\ report = "data"
                      /\ verdicts["PASS"] > 0
                      /\ \A v \in Verdicts \ {"PASS"} : verdicts[v] = 0
    OBVIOUS
  <2>1. report = "data" /\ Cases > 0 /\ verdicts["PASS"] = Cases
    BY DEF TcliInv, Counted
  <2>2. \A v \in Verdicts : verdicts[v] \in Nat
    BY DEF TcliInv, TypeOK
  <2>3. verdicts["FAIL"] = 0 /\ verdicts["ERROR"] = 0 /\ verdicts["SAFETY_BLOCKED"] = 0
    BY <2>1, <2>2 DEF Cases, Verdicts
  <2> QED BY <2>1, <2>3 DEF Verdicts
<1>2. TcliInv /\ [Next]_vars => [Counts]_vars
  <2> SUFFICES ASSUME TcliInv, Next PROVE Counts
    BY DEF Counts
  <2>1. CASE EndCase
    <3>1. pc = "next" /\ PhaseOver /\ phase = "cleanup"
          /\ verdicts' = [verdicts EXCEPT ![Verdict] = @ + 1]
      BY <2>1 DEF EndCase
    <3>2. ran["cleanup"] = plan["cleanup"]
      BY <3>1 DEF PhaseOver
    <3>3. verdicts'["PASS"] # verdicts["PASS"] => Verdict = "PASS"
      BY <3>1 DEF TcliInv, TypeOK
    <3>4. Verdict = "PASS" => first = "none"
      BY DEF Verdict
    <3>5. first = "none" => \A p \in Main : good[p] = plan[p]
      BY <3>1 DEF TcliInv, Progress
    <3> QED BY <3>2, <3>3, <3>4, <3>5
  <2>2. CASE Next /\ ~EndCase
    <3>1. verdicts' = verdicts
      <4>1. CASE \/ RejectAction \/ SkipUnset \/ SkipBlank \/ NeedleReady \/ PrepareFails
                 \/ BlockWrite \/ TemplateFails \/ ExpectHolds \/ ExpectFails \/ Succeeds
                 \/ CaptureFails \/ ScriptFails \/ ExpectationFails \/ ChildFails \/ Awake
                 \/ Discover \/ Discovered \/ DiscoverFails \/ Call
        BY <4>1, ActionKeeps
      <4>2. CASE StartCase \/ SkipCase \/ BadCase \/ Report \/ NextPhase \/ StartAction \/ Kill
        BY <4>2 DEF StartCase, SkipCase, BadCase, Report, NextPhase, StartAction, Kill, suite
      <4> QED BY <4>1, <4>2, <2>2, Zenon DEF Next, Own, Reply
    <3> QED BY <3>1
  <2> QED BY <2>1, <2>2
<1> QED BY <1>1, <1>2, TcliInvariant, PTL DEF Spec, VerdictIsEarned
===============================================================================
