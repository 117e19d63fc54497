------------------------------- MODULE LogProofs -------------------------------
(***************************************************************************)
(* What holds of a logcli invocation for every adapter, any number of files*)
(* and rows, any length of a program's output and any tail.                *)
(***************************************************************************)
EXTENDS LogCli, FiniteSetTheorems, WellFoundedInduction, NaturalsInduction, SequenceTheorems, TLAPS

\* The adapter is at work.
Busy == {"run", "tail", "tail read", "tick", "stat", "open", "read",
         "launch", "scan", "wait", "loop", "fetch", "asked"}

\* What was printed but for the records, when the adapter has returned.
Shut == IF mode = "batch" /\ ~call.raw THEN <<"data">> ELSE <<>>

\* And when the invocation is over.
Closed ==
    IF err = "none"
    THEN IF call.raw THEN <<>> ELSE IF mode = "stream" THEN <<"end">> ELSE <<"data">>
    ELSE IF mode = "batch" /\ ~call.raw THEN <<"data">> ELSE <<"error">>

\* How far the invocation is, and what it has printed and recorded so far: the
\* strengthening of OneVerdict.
VerdictInv ==
    /\ pc \in {"start", "return", "audit", "exited"} \union Busy
    /\ mode \in {"none", "batch", "stream"}
    /\ pc \in {"start", "run"} => mode = "none"
    /\ pc = "start" => err = "none" /\ shown = <<>>
    /\ pc \in {"start"} \union Busy => mode # "batch" /\ ends = <<>>
    /\ pc = "return" => ends = Shut
    /\ pc \in {"audit", "exited"} => ends = Closed
    /\ pc \in {"return", "audit", "exited"} /\ mode = "batch" /\ err # "none" =>
         call.verb = "doctor"
    /\ finals = IF pc = "exited" THEN <<[ok |-> err = "none", lines |-> Len(shown)]>> ELSE <<>>

\* The adapter goes on ...
Moves ==
    /\ pc \in Busy /\ pc' \in Busy \ {"run"}
    /\ mode' = mode \/ mode' = "stream"
    /\ UNCHANGED <<call, ends, finals>>

\* ... or returns, with the output it has used or with a batch, ...
Leaves ==
    /\ pc \in Busy /\ pc' = "return"
    /\ UNCHANGED <<call, finals>>
    /\ \/ UNCHANGED <<mode, ends>>
       \/ /\ mode' = "batch" /\ ends' = Enveloped("data")
          /\ err' = "none" \/ call.verb = "doctor"

\* ... or stays where it is, while a file, a program, the service or the time
\* does something.
Stays == UNCHANGED <<call, pc, mode, ends, shown, err, finals>>

LEMMA VerdictInit_Inv == Init => VerdictInv
  BY DEF Init, RunInit, VerdictInv, Busy

LEMMA VerdictOne == VerdictInv => OneVerdict
<1> SUFFICES ASSUME VerdictInv PROVE OneVerdict
  OBVIOUS
<1>1. CASE pc = "exited"
  <2>1. /\ ends = Closed
        /\ finals = <<[ok |-> err = "none", lines |-> Len(shown)]>>
        /\ mode = "batch" /\ err # "none" => call.verb = "doctor"
    BY <1>1 DEF VerdictInv
  <2>2. Len(finals) = 1 /\ finals[1] = [ok |-> err = "none", lines |-> Len(shown)]
    BY <2>1
  <2> QED BY <1>1, <2>1, <2>2 DEF OneVerdict, Closed
<1>2. CASE pc # "exited"
  BY <1>2 DEF VerdictInv, OneVerdict
<1> QED BY <1>1, <1>2

\* The lines of a batch are not shown before the adapter returns.
LEMMA MovesKeep == VerdictInv /\ (Moves \/ Leaves \/ Stays) => VerdictInv'
<1> SUFFICES ASSUME VerdictInv, Moves \/ Leaves \/ Stays PROVE VerdictInv'
  OBVIOUS
<1>1. CASE Moves
  BY <1>1 DEF Moves, VerdictInv, Busy
<1>2. CASE Leaves
  <2>1. pc' = "return" /\ finals' = <<>> /\ call' = call
    BY <1>2 DEF Leaves, VerdictInv, Busy
  <2>2. CASE UNCHANGED <<mode, ends>>
    <3>1. mode' \in {"none", "stream"} /\ ends' = <<>>
      BY <1>2, <2>2 DEF Leaves, VerdictInv
    <3> QED BY <2>1, <3>1 DEF VerdictInv, Shut, Busy
  <2>3. CASE /\ mode' = "batch" /\ ends' = Enveloped("data")
             /\ err' = "none" \/ call.verb = "doctor"
    <3>1. ends = <<>>
      BY <1>2 DEF Leaves, VerdictInv
    <3>2. ends' = IF call.raw THEN <<>> ELSE <<"data">>
      BY <2>3, <3>1 DEF Enveloped
    <3> QED BY <2>1, <2>3, <3>2 DEF VerdictInv, Shut, Busy
  <2> QED BY <1>2, <2>2, <2>3 DEF Leaves
<1>3. CASE Stays
  BY <1>3 DEF Stays, VerdictInv, Shut, Closed
<1> QED BY <1>1, <1>2, <1>3

-----------------------------------------------------------------------------
(* What each part of an invocation does to its output *)

LEMMA RunMoves ==
  ASSUME VerdictInv, Step \/ BadRequest \/ Panics \/ Cancel
  PROVE  VerdictInv'
<1>1. CASE EarlyErr
  <2>1. /\ mode' = "none" /\ call' = call /\ shown' = <<>> /\ pc' = "exited"
        /\ err' # "none" /\ ends' = <<"error">>
    BY <1>1 DEF EarlyErr, VerdictInv
  <2>2. finals' = <<[ok |-> err' = "none", lines |-> 0]>>
    BY <1>1 DEF EarlyErr, Audit, VerdictInv
  <2>3. Len(shown') = 0
    BY <2>1
  <2>4. finals' = <<[ok |-> err' = "none", lines |-> Len(shown')]>>
    BY <2>2, <2>3
  <2> QED BY <2>1, <2>4 DEF VerdictInv, Closed, Busy
<1>2. CASE Targets
  BY <1>2 DEF Targets, Audit, Enveloped, VerdictInv, Closed, Busy
<1>3. CASE Dispatch
  BY <1>3 DEF Dispatch, output, verdict, VerdictInv, Busy
<1>4. CASE Finalize
  <2>1. /\ mode \in {"none", "batch", "stream"} /\ ends = Shut /\ finals = <<>>
        /\ mode = "batch" /\ err # "none" => call.verb = "doctor"
    BY <1>4 DEF Finalize, VerdictInv
  <2>2. /\ mode' = mode /\ err' = err /\ call' = call /\ shown' = shown /\ finals' = finals
        /\ pc' = "audit"
    BY <1>4 DEF Finalize, verdict
  <2>3. CASE err # "none" /\ (call.raw \/ mode # "batch")
    <3>1. ends = <<>> /\ ends' = Append(ends, "error")
      BY <1>4, <2>1, <2>3 DEF Finalize, Shut
    <3>2. ends' = <<"error">>
      BY <3>1
    <3> QED BY <2>1, <2>2, <2>3, <3>2 DEF VerdictInv, Closed, Busy
  <2>4. CASE err = "none" /\ mode # "batch"
    <3>1. ends = <<>>
      BY <2>1, <2>4 DEF Shut
    <3>2. ends' = Enveloped(IF mode = "stream" THEN "end" ELSE "data")
      BY <1>4, <2>1, <2>4 DEF Finalize
    <3>3. ends' = IF call.raw THEN <<>> ELSE <<IF mode = "stream" THEN "end" ELSE "data">>
      BY <3>1, <3>2 DEF Enveloped
    <3> QED BY <2>1, <2>2, <2>4, <3>3 DEF VerdictInv, Closed, Busy
  <2>5. CASE mode = "batch" /\ (err = "none" \/ ~call.raw)
    <3>1. ends' = ends
      BY <1>4, <2>5 DEF Finalize
    <3> QED BY <2>1, <2>2, <2>5, <3>1 DEF VerdictInv, Shut, Closed, Busy
  <2> QED BY <2>3, <2>4, <2>5
<1>5. CASE Finish
  <2>1. /\ mode' = mode /\ err' = err /\ call' = call /\ shown' = shown /\ ends' = ends
        /\ pc' = "exited"
    BY <1>5 DEF Finish, output
  <2>2. finals' = <<[ok |-> err = "none", lines |-> Len(shown)]>>
    BY <1>5 DEF Finish, Audit, VerdictInv
  <2> QED BY <1>5, <2>1, <2>2 DEF Finish, VerdictInv, Closed, Busy
<1>6. CASE BadRequest
  BY <1>6, MovesKeep DEF BadRequest, Refuse, Return, output, Leaves, Busy
<1>7. CASE Panics
  BY <1>7, MovesKeep DEF Panics, Refuse, Return, output, Leaves, VerdictInv
<1>8. CASE Cancel
  BY <1>8, MovesKeep DEF Cancel, output, verdict, Stays
<1> QED BY <1>1, <1>2, <1>3, <1>4, <1>5, <1>6, <1>7, <1>8 DEF Step

LEMMA FileMoves ==
  ASSUME VerdictInv, Writer \/ FileStep \/ StopFollow
  PROVE  VerdictInv'
<1>1. CASE Writer
  BY <1>1, MovesKeep DEF Writer, Log, Cut, Truncate, Rotate, Create, run, output, verdict, Stays
<1>2. CASE Open
  BY <1>2, MovesKeep DEF Open, Asked, Opened, verdict, Moves, Busy
<1>3. CASE TailOpen
  BY <1>3, MovesKeep DEF TailOpen, verdict, Moves, Busy
<1>4. CASE TailFails
  BY <1>4, MovesKeep DEF TailFails, Return, Leaves, Busy
<1>5. CASE TailRead
  BY <1>5, MovesKeep DEF TailRead, run, output, verdict, Stays
<1>6. CASE TailEmit
  BY <1>6, MovesKeep DEF TailEmit, verdict, Moves, Busy
<1>7. CASE TailDone
  BY <1>7, MovesKeep DEF TailDone, Produced, Batch, Return, output, verdict, Moves, Leaves, Busy
<1>8. CASE Tick
  BY <1>8, MovesKeep DEF Tick, output, verdict, Moves, Busy
<1>9. CASE Transient
  BY <1>9, MovesKeep DEF Transient, Onward, output, verdict, Moves, Busy
<1>10. CASE Stat
  BY <1>10, MovesKeep DEF Stat, Onward, output, verdict, Moves, Busy
<1>11. CASE PumpOpen
  BY <1>11, MovesKeep DEF PumpOpen, output, verdict, Moves, Busy
<1>12. CASE Pump
  BY <1>12, MovesKeep DEF Pump, Onward, verdict, Moves, Busy
<1>13. CASE Listed
  BY <1>13, MovesKeep DEF Listed, Asked, Produced, Batch, Return, output, Leaves, Busy
<1>14. CASE Checked
  BY <1>14, MovesKeep DEF Checked, Asked, Diagnosed, Batch, Return, Leaves, Busy
<1>15. CASE StopFollow
  BY <1>15, MovesKeep DEF StopFollow, Refuse, Return, output, Leaves, Busy
<1> QED
  BY <1>1, <1>2, <1>3, <1>4, <1>5, <1>6, <1>7, <1>8, <1>9, <1>10, <1>11, <1>12, <1>13, <1>14,
     <1>15 DEF FileStep

LEMMA EndsLeaves ==
  ASSUME NEW e, Ends(e), pc \in Busy
  PROVE  Leaves
<1>1. CASE call.verb = "doctor"
  BY <1>1 DEF Ends, Diagnosed, Batch, Return, Leaves
<1>2. CASE call.verb # "doctor" /\ e = "none"
  BY <1>2 DEF Ends, Produced, Batch, Return, output, Leaves
<1>3. CASE call.verb # "doctor" /\ e # "none"
  BY <1>3 DEF Ends, Refuse, Return, output, Leaves
<1> QED BY <1>1, <1>2, <1>3

LEMMA ChildMoves ==
  ASSUME VerdictInv, Program \/ ChildStep \/ KillChild
  PROVE  VerdictInv'
<1>1. CASE Program \/ KillChild
  BY <1>1, MovesKeep DEF Program, Write, Exit, HeirExits, KillChild, run, output, verdict, Stays
<1>2. CASE Launch
  BY <1>2, MovesKeep DEF Launch, Asked, Opened, verdict, Moves, Busy
<1>9. CASE Named
  BY <1>9, MovesKeep DEF Named, Asked, Batch, Return, Leaves, Busy
<1>3. CASE StartFails
  <2>1. PICK e \in {"config", "general"} : Ends(e)
    BY <1>3 DEF StartFails
  <2> QED BY <1>3, <2>1, EndsLeaves, MovesKeep DEF StartFails, Busy
<1>4. CASE Start
  BY <1>4, MovesKeep DEF Start, output, verdict, Moves, Busy
<1>5. CASE ScanLine
  BY <1>5, MovesKeep DEF ScanLine, verdict, Moves, Busy
<1>6. CASE ScanFails
  BY <1>6, MovesKeep DEF ScanFails, output, Moves, Busy
<1>7. CASE ScanEnd
  BY <1>7, MovesKeep DEF ScanEnd, output, verdict, Moves, Busy
<1>8. CASE Wait
  <2>1. PICK e : Ends(e)
    BY <1>8 DEF Wait
  <2> QED BY <1>8, <2>1, EndsLeaves, MovesKeep DEF Wait, Busy
<1> QED BY <1>1, <1>2, <1>3, <1>4, <1>5, <1>6, <1>7, <1>8, <1>9 DEF ChildStep

\* A page is used, or cut short by the context.
LEMMA PageLeaves ==
  ASSUME NEW page, NEW whole, Taken(page, whole) \/ Interrupted(page, whole), pc = "asked"
  PROVE  Moves \/ Leaves
<1>1. CASE Interrupted(page, whole)
  BY <1>1 DEF Interrupted, Return, Leaves, Busy
<1>2. CASE Taken(page, whole)
  <2>1. CASE Len(page) = Line /\ (call.verb = "tail" \/ want' > 0)
    BY <1>2, <2>1 DEF Taken, Moves, Busy
  <2>2. CASE ~(Len(page) = Line /\ (call.verb = "tail" \/ want' > 0)) /\ call.verb = "tail"
    BY <1>2, <2>2 DEF Taken, Moves, Busy
  <2>3. CASE ~(Len(page) = Line /\ (call.verb = "tail" \/ want' > 0)) /\ call.verb # "tail"
    BY <1>2, <2>3 DEF Taken, Produced, Batch, Return, output, Leaves, Busy
  <2> QED BY <2>1, <2>2, <2>3
<1> QED BY <1>1, <1>2

LEMMA SlsMoves ==
  ASSUME VerdictInv, Arrive \/ Second \/ SlsStep
  PROVE  VerdictInv'
<1>1. CASE Arrive \/ Second
  BY <1>1, MovesKeep DEF Arrive, Second, run, output, verdict, Stays
<1>2. CASE Search
  BY <1>2, MovesKeep DEF Search, Asked, output, verdict, Moves, Busy
<1>3. CASE TailRows
  BY <1>3, MovesKeep DEF TailRows, Asked, verdict, Moves, Busy
<1>4. CASE Poll \/ Ask \/ AskAgain \/ Fallback
  BY <1>4, MovesKeep DEF Poll, Ask, AskAgain, Fallback, output, verdict, Moves, Busy
<1>5. CASE TimesOut \/ AskFails
  BY <1>5, MovesKeep DEF TimesOut, AskFails, Refuse, Return, output, Leaves, Busy
<1>6. CASE Answered
  BY <1>6, PageLeaves, MovesKeep DEF Answered
<1>7. CASE Patchy
  <2>1. PICK page : Taken(page, FALSE) \/ Interrupted(page, FALSE)
    BY <1>7 DEF Patchy
  <2> QED BY <1>7, <2>1, PageLeaves, MovesKeep DEF Patchy
<1>8. CASE Probed
  <2>1. PICK e : Diagnosed(e)
    BY <1>8 DEF Probed
  <2> QED BY <1>8, <2>1, MovesKeep DEF Probed, Asked, Diagnosed, Batch, Return, Leaves, Busy
<1> QED BY <1>1, <1>2, <1>3, <1>4, <1>5, <1>6, <1>7, <1>8 DEF SlsStep

LEMMA VerdictNext_Inv == VerdictInv /\ [Next]_vars => VerdictInv'
<1> SUFFICES ASSUME VerdictInv, [Next]_vars PROVE VerdictInv'
  OBVIOUS
<1>1. CASE UNCHANGED vars
  BY <1>1, MovesKeep DEF vars, run, output, verdict, Stays
<1>2. CASE Next
  BY <1>2, RunMoves, FileMoves, ChildMoves, SlsMoves DEF Next
<1> QED BY <1>1, <1>2

\* However an invocation ends (a bad flag, a refusal, an error or a panic of the
\* adapter, a batch, a stream cut short), it prints one closing envelope that
\* fits its exit code, and leaves one audit line that fits both.
THEOREM VerdictHolds == Spec => []OneVerdict
<1>1. VerdictInv => OneVerdict
  BY VerdictOne
<1> QED BY <1>1, VerdictInit_Inv, VerdictNext_Inv, PTL DEF Spec

-----------------------------------------------------------------------------
(* ChildTrue *)

Numbers(n) == [i \in 1 .. n |-> i]

\* The lines of a program are what is asked for.
Lining == call.source = "child" /\ call.verb \in {"logs", "ls"}

\* The pipe has been read to its end, and nobody is left to write to it.
Drained == taken = lines /\ child # "running" /\ ~heir

\* What was read is what was shown or collected; and an adapter that returned
\* without an error has read all there is, and ever will be.
ChildInv ==
    /\ taken \in Nat /\ lines \in Nat /\ taken <= lines
    /\ Lining =>
        /\ pc \in {"start", "run", "launch", "scan", "wait", "return", "audit", "exited"}
        /\ pc \in {"start", "run", "launch"} =>
             held = <<>> /\ shown = <<>> /\ taken = 0 /\ child = "none"
        /\ mode = "none" => shown = <<>>
        /\ mode # "none" => ByName \/ shown = Numbers(taken)
        /\ mode # "stream" /\ pc \in {"scan", "wait"} => held = Numbers(taken)
        /\ pc = "wait" /\ err # "general" => Drained
        /\ (pc \in {"return", "audit", "exited"} /\ mode # "none" /\ err = "none") =>
             ByName \/ (child = "ok" /\ Drained)
        /\ ByName => pc \in {"return", "audit", "exited"}

LEMMA NumbersLen == \A n \in Nat : Len(Numbers(n)) = n /\ Numbers(n) \in Seq(Nat)
<1> SUFFICES ASSUME NEW n \in Nat PROVE Len(Numbers(n)) = n /\ Numbers(n) \in Seq(Nat)
  OBVIOUS
<1>1. \A i \in 1 .. n : i \in Nat
  OBVIOUS
<1> QED BY <1>1 DEF Numbers

LEMMA NumbersZero == Numbers(0) = <<>>
  BY DEF Numbers

\* One line more.
LEMMA NumbersNext == \A n \in Nat : Numbers(n) \o <<n + 1>> = Numbers(n + 1)
<1> SUFFICES ASSUME NEW n \in Nat PROVE Numbers(n) \o <<n + 1>> = Numbers(n + 1)
  OBVIOUS
<1> DEFINE s == Numbers(n) \o <<n + 1>>
<1>1. Len(Numbers(n)) = n /\ Numbers(n) \in Seq(Nat)
  BY NumbersLen
<1>2. s \in Seq(Nat) /\ Len(s) = n + 1
  BY <1>1
<1>3. \A i \in 1 .. n + 1 : s[i] = IF i <= n THEN Numbers(n)[i] ELSE n + 1
  BY <1>1
<1>4. \A i \in 1 .. n + 1 : s[i] = i
  BY <1>3 DEF Numbers
<1>5. Numbers(n + 1) \in Seq(Nat) /\ Len(Numbers(n + 1)) = n + 1
  BY NumbersLen
<1>6. \A i \in 1 .. n + 1 : Numbers(n + 1)[i] = i
  BY DEF Numbers
<1> HIDE DEF s
<1>7. s = Numbers(n + 1)
  BY <1>2, <1>4, <1>5, <1>6
<1> QED BY <1>7 DEF s

LEMMA ChildInit_Inv == Init => ChildInv
  BY NumbersZero DEF Init, RunInit, ChildInit, ChildInv, Lining, ByName

LEMMA ChildShown == ChildInv => ChildTrue
<1> SUFFICES ASSUME ChildInv, Lining, ~ByName PROVE ChildTrue
  BY DEF ChildTrue, Lining
<1>1. taken \in Nat /\ lines \in Nat /\ taken <= lines /\ Len(Numbers(taken)) = taken
  BY NumbersLen DEF ChildInv
<1>2. CASE mode = "none"
  <2>1. shown = <<>>
    BY <1>2 DEF ChildInv
  <2>2. Len(shown) = 0 /\ shown = [i \in 1 .. 0 |-> i]
    BY <2>1
  <2> QED BY <1>1, <1>2, <2>2 DEF ChildTrue
<1>3. CASE mode # "none"
  <2>1. shown = Numbers(taken) /\ Len(shown) = taken
    BY <1>1, <1>3 DEF ChildInv
  <2>2. shown = [i \in 1 .. Len(shown) |-> i]
    BY <2>1 DEF Numbers
  <2> QED BY <1>1, <2>1, <2>2 DEF ChildTrue, ChildInv, Drained
<1> QED BY <1>2, <1>3

\* A program that is gone, and whose heirs are, writes no more.
LEMMA ProgramKeeps ==
  ASSUME ChildInv, Program \/ KillChild
  PROVE  ChildInv'
<1>1. UNCHANGED <<call, pc, mode, shown, held, err, taken>>
  BY DEF Program, Write, Exit, HeirExits, KillChild, run, output, verdict
<1>2. lines' \in Nat /\ taken <= lines'
  BY DEF Program, Write, Exit, HeirExits, KillChild, ChildInv
<1>3. /\ Drained => Drained' /\ child' = child
      /\ ByName' <=> ByName
  BY <1>1 DEF Program, Write, Exit, HeirExits, KillChild, Drained, ByName
<1>4. child = "none" => child' = "none"
  BY DEF Program, Write, Exit, HeirExits, KillChild
<1> QED BY <1>1, <1>2, <1>3, <1>4 DEF ChildInv, Lining

\* What the other adapters and the time do is nothing to it.
LEMMA ChildStays ==
  ASSUME ChildInv, UNCHANGED childvars, UNCHANGED <<call, held, shown, mode, err>>,
         pc' = pc
  PROVE  ChildInv'
  BY DEF ChildInv, childvars, Lining, Drained, ByName

\* The adapter returns with an error.
LEMMA ChildRefuses ==
  ASSUME ChildInv, UNCHANGED childvars, NEW e, e # "none", Refuse(e), pc \in Busy
  PROVE  ChildInv'
<1>1. /\ UNCHANGED <<call, held, shown, mode, taken, lines, child>> /\ pc' = "return"
      /\ err' # "none"
  BY DEF Refuse, Return, output, childvars
<1> QED BY <1>1 DEF ChildInv, Lining, ByName

LEMMA ChildRun ==
  ASSUME VerdictInv, ChildInv, call \in Calls, UNCHANGED childvars,
         Step \/ BadRequest \/ Panics \/ Cancel
  PROVE  ChildInv'
<1>1. CASE EarlyErr \/ Targets
  <2>1. /\ pc = "start" /\ pc' = "exited" /\ mode = "none"
        /\ UNCHANGED <<call, mode, held, shown, taken, lines, child>>
    BY <1>1 DEF EarlyErr, Targets, VerdictInv, childvars
  <2> QED BY <2>1 DEF ChildInv, Lining, ByName
<1>2. CASE Dispatch
  <2>1. /\ pc = "start" /\ pc' = "run" /\ mode = "none"
        /\ UNCHANGED <<call, mode, held, shown, err, taken, lines, child>>
    BY <1>2 DEF Dispatch, VerdictInv, childvars, output, verdict
  <2> QED BY <2>1 DEF ChildInv, Lining, ByName
<1>3. CASE Finalize \/ Finish
  <2>1. /\ pc \in {"return", "audit"} /\ pc' \in {"audit", "exited"}
        /\ UNCHANGED <<call, mode, held, shown, err, childvars>>
    BY <1>3 DEF Finalize, Finish, childvars, output, verdict
  <2> QED BY <2>1 DEF ChildInv, Lining, ByName, Drained, childvars
<1>4. CASE BadRequest
  <2>1. call.source \in Sources
    BY DEF Calls
  <2>2. \A e \in Refusals[call.source] : e # "none"
    BY <2>1 DEF Refusals, Sources, ArgErrors, CredErrors, BlockErrors
  <2>3. \E e : e # "none" /\ Refuse(e)
    BY <1>4, <2>2 DEF BadRequest
  <2>4. pc \in Busy
    BY <1>4 DEF BadRequest, Busy
  <2> QED BY <2>3, <2>4, ChildRefuses
<1>5. CASE Panics
  <2>1. pc \in Busy /\ Refuse("general")
    BY <1>5 DEF Panics, VerdictInv
  <2> QED BY <2>1, ChildRefuses
<1>6. CASE Cancel
  BY <1>6, ChildStays DEF Cancel, output, verdict
<1> QED BY <1>1, <1>2, <1>3, <1>4, <1>5, <1>6 DEF Step

LEMMA ChildSteps ==
  ASSUME VerdictInv, ChildInv, ChildStep
  PROVE  ChildInv'
<1> USE DEF Lining, ByName
<1>8. CASE Named
  <2>1. /\ pc = "run" /\ pc' = "return" /\ mode' = "batch" /\ call.verb = "ls"
        /\ UNCHANGED <<call, held, childvars>>
    BY <1>8 DEF Named, Asked, Batch, Return
  <2>2. CASE Lining
    BY <2>1, <2>2 DEF ChildInv, childvars
  <2>3. CASE ~Lining
    BY <2>1, <2>3 DEF ChildInv, childvars
  <2> QED BY <2>2, <2>3
<1>1. CASE Launch
  <2>1. /\ pc = "run" /\ pc' = "launch" /\ mode = "none" /\ mode' \in {"none", "stream"}
        /\ UNCHANGED <<call, held, shown, childvars>>
    BY <1>1 DEF Launch, Asked, Opened, VerdictInv
  <2> QED BY <2>1, NumbersZero DEF ChildInv, childvars
<1>2. CASE StartFails
  <2>1. PICK e \in {"config", "general"} : Ends(e)
    BY <1>2 DEF StartFails
  <2>2. Lining => Refuse(e)
    BY <2>1 DEF Ends
  <2>3. UNCHANGED childvars /\ pc \in Busy /\ call' = call
    BY <1>2, <2>1 DEF StartFails, Busy, Ends, Diagnosed, Refuse, Produced, Return
  <2>4. CASE Lining
    BY <2>1, <2>2, <2>3, <2>4, ChildRefuses
  <2>5. CASE ~Lining
    BY <2>3, <2>5 DEF ChildInv, childvars
  <2> QED BY <2>4, <2>5
<1>3. CASE Start
  <2>1. /\ pc = "launch" /\ pc' = "scan" /\ mode # "batch"
        /\ UNCHANGED <<call, held, mode, shown, lines, taken>>
    BY <1>3 DEF Start, VerdictInv, Busy, output
  <2> QED BY <2>1, NumbersZero DEF ChildInv
<1>4. CASE ScanLine
  <2>1. /\ pc = "scan" /\ pc' = "scan" /\ mode # "batch" /\ taken < lines
        /\ taken' = taken + 1
        /\ UNCHANGED <<call, mode, err, lines>>
    <3>1. pc \in Busy
      BY <1>4 DEF ScanLine, Busy
    <3>2. mode # "batch"
      BY <3>1 DEF VerdictInv
    <3> QED BY <1>4, <3>2 DEF ScanLine, verdict
  <2>2. taken' \in Nat /\ taken' <= lines'
    BY <2>1 DEF ChildInv
  <2>3. CASE Lining
    <3>1. Put(<<taken + 1>>)
      BY <1>4, <2>1, <2>3 DEF ScanLine
    <3>2. Numbers(taken) \o <<taken + 1>> = Numbers(taken')
      BY <2>1, NumbersNext DEF ChildInv
    <3>3. mode = "none" => shown' = <<>> /\ held' = Numbers(taken')
      BY <2>1, <2>3, <3>1, <3>2 DEF Put, ChildInv
    <3>4. mode # "none" => mode = "stream" /\ shown' = Numbers(taken')
      BY <2>1, <2>3, <3>1, <3>2 DEF Put, ChildInv, VerdictInv
    <3> QED BY <2>1, <2>2, <3>3, <3>4 DEF ChildInv
  <2>4. CASE ~Lining
    BY <2>1, <2>2, <2>4 DEF ChildInv
  <2> QED BY <2>3, <2>4
<1>5. CASE ScanFails
  BY <1>5 DEF ScanFails, ChildInv, output
<1>6. CASE ScanEnd
  BY <1>6 DEF ScanEnd, ChildInv, childvars, output, verdict, Drained
<1>7. CASE Wait
  <2>1. PICK e : /\ Ends(e)
                 /\ e = "none" => err # "general" /\ child = "ok"
    BY <1>7 DEF Wait
  <2>2. UNCHANGED childvars /\ pc = "wait" /\ call' = call
    BY <1>7, <2>1 DEF Wait, Ends, Diagnosed, Refuse, Produced, Return
  <2>3. CASE ~Lining
    BY <2>2, <2>3 DEF ChildInv, childvars
  <2>4. CASE Lining /\ e # "none"
    BY <2>1, <2>2, <2>4, ChildRefuses DEF Ends, Busy
  <2>5. CASE Lining /\ e = "none"
    <3>1. Produced(held, FALSE) /\ UNCHANGED held
      BY <2>1, <2>5 DEF Ends
    <3>2. child' = "ok" /\ Drained'
      BY <2>1, <2>2, <2>5 DEF ChildInv, childvars, Drained
    <3>3. CASE mode = "stream"
      BY <2>2, <3>1, <3>2, <3>3 DEF Produced, output, Return, ChildInv, childvars
    <3>4. CASE mode # "stream"
      <4>1. mode' = "batch" /\ shown' = held /\ pc' = "return"
        BY <3>1, <3>4 DEF Produced, Batch, Return
      <4>2. held = Numbers(taken)
        BY <2>2, <2>5, <3>4 DEF ChildInv
      <4> QED BY <2>2, <3>2, <4>1, <4>2 DEF ChildInv, childvars
    <3> QED BY <3>3, <3>4
  <2> QED BY <2>3, <2>4, <2>5
<1> QED BY <1>1, <1>2, <1>3, <1>4, <1>5, <1>6, <1>7, <1>8 DEF ChildStep

\* The other adapters work for other targets.
LEMMA FileElse ==
  ASSUME FileStep \/ StopFollow
  PROVE  /\ call' = call
         /\ \/ pc \in {"tail", "tail read", "tick", "stat", "open", "read"}
            \/ call.source = "file"
<1>1. CASE \/ Open \/ TailOpen \/ TailFails \/ TailRead \/ TailEmit \/ TailDone
  BY <1>1 DEF Open, TailOpen, TailFails, TailRead, TailEmit, TailDone, Asked, Produced, Return, run
<1>2. CASE Tick \/ Transient \/ Stat \/ PumpOpen \/ Pump
  BY <1>2 DEF Tick, Transient, Stat, PumpOpen, Pump
<1>3. CASE Listed \/ Checked \/ StopFollow
  BY <1>3 DEF Listed, Checked, StopFollow, Asked, Produced, Diagnosed, Refuse, Return
<1> QED BY <1>1, <1>2, <1>3 DEF FileStep

LEMMA SlsElse ==
  ASSUME SlsStep
  PROVE  /\ call' = call
         /\ pc \in {"loop", "fetch", "asked"} \/ call.source = "sls"
<1>1. CASE Search \/ TailRows \/ Poll \/ Ask \/ AskAgain \/ Fallback
  BY <1>1 DEF Search, TailRows, Poll, Ask, AskAgain, Fallback, Asked
<1>2. CASE TimesOut \/ AskFails \/ Probed
  BY <1>2 DEF TimesOut, AskFails, Probed, Asked, Refuse, Diagnosed, Return
<1>3. ASSUME NEW page, NEW whole, Taken(page, whole) \/ Interrupted(page, whole)
      PROVE  call' = call
  BY <1>3 DEF Taken, Interrupted, Return
<1>4. CASE Answered \/ Patchy
  BY <1>3, <1>4 DEF Answered, Patchy
<1> QED BY <1>1, <1>2, <1>4 DEF SlsStep

LEMMA ChildNext_Inv ==
  ASSUME VerdictInv, ChildInv, call \in Calls, [Next]_vars
  PROVE  ChildInv'
<1>1. CASE UNCHANGED vars
  BY <1>1, ChildStays DEF vars, run, output, verdict
<1>2. CASE (Step \/ BadRequest \/ Panics \/ Cancel) /\ UNCHANGED childvars
  BY <1>2, ChildRun
<1>3. CASE (Writer \/ Arrive \/ Second) /\ UNCHANGED childvars
  BY <1>3, ChildStays DEF Writer, Log, Cut, Truncate, Rotate, Create, Arrive, Second, run, output,
     verdict
<1>4. CASE (FileStep \/ StopFollow \/ SlsStep) /\ UNCHANGED childvars
  <2>1. call' = call /\ ~Lining
    BY <1>4, FileElse, SlsElse DEF ChildInv, Lining
  <2> QED BY <1>4, <2>1 DEF ChildInv, Lining, childvars
<1>5. CASE Program \/ KillChild
  BY <1>5, ProgramKeeps
<1>6. CASE ChildStep
  BY <1>6, ChildSteps
<1> QED BY <1>1, <1>2, <1>3, <1>4, <1>5, <1>6 DEF Next

LEMMA CallIs == [Next]_vars => call' = call
<1> SUFFICES ASSUME [Next]_vars PROVE call' = call
  OBVIOUS
<1>1. CASE UNCHANGED vars
  BY <1>1 DEF vars, run
<1>2. CASE Step \/ BadRequest \/ Panics \/ Cancel
  BY <1>2 DEF Step, EarlyErr, Targets, Dispatch, Finalize, Finish, BadRequest, Panics, Cancel, Refuse,
     Return
<1>3. CASE Writer \/ Arrive \/ Second \/ Program \/ KillChild
  BY <1>3 DEF Writer, Log, Cut, Truncate, Rotate, Create, Arrive, Second, Program, Write, Exit,
     HeirExits, KillChild, run
<1>4. CASE FileStep \/ StopFollow \/ SlsStep
  BY <1>4, FileElse, SlsElse
<1>5. CASE ChildStep
  BY <1>5 DEF ChildStep, Named, Launch, StartFails, Start, ScanLine, ScanFails, ScanEnd, Wait, Ends,
     Diagnosed,
     Refuse, Produced, Return
<1> QED BY <1>1, <1>2, <1>3, <1>4, <1>5 DEF Next

LEMMA CallStays == call \in Calls /\ [Next]_vars => call' \in Calls
  BY CallIs

\* What is passed on of a program (docker, kubectl, ssh) is its lines in their
\* order, however it, its heirs and the reader take turns; and without an error
\* it is all of them, of a program that ended well.
THEOREM ProgramIsPassedOn == Spec => []ChildTrue
<1>1. Init => VerdictInv /\ ChildInv /\ call \in Calls
  BY VerdictInit_Inv, ChildInit_Inv DEF Init, RunInit
<1>2. VerdictInv /\ ChildInv /\ call \in Calls /\ [Next]_vars
      => (VerdictInv /\ ChildInv /\ call \in Calls)'
  BY VerdictNext_Inv, ChildNext_Inv, CallStays
<1>3. ChildInv => ChildTrue
  BY ChildShown
<1> QED BY <1>1, <1>2, <1>3, PTL DEF Spec

-----------------------------------------------------------------------------
(* The rows of a window, in order *)

\* A set of naturals has a least member, so that what is to be shown of every
\* natural can be shown by way of the least one it does not hold of.
LEMMA HasLeast ==
  ASSUME NEW S, S \subseteq Nat, S # {}
  PROVE  \E x \in S : \A y \in S : x <= y
<1> DEFINE R == {ss \in Nat \X Nat : ss[1] < ss[2]}
<1>1. IsWellFoundedOn(R, Nat)
  BY NatLessThanWellFounded, Zenon DEF OpToRel
<1> HIDE DEF R
<1>2. PICK x \in S : \A y \in S : ~ (<<y, x>> \in R)
  BY <1>1, WFMin
<1>3. ASSUME NEW y \in S PROVE x <= y
  <2>1. x \in Nat /\ y \in Nat /\ ~ (<<y, x>> \in R)
    BY <1>2
  <2>2. y < x => <<y, x>> \in R
    BY <2>1 DEF R
  <2> QED BY <2>1, <2>2
<1> QED BY <1>3

Increasing(s) == \A i, j \in DOMAIN s : i < j => s[i] < s[j]

Enumerations(some) == {s \in [1 .. Cardinality(some) -> some] : Increasing(s)}

Numbered(n) == \A some \in SUBSET (1 .. n) : Enumerations(some) # {}

\* Every set of row numbers can be put in order.
LEMMA CanBeNumbered == \A n \in Nat : Numbered(n)
<1> DEFINE Bad == {n \in Nat : ~Numbered(n)}
<1> SUFFICES ASSUME Bad # {} PROVE FALSE
  OBVIOUS
<1>1. PICK n \in Bad : \A m \in Bad : n <= m
  BY HasLeast
<1>2. n \in Nat /\ ~Numbered(n)
  OBVIOUS
<1>3. n # 0
  <2>1. ASSUME n = 0, NEW some \in SUBSET (1 .. 0) PROVE Enumerations(some) # {}
    <3>0. some = {}
      OBVIOUS
    <3>1. some = {} /\ Cardinality(some) = 0
      BY <3>0, FS_EmptySet
    <3>2. <<>> \in [1 .. 0 -> {}] /\ Increasing(<<>>)
      BY DEF Increasing
    <3> QED BY <3>1, <3>2 DEF Enumerations
  <2> QED BY <1>2, <2>1 DEF Numbered
<1>4. Numbered(n - 1)
  BY <1>1, <1>2, <1>3
<1>5. ASSUME NEW some \in SUBSET (1 .. n) PROVE Enumerations(some) # {}
  <2> DEFINE rest == some \ {n}
             k == Cardinality(rest)
  <2>1. IsFiniteSet(rest) /\ rest \in SUBSET (1 .. n - 1)
    <3>1. IsFiniteSet(1 .. n)
      BY <1>2, FS_Interval
    <3>2. IsFiniteSet(some)
      BY <3>1, FS_Subset
    <3> QED BY <1>2, <3>2, FS_Subset
  <2>2. k \in Nat
    BY <2>1, FS_CardinalityType
  <2>3. PICK s \in Enumerations(rest) : TRUE
    BY <1>4, <2>1 DEF Numbered
  <2>4. s \in [1 .. k -> rest] /\ Increasing(s)
    BY <2>3 DEF Enumerations
  <2>5. CASE n \notin some
    BY <2>3, <2>5
  <2>6. CASE n \in some
    <3> DEFINE t == [i \in 1 .. k + 1 |-> IF i <= k THEN s[i] ELSE n]
    <3>a. some = rest \union {n} /\ n \notin rest
      BY <2>6
    <3>b. k = Cardinality(rest)
      OBVIOUS
    <3> HIDE DEF rest, k
    <3>c. Cardinality(rest \union {n}) = Cardinality(rest) + 1
      BY <2>1, <3>a, FS_AddElement
    <3>1. some = rest \union {n} /\ Cardinality(some) = k + 1
      BY <3>a, <3>b, <3>c
    <3>2. t \in [1 .. k + 1 -> some]
      BY <2>2, <2>4, <3>1
    <3>3. ASSUME NEW i \in 1 .. k + 1, NEW j \in 1 .. k + 1, i < j PROVE t[i] < t[j]
      <4>0. i \in 1 .. k
        BY <2>2, <3>3
      <4>a. t[i] = s[i]
        BY <2>2, <4>0
      <4>b. s[i] \in rest
        BY <2>4, <4>0
      <4>1. t[i] = s[i] /\ s[i] \in 1 .. n - 1
        BY <2>1, <4>a, <4>b
      <4>2. CASE j <= k
        BY <2>2, <2>4, <3>3, <4>1, <4>2 DEF Increasing
      <4>3. CASE j > k
        BY <1>2, <2>2, <3>3, <4>1, <4>3
      <4> QED BY <2>2, <4>2, <4>3
    <3>4. Increasing(t)
      BY <3>3 DEF Increasing
    <3> QED BY <3>1, <3>2, <3>4 DEF Enumerations
  <2> QED BY <2>5, <2>6
<1> QED BY <1>2, <1>5 DEF Numbered

\* So that InOrder orders it.
LEMMA InOrderIs ==
  ASSUME NEW n \in Nat, NEW some \in SUBSET (1 .. n)
  PROVE  /\ IsFiniteSet(some) /\ Cardinality(some) \in Nat
         /\ InOrder(some) \in [1 .. Cardinality(some) -> some]
         /\ InOrder(some) \in Seq(some)
         /\ Len(InOrder(some)) = Cardinality(some)
         /\ Increasing(InOrder(some))
<1>1. IsFiniteSet(some)
  <2>1. IsFiniteSet(1 .. n)
    BY FS_Interval
  <2> QED BY <2>1, FS_Subset
<1>2. Cardinality(some) \in Nat
  BY <1>1, FS_CardinalityType
<1>3. \E s \in [1 .. Cardinality(some) -> some] : Increasing(s)
  BY CanBeNumbered DEF Numbered, Enumerations
<1>4. InOrder(some) \in [1 .. Cardinality(some) -> some] /\ Increasing(InOrder(some))
  BY <1>3 DEF InOrder, Increasing
<1>5. InOrder(some) \in Seq(some)
  BY <1>2, <1>4
<1>6. Len(InOrder(some)) = Cardinality(some)
  BY <1>2, <1>4, <1>5
<1> QED BY <1>1, <1>2, <1>4, <1>5, <1>6

\* And a run of rows is counted through.
LEMMA InOrderRun ==
  ASSUME NEW a \in Nat, NEW k \in Nat
  PROVE  /\ Cardinality(a + 1 .. a + k) = k
         /\ InOrder(a + 1 .. a + k) \in Seq(Nat)
         /\ InOrder(a + 1 .. a + k) = [i \in 1 .. k |-> a + i]
<1> DEFINE some == a + 1 .. a + k
           s    == InOrder(some)
<1>1. some \in SUBSET (1 .. a + k) /\ a + k \in Nat
  OBVIOUS
<1>2. Cardinality(some) = k
  BY FS_Interval
<1>3. s \in [1 .. k -> some] /\ Increasing(s)
  BY <1>1, <1>2, InOrderIs
<1> HIDE DEF s
<1>4. \A i \in 1 .. k : s[i] >= a + i
  <2> DEFINE Low == {i \in 1 .. k : s[i] < a + i}
  <2> SUFFICES ASSUME Low # {} PROVE FALSE
    BY <1>3
  <2>0. Low \subseteq Nat
    OBVIOUS
  <2>1. PICK i \in Low : \A j \in Low : i <= j
    <3> HIDE DEF Low
    <3> QED BY <2>0, HasLeast
  <2>2. i \in 1 .. k /\ s[i] < a + i /\ s[i] \in some
    BY <1>3
  <2>3. i > 1
    BY <2>2
  <2>4. i - 1 \in 1 .. k /\ i - 1 \notin Low
    BY <2>1, <2>2, <2>3
  <2>5. s[i - 1] >= a + i - 1 /\ s[i - 1] \in some
    BY <1>3, <2>2, <2>4
  <2>6. s[i - 1] < s[i]
    BY <1>3, <2>2, <2>4 DEF Increasing
  <2> QED BY <2>2, <2>5, <2>6
<1>5. \A i \in 1 .. k : s[i] <= a + i
  <2> DEFINE High == {d \in 0 .. k - 1 : s[k - d] > a + (k - d)}
  <2> SUFFICES ASSUME NEW i \in 1 .. k, s[i] > a + i PROVE FALSE
    BY <1>3
  <2>1. k - i \in High
    <3>1. k - (k - i) = i /\ k - i \in 0 .. k - 1
      OBVIOUS
    <3> QED BY <3>1
  <2>0. High \subseteq Nat
    OBVIOUS
  <2>2. PICK d \in High : \A e \in High : d <= e
    <3> HIDE DEF High
    <3> QED BY <2>0, <2>1, HasLeast
  <2>3. d \in 0 .. k - 1 /\ k - d \in 1 .. k /\ s[k - d] > a + (k - d) /\ s[k - d] \in some
    BY <1>3
  <2>4. d >= 1
    BY <2>3
  <2>5. d - 1 \notin High /\ d - 1 \in 0 .. k - 1 /\ k - (d - 1) \in 1 .. k
    BY <2>2, <2>3, <2>4
  <2>6. s[k - (d - 1)] <= a + (k - (d - 1)) /\ s[k - (d - 1)] \in some
    BY <1>3, <2>5
  <2>7. s[k - d] < s[k - (d - 1)]
    BY <1>3, <2>3, <2>5 DEF Increasing
  <2> QED BY <2>3, <2>6, <2>7
<1>6. \A i \in 1 .. k : s[i] = a + i
  <2> SUFFICES ASSUME NEW i \in 1 .. k PROVE s[i] = a + i
    OBVIOUS
  <2>1. s[i] \in some
    BY <1>3
  <2>2. s[i] \in Nat
    BY <2>1
  <2> QED BY <1>4, <1>5, <2>2
<1>7. s = [i \in 1 .. k |-> a + i]
  BY <1>3, <1>6
<1>8. s \in Seq(Nat)
  BY <1>7
<1> QED BY <1>2, <1>7, <1>8 DEF s

\* k numbers that follow a.
Run(a, k) == [i \in 1 .. k |-> a + i]

LEMMA RunIs ==
  ASSUME NEW a \in Nat, NEW k \in Nat
  PROVE  /\ Run(a, k) \in Seq(Nat) /\ Len(Run(a, k)) = k
         /\ \A i \in 1 .. k : Run(a, k)[i] = a + i
<1>1. \A i \in 1 .. k : a + i \in Nat
  OBVIOUS
<1> QED BY <1>1 DEF Run

\* A set of rows that has all rows before its members is a run from the first.
LEMMA FirstRows ==
  ASSUME NEW n \in Nat, NEW some \in SUBSET (1 .. n),
         \A r \in some : 1 .. r \subseteq some
  PROVE  Cardinality(some) \in 0 .. n /\ some = 1 .. Cardinality(some)
<1> DEFINE Out == (1 .. n + 1) \ some
<1>1. n + 1 \in Out /\ Out \subseteq Nat
  OBVIOUS
<1>2. PICK x \in Out : \A y \in Out : x <= y
  <2> HIDE DEF Out
  <2> QED BY <1>1, HasLeast
<1>3. x \in 1 .. n + 1 /\ x \notin some
  OBVIOUS
<1>4. ASSUME NEW r \in 1 .. x - 1 PROVE r \in some
  BY <1>2, <1>3
<1>5. ASSUME NEW r \in some PROVE r \in 1 .. x - 1
  BY <1>3
<1>6. some = 1 .. x - 1
  BY <1>4, <1>5
<1>7. Cardinality(1 .. x - 1) = x - 1
  BY <1>3, FS_Interval
<1> QED BY <1>3, <1>6, <1>7

-----------------------------------------------------------------------------
(* SLS: the types, and the seconds in their order *)

SlsTyped ==
    /\ clock \in 0 .. MaxClock
    /\ rows \in Seq(0 .. MaxClock)
    /\ \A r \in DOMAIN rows : rows[r] <= clock
    /\ \A q, r \in DOMAIN rows : q < r => rows[q] <= rows[r]
    /\ want \in 0 .. MaxRows /\ try \in 1 .. Tries /\ offset \in Nat
    /\ newest \in BOOLEAN /\ misses \in 0 .. MaxPatchy /\ patchy \in SUBSET Nat
    /\ from \in 0 .. clock /\ to \in 0 .. clock /\ begun \in Nat
    /\ call.verb = "tail" => begun <= clock
    /\ call.verb # "tail" => want + offset <= MaxRows

\* Bounds as they are used.
LEMMA SlsBounds ==
  /\ MaxRows \in Nat /\ MaxPatchy \in Nat /\ LookBack \in Nat
  /\ MaxClock \in Nat \ {0} /\ PageRows \in Nat \ {0} /\ Tries \in Nat \ {0}
  BY SlsAssumption

LEMMA WindowTyped ==
  ASSUME SlsTyped
  PROVE  /\ Window \in Seq(1 .. Len(rows)) /\ Len(Window) \in Nat
         /\ call.verb # "tail" =>
              /\ Len(Window) = Len(rows)
              /\ \A i \in 1 .. Len(rows) :
                   Window[i] = IF newest THEN Len(rows) + 1 - i ELSE i
<1>1. rows \in Seq(0 .. MaxClock) /\ Len(rows) \in Nat /\ DOMAIN rows = 1 .. Len(rows)
  BY DEF SlsTyped
<1>2. CASE call.verb = "tail"
  <2> DEFINE some == {r \in DOMAIN rows : from <= rows[r] /\ rows[r] < to}
  <2>1. some \in SUBSET (1 .. Len(rows))
    BY <1>1
  <2>2. InOrder(some) \in Seq(some)
    BY <1>1, <2>1, InOrderIs
  <2>3. Window = InOrder(some)
    BY <1>2 DEF Window
  <2> HIDE DEF some
  <2>4. InOrder(some) \in Seq(1 .. Len(rows))
    BY <2>1, <2>2, SeqMonotonic
  <2> QED BY <1>2, <2>3, <2>4
<1>3. CASE call.verb # "tail"
  <2>1. Window = [i \in 1 .. Len(rows) |-> IF newest THEN Len(rows) + 1 - i ELSE i]
    BY <1>1, <1>3 DEF Window
  <2>2. \A i \in 1 .. Len(rows) : (IF newest THEN Len(rows) + 1 - i ELSE i) \in 1 .. Len(rows)
    BY <1>1
  <2> QED BY <1>1, <2>1, <2>2
<1> QED BY <1>2, <1>3

LEMMA LineIs == SlsTyped => Line \in Nat /\ (call.verb # "tail" => Line <= want)
  BY SlsBounds DEF Line, SlsTyped

\* A page is made of rows of the window; of a complete scan it is those from the
\* offset on, and shorter than what was asked for only at the end of the window.
PageOf(page, whole) ==
    /\ page \in Seq(1 .. Len(rows)) /\ Len(page) \in 0 .. Line
    /\ \A k \in 1 .. Len(page) : \E i \in 1 .. Len(Window) : page[k] = Window[i]
    /\ whole =>
        /\ \A k \in 1 .. Len(page) : offset + k <= Len(Window) /\ page[k] = Window[offset + k]
        /\ Len(page) # Line => offset + Len(page) >= Len(Window)

LEMMA PageIs == SlsTyped => PageOf(Page, TRUE)
<1> SUFFICES ASSUME SlsTyped PROVE PageOf(Page, TRUE)
  OBVIOUS
<1> DEFINE m == IF offset + Line < Len(Window) THEN offset + Line ELSE Len(Window)
           S == 1 .. Len(rows)
<1>1. Window \in Seq(S) /\ Len(Window) \in Nat /\ Line \in Nat /\ offset \in Nat
  BY WindowTyped, LineIs DEF SlsTyped
<1>2. /\ m \in Nat /\ m <= Len(Window) /\ m <= offset + Line
      /\ m # offset + Line => m = Len(Window)
  BY <1>1
<1>3. Page = SubSeq(Window, offset + 1, m)
  BY DEF Page
<1> HIDE DEF m, S
<1>4. \A i \in offset + 1 .. m : Window[i] \in S
  <2> SUFFICES ASSUME NEW i \in offset + 1 .. m PROVE Window[i] \in S
    OBVIOUS
  <2>1. i \in 1 .. Len(Window)
    BY <1>1, <1>2
  <2> QED BY <1>1, <2>1, ElementOfSeq
<1>5. offset + 1 \in Int /\ m \in Int
  BY <1>1, <1>2
<1>6. /\ Page \in Seq(S)
      /\ Len(Page) = IF offset + 1 <= m THEN m - (offset + 1) + 1 ELSE 0
      /\ \A i \in 1 .. m - (offset + 1) + 1 : Page[i] = Window[offset + 1 + i - 1]
  BY <1>3, <1>4, <1>5, SubSeqProperties
<1>7. Len(Page) = IF offset + 1 <= m THEN m - offset ELSE 0
  BY <1>1, <1>2, <1>6
<1>8. ASSUME NEW k \in 1 .. Len(Page)
      PROVE  offset + k \in 1 .. Len(Window) /\ Page[k] = Window[offset + k]
  <2>1. k \in 1 .. m - (offset + 1) + 1 /\ offset + 1 + k - 1 = offset + k /\ offset + k <= m
    BY <1>1, <1>2, <1>7
  <2>2. Page[k] = Window[offset + 1 + k - 1]
    BY <1>6, <2>1
  <2>3. Page[k] = Window[offset + k]
    BY <2>1, <2>2
  <2>4. offset + k \in 1 .. Len(Window)
    BY <1>1, <1>2, <2>1
  <2> QED BY <2>3, <2>4
<1>9. Len(Page) \in 0 .. Line /\ (Len(Page) # Line => offset + Len(Page) >= Len(Window))
  BY <1>1, <1>2, <1>7
<1> QED BY <1>1, <1>6, <1>8, <1>9 DEF PageOf, S

LEMMA ScannedIs ==
  ASSUME SlsTyped, NEW some \in SUBSET DOMAIN Window, Cardinality(some) <= Line
  PROVE  PageOf(Scanned(some), FALSE)
<1> DEFINE w == Len(Window)
           places == InOrder(some)
<1>1. Window \in Seq(1 .. Len(rows)) /\ w \in Nat /\ DOMAIN Window = 1 .. w /\ Line \in Nat
  BY WindowTyped, LineIs
<1>2. places \in Seq(some) /\ Len(places) = Cardinality(some) /\ Cardinality(some) \in Nat
  BY <1>1, InOrderIs
<1>3. \A k \in 1 .. Len(places) : places[k] \in 1 .. w
  BY <1>1, <1>2, ElementOfSeq
<1>4. Scanned(some) = [k \in 1 .. Len(places) |-> Window[places[k]]]
  BY DEF Scanned
<1> HIDE DEF places
<1>5. \A k \in 1 .. Len(places) : Window[places[k]] \in 1 .. Len(rows)
  BY <1>1, <1>3, ElementOfSeq
<1>6. Scanned(some) \in Seq(1 .. Len(rows)) /\ Len(Scanned(some)) = Len(places)
  BY <1>2, <1>4, <1>5
<1>7. Len(Scanned(some)) \in 0 .. Line
  BY <1>1, <1>2, <1>6
<1>8. \A k \in 1 .. Len(Scanned(some)) : \E i \in 1 .. w : Scanned(some)[k] = Window[i]
  BY <1>3, <1>4, <1>6
<1> QED BY <1>6, <1>7, <1>8 DEF PageOf

LEMMA SlsInit_Typed == Init => SlsTyped
<1> SUFFICES ASSUME Init PROVE SlsTyped
  OBVIOUS
<1> USE SlsBounds
<1>1. /\ clock = 1 /\ from = 0 /\ to = 0 /\ offset = 0 /\ try = 1 /\ begun = 0 /\ misses = 0
      /\ patchy = {} /\ want \in 0 .. MaxRows
  BY DEF Init, SlsInit
<1>8. newest \in BOOLEAN
  BY DEF Init, SlsInit
<1>2. \E n \in Nat : rows \in [1 .. n -> {0}]
  <2>1. <<>> \in [1 .. 0 -> {0}] /\ 0 \in Nat
    OBVIOUS
  <2>2. rows = <<>> \/ \E n \in 0 .. MaxRows : rows \in [1 .. n -> {0}]
    BY DEF Init, SlsInit
  <2>3. 0 .. MaxRows \subseteq Nat
    OBVIOUS
  <2> QED BY <2>1, <2>2, <2>3, Zenon
<1>3. PICK n \in Nat : rows \in [1 .. n -> {0}]
  BY <1>2
<1>4. rows \in Seq({0}) /\ DOMAIN rows = 1 .. n
  BY <1>3
<1>5. {0} \subseteq 0 .. MaxClock
  OBVIOUS
<1>6. rows \in Seq(0 .. MaxClock)
  BY <1>4, <1>5, SeqMonotonic
<1>7. \A r \in DOMAIN rows : rows[r] = 0
  BY <1>3, <1>4
<1> QED BY <1>1, <1>6, <1>7, <1>8 DEF SlsTyped

LEMMA TakenTyped ==
  ASSUME SlsTyped, NEW page, NEW whole \in BOOLEAN, PageOf(page, whole),
         ~whole => misses < MaxPatchy,
         Taken(page, whole) \/ Interrupted(page, whole)
  PROVE  SlsTyped'
<1> USE SlsBounds
<1>1. call' = call /\ UNCHANGED <<rows, clock, newest, to, begun>>
  BY DEF Taken, Interrupted, Return
<1>2. misses' \in 0 .. MaxPatchy /\ patchy' \in SUBSET Nat
  <2>1. Recorded(page, whole)
    BY DEF Taken, Interrupted
  <2>2. CASE whole
    BY <2>1, <2>2 DEF Recorded, SlsTyped
  <2>3. CASE ~whole
    <3>1. Spoilt(page) \in SUBSET Nat
      BY DEF Spoilt, SlsTyped, PageOf
    <3>2. misses' = misses + 1 /\ patchy' = patchy \union Spoilt(page)
      BY <2>1, <2>3 DEF Recorded
    <3>3. misses \in 0 .. MaxPatchy /\ misses < MaxPatchy /\ patchy \in SUBSET Nat
      BY <2>3 DEF SlsTyped
    <3>4. misses' \in 0 .. MaxPatchy
      BY <3>2, <3>3
    <3>5. patchy' \in SUBSET Nat
      BY <3>1, <3>2, <3>3
    <3> QED BY <3>4, <3>5
  <2> QED BY <2>2, <2>3
<1>3. CASE Interrupted(page, whole)
  <2>1. UNCHANGED <<want, try, offset, from>>
    BY <1>3 DEF Interrupted
  <2> QED BY <1>1, <1>2, <2>1 DEF SlsTyped
<1>4. CASE Taken(page, whole)
  <2>1. /\ try' = 1 /\ offset' = offset + Len(page)
        /\ want' = IF call.verb = "tail" THEN want ELSE want - Len(page)
    BY <1>4 DEF Taken
  <2>2. from' \in {from, to}
    BY <1>4 DEF Taken
  <2>3. Line \in Nat /\ Len(page) \in 0 .. Line /\ (call.verb # "tail" => Line <= want)
    BY LineIs DEF PageOf
  <2>4. offset' \in Nat /\ want' \in 0 .. MaxRows /\ try' \in 1 .. Tries
    BY <2>1, <2>3 DEF SlsTyped
  <2>5. call.verb # "tail" => want' + offset' <= MaxRows
    BY <2>1, <2>3 DEF SlsTyped
  <2> QED BY <1>1, <1>2, <2>2, <2>4, <2>5 DEF SlsTyped
<1> QED BY <1>3, <1>4

LEMMA ArriveTyped ==
  ASSUME SlsTyped, Arrive
  PROVE  SlsTyped'
<1>1. /\ rows' = Append(rows, clock)
      /\ UNCHANGED <<call, clock, want, newest, try, offset, misses, patchy, from, to, begun>>
  BY DEF Arrive, run
<1>2. /\ rows \in Seq(0 .. MaxClock) /\ Len(rows) \in Nat /\ DOMAIN rows = 1 .. Len(rows)
      /\ clock \in 0 .. MaxClock
  BY DEF SlsTyped
<1>3. /\ rows' \in Seq(0 .. MaxClock) /\ DOMAIN rows' = 1 .. Len(rows) + 1
      /\ rows'[Len(rows) + 1] = clock
      /\ \A r \in 1 .. Len(rows) : rows'[r] = rows[r]
  BY <1>1, <1>2
<1>4. \A r \in DOMAIN rows' : rows'[r] <= clock
  <2> SUFFICES ASSUME NEW r \in DOMAIN rows' PROVE rows'[r] <= clock
    OBVIOUS
  <2>1. CASE r \in 1 .. Len(rows)
    BY <1>2, <1>3, <2>1 DEF SlsTyped
  <2>2. CASE r = Len(rows) + 1
    BY <1>2, <1>3, <2>2
  <2>3. r \in 1 .. Len(rows) \/ r = Len(rows) + 1
    BY <1>2, <1>3
  <2> QED BY <2>1, <2>2, <2>3, Zenon
<1>5. \A q, r \in DOMAIN rows' : q < r => rows'[q] <= rows'[r]
  <2> SUFFICES ASSUME NEW q \in DOMAIN rows', NEW r \in DOMAIN rows', q < r
               PROVE  rows'[q] <= rows'[r]
    OBVIOUS
  <2>1. q \in 1 .. Len(rows) /\ (r \in 1 .. Len(rows) \/ r = Len(rows) + 1)
    BY <1>2, <1>3
  <2>2. CASE r \in 1 .. Len(rows)
    BY <1>2, <1>3, <2>1, <2>2 DEF SlsTyped
  <2>3. CASE r = Len(rows) + 1
    BY <1>3, <1>4, <2>3
  <2> QED BY <2>1, <2>2, <2>3, Zenon
<1> QED BY <1>1, <1>3, <1>4, <1>5 DEF SlsTyped

LEMMA SlsStays ==
  ASSUME SlsTyped, UNCHANGED <<call, slsvars>>
  PROVE  SlsTyped'
  BY DEF SlsTyped, slsvars

LEMMA SlsStep_Typed ==
  ASSUME SlsTyped, call \in Calls, Arrive \/ Second \/ SlsStep
  PROVE  SlsTyped'
<1> USE SlsBounds
<1>1. CASE Arrive
  BY <1>1, ArriveTyped
<1>2. CASE Second
  <2>1. /\ clock' = clock + 1 /\ clock' \in 0 .. MaxClock
        /\ UNCHANGED <<call, rows, want, newest, try, offset, misses, patchy, from, to, begun>>
    BY <1>2 DEF Second, run, SlsTyped
  <2>2. \A r \in DOMAIN rows : rows[r] \in 0 .. MaxClock
    BY DEF SlsTyped
  <2>3. \A r \in DOMAIN rows : rows[r] <= clock'
    BY <2>1, <2>2 DEF SlsTyped
  <2>4. /\ from' \in 0 .. clock' /\ to' \in 0 .. clock' /\ begun' \in Nat
        /\ call.verb = "tail" => begun' <= clock'
    BY <2>1 DEF SlsTyped
  <2> QED BY <2>1, <2>3, <2>4 DEF SlsTyped
<1>3. CASE Ask \/ TimesOut \/ AskFails \/ Probed
  BY <1>3, SlsElse, SlsStays DEF Ask, TimesOut, AskFails, Probed, SlsStep
<1>10. CASE Search
  <2>1. /\ begun' = Len(rows) /\ call.verb # "tail"
        /\ UNCHANGED <<call, rows, clock, want, newest, from, to, offset, try, misses, patchy>>
    BY <1>10 DEF Search, Asked, Searches
  <2> QED BY <2>1 DEF SlsTyped
<1>4. CASE TailRows
  <2>1. /\ from' = (IF clock > LookBack THEN clock - LookBack ELSE 0) /\ begun' = from'
        /\ UNCHANGED <<call, rows, clock, want, newest, to, offset, try, misses, patchy>>
    BY <1>4 DEF TailRows
  <2>2. from' \in 0 .. clock
    BY <2>1 DEF SlsTyped
  <2> QED BY <2>1, <2>2 DEF SlsTyped
<1>5. CASE Poll
  <2>1. /\ to' = clock /\ offset' = 0 /\ try' = 1
        /\ UNCHANGED <<call, rows, clock, want, newest, from, begun, misses, patchy>>
    BY <1>5 DEF Poll
  <2> QED BY <2>1 DEF SlsTyped
<1>6. CASE AskAgain
  BY <1>6 DEF AskAgain, SlsTyped
<1>7. CASE Fallback
  <2>1. /\ offset' = 0 /\ want' = want + offset /\ try' = 1 /\ patchy' = {}
        /\ begun' = Len(rows) /\ call.verb # "tail"
        /\ UNCHANGED <<call, rows, clock, newest, from, to, misses>>
    BY <1>7 DEF Fallback
  <2>2. want' \in 0 .. MaxRows /\ want' + offset' <= MaxRows
    BY <2>1 DEF SlsTyped
  <2> QED BY <2>1, <2>2 DEF SlsTyped
<1>8. CASE Answered
  BY <1>8, PageIs, TakenTyped DEF Answered
<1>9. CASE Patchy
  <2>1. PICK some \in SUBSET DOMAIN Window :
               /\ Cardinality(some) <= Line
               /\ Taken(Scanned(some), FALSE) \/ Interrupted(Scanned(some), FALSE)
    BY <1>9 DEF Patchy
  <2>2. PageOf(Scanned(some), FALSE) /\ misses < MaxPatchy
    BY <1>9, <2>1, ScannedIs DEF Patchy
  <2> QED BY <2>1, <2>2, TakenTyped
<1> QED BY <1>1, <1>2, <1>3, <1>4, <1>5, <1>6, <1>7, <1>8, <1>9, <1>10 DEF SlsStep

-----------------------------------------------------------------------------
(* SLS: counting rows by their seconds *)

\* The rows before a second.
Before(rs, t) == Cardinality({r \in DOMAIN rs : rs[r] < t})

\* Rows arrive in the order of their seconds, so those before a second are the
\* first ones, ...
LEMMA BeforeIs ==
  ASSUME SlsTyped, NEW t \in Nat
  PROVE  /\ Before(rows, t) \in 0 .. Len(rows) /\ Before(rows, t) \in Nat
         /\ \A r \in DOMAIN rows : rows[r] < t <=> r <= Before(rows, t)
<1> DEFINE some == {r \in DOMAIN rows : rows[r] < t}
           n == Len(rows)
<1>1. rows \in Seq(0 .. MaxClock) /\ n \in Nat /\ DOMAIN rows = 1 .. n
  BY DEF SlsTyped
<1>2. some \in SUBSET (1 .. n)
  BY <1>1
<1>3. ASSUME NEW r \in some PROVE 1 .. r \subseteq some
  <2> SUFFICES ASSUME NEW q \in 1 .. r PROVE q \in some
    OBVIOUS
  <2>1. q \in DOMAIN rows /\ r \in DOMAIN rows /\ rows[r] < t /\ (q = r \/ q < r)
    BY <1>1, <1>3
  <2>2. rows[q] <= rows[r] /\ rows[q] \in Nat /\ rows[r] \in Nat
    BY <1>1, <2>1, SlsBounds DEF SlsTyped
  <2>3. rows[q] < t
    BY <2>1, <2>2
  <2> QED BY <2>1, <2>3
<1>4. Cardinality(some) \in 0 .. n /\ some = 1 .. Cardinality(some)
  <2> HIDE DEF some
  <2> QED BY <1>1, <1>2, <1>3, FirstRows
<1>5. Before(rows, t) = Cardinality(some)
  BY DEF Before
<1>6. \A r \in DOMAIN rows : rows[r] < t <=> r \in some
  OBVIOUS
<1>7. \A r \in DOMAIN rows : r \in some <=> r <= Cardinality(some)
  <2> HIDE DEF some
  <2> QED BY <1>1, <1>4
<1> QED BY <1>1, <1>4, <1>5, <1>6, <1>7

\* ... and those between two seconds a run.
LEMMA BetweenIs ==
  ASSUME SlsTyped, NEW t \in Nat, NEW u \in Nat, t <= u
  PROVE  /\ Before(rows, t) <= Before(rows, u)
         /\ {r \in DOMAIN rows : t <= rows[r] /\ rows[r] < u}
              = Before(rows, t) + 1 .. Before(rows, t) + (Before(rows, u) - Before(rows, t))
<1> DEFINE a == Before(rows, t)
           b == Before(rows, u)
<1>1. /\ a \in 0 .. Len(rows) /\ b \in 0 .. Len(rows)
      /\ \A r \in DOMAIN rows : rows[r] < t <=> r <= a
      /\ \A r \in DOMAIN rows : rows[r] < u <=> r <= b
  BY BeforeIs
<1> HIDE DEF a, b
<1>2. Len(rows) \in Nat /\ DOMAIN rows = 1 .. Len(rows) /\ \A r \in DOMAIN rows : rows[r] \in Nat
  BY SlsBounds DEF SlsTyped
<1>3. a <= b
  <2> SUFFICES ASSUME a > b PROVE FALSE
    BY <1>1
  <2>1. a \in DOMAIN rows
    BY <1>1, <1>2
  <2>2. rows[a] < t /\ ~(rows[a] < u)
    BY <1>1, <2>1
  <2> QED BY <1>2, <2>1, <2>2
<1>4. a + (b - a) = b
  BY <1>1
<1>5. \A r \in DOMAIN rows : t <= rows[r] /\ rows[r] < u <=> a + 1 <= r /\ r <= b
  <2> SUFFICES ASSUME NEW r \in DOMAIN rows
               PROVE  t <= rows[r] /\ rows[r] < u <=> a + 1 <= r /\ r <= b
    OBVIOUS
  <2>1. rows[r] \in Nat /\ r \in Nat
    BY <1>2
  <2>2. t <= rows[r] <=> ~(rows[r] < t)
    BY <2>1
  <2>3. a + 1 <= r <=> ~(r <= a)
    BY <1>1, <2>1
  <2> QED BY <1>1, <2>2, <2>3
<1>6. \A r \in a + 1 .. b : r \in DOMAIN rows
  BY <1>1, <1>2
<1>7. {r \in DOMAIN rows : t <= rows[r] /\ rows[r] < u} = a + 1 .. b
  BY <1>2, <1>1, <1>5, <1>6
<1> QED BY <1>3, <1>4, <1>7 DEF a, b

\* Rows that arrive now are not before any second a window has begun or ended
\* with.
LEMMA ArriveAfter ==
  ASSUME SlsTyped, Arrive, NEW t \in 0 .. clock
  PROVE  Before(rows', t) = Before(rows, t)
<1>1. /\ rows \in Seq(0 .. MaxClock) /\ Len(rows) \in Nat /\ DOMAIN rows = 1 .. Len(rows)
      /\ clock \in 0 .. MaxClock
  BY DEF SlsTyped
<1>2. /\ DOMAIN rows' = 1 .. Len(rows) + 1 /\ rows'[Len(rows) + 1] = clock
      /\ \A r \in 1 .. Len(rows) : rows'[r] = rows[r]
  BY <1>1 DEF Arrive
<1>3. ~(clock < t)
  BY SlsBounds, <1>1
<1>4. {r \in DOMAIN rows' : rows'[r] < t} = {r \in DOMAIN rows : rows[r] < t}
  <2>1. ASSUME NEW r \in DOMAIN rows' PROVE r \in DOMAIN rows \/ r = Len(rows) + 1
    BY <1>1, <1>2
  <2>2. ASSUME NEW r \in DOMAIN rows PROVE r \in DOMAIN rows' /\ rows'[r] = rows[r]
    BY <1>1, <1>2
  <2> QED BY <1>2, <1>3, <2>1, <2>2
<1> QED BY <1>4 DEF Before

-----------------------------------------------------------------------------
(* SLS: what is shown *)

\* No incomplete page was used in the second of a row; a row that is shown; all
\* there are before one.
Sound(rs, ps, r) == rs[r] \notin ps
IsShown(sh, r)   == \E k \in DOMAIN sh : sh[k] = r
AllTo(rs, ps, sh, bg, r) ==
    \A q \in DOMAIN rs : q < r /\ bg <= rs[q] /\ Sound(rs, ps, q) => IsShown(sh, q)

\* What a tail has shown, at any time.
TrailOf(rs, ps, sh, bg) ==
    /\ sh \in Seq(Nat)
    /\ \A i \in DOMAIN sh :
         /\ sh[i] \in DOMAIN rs /\ bg <= rs[sh[i]]
         /\ Sound(rs, ps, sh[i]) => AllTo(rs, ps, sh, bg, sh[i])
    /\ \A i, j \in DOMAIN sh :
         i < j /\ Sound(rs, ps, sh[i]) /\ Sound(rs, ps, sh[j]) => sh[i] < sh[j]

Trail == TrailOf(rows, patchy, shown, begun)

\* All rows of the windows that are closed are shown.
Complete ==
    \A r \in DOMAIN rows :
      begun <= rows[r] /\ rows[r] < from /\ Sound(rows, patchy, r) => IsShown(shown, r)

\* Within a window: it is spoilt, or has been shown up to the offset.
Within ==
    \/ from .. to - 1 \subseteq patchy
    \/ /\ \A t \in patchy : t < from
       /\ Before(rows, from) + offset <= Before(rows, to)
       /\ \A i \in DOMAIN shown :
            from <= rows[shown[i]] => shown[i] <= Before(rows, from) + offset
       /\ \A r \in Before(rows, from) + 1 .. Before(rows, from) + offset : IsShown(shown, r)

TailInv ==
    /\ pc \in {"start", "run", "loop", "fetch", "asked", "return", "audit", "exited"}
    /\ pc \in {"start", "run"} => shown = <<>> /\ patchy = {}
    /\ Trail
    /\ pc \in {"loop", "fetch", "asked"} => mode = "stream" /\ begun <= from /\ Complete
    /\ pc = "loop" =>
        /\ \A i \in DOMAIN shown : rows[shown[i]] < from
        /\ \A t \in patchy : t < from
    /\ pc \in {"fetch", "asked"} =>
        /\ from <= to
        /\ \A i \in DOMAIN shown : rows[shown[i]] < to
        /\ \A t \in patchy : t < to
        /\ Within

\* What a search has collected: where no page was incomplete, the rows that belong
\* there.
Found(s) ==
    /\ s \in Seq(Nat) /\ patchy \subseteq 1 .. Len(s)
    /\ \A i \in DOMAIN s \ patchy :
         IF newest THEN s[i] + i - 1 \in begun .. Len(rows) ELSE s[i] = i
    /\ newest => \A i, j \in DOMAIN s \ patchy : i < j => s[i] + i <= s[j] + j

SearchInv ==
    /\ pc \in {"start", "run", "fetch", "asked", "return", "audit", "exited"}
    /\ pc \in {"start", "run"} => offset = 0 /\ held = <<>> /\ patchy = {}
    /\ pc \in {"start", "run", "fetch", "asked"} =>
        mode = "none" /\ want > 0 /\ Found(held) /\ Len(held) = offset
    /\ begun <= Len(rows)
    /\ mode = "batch" =>
        /\ Found(shown)
        /\ ~told => IF want = 0 THEN Len(shown) \notin patchy ELSE Len(shown) >= begun
        /\ told => misses > 0

Searching == call.verb \in Searches

SlsInv ==
    /\ call.verb = "tail" => TailInv
    /\ Searching => SearchInv

LEMMA EmptyFound == patchy = {} => Found(<<>>)
  BY DEF Found

LEMMA SlsInit_Inv == Init => SlsInv
<1> SUFFICES ASSUME Init PROVE SlsInv
  OBVIOUS
<1>1. /\ pc = "start" /\ mode = "none" /\ held = <<>> /\ shown = <<>> /\ offset = 0
      /\ begun = 0 /\ patchy = {}
      /\ Searching => want \in 1 .. MaxRows
  BY DEF Init, RunInit, SlsInit, Searching
<1>2. Len(rows) \in Nat /\ MaxRows \in Nat
  BY SlsInit_Typed, SlsBounds DEF SlsTyped
<1>3. Found(held) /\ Len(held) = 0
  BY <1>1, EmptyFound
<1>4. Trail
  BY <1>1 DEF Trail, TrailOf
<1> QED BY <1>1, <1>2, <1>3, <1>4 DEF SlsInv, TailInv, SearchInv, Searching

LEMMA SlsShown == SlsInv /\ SlsTyped /\ call \in Calls => SlsTrue
<1> SUFFICES ASSUME SlsInv, SlsTyped PROVE SlsTrue
  OBVIOUS
<1>1. ASSUME mode = "batch", Searching PROVE SearchTrue
  BY <1>1 DEF SlsInv, SearchInv, Found, SearchTrue
<1>2. ASSUME call.verb = "tail" PROVE TailTrue
  <2>1. Trail /\ (pc = "loop" => Complete)
    BY <1>2 DEF SlsInv, TailInv
  <2> QED BY <2>1, Zenon DEF Trail, TrailOf, Complete, AllTo, Sound, IsShown, TailTrue
<1> QED BY <1>1, <1>2 DEF SlsTrue, Searching

\* Another adapter, the end of an invocation, the beginning.
LEMMA SlsRests ==
  ASSUME SlsInv, UNCHANGED <<call, mode, held, shown, told, slsvars>>,
         \/ pc' = pc
         \/ pc' \in {"return", "audit", "exited"}
         \/ pc = "start" /\ pc' = "run"
         \/ pc = "fetch" /\ pc' = "asked"
         \/ pc = "asked" /\ pc' = "fetch"
  PROVE  SlsInv'
<1>1. UNCHANGED <<rows, want, newest, from, to, offset, begun, misses, patchy>>
  BY DEF slsvars
<1>2. ASSUME call.verb = "tail" PROVE TailInv'
  <2>1. TailInv /\ call.verb # "search" /\ call.verb # "trace"
    BY <1>2 DEF SlsInv
  <2>2. Trail' /\ (Complete => Complete') /\ (Within => Within')
    BY <1>1, <2>1, Zenon
       DEF TailInv, Trail, TrailOf, AllTo, Complete, Within, Sound, IsShown, Before
  <2> QED BY <1>1, <2>1, <2>2 DEF TailInv
<1>3. ASSUME Searching PROVE SearchInv'
  <2>1. SearchInv
    BY <1>3 DEF SlsInv
  <2>2. (Found(held) => Found(held)') /\ (Found(shown) => Found(shown)')
    BY <1>1 DEF Found
  <2> QED BY <1>1, <2>1, <2>2 DEF SearchInv
<1> QED BY <1>2, <1>3 DEF SlsInv, Searching

LEMMA SlsRun ==
  ASSUME VerdictInv, SlsInv, UNCHANGED slsvars, Step \/ BadRequest \/ Panics \/ Cancel
  PROVE  SlsInv'
<1>1. CASE EarlyErr
  <2>1. /\ UNCHANGED <<call, mode, held, shown, told>> /\ pc' = "exited"
    BY <1>1 DEF EarlyErr
  <2> QED BY <2>1, SlsRests
<1>2. CASE Targets
  BY <1>2, SlsRests DEF Targets
<1>3. CASE Dispatch
  BY <1>3, SlsRests DEF Dispatch, output
<1>4. CASE Finalize \/ Finish
  BY <1>4, SlsRests DEF Finalize, Finish, output
<1>5. CASE BadRequest \/ Panics
  BY <1>5, SlsRests DEF BadRequest, Panics, Refuse, Return, output
<1>6. CASE Cancel
  BY <1>6, SlsRests DEF Cancel, output
<1> QED BY <1>1, <1>2, <1>3, <1>4, <1>5, <1>6 DEF Step

\* The window of a tail is a run of rows.
LEMMA TailWindow ==
  ASSUME SlsTyped, call.verb = "tail", from <= to
  PROVE  /\ Before(rows, from) \in Nat /\ Before(rows, to) \in Nat
         /\ Before(rows, from) <= Before(rows, to)
         /\ Len(Window) = Before(rows, to) - Before(rows, from)
         /\ \A i \in 1 .. Len(Window) :
              /\ Window[i] = Before(rows, from) + i
              /\ Window[i] \in DOMAIN rows
              /\ from <= rows[Window[i]] /\ rows[Window[i]] < to
         /\ \A r \in DOMAIN rows :
              from <= rows[r] /\ rows[r] < to
                <=> Before(rows, from) < r /\ r <= Before(rows, to)
<1> DEFINE a == Before(rows, from)
           c == Before(rows, to)
           w == c - a
           some == {r \in DOMAIN rows : from <= rows[r] /\ rows[r] < to}
<1>1. from \in Nat /\ to \in Nat
  BY SlsBounds DEF SlsTyped
<1>2. a \in Nat /\ c \in Nat /\ a <= c /\ some = a + 1 .. a + w
  BY <1>1, BeforeIs, BetweenIs
<1>3. Window = InOrder(some)
  BY DEF Window
<1>4. w \in Nat /\ a + w = c
  BY <1>2
<1>5. DOMAIN rows \subseteq Nat
  BY DEF SlsTyped
<1>6. \A r \in DOMAIN rows : r \in some <=> from <= rows[r] /\ rows[r] < to
  OBVIOUS
<1>7. some \subseteq DOMAIN rows
  OBVIOUS
<1> HIDE DEF some, a, c, w
<1>8. InOrder(a + 1 .. a + w) = [i \in 1 .. w |-> a + i]
  BY <1>2, <1>4, InOrderRun
<1>9. Window = [i \in 1 .. w |-> a + i]
  BY <1>2, <1>3, <1>8
<1>10. Len(Window) = w /\ \A i \in 1 .. w : Window[i] = a + i
  BY <1>4, <1>9
<1>11. \A i \in 1 .. w : a + i \in some
  BY <1>2, <1>4
<1>12. \A r \in DOMAIN rows : r \in some <=> a < r /\ r <= c
  BY <1>2, <1>4, <1>5
<1> QED BY <1>2, <1>4, <1>6, <1>7, <1>10, <1>11, <1>12 DEF a, c, w

\* A page goes on where the last one ended, or belongs to a spoilt window.
Continues(p) ==
    \/ from .. to - 1 \subseteq patchy'
    \/ /\ patchy' = patchy /\ \A t \in patchy : t < from
       /\ Before(rows, from) + offset + Len(p) <= Before(rows, to)
       /\ \A i \in DOMAIN shown :
            from <= rows[shown[i]] => shown[i] <= Before(rows, from) + offset
       /\ \A r \in Before(rows, from) + 1 .. Before(rows, from) + offset : IsShown(shown, r)
       /\ \A k \in 1 .. Len(p) : p[k] = Before(rows, from) + offset + k

LEMMA TailGrows ==
  ASSUME SlsTyped, call.verb = "tail", Trail, begun <= from, from <= to,
         Complete,
         \A i \in DOMAIN shown : rows[shown[i]] < to,
         NEW p \in Seq(Nat), shown' = shown \o p, UNCHANGED <<rows, begun>>,
         patchy \subseteq patchy', Continues(p),
         \A k \in 1 .. Len(p) :
           p[k] \in DOMAIN rows /\ from <= rows[p[k]] /\ rows[p[k]] < to
  PROVE  /\ Trail'
         /\ \A r \in DOMAIN rows : IsShown(shown, r) => IsShown(shown', r)
         /\ \A k \in 1 .. Len(p) : IsShown(shown', p[k])
         /\ \A i \in DOMAIN shown' : rows[shown'[i]] < to
         /\ from .. to - 1 \subseteq patchy'
              \/ \A i \in DOMAIN shown' : from <= rows[shown'[i]] =>
                   shown'[i] <= Before(rows, from) + offset + Len(p)
<1> DEFINE n == Len(shown)
           m == Len(p)
           b == Before(rows, from)
<1>1. /\ n \in Nat /\ m \in Nat /\ DOMAIN shown = 1 .. n /\ shown \in Seq(Nat)
      /\ DOMAIN rows \subseteq Nat /\ (\A r \in DOMAIN rows : rows[r] \in Nat)
      /\ from \in Nat /\ to \in Nat /\ begun \in Nat /\ offset \in Nat /\ b \in Nat
  <2>1. from \in Nat /\ to \in Nat /\ begun \in Nat /\ offset \in Nat
    BY SlsBounds DEF SlsTyped
  <2>2. rows \in Seq(0 .. MaxClock) /\ MaxClock \in Nat
    BY SlsBounds DEF SlsTyped
  <2>3. DOMAIN rows \subseteq Nat /\ \A r \in DOMAIN rows : rows[r] \in Nat
    BY <2>2
  <2>4. b \in Nat
    BY <2>1, BeforeIs
  <2>5. shown \in Seq(Nat)
    BY DEF Trail, TrailOf
  <2>6. n \in Nat /\ m \in Nat /\ DOMAIN shown = 1 .. n
    BY <2>5
  <2> QED BY <2>1, <2>3, <2>4, <2>5, <2>6
<1>2. /\ shown' \in Seq(Nat) /\ DOMAIN shown' = 1 .. n + m
      /\ \A i \in 1 .. n : shown'[i] = shown[i]
      /\ \A k \in 1 .. m : n + k \in 1 .. n + m /\ shown'[n + k] = p[k]
  BY <1>1
<1> HIDE DEF n, m, b
<1>3. ASSUME NEW i \in DOMAIN shown'
      PROVE  \/ i \in 1 .. n /\ shown'[i] = shown[i]
             \/ i > n /\ i - n \in 1 .. m /\ shown'[i] = p[i - n]
  BY <1>1, <1>2
<1>4. /\ \A r \in DOMAIN rows : IsShown(shown, r) => IsShown(shown', r)
      /\ \A k \in 1 .. m : IsShown(shown', p[k])
  <2>1. \A r \in DOMAIN rows : IsShown(shown, r) => IsShown(shown', r)
    <3>1. \A i \in DOMAIN shown : i \in DOMAIN shown' /\ shown'[i] = shown[i]
      BY <1>1, <1>2
    <3> QED BY <3>1, Zenon DEF IsShown
  <2>2. \A k \in 1 .. m : IsShown(shown', p[k])
    BY <1>2 DEF IsShown
  <2> QED BY <2>1, <2>2
<1>5. \A r \in DOMAIN rows : Sound(rows, patchy', r) => Sound(rows, patchy, r)
  BY DEF Sound
<1>6. \A i \in DOMAIN shown' : shown'[i] \in DOMAIN rows /\ begun <= rows[shown'[i]]
  <2> SUFFICES ASSUME NEW i \in DOMAIN shown'
               PROVE  shown'[i] \in DOMAIN rows /\ begun <= rows[shown'[i]]
    OBVIOUS
  <2>1. CASE i \in 1 .. n /\ shown'[i] = shown[i]
    BY <1>1, <2>1 DEF Trail, TrailOf
  <2>2. CASE i - n \in 1 .. m /\ shown'[i] = p[i - n]
    <3>1. p[i - n] \in DOMAIN rows /\ from <= rows[p[i - n]]
      BY <2>2 DEF m
    <3>2. rows[p[i - n]] \in Nat
      BY <1>1, <3>1
    <3>3. begun <= rows[p[i - n]]
      BY <1>1, <3>1, <3>2
    <3> QED BY <2>2, <3>1, <3>3
  <2> QED BY <1>3, <2>1, <2>2
<1>7. \A i \in DOMAIN shown' : rows[shown'[i]] < to
  <2> SUFFICES ASSUME NEW i \in DOMAIN shown' PROVE rows[shown'[i]] < to
    OBVIOUS
  <2>1. CASE i \in 1 .. n /\ shown'[i] = shown[i]
    BY <1>1, <2>1
  <2>2. CASE i - n \in 1 .. m /\ shown'[i] = p[i - n]
    BY <2>2 DEF m
  <2> QED BY <1>3, <2>1, <2>2
<1>8. \A i \in 1 .. n :
        Sound(rows, patchy', shown[i]) => AllTo(rows, patchy', shown', begun, shown[i])
  <2> SUFFICES ASSUME NEW i \in 1 .. n, Sound(rows, patchy', shown[i])
               PROVE  AllTo(rows, patchy', shown', begun, shown[i])
    OBVIOUS
  <2>1. shown[i] \in DOMAIN rows /\ AllTo(rows, patchy, shown, begun, shown[i])
    BY <1>1, <1>5 DEF Trail, TrailOf
  <2>2. shown'[i] = shown[i]
    BY <1>2
  <2> QED BY <1>2, <1>4, <1>5, <2>1, <2>2 DEF AllTo
<1>9. CASE from .. to - 1 \subseteq patchy'
  <2>1. \A r \in DOMAIN rows : from <= rows[r] /\ rows[r] < to => ~Sound(rows, patchy', r)
    <3> SUFFICES ASSUME NEW r \in DOMAIN rows, from <= rows[r], rows[r] < to
                 PROVE  ~Sound(rows, patchy', r)
      OBVIOUS
    <3>1. rows[r] \in from .. to - 1
      BY <1>1
    <3> QED BY <1>9, <3>1 DEF Sound
  <2>2. \A i \in DOMAIN shown' :
          Sound(rows, patchy', shown'[i]) => i \in 1 .. n /\ shown'[i] = shown[i]
    <3> SUFFICES ASSUME NEW i \in DOMAIN shown', i - n \in 1 .. m, shown'[i] = p[i - n]
                 PROVE  ~Sound(rows, patchy', shown'[i])
      BY <1>3
    <3>1. p[i - n] \in DOMAIN rows /\ from <= rows[p[i - n]] /\ rows[p[i - n]] < to
      BY DEF m
    <3>2. ~Sound(rows, patchy', p[i - n])
      BY <2>1, <3>1
    <3> QED BY <3>2 DEF Sound
  <2>3. \A i \in DOMAIN shown' :
          Sound(rows, patchy', shown'[i]) => AllTo(rows, patchy', shown', begun, shown'[i])
    <3> SUFFICES ASSUME NEW i \in DOMAIN shown', Sound(rows, patchy', shown'[i])
                 PROVE  AllTo(rows, patchy', shown', begun, shown'[i])
      OBVIOUS
    <3>1. i \in 1 .. n /\ shown'[i] = shown[i]
      BY <2>2
    <3>2. Sound(rows, patchy', shown[i])
      BY <3>1 DEF Sound
    <3>3. AllTo(rows, patchy', shown', begun, shown[i])
      BY <1>8, <3>1, <3>2
    <3> QED BY <3>1, <3>3 DEF AllTo
  <2>4. \A i, j \in DOMAIN shown' :
          i < j /\ Sound(rows, patchy', shown'[i]) /\ Sound(rows, patchy', shown'[j])
            => shown'[i] < shown'[j]
    <3> SUFFICES ASSUME NEW i \in DOMAIN shown', NEW j \in DOMAIN shown', i < j,
                        Sound(rows, patchy', shown'[i]), Sound(rows, patchy', shown'[j])
                 PROVE  shown'[i] < shown'[j]
      OBVIOUS
    <3>1. i \in 1 .. n /\ j \in 1 .. n /\ shown'[i] = shown[i] /\ shown'[j] = shown[j]
      BY <2>2
    <3>2. Sound(rows, patchy, shown[i]) /\ Sound(rows, patchy, shown[j])
      <4>1. shown[i] \in DOMAIN rows /\ shown[j] \in DOMAIN rows
        BY <1>1, <3>1 DEF Trail, TrailOf
      <4>2. rows[shown[i]] \notin patchy' /\ rows[shown[j]] \notin patchy'
        BY <3>1 DEF Sound
      <4> QED BY <4>2 DEF Sound
    <3> QED BY <1>1, <3>1, <3>2 DEF Trail, TrailOf
  <2>5. Trail'
    BY <1>2, <1>6, <2>3, <2>4 DEF Trail, TrailOf
  <2> QED BY <1>4, <1>7, <1>9, <2>5 DEF m
<1>10. ASSUME /\ patchy' = patchy /\ \A t \in patchy : t < from
              /\ b + offset + m <= Before(rows, to)
              /\ \A i \in DOMAIN shown : from <= rows[shown[i]] => shown[i] <= b + offset
              /\ \A r \in b + 1 .. b + offset : IsShown(shown, r)
              /\ \A k \in 1 .. m : p[k] = b + offset + k
       PROVE  /\ Trail'
              /\ \A i \in DOMAIN shown' : from <= rows[shown'[i]] =>
                   shown'[i] <= b + offset + m
  <2>1. \A r \in DOMAIN rows : from <= rows[r] /\ rows[r] < to <=> b < r /\ r <= Before(rows, to)
    BY TailWindow DEF b
  <2>2. \A i \in 1 .. n : shown[i] <= b + offset /\ shown[i] \in Nat
    <3> SUFFICES ASSUME NEW i \in 1 .. n PROVE shown[i] <= b + offset /\ shown[i] \in Nat
      OBVIOUS
    <3>1. shown[i] \in DOMAIN rows /\ rows[shown[i]] < to /\ shown[i] \in Nat
      BY <1>1 DEF Trail, TrailOf
    <3>2. CASE from <= rows[shown[i]]
      BY <1>1, <1>10, <3>1, <3>2
    <3>3. CASE ~(from <= rows[shown[i]])
      <4>1. rows[shown[i]] < from
        BY <1>1, <3>1, <3>3
      <4>2. shown[i] <= b
        BY <1>1, <3>1, <4>1, BeforeIs DEF b
      <4> QED BY <1>1, <3>1, <4>2
    <3> QED BY <3>2, <3>3
  <2>3. \A i \in DOMAIN shown' : from <= rows[shown'[i]] => shown'[i] <= b + offset + m
    <3> SUFFICES ASSUME NEW i \in DOMAIN shown' PROVE shown'[i] <= b + offset + m
      OBVIOUS
    <3>1. CASE i \in 1 .. n /\ shown'[i] = shown[i]
      <4>1. shown[i] <= b + offset /\ shown[i] \in Nat
        BY <2>2, <3>1
      <4> QED BY <1>1, <3>1, <4>1
    <3>2. CASE i - n \in 1 .. m /\ shown'[i] = p[i - n]
      <4>1. shown'[i] = b + offset + (i - n)
        BY <1>10, <3>2
      <4> QED BY <1>1, <3>2, <4>1
    <3> QED BY <1>3, <3>1, <3>2
  <2>4. \A i, j \in DOMAIN shown' :
          i < j /\ Sound(rows, patchy', shown'[i]) /\ Sound(rows, patchy', shown'[j])
            => shown'[i] < shown'[j]
    <3> SUFFICES ASSUME NEW i \in DOMAIN shown', NEW j \in DOMAIN shown', i < j,
                        Sound(rows, patchy', shown'[i]), Sound(rows, patchy', shown'[j])
                 PROVE  shown'[i] < shown'[j]
      OBVIOUS
    <3>0. i \in Nat /\ j \in Nat
      BY <1>1, <1>2
    <3>1. CASE j \in 1 .. n /\ shown'[j] = shown[j]
      <4>1. i \in 1 .. n /\ shown'[i] = shown[i]
        BY <1>1, <1>3, <3>0, <3>1
      <4>2. Sound(rows, patchy, shown[i]) /\ Sound(rows, patchy, shown[j])
        BY <1>10, <3>1, <4>1 DEF Sound
      <4> QED BY <1>1, <3>1, <4>1, <4>2 DEF Trail, TrailOf
    <3>2. CASE j > n /\ j - n \in 1 .. m /\ shown'[j] = p[j - n]
      <4>1. shown'[j] = b + offset + (j - n)
        BY <1>10, <3>2
      <4>2. CASE i \in 1 .. n /\ shown'[i] = shown[i]
        BY <1>1, <2>2, <3>0, <3>2, <4>1, <4>2
      <4>3. CASE i > n /\ i - n \in 1 .. m /\ shown'[i] = p[i - n]
        <5>1. shown'[i] = b + offset + (i - n)
          BY <1>10, <4>3
        <5> QED BY <1>1, <3>0, <4>1, <5>1
      <4> QED BY <1>3, <4>2, <4>3
    <3> QED BY <1>3, <3>1, <3>2
  <2>5. \A i \in DOMAIN shown' :
          Sound(rows, patchy', shown'[i]) => AllTo(rows, patchy', shown', begun, shown'[i])
    <3> SUFFICES ASSUME NEW i \in DOMAIN shown', Sound(rows, patchy', shown'[i])
                 PROVE  AllTo(rows, patchy', shown', begun, shown'[i])
      OBVIOUS
    <3>1. CASE i \in 1 .. n /\ shown'[i] = shown[i]
      <4>1. Sound(rows, patchy', shown[i])
        BY <3>1 DEF Sound
      <4>2. AllTo(rows, patchy', shown', begun, shown[i])
        BY <1>8, <3>1, <4>1
      <4> QED BY <3>1, <4>2 DEF AllTo
    <3>2. CASE i > n /\ i - n \in 1 .. m /\ shown'[i] = p[i - n]
      <4>1. shown'[i] = b + offset + (i - n)
        BY <1>10, <3>2
      <4>2. ASSUME NEW q \in DOMAIN rows, q < shown'[i], begun <= rows[q], Sound(rows, patchy', q)
            PROVE  IsShown(shown', q)
        <5>1. Sound(rows, patchy, q) /\ q \in Nat
          BY <1>1, <1>5, <4>2
        <5>2. CASE rows[q] < from
          <6>1. IsShown(shown, q)
            BY <4>2, <5>1, <5>2 DEF Complete
          <6> QED BY <1>4, <6>1
        <5>3. CASE ~(rows[q] < from)
          <6>1. b < q
            BY <1>1, <5>1, <5>3, BeforeIs DEF b
          <6>2. CASE q <= b + offset
            <7>1. q \in b + 1 .. b + offset
              BY <1>1, <5>1, <6>1, <6>2
            <7> QED BY <1>4, <1>10, <7>1
          <6>3. CASE ~(q <= b + offset)
            <7>1. q - (b + offset) \in 1 .. m /\ q = b + offset + (q - (b + offset))
              <8> DEFINE x == b + offset
                         y == i - n
              <8>1. x \in Nat /\ y \in 1 .. m /\ q < x + y
                BY <1>1, <3>2, <4>1, <4>2
              <8>2. q \in Nat /\ ~(q <= x) /\ m \in Nat
                BY <1>1, <5>1, <6>3
              <8> HIDE DEF x, y
              <8>3. q - x \in 1 .. m /\ q = x + (q - x)
                BY <8>1, <8>2
              <8> QED BY <8>3 DEF x
            <7>2. p[q - (b + offset)] = q
              BY <1>10, <7>1
            <7> QED BY <1>4, <7>1, <7>2
          <6> QED BY <6>2, <6>3
        <5> QED BY <5>2, <5>3
      <4> QED BY <4>2 DEF AllTo
    <3> QED BY <1>3, <3>1, <3>2
  <2>6. Trail'
    BY <1>2, <1>6, <2>4, <2>5 DEF Trail, TrailOf
  <2> QED BY <2>3, <2>6
<1> QED BY <1>4, <1>7, <1>9, <1>10 DEF Continues, b, m

\* A tail goes on with the rows of a page, or with some of them.
LEMMA TailTakes ==
  ASSUME SlsTyped, SlsInv, call.verb = "tail", pc = "asked",
         NEW page, NEW whole \in BOOLEAN, PageOf(page, whole),
         Taken(page, whole) \/ Interrupted(page, whole)
  PROVE  TailInv'
<1> DEFINE b == Before(rows, from)
           c == Before(rows, to)
           k == Len(page)
<1>1. /\ TailInv /\ Trail /\ mode = "stream" /\ begun <= from /\ from <= to /\ Complete
      /\ \A i \in DOMAIN shown : rows[shown[i]] < to
      /\ \A t \in patchy : t < to
      /\ Within
  BY DEF SlsInv, TailInv
<1>2. /\ begun \in Nat /\ from \in Nat /\ to \in Nat /\ offset \in Nat /\ b \in Nat /\ c \in Nat
      /\ \A r \in DOMAIN rows : rows[r] \in Nat
  <2>1. /\ begun \in Nat /\ from \in Nat /\ to \in Nat /\ offset \in Nat
        /\ \A r \in DOMAIN rows : rows[r] \in Nat
    BY SlsBounds DEF SlsTyped
  <2> QED BY <1>1, <2>1, TailWindow
<1>3. /\ UNCHANGED <<rows, begun, to, mode>>
      /\ pc' \in {"fetch", "loop", "return"}
      /\ Recorded(page, whole)
  BY <1>1 DEF Taken, Interrupted, Return
<1>4. /\ pc' = "fetch" => from' = from /\ shown' = shown \o page /\ offset' = offset + k
      /\ pc' = "loop" => from' = to /\ shown' = shown \o page /\ k # Line
      /\ pc' = "return" => \E j \in 0 .. k - 1 : shown' = shown \o SubSeq(page, 1, j)
  BY <1>1 DEF Taken, Interrupted, Return, Put
<1>5. /\ patchy \subseteq patchy'
      /\ whole => patchy' = patchy
      /\ ~whole => from .. to - 1 \subseteq patchy'
      /\ \A t \in patchy' : t < to
  BY <1>1, <1>2, <1>3 DEF Recorded, Spoilt
<1>6. /\ page \in Seq(Nat) /\ k \in Nat /\ Line \in Nat
      /\ \A j \in 1 .. k : page[j] \in DOMAIN rows /\ from <= rows[page[j]] /\ rows[page[j]] < to
  <2>1. page \in Seq(1 .. Len(rows)) /\ 1 .. Len(rows) \subseteq Nat /\ k \in 0 .. Line
    BY DEF PageOf
  <2>2. page \in Seq(Nat)
    BY <2>1, SeqMonotonic
  <2>3. \A j \in 1 .. k : \E i \in 1 .. Len(Window) : page[j] = Window[i]
    BY DEF PageOf
  <2> HIDE DEF k
  <2> QED BY <1>1, <2>1, <2>2, <2>3, TailWindow, LineIs
<1>7. \/ from .. to - 1 \subseteq patchy'
      \/ /\ patchy' = patchy /\ \A t \in patchy : t < from
         /\ b + offset + k <= c
         /\ k # Line => b + offset + k = c
         /\ \A i \in DOMAIN shown : from <= rows[shown[i]] => shown[i] <= b + offset
         /\ \A r \in b + 1 .. b + offset : IsShown(shown, r)
         /\ \A j \in 1 .. k : page[j] = b + offset + j
  <2> SUFFICES ASSUME ~(from .. to - 1 \subseteq patchy')
               PROVE  /\ patchy' = patchy /\ \A t \in patchy : t < from
                      /\ b + offset + k <= c
                      /\ k # Line => b + offset + k = c
                      /\ \A i \in DOMAIN shown : from <= rows[shown[i]] => shown[i] <= b + offset
                      /\ \A r \in b + 1 .. b + offset : IsShown(shown, r)
                      /\ \A j \in 1 .. k : page[j] = b + offset + j
    OBVIOUS
  <2>1. whole /\ patchy' = patchy
    BY <1>5
  <2>2. /\ \A t \in patchy : t < from
        /\ b + offset <= c
        /\ \A i \in DOMAIN shown : from <= rows[shown[i]] => shown[i] <= b + offset
        /\ \A r \in b + 1 .. b + offset : IsShown(shown, r)
    BY <1>1, <2>1 DEF Within
  <2>3. /\ \A j \in 1 .. k : offset + j <= Len(Window) /\ page[j] = Window[offset + j]
        /\ k # Line => offset + k >= Len(Window)
    BY <2>1 DEF PageOf
  <2>4. Len(Window) = c - b /\ \A i \in 1 .. Len(Window) : Window[i] = b + i
    BY <1>1, TailWindow
  <2> HIDE DEF b, c, k
  <2>5. \A j \in 1 .. k : page[j] = b + offset + j
    BY <1>2, <1>6, <2>3, <2>4
  <2>6. b + offset + k <= c
    <3>1. CASE k = 0
      BY <1>2, <2>2, <3>1
    <3>2. CASE k # 0
      <4>1. k \in 1 .. k
        BY <1>6, <3>2
      <4>2. offset + k <= Len(Window)
        BY <2>3, <4>1
      <4>3. Len(Window) = c - b
        BY <2>4
      <4> QED BY <1>2, <1>6, <4>2, <4>3
    <3> QED BY <3>1, <3>2
  <2>7. k # Line => b + offset + k = c
    BY <1>2, <1>6, <2>3, <2>4, <2>6
  <2> QED BY <2>1, <2>2, <2>5, <2>6, <2>7
<1> HIDE DEF b, c, k
<1>8. CASE pc' \in {"fetch", "loop"}
  <2>1. shown' = shown \o page
    BY <1>4, <1>8
  <2>2. Continues(page)
    BY <1>7 DEF Continues, b, c, k
  <2>3. /\ Trail'
        /\ \A r \in DOMAIN rows : IsShown(shown, r) => IsShown(shown', r)
        /\ \A j \in 1 .. k : IsShown(shown', page[j])
        /\ \A i \in DOMAIN shown' : rows[shown'[i]] < to
        /\ from .. to - 1 \subseteq patchy'
             \/ \A i \in DOMAIN shown' : from <= rows[shown'[i]] => shown'[i] <= b + offset + k
    BY <1>1, <1>3, <1>5, <1>6, <2>1, <2>2, TailGrows DEF b, k
  <2>4. \A r \in DOMAIN rows :
          begun <= rows[r] /\ rows[r] < from /\ Sound(rows, patchy', r) => IsShown(shown', r)
    BY <1>1, <1>5, <2>3 DEF Complete, Sound
  <2>5. ASSUME ~(from .. to - 1 \subseteq patchy')
        PROVE  \A r \in b + 1 .. b + offset + k : IsShown(shown', r)
    <3> SUFFICES ASSUME NEW r \in b + 1 .. b + offset + k PROVE IsShown(shown', r)
      OBVIOUS
    <3>1. CASE r <= b + offset
      <4>1. IsShown(shown, r)
        BY <1>2, <1>7, <2>5, <3>1
      <4>2. IsShown(shown', r)
        <5>1. PICK i \in DOMAIN shown : shown[i] = r
          BY <4>1 DEF IsShown
        <5>2. shown[i] \in DOMAIN rows
          BY <1>1 DEF Trail, TrailOf
        <5> QED BY <2>3, <4>1, <5>1, <5>2
      <4> QED BY <4>2
    <3>2. CASE ~(r <= b + offset)
      <4>1. r - (b + offset) \in 1 .. k /\ b + offset + (r - (b + offset)) = r
        BY <1>2, <1>6, <3>2
      <4>2. page[r - (b + offset)] = r
        BY <1>7, <2>5, <4>1
      <4> QED BY <2>3, <4>1, <4>2
    <3> QED BY <3>1, <3>2
  <2>6. CASE pc' = "fetch"
    <3>1. from' = from /\ offset' = offset + k
      BY <1>4, <2>6
    <3>2. Complete'
      BY <1>3, <2>4, <3>1 DEF Complete
    <3>3. Within'
      <4>1. CASE from .. to - 1 \subseteq patchy'
        BY <1>3, <3>1, <4>1 DEF Within
      <4>2. CASE ~(from .. to - 1 \subseteq patchy')
        <5>1. Before(rows', from') = b /\ Before(rows', to') = c
          BY <1>3, <3>1 DEF b, c
        <5>2. b + (offset + k) = b + offset + k
          BY <1>2, <1>6
        <5> QED BY <1>3, <1>7, <2>3, <2>5, <3>1, <4>2, <5>1, <5>2 DEF Within
      <4> QED BY <4>1, <4>2
    <3> QED BY <1>1, <1>3, <1>5, <2>3, <2>6, <3>1, <3>2, <3>3 DEF TailInv
  <2>7. CASE pc' = "loop"
    <3>1. from' = to /\ k # Line
      BY <1>4, <2>7
    <3>2. ASSUME NEW r \in DOMAIN rows, begun <= rows[r], rows[r] < to, Sound(rows, patchy', r)
          PROVE  IsShown(shown', r)
      <4>1. CASE rows[r] < from
        BY <2>4, <3>2, <4>1
      <4>2. CASE ~(rows[r] < from)
        <5>1. from <= rows[r] /\ rows[r] \in from .. to - 1
          BY <1>2, <3>2, <4>2
        <5>2. ~(from .. to - 1 \subseteq patchy')
          BY <1>3, <3>2, <5>1 DEF Sound
        <5>3. b < r /\ r <= c
          BY <1>1, <3>2, <5>1, TailWindow DEF b, c
        <5>4. b + offset + k = c
          BY <1>7, <3>1, <5>2
        <5>5. r \in Nat
          BY DEF SlsTyped
        <5>6. r \in b + 1 .. b + offset + k
          BY <1>2, <1>6, <5>3, <5>4, <5>5
        <5> QED BY <2>5, <5>2, <5>6
      <4> QED BY <4>1, <4>2
    <3>3. Complete'
      BY <1>3, <3>1, <3>2 DEF Complete
    <3>4. begun <= to
      BY <1>1, <1>2
    <3> QED BY <1>1, <1>3, <1>5, <2>3, <2>7, <3>1, <3>3, <3>4 DEF TailInv
  <2> QED BY <1>8, <2>6, <2>7
<1>9. CASE pc' = "return"
  <2>1. PICK j \in 0 .. k - 1 : shown' = shown \o SubSeq(page, 1, j)
    BY <1>4, <1>9
  <2> DEFINE p == SubSeq(page, 1, j)
  <2>2. j \in Nat /\ j <= k
    BY <1>6, <2>1
  <2>3. /\ p \in Seq(Nat) /\ Len(p) = j
        /\ \A i \in 1 .. j : i \in 1 .. k /\ p[i] = page[i]
    <3>1. \A i \in 1 .. j : page[i] \in Nat
      BY <1>6, <2>2, ElementOfSeq DEF k
    <3>2. /\ p \in Seq(Nat) /\ Len(p) = IF 1 <= j THEN j - 1 + 1 ELSE 0
          /\ \A i \in 1 .. j - 1 + 1 : p[i] = page[1 + i - 1]
      BY <2>2, <3>1, SubSeqProperties
    <3> HIDE DEF p
    <3>3. j - 1 + 1 = j /\ \A i \in 1 .. j : 1 + i - 1 = i
      BY <2>2
    <3>4. Len(p) = j
      BY <2>2, <3>2
    <3> QED BY <1>6, <2>2, <3>2, <3>3, <3>4
  <2>4. shown' = shown \o p
    BY <2>1
  <2> HIDE DEF p
  <2>5. Continues(p)
    <3>1. CASE from .. to - 1 \subseteq patchy'
      BY <3>1 DEF Continues
    <3>2. CASE ~(from .. to - 1 \subseteq patchy')
      <4>1. b + offset + j <= c
        BY <1>2, <1>6, <1>7, <2>2, <3>2
      <4>2. \A i \in 1 .. j : p[i] = b + offset + i
        BY <1>7, <2>3, <3>2
      <4> QED BY <1>7, <2>3, <3>2, <4>1, <4>2 DEF Continues, b, c
    <3> QED BY <3>1, <3>2
  <2>6. \A i \in 1 .. Len(p) :
          p[i] \in DOMAIN rows /\ from <= rows[p[i]] /\ rows[p[i]] < to
    BY <1>6, <2>3
  <2>7. Trail'
    BY <1>1, <1>3, <1>5, <2>3, <2>4, <2>5, <2>6, TailGrows
  <2> QED BY <1>1, <1>9, <2>7 DEF TailInv
<1> QED BY <1>3, <1>8, <1>9

LEMMA Concatenated ==
  ASSUME NEW a \in Seq(Nat), NEW c \in Seq(Nat)
  PROVE  /\ a \o c \in Seq(Nat) /\ Len(a \o c) = Len(a) + Len(c)
         /\ DOMAIN (a \o c) = 1 .. Len(a) + Len(c)
         /\ \A i \in 1 .. Len(a) : (a \o c)[i] = a[i]
         /\ \A j \in 1 .. Len(c) : (a \o c)[Len(a) + j] = c[j]
  OBVIOUS

\* A search takes a page, or returns what it has collected.
LEMMA SearchTakes ==
  ASSUME SlsTyped, SlsInv, Searching, pc = "asked",
         NEW page, NEW whole \in BOOLEAN, PageOf(page, whole), Taken(page, whole)
  PROVE  SearchInv'
<1> DEFINE k == Len(page)
           s == held \o page
<1>1. /\ SearchInv /\ mode = "none" /\ call.verb # "tail" /\ want > 0 /\ Found(held)
      /\ Len(held) = offset /\ begun <= Len(rows)
  BY DEF SlsInv, SearchInv, Searching, Searches
<1>2. /\ offset \in Nat /\ want \in Nat /\ Len(rows) \in Nat /\ begun \in Nat /\ newest \in BOOLEAN
      /\ k \in Nat /\ k <= want /\ Line \in Nat /\ misses \in Nat
      /\ page \in Seq(Nat)
  <2>1. want \in Nat /\ Line \in Nat /\ Line <= want /\ k \in 0 .. Line /\ misses \in Nat
    BY <1>1, SlsBounds, LineIs DEF SlsTyped, PageOf
  <2>2. page \in Seq(1 .. Len(rows)) /\ Len(rows) \in Nat
    BY DEF PageOf, SlsTyped
  <2>3. page \in Seq(Nat)
    BY <2>2, SeqMonotonic
  <2>4. k \in Nat /\ k <= want
    <3> HIDE DEF k
    <3> QED BY <2>1
  <2> QED BY <2>1, <2>2, <2>3, <2>4 DEF SlsTyped
<1>3. /\ Recorded(page, whole) /\ offset' = offset + k /\ want' = want - k
      /\ UNCHANGED <<rows, begun, newest>>
  BY <1>1 DEF Taken
<1>4. \/ /\ pc' = "fetch" /\ held' = s /\ mode' = mode /\ want' > 0
      \/ /\ pc' = "return" /\ mode' = "batch" /\ shown' = s /\ told' = ~whole
         /\ k # Line \/ ~(want' > 0)
  BY <1>1 DEF Taken, Produced, Batch, Return, Put
<1>5. /\ held \in Seq(Nat) /\ DOMAIN held = 1 .. offset
  BY <1>1 DEF Found
<1>6. /\ s \in Seq(Nat) /\ Len(s) = offset + k /\ DOMAIN s = 1 .. offset + k
      /\ \A i \in 1 .. offset : s[i] = held[i]
      /\ \A j \in 1 .. k : s[offset + j] = page[j]
  <2>1. held \in Seq(Nat) /\ page \in Seq(Nat) /\ Len(held) = offset /\ Len(page) = k
    BY <1>1, <1>2, <1>5
  <2>2. /\ s \in Seq(Nat) /\ Len(s) = Len(held) + Len(page)
        /\ DOMAIN s = 1 .. Len(held) + Len(page)
        /\ \A i \in 1 .. Len(held) : s[i] = held[i]
        /\ \A j \in 1 .. Len(page) : s[Len(held) + j] = page[j]
    BY <2>1, Concatenated, Zenon
  <2> HIDE DEF s, k
  <2> QED BY <2>1, <2>2
<1>7. /\ whole => patchy' = patchy /\ misses' = misses
      /\ ~whole => patchy' = patchy \union (offset + 1 .. offset + k) /\ misses' > 0
  BY <1>1, <1>2, <1>3 DEF Recorded, Spoilt
<1>8. patchy \subseteq 1 .. offset
  BY <1>1 DEF Found
<1>9. whole =>
        /\ \A j \in 1 .. k :
             /\ offset + j <= Len(rows)
             /\ page[j] = IF newest THEN Len(rows) + 1 - (offset + j) ELSE offset + j
        /\ k # Line => offset + k >= Len(rows)
  <2> SUFFICES ASSUME whole
               PROVE  /\ \A j \in 1 .. k :
                           /\ offset + j <= Len(rows)
                           /\ page[j] = IF newest THEN Len(rows) + 1 - (offset + j) ELSE offset + j
                      /\ k # Line => offset + k >= Len(rows)
    OBVIOUS
  <2>1. /\ \A j \in 1 .. k : offset + j <= Len(Window) /\ page[j] = Window[offset + j]
        /\ k # Line => offset + k >= Len(Window)
    BY DEF PageOf
  <2>2. /\ Len(Window) = Len(rows)
        /\ \A i \in 1 .. Len(rows) : Window[i] = IF newest THEN Len(rows) + 1 - i ELSE i
    BY <1>1, WindowTyped
  <2> HIDE DEF k, s
  <2> QED BY <1>2, <2>1, <2>2
<1> HIDE DEF k, s
<1>10. ASSUME NEW i \in DOMAIN s \ patchy'
       PROVE  \/ i \in DOMAIN held \ patchy /\ s[i] = held[i]
              \/ /\ whole /\ i \in offset + 1 .. offset + k /\ i <= Len(rows)
                 /\ s[i] = IF newest THEN Len(rows) + 1 - i ELSE i
  <2>1. CASE i <= offset
    BY <1>2, <1>5, <1>6, <1>7, <2>1
  <2>2. CASE ~(i <= offset)
    <3>1. i \in offset + 1 .. offset + k /\ i - offset \in 1 .. k /\ offset + (i - offset) = i
      BY <1>2, <1>6, <2>2
    <3>2. whole
      BY <1>7, <3>1
    <3>3. s[i] = page[i - offset]
      BY <1>6, <3>1
    <3> QED BY <1>9, <3>1, <3>2, <3>3
  <2> QED BY <2>1, <2>2
<1>11. \A i \in DOMAIN held \ patchy :
         /\ held[i] \in Nat /\ i \in 1 .. offset
         /\ IF newest THEN held[i] + i - 1 \in begun .. Len(rows) ELSE held[i] = i
  BY <1>1, <1>5 DEF Found
<1>12. \A i \in DOMAIN s \ patchy' :
         IF newest THEN s[i] + i - 1 \in begun .. Len(rows) ELSE s[i] = i
  <2> SUFFICES ASSUME NEW i \in DOMAIN s \ patchy'
               PROVE  IF newest THEN s[i] + i - 1 \in begun .. Len(rows) ELSE s[i] = i
    OBVIOUS
  <2>1. CASE i \in DOMAIN held \ patchy /\ s[i] = held[i]
    BY <1>11, <2>1
  <2>2. CASE i \in offset + 1 .. offset + k /\ s[i] = IF newest THEN Len(rows) + 1 - i ELSE i
    BY <1>1, <1>2, <2>2
  <2> QED BY <1>10, <2>1, <2>2
<1>13. newest => \A i, j \in DOMAIN s \ patchy' : i < j => s[i] + i <= s[j] + j
  <2> SUFFICES ASSUME newest, NEW i \in DOMAIN s \ patchy', NEW j \in DOMAIN s \ patchy', i < j
               PROVE  s[i] + i <= s[j] + j
    OBVIOUS
  <2>1. CASE j \in DOMAIN held \ patchy /\ s[j] = held[j]
    <3>1. j \in 1 .. offset
      BY <1>11, <2>1
    <3>2. i \in DOMAIN held \ patchy /\ s[i] = held[i]
      BY <1>2, <1>10, <3>1
    <3> QED BY <1>1, <2>1, <3>2 DEF Found
  <2>2. CASE j \in offset + 1 .. offset + k /\ s[j] = Len(rows) + 1 - j
    <3>1. s[j] + j = Len(rows) + 1
      BY <1>2, <2>2
    <3>2. i \in Nat
      BY <1>2, <1>6
    <3>3. s[i] + i - 1 <= Len(rows)
      BY <1>2, <1>12
    <3>4. s[i] \in Nat
      BY <1>6, ElementOfSeq
    <3> QED BY <1>2, <3>1, <3>2, <3>3, <3>4
  <2> QED BY <1>10, <2>1, <2>2
<1>14. patchy' \subseteq 1 .. offset + k
  <2>1. 1 .. offset \subseteq 1 .. offset + k /\ offset + 1 .. offset + k \subseteq 1 .. offset + k
    BY <1>2
  <2> QED BY <1>7, <1>8, <2>1
<1>15. s \in Seq(Nat) /\ Len(s) = offset + k
  BY <1>6
<1>16. CASE pc' = "fetch"
  <2>1. held' = s /\ mode' = "none" /\ want' > 0
    BY <1>1, <1>4, <1>16
  <2>2. Found(held)'
    BY <1>3, <1>12, <1>13, <1>14, <1>15, <2>1 DEF Found
  <2> QED BY <1>1, <1>3, <1>15, <1>16, <2>1, <2>2 DEF SearchInv
<1>17. CASE pc' = "return"
  <2>1. /\ mode' = "batch" /\ shown' = s /\ told' = ~whole /\ (k # Line \/ ~(want' > 0))
    BY <1>4, <1>17
  <2>2. Found(shown)'
    BY <1>3, <1>12, <1>13, <1>14, <1>15, <2>1 DEF Found
  <2>3. told' => misses' > 0
    BY <1>7, <2>1
  <2>4. ~told' => IF want' = 0 THEN Len(shown') \notin patchy' ELSE Len(shown') >= begun'
    <3> SUFFICES ASSUME whole
                 PROVE  IF want' = 0 THEN offset + k \notin patchy' ELSE offset + k >= begun
      BY <1>3, <1>15, <2>1
    <3>1. CASE want' = 0
      <4>1. k > 0
        BY <1>1, <1>2, <1>3, <3>1
      <4> QED BY <1>2, <1>7, <1>8, <3>1, <4>1
    <3>2. CASE want' # 0
      <4>1. k # Line
        BY <1>2, <1>3, <2>1, <3>2
      <4>2. offset + k >= Len(rows)
        BY <1>9, <4>1
      <4> QED BY <1>1, <1>2, <3>2, <4>2
    <3> QED BY <3>1, <3>2
  <2> QED BY <1>1, <1>3, <1>17, <2>1, <2>2, <2>3, <2>4 DEF SearchInv
<1> QED BY <1>4, <1>16, <1>17

\* Rows come in.
LEMMA ArriveKeeps ==
  ASSUME SlsTyped, SlsInv, Arrive
  PROVE  SlsInv'
<1>1. /\ call' = call
      /\ UNCHANGED <<pc, mode, held, shown, told, from, to, begun, want, newest, offset, misses,
                     patchy>>
      /\ rows' = Append(rows, clock)
  BY DEF Arrive, run, output
<1>2. /\ rows \in Seq(0 .. MaxClock) /\ Len(rows) \in Nat /\ DOMAIN rows = 1 .. Len(rows)
      /\ clock \in Nat /\ from \in Nat /\ from <= clock /\ to <= clock
  BY SlsBounds DEF SlsTyped
<1>3. /\ DOMAIN rows' = 1 .. Len(rows) + 1 /\ rows'[Len(rows) + 1] = clock
      /\ Len(rows') = Len(rows) + 1
      /\ \A r \in DOMAIN rows : r \in DOMAIN rows' /\ rows'[r] = rows[r]
  BY <1>1, <1>2
<1>4. ASSUME call.verb = "tail" PROVE TailInv'
  <2>0. TailInv /\ Trail
    BY <1>4 DEF SlsInv, TailInv
  <2>1. \A t \in 0 .. clock : Before(rows', t) = Before(rows, t)
    BY ArriveAfter
  <2>2. Before(rows', from) = Before(rows, from) /\ Before(rows', to) = Before(rows, to)
    BY <2>1 DEF SlsTyped
  <2>3. \A i \in DOMAIN shown : shown[i] \in DOMAIN rows /\ rows'[shown[i]] = rows[shown[i]]
    BY <1>3, <2>0 DEF Trail, TrailOf
  <2>4. \A r \in DOMAIN rows : Sound(rows', patchy', r) <=> Sound(rows, patchy, r)
    BY <1>1, <1>3 DEF Sound
  <2>5. \A r : IsShown(shown', r) <=> IsShown(shown, r)
    BY <1>1 DEF IsShown
  <2>6. \A r \in DOMAIN rows : AllTo(rows, patchy, shown, begun, r) => AllTo(rows', patchy', shown', begun', r)
    <3> SUFFICES ASSUME NEW r \in DOMAIN rows, AllTo(rows, patchy, shown, begun, r),
                        NEW q \in DOMAIN rows', q < r, begun <= rows'[q], Sound(rows', patchy', q)
                 PROVE  IsShown(shown', q)
      BY <1>1 DEF AllTo
    <3>1. q \in DOMAIN rows
      BY <1>2, <1>3
    <3> QED BY <1>3, <2>4, <2>5, <3>1 DEF AllTo
  <2>7. Trail'
    <3>1. \A i \in DOMAIN shown :
            /\ shown[i] \in DOMAIN rows' /\ begun <= rows'[shown[i]]
            /\ Sound(rows', patchy', shown[i]) => AllTo(rows', patchy', shown', begun', shown[i])
      BY <1>3, <2>0, <2>3, <2>4, <2>6 DEF Trail, TrailOf
    <3>2. \A i, j \in DOMAIN shown :
            i < j /\ Sound(rows', patchy', shown[i]) /\ Sound(rows', patchy', shown[j])
              => shown[i] < shown[j]
      BY <2>0, <2>3, <2>4 DEF Trail, TrailOf
    <3>3. shown' = shown /\ shown \in Seq(Nat) /\ begun' = begun
      BY <1>1, <2>0 DEF Trail, TrailOf
    <3>4. \A i \in DOMAIN shown : /\ Sound(rows', patchy', shown[i]) <=> Sound(rows', patchy', shown'[i])
                                  /\ AllTo(rows', patchy', shown', begun', shown[i])
                                       <=> AllTo(rows', patchy', shown', begun', shown'[i])
      BY <3>3 DEF Sound, AllTo
    <3> QED BY <3>1, <3>2, <3>3, <3>4 DEF Trail, TrailOf
  <2>8. Complete => Complete'
    <3> SUFFICES ASSUME Complete, NEW r \in DOMAIN rows',
                        begun <= rows'[r], rows'[r] < from,
                        Sound(rows', patchy', r)
                 PROVE  IsShown(shown', r)
      BY <1>1 DEF Complete
    <3>1. r \in DOMAIN rows
      BY <1>2, <1>3
    <3> QED BY <1>3, <2>4, <2>5, <3>1 DEF Complete
  <2>9. Within => Within'
    <3> SUFFICES ASSUME Within, ~(from .. to - 1 \subseteq patchy)
                 PROVE  /\ \A t \in patchy : t < from
                        /\ Before(rows', from) + offset <= Before(rows', to)
                        /\ \A i \in DOMAIN shown :
                             from <= rows'[shown[i]] =>
                               shown[i] <= Before(rows', from) + offset
                        /\ \A r \in Before(rows', from) + 1 .. Before(rows', from) + offset :
                             IsShown(shown', r)
      BY <1>1 DEF Within
    <3> QED BY <2>2, <2>3, <2>5 DEF Within
  <2> QED BY <1>1, <2>0, <2>3, <2>7, <2>8, <2>9 DEF TailInv
<1>5. ASSUME Searching PROVE SearchInv'
  <2>1. SearchInv /\ begun \in Nat
    BY <1>5 DEF SlsInv, SlsTyped
  <2>2. begun .. Len(rows) \subseteq begun .. Len(rows')
    BY <1>2, <1>3, <2>1
  <2>3. (Found(held) => Found(held)') /\ (Found(shown) => Found(shown)')
    BY <1>1, <2>2 DEF Found
  <2>4. begun <= Len(rows')
    BY <1>2, <1>3, <2>1 DEF SearchInv
  <2> QED BY <1>1, <2>1, <2>3, <2>4 DEF SearchInv
<1> QED BY <1>1, <1>4, <1>5 DEF SlsInv, Searching

LEMMA SlsStep_Inv ==
  ASSUME SlsTyped, SlsInv, call \in Calls, Arrive \/ Second \/ SlsStep
  PROVE  SlsInv'
<1>1. CASE Arrive
  BY <1>1, ArriveKeeps
<1>2. CASE Second
  <2>1. /\ call' = call /\ call.verb = "tail"
        /\ UNCHANGED <<pc, mode, shown, rows, from, to, begun, offset, patchy>>
    BY <1>2 DEF Second, run, output
  <2>2. TailInv => TailInv'
    BY <2>1, Zenon DEF TailInv, Trail, TrailOf, AllTo, Complete, Within, Sound, IsShown, Before
  <2> QED BY <2>1, <2>2 DEF SlsInv, Searching, Searches
<1>3. CASE Search
  <2>1. /\ Searching /\ call' = call /\ pc = "run" /\ pc' = "fetch" /\ begun' = Len(rows)
        /\ UNCHANGED <<mode, held, shown, told, rows, want, newest, offset, misses, patchy>>
    BY <1>3 DEF Search, Asked, output, Searching
  <2>2. SearchInv /\ Len(rows) \in Nat
    BY <2>1 DEF SlsInv, SlsTyped
  <2>3. /\ held = <<>> /\ patchy = {} /\ mode = "none" /\ want > 0 /\ offset = 0
    BY <2>1, <2>2 DEF SearchInv
  <2>4. Found(held)'
    BY <2>1, <2>3 DEF Found
  <2> QED BY <2>1, <2>2, <2>3, <2>4 DEF SlsInv, SearchInv, Searching, Searches
<1>4. CASE TailRows
  <2>1. /\ call.verb = "tail" /\ pc = "run" /\ pc' = "loop" /\ mode' = "stream" /\ from' = begun'
        /\ UNCHANGED <<call, shown, rows, patchy>> /\ from' \in Nat
    BY <1>4, SlsBounds DEF TailRows, Asked, SlsTyped
  <2>2. shown' = <<>> /\ patchy' = {}
    BY <2>1 DEF SlsInv, TailInv
  <2>3. \A r \in DOMAIN rows : rows[r] \in Nat
    BY SlsBounds DEF SlsTyped
  <2>4. Complete'
    BY <2>1, <2>3 DEF Complete
  <2>5. Trail'
    BY <2>2 DEF Trail, TrailOf
  <2> QED BY <2>1, <2>2, <2>4, <2>5 DEF SlsInv, TailInv, Searching, Searches
<1>5. CASE Poll
  <2>1. /\ pc = "loop" /\ pc' = "fetch" /\ to' = clock /\ offset' = 0
        /\ UNCHANGED <<call, mode, shown, rows, from, begun, patchy>>
    BY <1>5 DEF Poll, output
  <2>2. from <= clock /\ from \in Nat /\ clock \in Nat /\ \A r \in DOMAIN rows : rows[r] \in Nat
    BY SlsBounds DEF SlsTyped
  <2>3. Before(rows, from) <= Before(rows, clock) /\ Before(rows, from) \in Nat
    BY <2>2, BeforeIs, BetweenIs
  <2>4. ASSUME call.verb = "tail" PROVE TailInv'
    <3>1. /\ TailInv /\ Trail /\ mode = "stream" /\ begun <= from /\ Complete
          /\ \A i \in DOMAIN shown : rows[shown[i]] < from
          /\ \A t \in patchy : t < from
      BY <2>1, <2>4 DEF SlsInv, TailInv
    <3>2. Trail' /\ Complete'
      BY <2>1, <3>1, Zenon DEF Trail, TrailOf, AllTo, Complete, Sound, IsShown
    <3>3. \A i \in DOMAIN shown : shown[i] \in DOMAIN rows
      BY <3>1 DEF Trail, TrailOf
    <3>4. /\ \A i \in DOMAIN shown : rows[shown[i]] < clock /\ ~(from <= rows[shown[i]])
          /\ \A t \in patchy : t < clock
      <4>1. patchy \subseteq Nat
        BY DEF SlsTyped
      <4>2. \A i \in DOMAIN shown : rows[shown[i]] \in Nat
        BY <2>2, <3>3
      <4>3. \A x \in Nat : x < from => x < clock /\ ~(from <= x)
        BY <2>2
      <4> QED BY <3>1, <4>1, <4>2, <4>3
    <3>5. Within'
      <4>1. Before(rows, from) + 0 = Before(rows, from)
        BY <2>3
      <4>2. Before(rows, from) + 1 .. Before(rows, from) + 0 = {}
        BY <2>3
      <4>3. /\ Before(rows', from') = Before(rows, from) /\ Before(rows', to') = Before(rows, clock)
        BY <2>1
      <4> HIDE DEF Before
      <4> QED BY <2>1, <2>3, <3>1, <3>4, <4>1, <4>2, <4>3 DEF Within
    <3> QED BY <2>1, <2>2, <3>1, <3>2, <3>4, <3>5 DEF TailInv
  <2> QED BY <2>1, <2>4 DEF SlsInv, SearchInv, Searching
<1>6. CASE Ask \/ TimesOut \/ AskFails
  BY <1>6, SlsRests DEF Ask, TimesOut, AskFails, Refuse, Return, output
<1>7. CASE AskAgain
  <2>1. /\ pc = "asked" /\ pc' = "fetch"
        /\ UNCHANGED <<call, mode, held, shown, told, rows, want, newest, from, to, offset, begun,
                       misses, patchy>>
    BY <1>7 DEF AskAgain, output
  <2>2. TailInv => TailInv'
    <3>1. TailInv => Trail' /\ (Complete => Complete') /\ (Within => Within')
      BY <2>1, Zenon DEF TailInv, Trail, TrailOf, AllTo, Complete, Within, Sound, IsShown, Before
    <3> QED BY <2>1, <3>1 DEF TailInv
  <2>3. SearchInv => SearchInv'
    <3>1. (Found(held) => Found(held)') /\ (Found(shown) => Found(shown)')
      BY <2>1 DEF Found
    <3> QED BY <2>1, <3>1 DEF SearchInv
  <2> QED BY <2>1, <2>2, <2>3 DEF SlsInv, Searching
<1>8. CASE Fallback
  <2>1. /\ call.verb = "trace" /\ pc = "asked" /\ pc' = "fetch" /\ offset' = 0 /\ held' = <<>>
        /\ begun' = Len(rows) /\ patchy' = {} /\ want' = want + offset
        /\ UNCHANGED <<call, mode, shown, told, rows>>
    BY <1>8 DEF Fallback, output
  <2>2. Len(rows) \in Nat /\ offset \in Nat /\ want \in Nat
    BY SlsBounds DEF SlsTyped
  <2>3. mode = "none" /\ want > 0
    BY <2>1 DEF SlsInv, SearchInv, Searching, Searches
  <2>4. Found(held)'
    BY <2>1 DEF Found
  <2> QED BY <2>1, <2>2, <2>3, <2>4 DEF SlsInv, SearchInv, Searching, Searches
<1>9. CASE Answered
  <2>1. PageOf(Page, TRUE)
    BY PageIs
  <2> HIDE DEF Page
  <2>2. call' = call /\ pc = "asked"
    BY <1>9 DEF Answered, Taken, Interrupted, Return
  <2>3. Searching => Taken(Page, TRUE)
    BY <1>9 DEF Answered, Interrupted, Searching, Searches
  <2>4. call.verb = "tail" => TailInv'
    BY <1>9, <2>1, <2>2, TailTakes DEF Answered
  <2>5. Searching => SearchInv'
    BY <2>1, <2>2, <2>3, SearchTakes
  <2> QED BY <2>2, <2>4, <2>5 DEF SlsInv, Searching
<1>10. CASE Patchy
  <2>1. PICK some \in SUBSET DOMAIN Window :
               /\ Cardinality(some) <= Line
               /\ Taken(Scanned(some), FALSE) \/ Interrupted(Scanned(some), FALSE)
    BY <1>10 DEF Patchy
  <2> DEFINE page == Scanned(some)
  <2>2. PageOf(page, FALSE)
    BY <2>1, ScannedIs
  <2>3. Taken(page, FALSE) \/ Interrupted(page, FALSE)
    BY <2>1
  <2> HIDE DEF page
  <2>4. call' = call /\ pc = "asked"
    BY <1>10, <2>3 DEF Patchy, Taken, Interrupted, Return
  <2>5. Searching => Taken(page, FALSE)
    BY <2>3 DEF Interrupted, Searching, Searches
  <2>6. call.verb = "tail" => TailInv'
    BY <2>2, <2>3, <2>4, TailTakes
  <2>7. Searching => SearchInv'
    BY <2>2, <2>4, <2>5, SearchTakes
  <2> QED BY <2>4, <2>6, <2>7 DEF SlsInv, Searching
<1>11. CASE Probed
  <2>1. call' = call /\ call.verb = "doctor"
    BY <1>11 DEF Probed, Asked, Diagnosed, Return
  <2> QED BY <2>1 DEF SlsInv, Searching, Searches
<1> QED BY <1>1, <1>2, <1>3, <1>4, <1>5, <1>6, <1>7, <1>8, <1>9, <1>10, <1>11 DEF SlsStep

LEMMA ChildElse ==
  ASSUME ChildStep
  PROVE  /\ call' = call
         /\ pc \in {"launch", "scan", "wait"} \/ call.source = "child"
  BY DEF ChildStep, Named, Batch, Launch, StartFails, Start, ScanLine, ScanFails, ScanEnd, Wait, Ends, Asked,
     Diagnosed, Refuse, Produced, Return

\* The verbs of SLS are asked of no other adapter.
LEMMA VerbsOfSls ==
  ASSUME call \in Calls, call.verb = "tail" \/ Searching
  PROVE  call.source = "sls"
  BY DEF Calls, Verbs, Sources, Searching, Searches

LEMMA SlsNext_Inv ==
  ASSUME VerdictInv, SlsTyped, SlsInv, call \in Calls, [Next]_vars
  PROVE  SlsTyped' /\ SlsInv'
<1>1. CASE UNCHANGED vars
  BY <1>1, SlsStays, SlsRests DEF vars, run, output
<1>2. CASE (Step \/ BadRequest \/ Panics \/ Cancel) /\ UNCHANGED slsvars
  <2>1. call' = call
    BY <1>2 DEF Step, EarlyErr, Targets, Dispatch, Finalize, Finish, BadRequest, Panics, Cancel,
       Refuse, Return
  <2> QED BY <1>2, <2>1, SlsRun, SlsStays
<1>3. CASE (Writer \/ Program \/ KillChild) /\ UNCHANGED slsvars
  <2>1. UNCHANGED run
    BY <1>3 DEF Writer, Log, Cut, Truncate, Rotate, Create, Program, Write, Exit, HeirExits, KillChild
  <2> QED BY <1>3, <2>1, SlsStays, SlsRests DEF run, output
<1>4. CASE (FileStep \/ StopFollow \/ ChildStep) /\ UNCHANGED slsvars
  <2>1. call' = call
    BY <1>4, FileElse, ChildElse
  <2>2. call.verb # "tail" /\ ~Searching
    <3> SUFFICES ASSUME call.verb = "tail" \/ Searching PROVE FALSE
      OBVIOUS
    <3>1. call.source = "sls"
      BY VerbsOfSls
    <3>2. pc \in {"start", "run", "loop", "fetch", "asked", "return", "audit", "exited"}
      BY DEF SlsInv, TailInv, SearchInv
    <3> QED BY <1>4, <3>1, <3>2, FileElse, ChildElse
  <2> QED BY <1>4, <2>1, <2>2, SlsStays DEF SlsInv, Searching
<1>5. CASE Arrive \/ Second \/ SlsStep
  BY <1>5, SlsStep_Typed, SlsStep_Inv
<1> QED BY <1>1, <1>2, <1>3, <1>4, <1>5 DEF Next

\* However pages, polls, attempts, arriving rows, incomplete scans and a late
\* cancellation fall: a search shows, wherever no incomplete page was used, the
\* row that belongs there, and ends without a warning only after a complete last
\* page; a tail shows every row of its windows once, in order and without a gap,
\* but for the seconds of a window in which an incomplete page was used.
THEOREM SlsShowsTheRows == Spec => []SlsTrue
<1> DEFINE I == VerdictInv /\ SlsTyped /\ SlsInv /\ call \in Calls
<1>1. Init => I
  BY VerdictInit_Inv, SlsInit_Typed, SlsInit_Inv DEF Init, RunInit
<1>2. I /\ [Next]_vars => I'
  BY VerdictNext_Inv, SlsNext_Inv, CallStays
<1>3. I => SlsTrue
  BY SlsShown
<1> QED BY <1>1, <1>2, <1>3, PTL DEF Spec

-----------------------------------------------------------------------------
(* The types *)

\* A file that is read is there, what is open was one of its inodes, and no
\* file is longer than was written.
FileTyped ==
    /\ files \in 1 .. MaxFiles /\ gone \subseteq Paths
    /\ written \in 0 .. MaxWrites /\ cuts \in 0 .. MaxCuts
    /\ disk \in [Paths -> Seq(Seq(Int))]
    /\ \A p \in Paths : disk[p] # <<>> /\ Len(Current(p)) <= written
    /\ at \in 1 .. files + 1 /\ fd \in Nat
    /\ size \in 0 .. MaxWrites /\ pos \in 0 .. MaxWrites
    /\ off \in [Paths -> 0 .. MaxWrites]
    /\ pc \in {"tail read", "stat", "open", "read"} => at \in Paths
    /\ pc \in {"tail read", "read"} => fd \in 1 .. Len(disk[at])

LEMMA FileBounds ==
  /\ MaxFiles \in Nat \ {0} /\ MaxWrites \in Nat /\ MaxCuts \in Nat /\ Chunk \in Nat \ {0}
  BY FileAssumption

LEMMA FileInit_Typed == Init => FileTyped
<1> SUFFICES ASSUME Init PROVE FileTyped
  OBVIOUS
<1> USE FileBounds
<1>1. /\ files \in 1 .. MaxFiles /\ disk = [p \in Paths |-> << <<>> >>]
      /\ gone = {} /\ written = 0 /\ cuts = 0 /\ at = 1 /\ fd = 1 /\ size = 0 /\ pos = 0
      /\ off = [p \in Paths |-> 0] /\ pc = "start"
  BY DEF Init, FileInit, RunInit
<1>2. << <<>> >> \in Seq(Seq(Int)) /\ Len(<< <<>> >>) = 1 /\ << <<>> >> # <<>>
  BY EmptySeq
<1>3. disk \in [Paths -> Seq(Seq(Int))]
  BY <1>1, <1>2
<1>4. ASSUME NEW p \in Paths PROVE disk[p] # <<>> /\ Len(Current(p)) <= written
  BY <1>1, <1>2, <1>4 DEF Current
<1> QED BY <1>1, <1>3, <1>4 DEF FileTyped, Paths

\* The size of a file, and the inode it leads to.
LEMMA CurrentTyped ==
  ASSUME FileTyped, NEW p \in Paths
  PROVE  /\ disk[p] \in Seq(Seq(Int)) /\ Len(disk[p]) \in Nat \ {0}
         /\ disk[p] # <<>> /\ Current(p) \in Seq(Int)
         /\ Len(Current(p)) \in Nat /\ Len(Current(p)) <= written /\ Len(Current(p)) \in 0 .. MaxWrites
<1>1. disk[p] \in Seq(Seq(Int)) /\ disk[p] # <<>>
  BY DEF FileTyped
<1>2. Len(disk[p]) \in Nat \ {0}
  BY <1>1, EmptySeq
<1>3. Current(p) \in Seq(Int)
  BY <1>1, <1>2, ElementOfSeq DEF Current
<1>4. Len(Current(p)) \in Nat
  BY <1>3, LenProperties
<1>5. Len(Current(p)) <= written /\ written \in 0 .. MaxWrites
  BY DEF FileTyped
<1> QED BY <1>1, <1>2, <1>3, <1>4, <1>5, FileBounds

\* A file changes, and leads to an inode that is not longer than was written.
LEMMA DiskChanges ==
  ASSUME FileTyped, NEW p \in Paths, NEW q \in Seq(Seq(Int)),
         q # <<>>, Len(q) >= Len(disk[p]), Len(q[Len(q)]) <= written',
         disk' = [disk EXCEPT ![p] = q],
         written \in Nat, written' \in 0 .. MaxWrites, written <= written',
         gone' \subseteq Paths, cuts' \in 0 .. MaxCuts,
         UNCHANGED <<files, at, fd, size, pos, off, pc>>
  PROVE  FileTyped'
<1>1. Paths' = Paths
  BY DEF Paths
<1>2. /\ disk \in [Paths -> Seq(Seq(Int))] /\ disk' \in [Paths -> Seq(Seq(Int))]
      /\ disk'[p] = q /\ \A o \in Paths \ {p} : disk'[o] = disk[o]
  BY DEF FileTyped
<1>3. ASSUME NEW o \in Paths PROVE disk'[o] # <<>> /\ Len(Current(o)') <= written'
  <2>1. CASE o = p
    BY <1>2, <2>1 DEF Current
  <2>2. CASE o # p
    <3>1. Current(o)' = Current(o) /\ disk'[o] = disk[o]
      BY <1>2, <2>2 DEF Current
    <3>2. disk[o] # <<>> /\ Len(Current(o)) <= written /\ Len(Current(o)) \in Nat
      BY CurrentTyped
    <3> QED BY <3>1, <3>2, FileBounds
  <2> QED BY <2>1, <2>2
<1>4. ASSUME pc' \in {"tail read", "read"} PROVE fd' \in 1 .. Len(disk'[at'])
  <2>1. at \in Paths /\ fd \in 1 .. Len(disk[at]) /\ fd' = fd /\ at' = at
    BY <1>4 DEF FileTyped
  <2>2. /\ Len(disk[at]) \in Nat /\ Len(disk[p]) \in Nat /\ Len(q) \in Nat
        /\ Len(disk'[at]) = Len(disk[at]) \/ at = p
    BY <1>2, <2>1, CurrentTyped
  <2> QED BY <1>2, <2>1, <2>2
<1> QED BY <1>1, <1>2, <1>3, <1>4 DEF FileTyped

LEMMA CutTyped ==
  ASSUME FileTyped, NEW p, Cut(p)
  PROVE  /\ written' = written + 1 /\ written' \in 0 .. MaxWrites
         /\ cuts' \in 0 .. MaxCuts
<1>1. /\ written < MaxWrites + 1 - files /\ written' = written + 1
      /\ cuts < MaxCuts /\ cuts' = cuts + 1
  BY DEF Cut, Writes
<1>2. written \in 0 .. MaxWrites /\ cuts \in 0 .. MaxCuts /\ files \in 1 .. MaxFiles
  BY DEF FileTyped
<1> QED BY <1>1, <1>2, FileBounds

LEMMA WriterTyped ==
  ASSUME FileTyped, Writer
  PROVE  FileTyped'
<1> USE FileBounds
<1>1. PICK p \in Paths : Log(p) \/ Truncate(p) \/ Rotate(p) \/ Create(p)
  BY DEF Writer
<1> DEFINE q == disk[p]
<1>2. /\ q \in Seq(Seq(Int)) /\ Len(q) \in Nat \ {0} /\ q[Len(q)] \in Seq(Int)
      /\ Len(q[Len(q)]) <= written /\ Len(q[Len(q)]) \in Nat
  BY CurrentTyped DEF Current
<1>3. /\ disk \in [Paths -> Seq(Seq(Int))] /\ gone \subseteq Paths
      /\ written \in 0 .. MaxWrites /\ cuts \in 0 .. MaxCuts /\ files \in 1 .. MaxFiles
  BY DEF FileTyped
<1>4. Len(q) \in 1 .. Len(q)
  BY <1>2
<1>5. UNCHANGED <<files, at, fd, size, pos, off, pc>>
  BY <1>1 DEF Log, Truncate, Rotate, Create, Cut, run, reader
<1>6. CASE Log(p)
  <2>1. PICK cell \in {written + 1, NL} :
               disk' = [disk EXCEPT ![p][Len(disk[p])] = Append(@, cell)]
    BY <1>6 DEF Log
  <2> DEFINE c == Append(q[Len(q)], cell)
             r == [q EXCEPT ![Len(q)] = c]
  <2>2. written' = written + 1 /\ written' \in 0 .. MaxWrites /\ gone' = gone /\ cuts' = cuts
    BY <1>3, <1>6 DEF Log, Writes
  <2>3. disk' = [disk EXCEPT ![p] = r]
    BY <1>3, <2>1
  <2>4. cell \in Int
    BY <1>3 DEF NL
  <2> HIDE DEF q
  <2>5. c \in Seq(Int) /\ Len(c) = Len(q[Len(q)]) + 1
    BY <1>2, <2>4
  <2> HIDE DEF c
  <2>6. r \in Seq(Seq(Int)) /\ Len(r) = Len(q) /\ r[Len(q)] = c
    BY <1>2, <1>4, <2>5, ExceptSeq
  <2> HIDE DEF r
  <2>7. r # <<>> /\ Len(r) >= Len(q) /\ Len(r[Len(r)]) <= written'
    BY <1>2, <1>3, <2>2, <2>5, <2>6
  <2>8. /\ Len(r) >= Len(disk[p]) /\ written \in Nat /\ written <= written'
        /\ gone' \subseteq Paths /\ cuts' \in 0 .. MaxCuts
    BY <1>3, <2>2, <2>7 DEF q
  <2> QED BY <1>5, <2>2, <2>3, <2>6, <2>7, <2>8, DiskChanges, Zenon
<1>7. CASE Truncate(p)
  <2> DEFINE r == [q EXCEPT ![Len(q)] = <<>>]
  <2>1. disk' = [disk EXCEPT ![p] = r]
    BY <1>3, <1>7 DEF Truncate
  <2>2. /\ written' = written + 1 /\ written' \in 0 .. MaxWrites /\ gone' = gone
        /\ cuts' \in 0 .. MaxCuts
    BY <1>7, CutTyped DEF Truncate
  <2> HIDE DEF q
  <2>3. <<>> \in Seq(Int) /\ Len(<<>>) = 0
    BY EmptySeq
  <2>4. r \in Seq(Seq(Int)) /\ Len(r) = Len(q) /\ r[Len(q)] = <<>>
    BY <1>2, <1>4, <2>3, ExceptSeq
  <2> HIDE DEF r
  <2>5. r # <<>> /\ Len(r) >= Len(q) /\ Len(r[Len(r)]) <= written'
    BY <1>2, <1>3, <2>2, <2>3, <2>4
  <2>6. /\ Len(r) >= Len(disk[p]) /\ written \in Nat /\ written <= written'
        /\ gone' \subseteq Paths
    BY <1>3, <2>2, <2>5 DEF q
  <2> QED BY <1>5, <2>1, <2>2, <2>4, <2>5, <2>6, DiskChanges, Zenon
<1>8. CASE Rotate(p)
  <2>1. /\ written' = written + 1 /\ written' \in 0 .. MaxWrites /\ gone' \subseteq Paths
        /\ cuts' \in 0 .. MaxCuts /\ disk' = disk
    BY <1>3, <1>8, CutTyped DEF Rotate
  <2>2. disk' = [disk EXCEPT ![p] = q]
    BY <1>3, <2>1
  <2> HIDE DEF q
  <2>3. q # <<>> /\ Len(q[Len(q)]) <= written'
    BY <1>2, <1>3, <2>1
  <2>4. Len(q) >= Len(disk[p]) /\ written \in Nat /\ written <= written'
    BY <1>2, <1>3, <2>1 DEF q
  <2> QED BY <1>2, <1>5, <2>1, <2>2, <2>3, <2>4, DiskChanges, Zenon
<1>9. CASE Create(p)
  <2> DEFINE r == Append(q, <<>>)
  <2>1. /\ written' = written /\ cuts' = cuts /\ gone' \subseteq Paths
        /\ disk' = [disk EXCEPT ![p] = r]
    BY <1>3, <1>9 DEF Create
  <2> HIDE DEF q
  <2>2. <<>> \in Seq(Int) /\ Len(<<>>) = 0
    BY EmptySeq
  <2>3. r \in Seq(Seq(Int)) /\ Len(r) = Len(q) + 1 /\ r[Len(q) + 1] = <<>>
    BY <1>2, <2>2
  <2> HIDE DEF r
  <2>4. r # <<>> /\ Len(r) >= Len(q) /\ Len(r[Len(r)]) <= written'
    BY <1>2, <1>3, <2>1, <2>2, <2>3
  <2>5. /\ Len(r) >= Len(disk[p]) /\ written \in Nat /\ written <= written'
        /\ written' \in 0 .. MaxWrites /\ cuts' \in 0 .. MaxCuts
    BY <1>3, <2>1, <2>4 DEF q
  <2> QED BY <1>5, <2>1, <2>3, <2>4, <2>5, DiskChanges, Zenon
<1> QED BY <1>1, <1>6, <1>7, <1>8, <1>9

\* The adapter goes on to read no file.
LEMMA FileRests ==
  ASSUME FileTyped, UNCHANGED filevars,
         pc' = pc \/ pc' \notin {"tail read", "stat", "open", "read"}
  PROVE  FileTyped'
<1>1. UNCHANGED <<files, disk, gone, written, cuts, at, fd, size, pos, off>>
  BY DEF filevars, writer, reader
<1>2. Paths' = Paths /\ \A p : Current(p)' = Current(p)
  BY <1>1 DEF Paths, Current
<1> QED BY <1>1, <1>2 DEF FileTyped

\* The reader moves: what is to be shown of it.
LEMMA ReaderMoves ==
  ASSUME FileTyped, UNCHANGED writer,
         at' \in 1 .. files + 1, fd' \in Nat,
         size' \in 0 .. MaxWrites, pos' \in 0 .. MaxWrites, off' \in [Paths -> 0 .. MaxWrites],
         pc' \in {"tail read", "stat", "open", "read"} => at' \in Paths,
         pc' \in {"tail read", "read"} => fd' \in 1 .. Len(disk[at'])
  PROVE  FileTyped'
<1>1. UNCHANGED <<files, disk, gone, written, cuts>>
  BY DEF writer
<1>2. Paths' = Paths /\ \A p : Current(p)' = Current(p)
  BY <1>1 DEF Paths, Current
<1> QED BY <1>1, <1>2 DEF FileTyped

LEMMA OnwardTyped ==
  ASSUME FileTyped, at \in Paths, Onward
  PROVE  /\ at' \in 1 .. files + 1 /\ pc' \in {"tick", "stat"}
         /\ pc' = "stat" => at' \in Paths
<1>1. files \in 1 .. MaxFiles
  BY DEF FileTyped
<1>2. at \in 1 .. files /\ files \in Nat
  BY <1>1, FileBounds DEF Paths
<1>3. CASE at = files
  BY <1>2, <1>3 DEF Onward
<1>4. CASE at # files
  BY <1>2, <1>4 DEF Onward, Paths
<1> QED BY <1>3, <1>4

LEMMA TailTyped ==
  ASSUME FileTyped, Open \/ TailOpen \/ TailFails \/ TailRead \/ TailEmit \/ TailDone
  PROVE  FileTyped'
<1> USE FileBounds
<1>0. files \in Nat
  <2>1. files \in 1 .. MaxFiles
    BY DEF FileTyped
  <2> QED BY <2>1
<1>1. /\ at \in 1 .. files + 1 /\ fd \in Nat /\ files \in Nat
      /\ size \in 0 .. MaxWrites /\ pos \in 0 .. MaxWrites /\ off \in [Paths -> 0 .. MaxWrites]
      /\ pc = "tail read" => at \in Paths /\ fd \in 1 .. Len(disk[at])
  BY <1>0 DEF FileTyped
<1>2. CASE Open
  BY <1>2, FileRests DEF Open
<1>3. CASE TailOpen
  <2>1. /\ at \in Paths /\ fd' = Len(disk[at]) /\ size' = Len(Current(at))
        /\ pos' = 0 \/ pos' = size'
        /\ pc' = "tail read"
        /\ at' = at /\ off' = off /\ UNCHANGED writer
    BY <1>3 DEF TailOpen
  <2>2. Len(disk[at]) \in Nat \ {0} /\ Len(Current(at)) \in 0 .. MaxWrites
    BY <2>1, CurrentTyped
  <2>3. fd' \in Nat /\ fd' \in 1 .. Len(disk[at'])
    <3>1. Len(disk[at]) \in 1 .. Len(disk[at])
      BY <2>2
    <3> QED BY <2>1, <2>2, <3>1
  <2>4. size' \in 0 .. MaxWrites /\ 0 \in 0 .. MaxWrites
    <3>1. size' \in 0 .. MaxWrites
      BY <2>1, <2>2
    <3>2. 0 \in 0 .. MaxWrites
      OBVIOUS
    <3> QED BY <3>1, <3>2
  <2>5. pos' \in 0 .. MaxWrites
    BY <2>1, <2>4
  <2> QED BY <1>1, <2>1, <2>3, <2>4, <2>5, ReaderMoves
<1>4. CASE TailFails
  BY <1>4, FileRests DEF TailFails, Return
<1>5. CASE TailRead
  <2>1. /\ pc' = pc /\ at' = at /\ fd' = fd /\ size' = size /\ off' = off /\ UNCHANGED writer
        /\ pc = "tail read" /\ pos' = IF pos > Chunk THEN pos - Chunk ELSE 0
    BY <1>5 DEF TailRead, run
  <2>2. pos' \in 0 .. MaxWrites
    <3>1. pos \in 0 .. MaxWrites /\ pos' = IF pos > Chunk THEN pos - Chunk ELSE 0
      BY <1>1, <2>1
    <3> QED BY <3>1
  <2> QED BY <1>1, <2>1, <2>2, ReaderMoves
<1>6. CASE TailEmit
  <2>1. /\ pc = "tail read" /\ pc' = "tail" /\ off' = [off EXCEPT ![at] = size] /\ at' = at + 1
        /\ UNCHANGED <<writer, fd, size, pos>>
    BY <1>6 DEF TailEmit
  <2>2. at' \in 1 .. files + 1
    <3>1. at \in 1 .. files /\ at' = at + 1
      BY <1>1, <2>1 DEF Paths
    <3> QED BY <1>0, <3>1
  <2>3. off' \in [Paths -> 0 .. MaxWrites]
    BY <1>1, <2>1
  <2> QED BY <1>1, <2>1, <2>2, <2>3, ReaderMoves
<1>7. CASE TailDone
  BY <1>7, FileRests DEF TailDone, Produced, Return
<1> QED BY <1>2, <1>3, <1>4, <1>5, <1>6, <1>7

LEMMA FollowTyped ==
  ASSUME FileTyped, Tick \/ Transient \/ Stat \/ PumpOpen \/ Pump \/ StopFollow
  PROVE  FileTyped'
<1> USE FileBounds
<1>1. /\ at \in 1 .. files + 1 /\ fd \in Nat /\ files \in 1 .. MaxFiles
      /\ size \in 0 .. MaxWrites /\ pos \in 0 .. MaxWrites /\ off \in [Paths -> 0 .. MaxWrites]
      /\ pc \in {"stat", "open", "read"} => at \in Paths
      /\ pc = "read" => fd \in 1 .. Len(disk[at])
  BY DEF FileTyped
<1>2. CASE Tick
  <2>1. /\ pc' = "stat" /\ at' = 1 /\ UNCHANGED <<writer, fd, size, pos, off>>
    BY <1>2 DEF Tick
  <2>2. 1 \in Paths /\ 1 \in 1 .. files + 1
    BY <1>1 DEF Paths
  <2> QED BY <1>1, <2>1, <2>2, ReaderMoves
<1>3. CASE Transient
  <2>1. /\ Onward /\ pc \in {"stat", "open", "read"}
        /\ UNCHANGED <<writer, fd, size, pos, off>>
    BY <1>3 DEF Transient
  <2>2. at' \in 1 .. files + 1 /\ pc' \in {"tick", "stat"} /\ (pc' = "stat" => at' \in Paths)
    BY <1>1, <2>1, OnwardTyped
  <2> QED BY <1>1, <2>1, <2>2, ReaderMoves
<1>4. CASE Stat
  <2>1. /\ pc = "stat" /\ size' = Len(Current(at))
        /\ pos' = (IF size' < off[at] THEN 0 ELSE off[at])
        /\ Onward \/ (pc' = "open" /\ at' = at)
        /\ UNCHANGED <<writer, fd, off>>
    BY <1>4 DEF Stat
  <2>2. size' \in 0 .. MaxWrites /\ off[at] \in 0 .. MaxWrites
    BY <1>1, <2>1, CurrentTyped
  <2>3. pos' \in 0 .. MaxWrites
    BY <2>1, <2>2
  <2>4. /\ at' \in 1 .. files + 1 /\ pc' \in {"tick", "stat", "open"}
        /\ pc' \in {"stat", "open"} => at' \in Paths
    BY <1>1, <2>1, OnwardTyped
  <2> QED BY <1>1, <2>1, <2>2, <2>3, <2>4, ReaderMoves
<1>5. CASE PumpOpen
  <2>1. /\ pc = "open" /\ pc' = "read" /\ fd' = Len(disk[at])
        /\ UNCHANGED <<writer, at, size, pos, off>>
    BY <1>5 DEF PumpOpen
  <2>2. fd' \in Nat /\ fd' \in 1 .. Len(disk[at'])
    BY <1>1, <2>1, CurrentTyped
  <2> QED BY <1>1, <2>1, <2>2, ReaderMoves
<1>6. CASE Pump
  <2> DEFINE cells == disk[at][fd]
             m     == IF size < Len(cells) THEN size ELSE Len(cells)
             buf   == SubSeq(cells, pos + 1, m)
  <2>1. /\ pc = "read" /\ off' = [off EXCEPT ![at] = pos + Len(buf)] /\ Onward
        /\ UNCHANGED <<writer, fd, size, pos>>
    BY <1>6 DEF Pump
  <2>2. cells \in Seq(Int) /\ Len(cells) \in Nat
    <3>1. disk[at] \in Seq(Seq(Int)) /\ fd \in 1 .. Len(disk[at])
      BY <1>1, <2>1, CurrentTyped
    <3>2. cells \in Seq(Int)
      BY <3>1, ElementOfSeq
    <3> HIDE DEF cells
    <3> QED BY <3>2, LenProperties
  <2> HIDE DEF cells
  <2>3. m \in 0 .. MaxWrites /\ m <= Len(cells)
    BY <1>1, <2>2
  <2>4. pos + Len(buf) \in 0 .. MaxWrites
    <3>1. \A i \in pos + 1 .. m : cells[i] \in Int
      <4> SUFFICES ASSUME NEW i \in pos + 1 .. m PROVE cells[i] \in Int
        OBVIOUS
      <4>1. i \in 1 .. Len(cells)
        BY <1>1, <2>2, <2>3
      <4> QED BY <2>2, <4>1, ElementOfSeq
    <3> HIDE DEF m
    <3>2. pos + 1 \in Int /\ m \in Int
      BY <1>1, <2>3
    <3>3. Len(buf) = IF pos + 1 <= m THEN m - (pos + 1) + 1 ELSE 0
      BY <3>1, <3>2, SubSeqProperties
    <3> HIDE DEF buf
    <3> QED BY <1>1, <2>3, <3>3
  <2> HIDE DEF m, buf
  <2>5. off' \in [Paths -> 0 .. MaxWrites]
    BY <1>1, <2>1, <2>4
  <2>6. at' \in 1 .. files + 1 /\ pc' \in {"tick", "stat"} /\ (pc' = "stat" => at' \in Paths)
    BY <1>1, <2>1, OnwardTyped
  <2> QED BY <1>1, <2>1, <2>5, <2>6, ReaderMoves
<1>7. CASE StopFollow
  BY <1>7, FileRests DEF StopFollow, Refuse, Return
<1> QED BY <1>2, <1>3, <1>4, <1>5, <1>6, <1>7

LEMMA FileNext_Typed ==
  ASSUME FileTyped, [Next]_vars
  PROVE  FileTyped'
<1>1. CASE UNCHANGED vars
  BY <1>1, FileRests DEF vars, run
<1>2. CASE (Step \/ BadRequest \/ Panics \/ Cancel) /\ UNCHANGED filevars
  <2>1. pc' = pc \/ pc' \notin {"tail read", "stat", "open", "read"}
    BY <1>2 DEF Step, EarlyErr, Targets, Dispatch, Finalize, Finish, BadRequest, Panics, Cancel,
       Refuse, Return
  <2> QED BY <1>2, <2>1, FileRests
<1>3. CASE Writer
  BY <1>3, WriterTyped
<1>4. CASE Open \/ TailOpen \/ TailFails \/ TailRead \/ TailEmit \/ TailDone
  BY <1>4, TailTyped
<1>5. CASE Tick \/ Transient \/ Stat \/ PumpOpen \/ Pump \/ StopFollow
  BY <1>5, FollowTyped
<1>6. CASE Listed \/ Checked
  BY <1>6, FileRests DEF Listed, Checked, Produced, Diagnosed, Return
<1>7. CASE (Program \/ KillChild \/ Arrive \/ Second) /\ UNCHANGED filevars
  <2>1. pc' = pc
    BY <1>7 DEF Program, Write, Exit, HeirExits, KillChild, Arrive, Second, run
  <2> QED BY <1>7, <2>1, FileRests
<1>8. CASE ChildStep /\ UNCHANGED filevars
  <2>1. pc' = pc \/ pc' \in {"launch", "scan", "wait", "return"}
    BY <1>8 DEF ChildStep, Named, Launch, StartFails, Start, ScanLine, ScanFails, ScanEnd, Wait, Ends,
       Refuse,
       Diagnosed, Produced, Return
  <2> QED BY <1>8, <2>1, FileRests
<1>9. CASE SlsStep /\ UNCHANGED filevars
  <2>1. ASSUME NEW page, NEW whole, Taken(page, whole) \/ Interrupted(page, whole)
        PROVE  pc' \in {"fetch", "loop", "return"}
    BY <2>1 DEF Taken, Interrupted, Produced, Return
  <2>2. pc' \in {"fetch", "loop", "return", "asked"}
    BY <1>9, <2>1 DEF SlsStep, Search, TailRows, Poll, Ask, TimesOut, AskAgain, AskFails, Fallback,
       Answered, Patchy, Probed, Refuse, Diagnosed, Return
  <2> QED BY <1>9, <2>2, FileRests
<1> QED BY <1>1, <1>2, <1>3, <1>4, <1>5, <1>6, <1>7, <1>8, <1>9 DEF Next, FileStep

\* A batch is collected until it is shown, a stream never.
OutTyped ==
    /\ late \in BOOLEAN /\ told \in BOOLEAN /\ err \in Errors
    /\ mode = "none" => shown = <<>>
    /\ mode = "stream" => held = <<>>
    /\ pc \in {"start", "run"} => held = <<>> /\ shown = <<>>

\* What any step does to the output: an adapter opens a stream when it begins,
\* puts lines, gives up what it has collected, or shows a batch.
Outputs ==
    /\ late' \in BOOLEAN /\ err' \in Errors /\ told' \in BOOLEAN
    /\ pc' \in {"start", "run"} => UNCHANGED <<mode, held, shown>> /\ pc \in {"start", "run"}
    /\ \/ UNCHANGED <<mode, held, shown>>
       \/ pc = "run" /\ mode' \in {mode, "stream"} /\ UNCHANGED <<held, shown>>
       \/ mode' = mode /\ \E ls : Put(ls)
       \/ mode' = mode /\ held' = <<>> /\ shown' = shown
       \/ mode' = "batch"

LEMMA OutputsTyped ==
  ASSUME VerdictInv, OutTyped, Outputs
  PROVE  OutTyped'
<1>1. late' \in BOOLEAN /\ told' \in BOOLEAN /\ err' \in Errors
  BY DEF Outputs, OutTyped
<1>2. pc' \in {"start", "run"} => held' = <<>> /\ shown' = <<>>
  BY DEF Outputs, OutTyped
<1>3. (mode' = "none" => shown' = <<>>) /\ (mode' = "stream" => held' = <<>>)
  BY DEF Outputs, OutTyped, Put
<1> QED BY <1>1, <1>2, <1>3 DEF OutTyped

LEMMA RunOut ==
  ASSUME OutTyped, call \in Calls, Step \/ BadRequest \/ Panics \/ Cancel
  PROVE  Outputs
<1>1. late \in BOOLEAN /\ told \in BOOLEAN /\ err \in Errors
  BY DEF OutTyped
<1>2. CASE EarlyErr \/ Targets \/ Dispatch
  BY <1>1, <1>2 DEF EarlyErr, Targets, Dispatch, output, verdict, Outputs, Errors
<1>3. CASE Finalize \/ Finish
  BY <1>1, <1>3 DEF Finalize, Finish, output, verdict, Outputs
<1>4. CASE BadRequest
  <2>1. call.source \in Sources
    BY DEF Calls
  <2>2. \A e \in Refusals[call.source] : e \in Errors
    BY <2>1 DEF Refusals, Sources, ArgErrors, CredErrors, BlockErrors, Errors
  <2>3. PICK e \in Errors : Refuse(e)
    BY <1>4, <2>2 DEF BadRequest, Errors
  <2> QED BY <1>1, <2>3 DEF Refuse, Return, output, Outputs
<1>5. CASE Panics
  BY <1>1, <1>5 DEF Panics, Refuse, Return, output, Outputs, Errors
<1>6. CASE Cancel
  BY <1>1, <1>6 DEF Cancel, output, verdict, Outputs
<1> QED BY <1>2, <1>3, <1>4, <1>5, <1>6 DEF Step

LEMMA FileOut ==
  ASSUME OutTyped, Writer \/ FileStep \/ StopFollow
  PROVE  Outputs
<1>0. late \in BOOLEAN /\ told \in BOOLEAN /\ err \in Errors
  BY DEF OutTyped
<1>1. CASE Writer
  BY <1>0, <1>1 DEF Writer, Log, Cut, Truncate, Rotate, Create, run, output, verdict, Outputs
<1>2. CASE Open
  BY <1>0, <1>2 DEF Open, Asked, Opened, verdict, Outputs
<1>3. CASE TailOpen \/ TailEmit
  BY <1>0, <1>3 DEF TailOpen, TailEmit, verdict, Outputs
<1>4. CASE TailFails
  BY <1>0, <1>4 DEF TailFails, Return, Outputs, Errors
<1>5. CASE TailRead
  BY <1>0, <1>5 DEF TailRead, run, output, verdict, Outputs
<1>6. CASE TailDone
  BY <1>0, <1>6 DEF TailDone, Produced, Batch, Return, output, verdict, Outputs, Errors
<1>7. CASE Tick \/ PumpOpen
  BY <1>0, <1>7 DEF Tick, PumpOpen, output, verdict, Outputs
<1>8. CASE Transient \/ Stat
  BY <1>0, <1>8 DEF Transient, Stat, Onward, output, verdict, Outputs
<1>9. CASE Pump
  BY <1>0, <1>9 DEF Pump, Onward, verdict, Outputs
<1>10. CASE Listed
  BY <1>0, <1>10 DEF Listed, Produced, Batch, Return, output, Outputs, Errors
<1>11. CASE Checked
  BY <1>0, <1>11 DEF Checked, Diagnosed, Batch, Return, Outputs, Errors
<1>12. CASE StopFollow
  BY <1>0, <1>12 DEF StopFollow, Refuse, Return, output, Outputs, Errors
<1> QED
  BY <1>1, <1>2, <1>3, <1>4, <1>5, <1>6, <1>7, <1>8, <1>9, <1>10, <1>11, <1>12 DEF FileStep

LEMMA ChildOut ==
  ASSUME OutTyped, Program \/ ChildStep \/ KillChild
  PROVE  Outputs
<1>0. late \in BOOLEAN /\ told \in BOOLEAN /\ err \in Errors
  BY DEF OutTyped
<1>1. CASE Program \/ KillChild
  BY <1>0, <1>1 DEF Program, Write, Exit, HeirExits, KillChild, run, output, verdict, Outputs
<1>2. CASE Launch
  BY <1>0, <1>2 DEF Launch, Asked, Opened, verdict, Outputs
<1>9. CASE Named
  BY <1>0, <1>9 DEF Named, Batch, Return, Outputs, Errors
<1>3. ASSUME NEW e \in Errors, Ends(e), late' = late PROVE Outputs
  BY <1>0, <1>3 DEF Ends, Produced, Diagnosed, Refuse, Batch, Return, output, Outputs, Errors
<1>4. CASE StartFails
  <2>1. PICK e \in {"config", "general"} : Ends(e)
    BY <1>4 DEF StartFails
  <2>2. e \in Errors /\ late' = late
    BY <2>1 DEF Errors, Ends, Produced, Diagnosed, Refuse, Return
  <2> QED BY <1>3, <2>1, <2>2
<1>5. CASE Start \/ ScanEnd
  BY <1>0, <1>5 DEF Start, ScanEnd, output, verdict, Outputs
<1>6. CASE ScanLine
  <2>1. /\ UNCHANGED <<late, told, err, mode>> /\ pc' = "scan"
        /\ UNCHANGED <<held, shown>> \/ Put(<<taken'>>)
    BY <1>6 DEF ScanLine, verdict
  <2> QED BY <1>0, <2>1 DEF Outputs
<1>7. CASE ScanFails
  BY <1>0, <1>7 DEF ScanFails, output, Outputs, Errors
<1>8. CASE Wait
  <2>1. PICK e \in {"none", "general", "timeout", "remote"} : Ends(e)
    BY <1>8 DEF Wait
  <2>2. e \in Errors /\ late' = late
    BY <2>1 DEF Errors, Ends, Produced, Diagnosed, Refuse, Return
  <2> QED BY <1>3, <2>1, <2>2
<1> QED BY <1>1, <1>2, <1>4, <1>5, <1>6, <1>7, <1>8, <1>9 DEF ChildStep

LEMMA SlsOut ==
  ASSUME OutTyped, Arrive \/ Second \/ SlsStep
  PROVE  Outputs
<1>0. late \in BOOLEAN /\ told \in BOOLEAN /\ err \in Errors
  BY DEF OutTyped
<1>1. CASE Arrive \/ Second
  BY <1>0, <1>1 DEF Arrive, Second, run, output, verdict, Outputs
<1>2. CASE Search \/ Poll \/ Ask \/ AskAgain
  BY <1>0, <1>2 DEF Search, Poll, Ask, AskAgain, output, verdict, Outputs
<1>3. CASE TailRows
  BY <1>0, <1>3 DEF TailRows, Asked, verdict, Outputs
<1>4. CASE TimesOut \/ AskFails
  BY <1>0, <1>4 DEF TimesOut, AskFails, AskErrors, Refuse, Return, output, Outputs, Errors
<1>5. CASE Fallback
  BY <1>0, <1>5 DEF Fallback, output, verdict, Outputs
<1>6. ASSUME NEW page, NEW whole \in BOOLEAN, Interrupted(page, whole) PROVE Outputs
  BY <1>0, <1>6 DEF Interrupted, Return, Outputs, Errors
<1>7. ASSUME NEW page, NEW whole \in BOOLEAN, Taken(page, whole) PROVE Outputs
  BY <1>0, <1>7 DEF Taken, Produced, Batch, Return, output, Outputs, Errors
<1>8. CASE Answered \/ Patchy
  BY <1>6, <1>7, <1>8 DEF Answered, Patchy
<1>9. CASE Probed
  BY <1>0, <1>9 DEF Probed, AskErrors, Diagnosed, Batch, Return, Outputs, Errors
<1> QED BY <1>1, <1>2, <1>3, <1>4, <1>5, <1>8, <1>9 DEF SlsStep

LEMMA OutNext_Typed ==
  ASSUME VerdictInv, OutTyped, call \in Calls, [Next]_vars
  PROVE  OutTyped'
<1>1. CASE UNCHANGED vars
  BY <1>1 DEF vars, run, output, verdict, OutTyped
<1>2. CASE Next
  BY <1>2, RunOut, FileOut, ChildOut, SlsOut, OutputsTyped DEF Next
<1> QED BY <1>1, <1>2

ChildTyped ==
    /\ child \in {"none", "running", "ok", "bad", "killed"} /\ heir \in BOOLEAN
    /\ lines \in 0 .. MaxLines

LEMMA ChildNext_Typed ==
  ASSUME ChildTyped, [Next]_vars
  PROVE  ChildTyped'
<1>1. CASE UNCHANGED vars \/ UNCHANGED childvars
  BY <1>1 DEF vars, childvars, ChildTyped
<1>2. CASE Program \/ KillChild
  <2>1. /\ child' \in {"none", "running", "ok", "bad", "killed"} /\ heir' \in BOOLEAN
        /\ lines' = lines \/ (lines' = lines + 1 /\ lines < MaxLines)
    BY <1>2 DEF Program, Write, Exit, HeirExits, KillChild, ChildTyped
  <2>2. lines \in 0 .. MaxLines
    BY DEF ChildTyped
  <2>3. lines' \in 0 .. MaxLines
    BY <2>1, <2>2, LinesAssumption
  <2> QED BY <2>1, <2>3 DEF ChildTyped
<1>3. CASE ChildStep
  BY <1>3 DEF ChildStep, Named, Launch, StartFails, Start, ScanLine, ScanFails, ScanEnd, Wait,
     childvars,
     ChildTyped
<1> QED BY <1>1, <1>2, <1>3 DEF Next

\* All that an invocation is, whatever its adapter.
LogInv ==
    /\ call \in Calls
    /\ VerdictInv /\ OutTyped
    /\ FileTyped
    /\ ChildTyped /\ ChildInv
    /\ SlsTyped /\ SlsInv

LEMMA LogInit_Inv == Init => LogInv
<1> SUFFICES ASSUME Init PROVE LogInv
  OBVIOUS
<1>1. call \in Calls /\ OutTyped
  BY DEF Init, RunInit, OutTyped, Errors
<1>2. ChildTyped
  <2>1. 0 \in 0 .. MaxLines
    BY LinesAssumption
  <2> QED BY <2>1 DEF Init, ChildInit, ChildTyped
<1> QED
  BY <1>1, <1>2, VerdictInit_Inv, FileInit_Typed, ChildInit_Inv, SlsInit_Typed, SlsInit_Inv
  DEF LogInv

LEMMA LogNext_Inv == LogInv /\ [Next]_vars => LogInv'
<1> SUFFICES ASSUME LogInv, [Next]_vars PROVE LogInv'
  OBVIOUS
<1>1. /\ call \in Calls /\ VerdictInv /\ OutTyped /\ FileTyped /\ ChildTyped /\ ChildInv
      /\ SlsTyped /\ SlsInv
  BY DEF LogInv
<1>2. (call \in Calls)' /\ VerdictInv' /\ OutTyped'
  BY <1>1, CallStays, VerdictNext_Inv, OutNext_Typed
<1>3. FileTyped' /\ ChildTyped' /\ ChildInv'
  BY <1>1, FileNext_Typed, ChildNext_Typed, ChildNext_Inv
<1>4. SlsTyped' /\ SlsInv'
  BY <1>1, SlsNext_Inv
<1> QED BY <1>2, <1>3, <1>4 DEF LogInv

LEMMA LogTypes == LogInv => TypeOK
<1> SUFFICES ASSUME LogInv PROVE TypeOK
  OBVIOUS
<1>1. /\ call \in Calls /\ late \in BOOLEAN /\ told \in BOOLEAN /\ err \in Errors
      /\ mode = "none" => shown = <<>>
      /\ mode = "stream" => held = <<>>
  BY DEF LogInv, OutTyped
<1>2. /\ pc \in {"start", "run", "return", "audit", "exited",
               "tail", "tail read", "tick", "stat", "open", "read",
               "launch", "scan", "wait", "loop", "fetch", "asked"}
      /\ mode \in {"none", "batch", "stream"}
  BY DEF LogInv, VerdictInv, Busy
<1>3. ends \in {<<>>, <<"data">>, <<"end">>, <<"error">>}
  BY DEF LogInv, VerdictInv, Shut, Closed, Busy
<1>4. /\ files \in 1 .. MaxFiles /\ gone \subseteq Paths
      /\ written \in 0 .. MaxWrites /\ cuts \in 0 .. MaxCuts
      /\ at \in 1 .. files + 1 /\ fd \in Nat /\ off \in [Paths -> 0 .. MaxWrites]
  BY DEF LogInv, FileTyped
<1>5. size \in Nat /\ pos \in Nat
  <2>1. size \in 0 .. MaxWrites /\ pos \in 0 .. MaxWrites
    BY DEF LogInv, FileTyped
  <2> QED BY <2>1, FileBounds
<1>6. /\ child \in {"none", "running", "ok", "bad", "killed"} /\ heir \in BOOLEAN
      /\ lines \in 0 .. MaxLines
  BY DEF LogInv, ChildTyped
<1>7. taken \in 0 .. lines
  BY DEF LogInv, ChildInv
<1>8. /\ rows \in Seq(0 .. MaxClock) /\ want \in 0 .. MaxRows /\ try \in 1 .. Tries
      /\ offset \in Nat /\ newest \in BOOLEAN /\ misses \in 0 .. MaxPatchy
  BY DEF LogInv, SlsTyped
<1>9. from \in 0 .. MaxClock /\ to \in 0 .. MaxClock
  <2>1. clock \in 0 .. MaxClock /\ from \in 0 .. clock /\ to \in 0 .. clock
    BY DEF LogInv, SlsTyped
  <2> QED BY <2>1, SlsBounds
<1> QED BY <1>1, <1>2, <1>3, <1>4, <1>5, <1>6, <1>7, <1>8, <1>9, Zenon DEF TypeOK

\* Every variable has its type in every behaviour, for any bounds: no file is
\* read past what was written, no row asked for past what is wanted, and a
\* batch is shown at once, a stream line by line.
THEOREM LogTypeCorrect == Spec => []TypeOK
<1>1. LogInv => TypeOK
  BY LogTypes
<1> QED BY <1>1, LogInit_Inv, LogNext_Inv, PTL DEF Spec

===============================================================================
