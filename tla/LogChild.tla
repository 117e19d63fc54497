------------------------------- MODULE LogChild -------------------------------
(***************************************************************************)
(* The adapters that start a program and pass its lines on: docker,        *)
(* kubectl, ssh-file and ssh-docker, by exec.Local (internal/core/exec).   *)
(*                                                                         *)
(* The program and what it starts in turn are external: it writes lines    *)
(* and exits well or badly, and may leave an heir, a process of its own    *)
(* that keeps the pipes open.                                              *)
(***************************************************************************)
EXTENDS LogRun

CONSTANT MaxLines   \* bound: lines the program writes

ASSUME LinesAssumption == MaxLines \in Nat

VARIABLES
    child,     \* "none", "running", or how it ended: "ok", "bad", "killed"
    heir,      \* does another process hold the pipes?
    lines,     \* lines written to the pipe
    taken      \* those of them that were read

childvars == <<child, heir, lines, taken>>

ChildInit == child = "none" /\ heir = FALSE /\ lines = 0 /\ taken = 0

-----------------------------------------------------------------------------
(* The program *)

Write ==
    /\ child = "running" \/ heir
    /\ lines < MaxLines
    /\ lines' = lines + 1
    /\ UNCHANGED <<run, child, heir, taken>>

Exit ==
    /\ child = "running"
    /\ child' \in {"ok", "bad"} /\ heir' \in BOOLEAN
    /\ UNCHANGED <<run, lines, taken>>

HeirExits ==
    /\ heir
    /\ heir' = FALSE
    /\ UNCHANGED <<run, child, lines, taken>>

Program == ~Over /\ (Write \/ Exit \/ HeirExits)

-----------------------------------------------------------------------------
(* Local.Run *)

\* The adapter ends: doctor has its checks, ls and logs what was collected.
Ends(e) ==
    IF call.verb = "doctor" THEN Diagnosed(e)
    ELSE IF e = "none" THEN Produced(held, FALSE) /\ UNCHANGED held
    ELSE Refuse(e)

\* ssh-file answers ls with the files of its target: no program is run.
Named ==
    /\ Asked("child", {"ls"})
    /\ Batch(<<"file">>, FALSE)
    /\ Return("none")
    /\ UNCHANGED <<held, childvars>>

Launch ==
    /\ Asked("child", {"logs", "ls", "doctor"})
    /\ Opened
    /\ pc' = "launch"
    /\ UNCHANGED <<call, late, held, shown, ends, told, verdict, childvars>>

\* The binary is not on the PATH; the pipe or the start fails.
StartFails ==
    /\ pc = "launch"
    /\ \E e \in {"config", "general"} : Ends(e)
    /\ UNCHANGED childvars

Start ==
    /\ pc = "launch"
    /\ child' = "running"
    /\ pc' = "scan"
    /\ UNCHANGED <<call, late, held, output, verdict, heir, lines, taken>>

\* The context is done: CommandContext kills the program, not its heir.
KillChild ==
    /\ late /\ child = "running"
    /\ child' = "killed" /\ heir' \in BOOLEAN
    /\ UNCHANGED <<run, lines, taken>>

\* doctor drops the lines.
ScanLine ==
    /\ pc = "scan" /\ taken < lines
    /\ taken' = taken + 1
    /\ IF call.verb = "doctor" THEN UNCHANGED <<held, shown>> ELSE Put(<<taken'>>)
    /\ UNCHANGED <<call, pc, late, mode, ends, told, verdict, child, heir, lines>>

\* Seeded bug: a line that is too long ends the scan like the end of the pipe.
ScanStops ==
    /\ pc = "scan"
    /\ pc' = "wait"
    /\ child' = IF child = "running" THEN "ok" ELSE child
    /\ UNCHANGED <<call, late, held, output, err, finals, lines, heir, taken>>

\* A line that is too long: the program is killed and the error kept.
ScanFails ==
    /\ pc = "scan"
    /\ pc' = "wait"
    /\ err' = "general"
    /\ IF child = "running" THEN child' = "killed" /\ heir' \in BOOLEAN
       ELSE UNCHANGED <<child, heir>>
    /\ UNCHANGED <<call, late, held, output, finals, lines, taken>>

\* The pipe has an end when everybody who holds it is gone.
ScanEnd ==
    /\ pc = "scan" /\ taken = lines /\ child # "running" /\ ~heir
    /\ pc' = "wait"
    /\ UNCHANGED <<call, late, held, output, verdict, childvars>>

\* Wait also waits for stderr.  A program that ended well may still have been
\* sent the kill.
Wait ==
    /\ pc = "wait" /\ ~heir
    /\ \E e \in IF err = "general" THEN {"general"}
                ELSE IF child = "ok" THEN {"none"} \union (IF late THEN {"timeout"} ELSE {})
                ELSE {IF late THEN "timeout" ELSE "remote"} : Ends(e)
    /\ UNCHANGED childvars

ChildStep == Named \/ Launch \/ StartFails \/ Start \/ ScanLine \/ ScanFails \/ ScanEnd \/ Wait

-----------------------------------------------------------------------------
(* Properties *)

\* ssh-file has listed its files.
ByName == call.verb = "ls" /\ child = "none" /\ mode = "batch"

\* What is shown are lines of the program in its order; and an invocation that
\* ends without an error has shown all of them, of a program that ended well.
ChildTrue ==
    call.source = "child" /\ call.verb \in {"logs", "ls"} /\ ~ByName =>
        /\ shown = [i \in 1 .. Len(shown) |-> i] /\ Len(shown) <= lines
        /\ pc \in {"return", "audit", "exited"} /\ mode # "none" /\ err = "none" =>
               child = "ok" /\ Len(shown) = lines
===============================================================================
