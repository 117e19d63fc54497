-------------------------------- MODULE Audit --------------------------------
(***************************************************************************)
(* internal/core/audit: many short-lived CLI processes append JSON lines   *)
(* to one file per UTC day, under an advisory lock and without O_APPEND,   *)
(* and prune day-files that left the retention window.                     *)
(*                                                                         *)
(* A process of the model is one CLI invocation: Begin, the backend call,  *)
(* Finish.  Files are inodes: a process that holds a day-file open keeps   *)
(* writing to it after another process unlinked its name, and a later open *)
(* of the same day creates a new inode.  A line is a cell; a short write   *)
(* (disk full) leaves a cell that is not whole.                            *)
(***************************************************************************)
EXTENDS Naturals, Sequences

CONSTANTS Procs,      \* CLI invocations
          LastDay,    \* bound: the calendar is 1..LastDay
          Retention,  \* retentionDays
          MaxInodes,  \* bound: files ever created
          Nobody      \* no process

ASSUME AuditAssumption ==
    /\ LastDay \in Nat \ {0}
    /\ Retention \in Nat
    /\ MaxInodes \in Nat
    /\ Nobody \notin Procs

Days   == 1..LastDay
Inodes == 1..MaxInodes
NoFile == 0

Outcomes == {"started", "ok", "error"}
Cells    == [proc : Procs, outcome : Outcomes, whole : BOOLEAN]
Locations == {"new", "open", "flock", "seek", "write", "release",
              "list", "remove", "ready", "running", "done", "killed"}

VARIABLES
    today,       \* the UTC day the clock shows
    dir,         \* day -> inode its day-file name is linked to
    lines,       \* inode -> the cells in the file
    holder,      \* inode -> process that holds its flock
    made,        \* inodes created so far
    pc,          \* process -> where it is in writeLine or around it
    sideEffect,  \* process -> Record.SideEffecting
    outcome,     \* process -> outcome of the line it writes
    day,         \* process -> the day of the line it writes
    fd,          \* process -> inode it has open
    offset,      \* process -> cells before its file position
    stale,       \* process -> names prune still has to remove
    \* observed by the properties only
    acked,       \* <<process, outcome, day>> of the writes that reported success
    warned,      \* <<process, outcome>> of the lines given up with a warning
    dispatched   \* processes whose backend call was issued

files == <<dir, lines, holder, made>>
local == <<sideEffect, outcome, day, fd, offset, stale>>
seen  == <<acked, warned, dispatched>>
vars  == <<today, files, pc, local, seen>>

Goto(p, l) == pc' = [pc EXCEPT ![p] = l]

\* warn: the line is given up, the operation goes on
Warn(p) ==
    /\ warned' = warned \union {<<p, outcome[p]>>}
    /\ UNCHANGED <<acked, dispatched>>

\* writeLine returned: Begin hands the operation to the caller, Finish ends it
Returned(p) == IF outcome[p] = "started" THEN "ready" ELSE "done"

Init ==
    /\ today = 1
    /\ dir = [d \in Days |-> NoFile]
    /\ lines = [i \in Inodes |-> <<>>]
    /\ holder = [i \in Inodes |-> Nobody]
    /\ made = 0
    /\ pc = [p \in Procs |-> "new"]
    /\ sideEffect = [p \in Procs |-> FALSE]
    /\ outcome = [p \in Procs |-> "started"]
    /\ day = [p \in Procs |-> 1]
    /\ fd = [p \in Procs |-> NoFile]
    /\ offset = [p \in Procs |-> 0]
    /\ stale = [p \in Procs |-> {}]
    /\ acked = {}
    /\ warned = {}
    /\ dispatched = {}

-----------------------------------------------------------------------------
(* The operation: Begin, the backend call, Finish *)

\* Seeded bug: Begin does not write the started line
BeginSilent(p) ==
    /\ pc[p] = "new"
    /\ \E se \in BOOLEAN : sideEffect' = [sideEffect EXCEPT ![p] = se]
    /\ Goto(p, "ready")
    /\ day' = [day EXCEPT ![p] = today]
    /\ UNCHANGED <<today, files, outcome, fd, offset, stale, seen>>

Begin(p) ==
    /\ pc[p] = "new"
    /\ \E se \in BOOLEAN :
        /\ sideEffect' = [sideEffect EXCEPT ![p] = se]
        /\ Goto(p, IF se THEN "open" ELSE "ready")
    /\ day' = [day EXCEPT ![p] = today]
    /\ UNCHANGED <<today, files, outcome, fd, offset, stale, seen>>

Dispatch(p) ==
    /\ pc[p] = "ready"
    /\ Goto(p, "running")
    /\ dispatched' = dispatched \union {p}
    /\ UNCHANGED <<today, files, local, acked, warned>>

\* Seeded bug: the terminal line is a copy of the started one
FinishAsStarted(p) ==
    /\ pc[p] = "running"
    /\ day' = [day EXCEPT ![p] = today]
    /\ Goto(p, "open")
    /\ UNCHANGED <<today, files, sideEffect, outcome, fd, offset, stale, seen>>

\* Seeded bug: success leaves the outcome empty
FinishUnset(p) ==
    /\ pc[p] = "running"
    /\ \E o \in {"", "error"} : outcome' = [outcome EXCEPT ![p] = o]
    /\ day' = [day EXCEPT ![p] = today]
    /\ Goto(p, "open")
    /\ UNCHANGED <<today, files, sideEffect, fd, offset, stale, seen>>

\* A read may be rejected before it is dispatched; a side-effecting operation
\* is opened right before its dispatch.
Finish(p) ==
    /\ pc[p] = "running" \/ (pc[p] = "ready" /\ ~sideEffect[p])
    /\ \E o \in {"ok", "error"} : outcome' = [outcome EXCEPT ![p] = o]
    /\ day' = [day EXCEPT ![p] = today]
    /\ Goto(p, "open")
    /\ UNCHANGED <<today, files, sideEffect, fd, offset, stale, seen>>

-----------------------------------------------------------------------------
(* writeLine: home and directory, appendLocked, then prune *)

\* No home, or the directory cannot be made: writeLine returns before prune
HomeFails(p) ==
    /\ pc[p] = "open"
    /\ Goto(p, Returned(p))
    /\ Warn(p)
    /\ UNCHANGED <<today, files, local>>

OpenExisting(p) ==
    /\ pc[p] = "open"
    /\ dir[day[p]] # NoFile
    /\ fd' = [fd EXCEPT ![p] = dir[day[p]]]
    /\ Goto(p, "flock")
    /\ UNCHANGED <<today, files, sideEffect, outcome, day, offset, stale, seen>>

OpenCreates(p) ==
    /\ pc[p] = "open"
    /\ dir[day[p]] = NoFile
    /\ made < MaxInodes
    /\ made' = made + 1
    /\ dir' = [dir EXCEPT ![day[p]] = made + 1]
    /\ fd' = [fd EXCEPT ![p] = made + 1]
    /\ Goto(p, "flock")
    /\ UNCHANGED <<today, lines, holder, sideEffect, outcome, day, offset, stale,
                   seen>>

OpenFails(p) ==
    /\ pc[p] = "open"
    /\ Goto(p, "list")
    /\ Warn(p)
    /\ UNCHANGED <<today, files, local>>

\* Seeded bug: the lock is shared
FlockShared(p) ==
    /\ pc[p] = "flock"
    /\ holder' = [holder EXCEPT ![fd[p]] = p]
    /\ Goto(p, "seek")
    /\ UNCHANGED <<today, dir, lines, made, local, seen>>

Flock(p) ==
    /\ pc[p] = "flock"
    /\ holder[fd[p]] = Nobody
    /\ holder' = [holder EXCEPT ![fd[p]] = p]
    /\ Goto(p, "seek")
    /\ UNCHANGED <<today, dir, lines, made, local, seen>>

FlockFails(p) ==
    /\ pc[p] = "flock"
    /\ fd' = [fd EXCEPT ![p] = NoFile]
    /\ Goto(p, "list")
    /\ Warn(p)
    /\ UNCHANGED <<today, files, sideEffect, outcome, day, offset, stale>>

SeekEnd(p) ==
    /\ pc[p] = "seek"
    /\ offset' = [offset EXCEPT ![p] = Len(lines[fd[p]])]
    /\ Goto(p, "write")
    /\ UNCHANGED <<today, files, sideEffect, outcome, day, fd, stale, seen>>

\* json.Marshal or Seek returned an error: warn, write nothing
EncodeOrSeekFails(p) ==
    /\ pc[p] = "seek"
    /\ Goto(p, "release")
    /\ Warn(p)
    /\ UNCHANGED <<today, files, local>>

\* The cells of s after c is written at position k: what was there is gone
WriteAt(s, k, c) ==
    [i \in 1..(IF k < Len(s) THEN Len(s) ELSE k + 1) |->
        IF i = k + 1 THEN c ELSE s[i]]

Put(p, whole) ==
    lines' = [lines EXCEPT ![fd[p]] =
        WriteAt(@, offset[p],
                [proc |-> p, outcome |-> outcome[p], whole |-> whole])]

WriteWhole(p) ==
    /\ pc[p] = "write"
    /\ Put(p, TRUE)
    /\ acked' = acked \union {<<p, outcome[p], day[p]>>}
    /\ Goto(p, "release")
    /\ UNCHANGED <<today, dir, holder, made, local, warned, dispatched>>

\* A short write: part of the line without its newline, and an error
WriteTorn(p) ==
    /\ pc[p] = "write"
    /\ Put(p, FALSE)
    /\ Goto(p, "release")
    /\ Warn(p)
    /\ UNCHANGED <<today, dir, holder, made, local>>

WriteFails(p) ==
    /\ pc[p] = "write"
    /\ Goto(p, "release")
    /\ Warn(p)
    /\ UNCHANGED <<today, files, local>>

\* Seeded bug: an early return leaves the file open and locked
ReleaseLeaks(p) ==
    /\ pc[p] = "release"
    /\ Goto(p, "list")
    /\ UNCHANGED <<today, files, local, seen>>

\* The deferred unlock, then the deferred Close
Release(p) ==
    /\ pc[p] = "release"
    /\ holder' = [holder EXCEPT ![fd[p]] = Nobody]
    /\ fd' = [fd EXCEPT ![p] = NoFile]
    /\ offset' = [offset EXCEPT ![p] = 0]
    /\ Goto(p, "list")
    /\ UNCHANGED <<today, dir, lines, made, sideEffect, outcome, day, stale,
                   seen>>

\* Seeded bug: off by one day
ExpiredEarly(d, ref) == d + Retention <= ref

Expired(d, ref) == d + Retention < ref

\* ReadDir, and the entries the loop of prune will remove
ListDir(p) ==
    /\ pc[p] = "list"
    /\ LET old == {d \in Days : dir[d] # NoFile /\ Expired(d, day[p])} IN
        /\ stale' = [stale EXCEPT ![p] = old]
        /\ Goto(p, IF old = {} THEN Returned(p) ELSE "remove")
    /\ UNCHANGED <<today, files, sideEffect, outcome, day, fd, offset, seen>>

ListFails(p) ==
    /\ pc[p] = "list"
    /\ Goto(p, Returned(p))
    /\ UNCHANGED <<today, files, local, seen>>

\* One os.Remove, in the order of the names; its error is ignored
Remove(p) ==
    /\ pc[p] = "remove"
    /\ \E d \in stale[p] :
        /\ \A e \in stale[p] : d <= e
        /\ \E gone \in BOOLEAN :
            dir' = IF gone THEN [dir EXCEPT ![d] = NoFile] ELSE dir
        /\ stale' = [stale EXCEPT ![p] = @ \ {d}]
        /\ Goto(p, IF stale[p] = {d} THEN Returned(p) ELSE "remove")
    /\ UNCHANGED <<today, lines, holder, made, sideEffect, outcome, day, fd,
                   offset, seen>>

-----------------------------------------------------------------------------
(* The environment *)

Midnight ==
    /\ today < LastDay
    /\ today' = today + 1
    /\ UNCHANGED <<files, pc, local, seen>>

\* SIGKILL or a panic: the kernel closes the descriptor and drops the lock
Kill(p) ==
    /\ pc[p] \notin {"new", "done", "killed"}
    /\ Goto(p, "killed")
    /\ holder' = [i \in Inodes |-> IF holder[i] = p THEN Nobody ELSE holder[i]]
    /\ fd' = [fd EXCEPT ![p] = NoFile]
    /\ offset' = [offset EXCEPT ![p] = 0]
    /\ stale' = [stale EXCEPT ![p] = {}]
    /\ UNCHANGED <<today, dir, lines, made, sideEffect, outcome, day, seen>>

Step(p) ==
    \/ Begin(p) \/ Dispatch(p) \/ Finish(p)
    \/ HomeFails(p)
    \/ OpenExisting(p) \/ OpenCreates(p) \/ OpenFails(p)
    \/ Flock(p) \/ FlockFails(p)
    \/ SeekEnd(p) \/ EncodeOrSeekFails(p)
    \/ WriteWhole(p) \/ WriteTorn(p) \/ WriteFails(p)
    \/ Release(p)
    \/ ListDir(p) \/ ListFails(p) \/ Remove(p)

Next ==
    \/ \E p \in Procs : Step(p) \/ Kill(p)
    \/ Midnight

Spec == Init /\ [][Next]_vars

\* The steps that succeed, all but taking the lock: a process that neither
\* fails nor is killed gets through them, and flock serves its waiters.
Work(p) ==
    \/ Dispatch(p) \/ Finish(p)
    \/ OpenExisting(p) \/ OpenCreates(p)
    \/ SeekEnd(p) \/ WriteWhole(p) \/ Release(p)
    \/ ListDir(p) \/ Remove(p)

FairSpec == Spec /\ \A p \in Procs : WF_vars(Work(p)) /\ SF_vars(Flock(p))

-----------------------------------------------------------------------------
(* Properties *)

\* Every variable has its type.
TypeOK ==
    /\ today \in Days
    /\ dir \in [Days -> Inodes \union {NoFile}]
    /\ lines \in [Inodes -> Seq(Cells)]
    /\ holder \in [Inodes -> Procs \union {Nobody}]
    /\ made \in 0..MaxInodes
    /\ pc \in [Procs -> Locations]
    /\ sideEffect \in [Procs -> BOOLEAN]
    /\ outcome \in [Procs -> Outcomes]
    /\ day \in [Procs -> Days]
    /\ fd \in [Procs -> Inodes \union {NoFile}]
    /\ offset \in [Procs -> Nat]
    /\ stale \in [Procs -> SUBSET Days]
    /\ acked \in SUBSET (Procs \X Outcomes \X Days)
    /\ warned \in SUBSET (Procs \X Outcomes)
    /\ dispatched \in SUBSET Procs

Written(d) == IF dir[d] = NoFile THEN <<>> ELSE lines[dir[d]]

\* A reader may count on a day-file through retentionDays days after its own
Retained(d) == today <= d + Retention

Has(s, p, o) ==
    \E k \in DOMAIN s : s[k] = [proc |-> p, outcome |-> o, whole |-> TRUE]

\* A line whose write reported success stays, whole, in the file its day names
\* for as long as that day is within the retention window, whatever other
\* processes append, prune or leave behind when they are killed.
Kept ==
    \A a \in acked :
        Retained(a[3]) => Has(Written(a[3]), a[1], a[2])

\* No silent path: a side-effecting operation reaches its backend only after
\* its started line was written or given up with a warning, and an invocation
\* ends only after the same of its terminal line.
NoSilentPath ==
    \A p \in Procs :
        LET Settled(O) == \E o \in O :
                <<p, o>> \in warned \/ \E d \in Days : <<p, o, d>> \in acked
        IN /\ p \in dispatched /\ sideEffect[p] => Settled({"started"})
           /\ pc[p] = "done" => Settled({"ok", "error"})

\* In every file an invocation has at most one line of each phase and the started
\* line comes first, so that the two lines of an operation pair up by id
\* whatever other processes interleave between them.
PairedInOrder ==
    \A i \in Inodes : \A j, k \in DOMAIN lines[i] :
        j < k /\ lines[i][j].proc = lines[i][k].proc =>
            /\ lines[i][j].outcome = "started"
            /\ lines[i][k].outcome # "started"

\* What was acknowledged can be read back later: a line of a retained day stays in
\* its day-file, and the lines of one invocation stand in order there.
LinesStand == Kept /\ PairedInOrder

\* The day-files implement the append-only log of AuditTrail: no step of any
\* process overwrites, reorders or truncates what another one appended.
Trail == INSTANCE AuditTrail WITH log <- [d \in Days |-> Written(d)]

ImplementsTrail == Trail!TrailSpec

\* Every invocation that is not killed gets past the lock and ends.
EveryInvocationEnds ==
    \A p \in Procs : pc[p] # "new" ~> pc[p] \in {"done", "killed"}
===============================================================================
