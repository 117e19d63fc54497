---------------------------- MODULE ConfigArchive ----------------------------
(***************************************************************************)
(* internal/aidev/configarchive: `aidev config backup` archives the config *)
(* files under a name with a one-second timestamp, `aidev config restore`  *)
(* writes an archive's files back, after an optional safety backup.  A     *)
(* process is one such command; the user edits config files meanwhile.     *)
(*                                                                         *)
(* A payload file is a number: files are written back in the order of      *)
(* their paths.  Its content is a version, or Partial where a write stopped*)
(* half-way.  Name <<s, k>> is aidev-config-<s>[-00k].tar.gz.  The audit    *)
(* line a command writes at its end is module Audit's.                     *)
(***************************************************************************)
EXTENDS Naturals, FiniteSets

CONSTANTS Procs,       \* config commands
          Files,       \* payload paths, as numbers in path order
          Creds,       \* the payload paths under credentials/
          Versions,    \* contents of a config file
          Seconds,     \* bound: timestamps of backups
          Slots,       \* suffixes nextBackupPath tries (0..999 in the code)
          Overlap,     \* may two commands run at once in the same second?
          MaxEdits,    \* bound: edits by the user
          Absent, Partial

ASSUME ArchiveAssumption ==
    /\ Files \subseteq Nat /\ Files # {} /\ Creds \subseteq Files
    /\ Slots \subseteq Nat /\ Slots # {}
    /\ Seconds \subseteq Nat /\ Seconds # {}
    /\ Overlap \in BOOLEAN /\ MaxEdits \in Nat
    /\ Absent \notin Versions /\ Partial \notin Versions /\ Absent # Partial

Names   == Seconds \X Slots
Body    == [Files -> Versions \union {Absent}]  \* the files an archive holds
NoBody  == [f \in Files |-> Absent]
Nothing == <<>>                                 \* no archive under a name

VARIABLES
    root,      \* payload file -> content, Absent if there is none
    backups,   \* name -> body of the archive, Nothing if there is none
    now,       \* the current second
    edits,     \* edits made so far
    pc,
    keep,      \* process -> restore takes a safety backup first
    second,    \* process -> opts.Now
    dest,      \* process -> name of its backup
    listed,    \* process -> entries of collect still to be read
    body,      \* process -> what its archive holds so far
    todo,      \* process -> files restore still has to write back
    source,    \* process -> body of the archive it restores
    temp,      \* process -> its temporary config file: Absent, Partial or whole
    tar,       \* processes with a temporary archive in the backup directory
    \* observed by the properties only
    replaced,  \* process -> files it wrote back, with what they held before
    touched    \* process -> files others changed since its collect

disk  == <<root, backups>>
temps == <<temp, tar>>
clock == <<now, edits>>
local == <<keep, second, dest, listed, body, todo, source>>
seen  == <<replaced, touched>>
vars  == <<disk, clock, pc, local, temps, seen>>

Goto(p, l) == pc' = [pc EXCEPT ![p] = l]
First(S) == CHOOSE x \in S : \A y \in S : x <= y
Ended == {"ok", "failed", "killed"}
Active(p) == pc[p] \notin Ended \union {"idle"}

Init ==
    /\ root \in {[f \in Files |-> v] : v \in Versions}
    /\ backups = [n \in Names |-> Nothing]
    /\ now = First(Seconds) /\ edits = 0
    /\ pc = [p \in Procs |-> "idle"]
    /\ keep = [p \in Procs |-> FALSE]
    /\ second = [p \in Procs |-> First(Seconds)]
    /\ dest = [p \in Procs |-> <<First(Seconds), First(Slots)>>]
    /\ listed = [p \in Procs |-> {}]
    /\ body = [p \in Procs |-> NoBody]
    /\ todo = [p \in Procs |-> {}]
    /\ source = [p \in Procs |-> NoBody]
    /\ temp = [p \in Procs |-> Absent]
    /\ tar = {}
    /\ replaced = [p \in Procs |-> {}]
    /\ touched = [p \in Procs |-> {}]

\* File f changed: everyone else's backup may be out of date with it
Touch(f, others) ==
    touched' = [q \in Procs |->
                  IF q \in others THEN touched[q] \union {f} ELSE touched[q]]

-----------------------------------------------------------------------------
(* Backup: nextBackupPath, collect, writeArchive *)

MayStart(p) ==
    /\ pc[p] = "idle"
    /\ Overlap \/ \A q \in Procs : Active(q) => second[q] # now

StartBackup(p) ==
    /\ MayStart(p)
    /\ second' = [second EXCEPT ![p] = now]
    /\ Goto(p, "probe")
    /\ UNCHANGED <<disk, clock, keep, dest, listed, body, todo, source, temps, seen>>

\* The first name nobody uses at this moment
Probe(p) ==
    /\ pc[p] = "probe"
    /\ LET free == {k \in Slots : backups[<<second[p], k>>] = Nothing} IN
        IF free = {}
        THEN Goto(p, "failed") /\ UNCHANGED dest
        ELSE /\ dest' = [dest EXCEPT ![p] = <<second[p], First(free)>>]
             /\ Goto(p, "collect")
    /\ UNCHANGED <<disk, clock, keep, second, listed, body, todo, source, temps, seen>>

\* collect also lists a temporary file another restore has under credentials/
\* (a top-level one does not end in .yaml): here, the process that owns it.
TempsOfOthers(p) ==
    {q \in Procs \ {p} : temp[q] # Absent /\ First(todo[q]) \in Creds}

\* Seeded bug: credentials/ is not collected
CollectTopLevel(p) ==
    /\ pc[p] = "collect"
    /\ listed' = [listed EXCEPT ![p] = {f \in Files \ Creds : root[f] # Absent}]
    /\ touched' = [touched EXCEPT ![p] = {}]
    /\ body' = [body EXCEPT ![p] = NoBody]
    /\ Goto(p, "stat")
    /\ UNCHANGED <<disk, clock, keep, second, dest, todo, source, temps, replaced>>

Collect(p) ==
    /\ pc[p] = "collect"
    /\ listed' = [listed EXCEPT ![p] =
            {f \in Files : root[f] # Absent} \union TempsOfOthers(p)]
    /\ touched' = [touched EXCEPT ![p] = {}]
    /\ body' = [body EXCEPT ![p] = NoBody]
    /\ Goto(p, "stat")
    /\ UNCHANGED <<disk, clock, keep, second, dest, todo, source, temps, replaced>>

StatDest(p) ==
    /\ pc[p] = "stat"
    /\ IF backups[dest[p]] = Nothing
       THEN Goto(p, "read") /\ tar' = tar \union {p}
       ELSE Goto(p, "failed") /\ UNCHANGED tar
    /\ UNCHANGED <<disk, clock, local, temp, seen>>

\* Seeded bug: a file that cannot be read ends the backup before its cleanup
ReadLeaks(p) ==
    /\ pc[p] = "read"
    /\ \E x \in listed[p] :
        LET there == IF x \in Files THEN root[x] # Absent ELSE temp[x] # Absent IN
        /\ listed' = [listed EXCEPT ![p] = @ \ {x}]
        /\ body' = IF x \in Files THEN [body EXCEPT ![p][x] = root[x]] ELSE body
        /\ Goto(p, IF there THEN "read" ELSE "failed")
    /\ UNCHANGED <<disk, clock, keep, second, dest, todo, source, temps, seen>>

\* os.ReadFile of one listed entry (in any order): a file that is gone fails the
\* backup.  A temporary file that is still there is archived; no property
\* depends on what restoring that archive does with it.
ReadEntry(p) ==
    /\ pc[p] = "read"
    /\ \E x \in listed[p] :
        LET there == IF x \in Files THEN root[x] # Absent ELSE temp[x] # Absent IN
        /\ listed' = [listed EXCEPT ![p] = @ \ {x}]
        /\ body' = IF x \in Files THEN [body EXCEPT ![p][x] = root[x]] ELSE body
        /\ tar' = IF there THEN tar ELSE tar \ {p}
        /\ Goto(p, IF there THEN "read" ELSE "failed")
    /\ UNCHANGED <<disk, clock, keep, second, dest, todo, source, temp, seen>>

\* The archive is complete: close, chmod, rename over whatever dest is by now
Publish(p) ==
    /\ pc[p] = "read" /\ listed[p] = {}
    /\ backups' = [backups EXCEPT ![dest[p]] = body[p]]
    /\ tar' = tar \ {p}
    /\ Goto(p, IF keep[p] THEN "restore" ELSE "ok")
    /\ UNCHANGED <<root, clock, local, temp, seen>>

-----------------------------------------------------------------------------
(* Restore: readArchive validates, then the safety backup, then restoreOne *)

\* The archive is one of the backups, or one the user brought along
StartRestore(p) ==
    /\ MayStart(p)
    /\ second' = [second EXCEPT ![p] = now]
    /\ \E b \in {backups[n] : n \in Names} \union {[f \in Files |-> v] : v \in Versions} :
        /\ b # Nothing
        /\ source' = [source EXCEPT ![p] = b]
        /\ todo' = [todo EXCEPT ![p] = {f \in Files : b[f] # Absent}]
    /\ \E k \in BOOLEAN : keep' = [keep EXCEPT ![p] = k]
    /\ Goto(p, IF keep'[p] THEN "probe" ELSE "restore")
    /\ UNCHANGED <<disk, clock, dest, listed, body, temps, seen>>

\* An unreadable archive, or one with a path, type or duplicate that is refused
RejectArchive(p) ==
    /\ MayStart(p)
    /\ Goto(p, "failed")
    /\ UNCHANGED <<disk, clock, local, temps, seen>>

CreateTemp(p) ==
    /\ pc[p] = "restore" /\ todo[p] # {} /\ temp[p] = Absent
    /\ temp' = [temp EXCEPT ![p] = Partial]
    /\ UNCHANGED <<disk, clock, pc, local, tar, seen>>

WriteTemp(p) ==
    /\ pc[p] = "restore" /\ temp[p] = Partial
    /\ temp' = [temp EXCEPT ![p] = source[p][First(todo[p])]]
    /\ UNCHANGED <<disk, clock, pc, local, tar, seen>>

\* Seeded bug: the error of the write is ignored
RenameUnwritten(p) ==
    /\ pc[p] = "restore" /\ temp[p] # Absent
    /\ root' = [root EXCEPT ![First(todo[p])] = temp[p]]
    /\ todo' = [todo EXCEPT ![p] = @ \ {First(todo[p])}]
    /\ temp' = [temp EXCEPT ![p] = Absent]
    /\ UNCHANGED <<backups, clock, pc, keep, second, dest, listed, body, source,
                   tar, seen>>

RenameTemp(p) ==
    /\ pc[p] = "restore" /\ temp[p] \notin {Absent, Partial}
    /\ LET f == First(todo[p]) IN
        /\ root' = [root EXCEPT ![f] = temp[p]]
        /\ replaced' = [replaced EXCEPT ![p] = @ \union {<<f, root[f]>>}]
        /\ Touch(f, Procs \ {p})
        /\ todo' = [todo EXCEPT ![p] = @ \ {f}]
    /\ temp' = [temp EXCEPT ![p] = Absent]
    /\ UNCHANGED <<backups, clock, pc, keep, second, dest, listed, body, source,
                   tar>>

RestoreDone(p) ==
    /\ pc[p] = "restore" /\ todo[p] = {}
    /\ Goto(p, "ok")
    /\ UNCHANGED <<disk, clock, local, temps, seen>>

-----------------------------------------------------------------------------
(* Failures: the first error ends the command, its deferred cleanup removes *)
(* the temporary file; a kill leaves it behind                              *)

\* Seeded bug: no deferred cleanup
FailLitters(p) ==
    /\ Active(p)
    /\ Goto(p, "failed")
    /\ UNCHANGED <<disk, clock, local, temps, seen>>

Fail(p) ==
    /\ Active(p)
    /\ Goto(p, "failed")
    /\ temp' = [temp EXCEPT ![p] = Absent]
    /\ tar' = tar \ {p}
    /\ UNCHANGED <<disk, clock, local, seen>>

Kill(p) ==
    /\ Active(p)
    /\ Goto(p, "killed")
    /\ UNCHANGED <<disk, clock, local, temps, seen>>

UserEdit(f) ==
    /\ edits < MaxEdits
    /\ edits' = edits + 1
    /\ \E v \in (Versions \union {Absent}) \ {root[f]} :
            root' = [root EXCEPT ![f] = v]
    /\ Touch(f, Procs)
    /\ UNCHANGED <<backups, now, pc, local, temps, replaced>>

Tick ==
    /\ now + 1 \in Seconds
    /\ now' = now + 1
    /\ UNCHANGED <<disk, edits, pc, local, temps, seen>>

Next ==
    \/ \E p \in Procs :
        \/ StartBackup(p) \/ Probe(p) \/ Collect(p) \/ StatDest(p)
        \/ ReadEntry(p) \/ Publish(p)
        \/ StartRestore(p) \/ RejectArchive(p)
        \/ CreateTemp(p) \/ WriteTemp(p) \/ RenameTemp(p) \/ RestoreDone(p)
        \/ Fail(p) \/ Kill(p)
    \/ \E f \in Files : UserEdit(f)
    \/ Tick

Spec == Init /\ [][Next]_vars

-----------------------------------------------------------------------------
(* Properties *)

\* Every variable has its type, and an unfinished archive belongs to a backup
\* that is being written or was killed then (writeArchive's deferred cleanup).
TypeOK ==
    /\ root \in [Files -> Versions \union {Absent, Partial}]
    /\ backups \in [Names -> Body \union {Nothing}]
    /\ now \in Seconds /\ edits \in 0..MaxEdits
    /\ pc \in [Procs -> Ended \union
            {"idle", "probe", "collect", "stat", "read", "restore"}]
    /\ keep \in [Procs -> BOOLEAN] /\ second \in [Procs -> Seconds]
    /\ dest \in [Procs -> Names]
    /\ listed \in [Procs -> SUBSET (Files \union Procs)]
    /\ body \in [Procs -> Body] /\ source \in [Procs -> Body]
    /\ todo \in [Procs -> SUBSET Files]
    /\ temp \in [Procs -> Versions \union {Absent, Partial}]
    /\ tar \subseteq Procs
    /\ \A p \in tar : pc[p] \in {"read", "killed"}

\* A config file is only ever replaced by a complete one: no error and no kill
\* in the middle of restoreOne leaves a half-written file under a payload path;
\* and a command that returned, with or without an error, left no temporary file.
WholeFiles ==
    /\ \A f \in Files : root[f] # Partial
    /\ \A p \in Procs : pc[p] \in {"idle", "ok", "failed"} => temp[p] = Absent /\ p \notin tar

\* What a restore with a safety backup replaced can be restored: its backup
\* holds the replaced content, unless someone else changed the file after the
\* backup was collected.
SafetyNet ==
    \A p \in Procs : keep[p] =>
        \A r \in replaced[p] :
            r[2] # Absent /\ r[1] \notin touched[p] =>
                /\ backups[dest[p]] # Nothing
                /\ backups[dest[p]][r[1]] = r[2]

\* archive.go:74-75, "Existing destination files are not overwritten."
BackupsAreKept ==
    [][\A n \in Names : backups[n] # Nothing => backups'[n] = backups[n]]_vars
===============================================================================
