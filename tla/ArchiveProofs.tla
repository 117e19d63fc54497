---------------------------- MODULE ArchiveProofs ----------------------------
(***************************************************************************)
(* What holds of config backups and restores for any number of commands,   *)
(* files, seconds and slots.                                               *)
(*                                                                         *)
(* The types and the cleanup hold of every behaviour.  What a backup is    *)
(* good for needs that two commands overlap only when they started in      *)
(* different seconds: only then is the name a command has found free still *)
(* free when it publishes under it (Free).                                 *)
(***************************************************************************)
EXTENDS ConfigArchive, WellFoundedInduction, TLAPS

\* First chooses the least number of a set.
LEMMA FirstIn == ASSUME NEW S, S \subseteq Nat, S # {} PROVE First(S) \in S
<1> DEFINE R == {ss \in Nat \X Nat : ss[1] < ss[2]}
<1>1. IsWellFoundedOn(R, Nat)
  BY NatLessThanWellFounded, Zenon DEF OpToRel
<1> HIDE DEF R
<1>2. \E x \in S : \A y \in S : ~ (<<y, x>> \in R)
  BY <1>1, WFMin
<1>3. PICK x \in S : \A y \in S : ~ (<<y, x>> \in R)
  BY <1>2
<1>4. ASSUME NEW y \in S PROVE x <= y
  <2>1. x \in Nat /\ y \in Nat /\ ~ (<<y, x>> \in R)
    BY <1>3
  <2>2. y < x => <<y, x>> \in R
    BY <2>1 DEF R
  <2> QED BY <2>1, <2>2
<1> QED BY <1>4 DEF First

\* An archive holds some file's entry, so that no archive is Nothing.
LEMMA BodyIsSomething == ASSUME NEW b \in Body PROVE b # Nothing
<1>1. DOMAIN b = Files /\ Files # {}
  BY ArchiveAssumption DEF Body
<1>2. DOMAIN Nothing = {}
  BY DEF Nothing
<1> QED BY <1>1, <1>2

-----------------------------------------------------------------------------
(* Types and cleanup: of each command alone *)

Contents == Versions \union {Absent}
Places   == Ended \union {"idle", "probe", "collect", "stat", "read", "restore"}

Typed ==
    /\ root \in [Files -> Contents]
    /\ backups \in [Names -> Body \union {Nothing}]
    /\ now \in Seconds /\ edits \in 0..MaxEdits
    /\ pc \in [Procs -> Places]
    /\ keep \in [Procs -> BOOLEAN] /\ second \in [Procs -> Seconds]
    /\ dest \in [Procs -> Names]
    /\ listed \in [Procs -> SUBSET (Files \union Procs)]
    /\ body \in [Procs -> Body] /\ source \in [Procs -> Body]
    /\ todo \in [Procs -> SUBSET Files]
    /\ temp \in [Procs -> Contents \union {Partial}]
    /\ tar \subseteq Procs
    /\ replaced \in [Procs -> SUBSET (Files \X Contents)]
    /\ touched \in [Procs -> SUBSET Files]

\* Which temporary files a command may own, and that what it still has to write
\* is in the archive.
Clean(p) ==
    /\ temp[p] # Absent => pc[p] \in {"restore", "killed"}
    /\ p \in tar => pc[p] \in {"read", "killed"}
    /\ pc[p] = "restore" /\ temp[p] # Absent => todo[p] # {}
    /\ \A f \in todo[p] : source[p][f] # Absent

CleanInv == Typed /\ \A p \in Procs : Clean(p)

LEMMA CleanInit == Init => CleanInv
<1> SUFFICES ASSUME Init PROVE CleanInv
  OBVIOUS
<1> USE ArchiveAssumption
<1>1. First(Seconds) \in Seconds /\ First(Slots) \in Slots /\ 0 \in 0..MaxEdits
  <2>1. First(Seconds) \in Seconds
    BY FirstIn
  <2>2. First(Slots) \in Slots
    BY FirstIn
  <2> QED BY <2>1, <2>2
<1>2. NoBody \in Body
  BY DEF NoBody, Body
<1>3. root \in [Files -> Contents] /\ backups \in [Names -> Body \union {Nothing}]
  BY DEF Init, Contents
<1>4. dest \in [Procs -> Names] /\ second \in [Procs -> Seconds] /\ now \in Seconds
  BY <1>1 DEF Init, Names
<1>5. body \in [Procs -> Body] /\ source \in [Procs -> Body] /\ edits \in 0..MaxEdits
  BY <1>1, <1>2 DEF Init
<1>6. /\ pc \in [Procs -> Places] /\ keep \in [Procs -> BOOLEAN] /\ tar \subseteq Procs
      /\ temp \in [Procs -> Contents \union {Partial}]
  BY DEF Init, Places, Contents
<1>7. /\ listed \in [Procs -> SUBSET (Files \union Procs)] /\ todo \in [Procs -> SUBSET Files]
      /\ replaced \in [Procs -> SUBSET (Files \X Contents)] /\ touched \in [Procs -> SUBSET Files]
  BY DEF Init
<1>8. Typed
  BY <1>3, <1>4, <1>5, <1>6, <1>7 DEF Typed
<1>9. \A p \in Procs : Clean(p)
  BY DEF Init, Clean
<1> QED BY <1>8, <1>9 DEF CleanInv

\* What Clean says concerns the command's own state.
Mine(p) ==
    /\ temp'[p] = temp[p] /\ pc'[p] = pc[p] /\ todo'[p] = todo[p] /\ source'[p] = source[p]
    /\ p \in tar' <=> p \in tar

LEMMA OneCleans ==
  ASSUME CleanInv, NEW p \in Procs, Typed', Clean(p)', \A q \in Procs \ {p} : Mine(q)
  PROVE  CleanInv'
BY DEF CleanInv, Clean, Mine

LEMMA PlaceFrame ==
  ASSUME CleanInv, NEW p \in Procs, NEW l \in Places, Goto(p, l)
  PROVE  pc' \in [Procs -> Places] /\ pc'[p] = l /\ \A q \in Procs \ {p} : pc'[q] = pc[q]
BY DEF CleanInv, Typed, Goto

LEMMA StartBackupCleans == ASSUME CleanInv, NEW p \in Procs, StartBackup(p) PROVE CleanInv'
<1> UNCHANGED <<root, backups, now, edits, keep, dest, listed, body, todo, source, temp, tar,
                replaced, touched>>
  BY DEF StartBackup, disk, clock, temps, seen
<1>1. Typed /\ Clean(p) /\ pc[p] = "idle"
  BY DEF CleanInv, StartBackup, MayStart
<1>2. /\ pc' \in [Procs -> Places] /\ pc'[p] = "probe" /\ second' \in [Procs -> Seconds]
      /\ \A q \in Procs \ {p} : pc'[q] = pc[q]
  BY <1>1 DEF StartBackup, Goto, Typed, Places
<1>3. Typed'
  BY <1>1, <1>2 DEF Typed
<1>4. Clean(p)' /\ \A q \in Procs \ {p} : Mine(q)
  BY <1>1, <1>2 DEF Clean, Mine
<1> QED BY <1>3, <1>4, OneCleans

LEMMA ProbeCleans == ASSUME CleanInv, NEW p \in Procs, Probe(p) PROVE CleanInv'
<1> UNCHANGED <<root, backups, now, edits, keep, second, listed, body, todo, source, temp, tar,
                replaced, touched>>
  BY DEF Probe, disk, clock, temps, seen
<1> DEFINE free == {k \in Slots : backups[<<second[p], k>>] = Nothing}
<1>1. Typed /\ Clean(p) /\ pc[p] = "probe" /\ second[p] \in Seconds
  BY DEF CleanInv, Probe, Typed
<1>2. free # {} => First(free) \in Slots
  <2>1. free \subseteq Nat /\ free \subseteq Slots
    BY ArchiveAssumption
  <2> HIDE DEF free
  <2> QED BY <2>1, FirstIn
<1>3. /\ pc' \in [Procs -> Places] /\ pc'[p] \in {"failed", "collect"}
      /\ \A q \in Procs \ {p} : pc'[q] = pc[q]
  BY <1>1 DEF Probe, Goto, Typed, Places, Ended
<1>4. dest' \in [Procs -> Names]
  <2>1. \/ dest' = dest
        \/ free # {} /\ dest' = [dest EXCEPT ![p] = <<second[p], First(free)>>]
    BY DEF Probe
  <2> HIDE DEF free
  <2>2. free # {} => <<second[p], First(free)>> \in Names
    BY <1>1, <1>2 DEF Names
  <2> QED BY <1>1, <2>1, <2>2 DEF Typed
<1>5. Typed'
  BY <1>1, <1>3, <1>4 DEF Typed
<1>6. Clean(p)' /\ \A q \in Procs \ {p} : Mine(q)
  BY <1>1, <1>3 DEF Clean, Mine
<1> QED BY <1>5, <1>6, OneCleans

LEMMA CollectCleans == ASSUME CleanInv, NEW p \in Procs, Collect(p) PROVE CleanInv'
<1> UNCHANGED <<root, backups, now, edits, keep, second, dest, todo, source, temp, tar, replaced>>
  BY DEF Collect, disk, clock, temps
<1>1. Typed /\ Clean(p) /\ pc[p] = "collect" /\ NoBody \in Body
  BY DEF CleanInv, Collect, NoBody, Body
<1>2. /\ pc' \in [Procs -> Places] /\ pc'[p] = "stat" /\ \A q \in Procs \ {p} : pc'[q] = pc[q]
  BY <1>1 DEF Collect, Goto, Typed, Places
<1>3. listed' \in [Procs -> SUBSET (Files \union Procs)]
  BY <1>1 DEF Collect, Typed, TempsOfOthers
<1>4. touched' \in [Procs -> SUBSET Files] /\ body' \in [Procs -> Body]
  BY <1>1 DEF Collect, Typed
<1>5. Typed'
  BY <1>1, <1>2, <1>3, <1>4 DEF Typed
<1>6. Clean(p)' /\ \A q \in Procs \ {p} : Mine(q)
  BY <1>1, <1>2 DEF Clean, Mine
<1> QED BY <1>5, <1>6, OneCleans

LEMMA StatCleans == ASSUME CleanInv, NEW p \in Procs, StatDest(p) PROVE CleanInv'
<1> UNCHANGED <<root, backups, now, edits, keep, second, dest, listed, body, todo, source, temp,
                replaced, touched>>
  BY DEF StatDest, disk, clock, local, seen
<1>1. Typed /\ Clean(p) /\ pc[p] = "stat"
  BY DEF CleanInv, StatDest
<1>2. /\ pc' \in [Procs -> Places] /\ \A q \in Procs \ {p} : pc'[q] = pc[q]
      /\ \/ pc'[p] = "read" /\ tar' = tar \union {p}
         \/ pc'[p] = "failed" /\ tar' = tar
  BY <1>1 DEF StatDest, Goto, Typed, Places, Ended
<1>3. Typed'
  BY <1>1, <1>2 DEF Typed
<1>4. Clean(p)' /\ \A q \in Procs \ {p} : Mine(q)
  BY <1>1, <1>2 DEF Clean, Mine
<1> QED BY <1>3, <1>4, OneCleans

\* What a backup reads of a config file is whole, because the file is.
LEMMA ReadFrame ==
  ASSUME CleanInv, NEW p \in Procs, NEW x \in listed[p],
         body' = IF x \in Files THEN [body EXCEPT ![p][x] = root[x]] ELSE body
  PROVE  /\ body' \in [Procs -> Body] /\ \A q \in Procs \ {p} : body'[q] = body[q]
         /\ \A f \in Files : body'[p][f] = IF f = x THEN root[f] ELSE body[p][f]
<1>1. body \in [Procs -> Body] /\ body[p] \in [Files -> Contents] /\ root \in [Files -> Contents]
  BY DEF CleanInv, Typed, Body, Contents
<1>2. CASE x \in Files
  <2>1. body' = [body EXCEPT ![p] = [body[p] EXCEPT ![x] = root[x]]]
    BY <1>2
  <2>2. [body[p] EXCEPT ![x] = root[x]] \in Body
    BY <1>1, <1>2 DEF Body, Contents
  <2> QED BY <1>1, <1>2, <2>1, <2>2
<1>3. CASE x \notin Files
  BY <1>1, <1>3
<1> QED BY <1>2, <1>3

LEMMA ReadCleans == ASSUME CleanInv, NEW p \in Procs, ReadEntry(p) PROVE CleanInv'
<1> UNCHANGED <<root, backups, now, edits, keep, second, dest, todo, source, temp, replaced, touched>>
  BY DEF ReadEntry, disk, clock, seen
<1>1. Typed /\ Clean(p) /\ pc[p] = "read"
  BY DEF CleanInv, ReadEntry
<1>2. PICK x \in listed[p] :
        LET there == IF x \in Files THEN root[x] # Absent ELSE temp[x] # Absent IN
        /\ listed' = [listed EXCEPT ![p] = @ \ {x}]
        /\ body' = IF x \in Files THEN [body EXCEPT ![p][x] = root[x]] ELSE body
        /\ tar' = IF there THEN tar ELSE tar \ {p}
        /\ Goto(p, IF there THEN "read" ELSE "failed")
  BY DEF ReadEntry
<1>3. /\ pc' \in [Procs -> Places] /\ \A q \in Procs \ {p} : pc'[q] = pc[q]
      /\ \/ pc'[p] = "read" /\ tar' = tar
         \/ pc'[p] = "failed" /\ tar' = tar \ {p}
  BY <1>1, <1>2 DEF Goto, Typed, Places, Ended
<1>4. listed' \in [Procs -> SUBSET (Files \union Procs)]
  BY <1>1, <1>2 DEF Typed
<1>5. body' \in [Procs -> Body]
  BY <1>2, ReadFrame
<1>6. Typed'
  BY <1>1, <1>3, <1>4, <1>5 DEF Typed
<1>7. Clean(p)' /\ \A q \in Procs \ {p} : Mine(q)
  BY <1>1, <1>3 DEF Clean, Mine
<1> QED BY <1>6, <1>7, OneCleans

LEMMA PublishCleans == ASSUME CleanInv, NEW p \in Procs, Publish(p) PROVE CleanInv'
<1> UNCHANGED <<root, now, edits, keep, second, dest, listed, body, todo, source, temp, replaced,
                touched>>
  BY DEF Publish, clock, local, seen
<1>1. Typed /\ Clean(p) /\ pc[p] = "read" /\ dest[p] \in Names /\ body[p] \in Body
  BY DEF CleanInv, Publish, Typed
<1>2. /\ pc' \in [Procs -> Places] /\ \A q \in Procs \ {p} : pc'[q] = pc[q]
      /\ pc'[p] \in {"restore", "ok"} /\ tar' = tar \ {p}
  BY <1>1 DEF Publish, Goto, Typed, Places, Ended
<1>3. backups' \in [Names -> Body \union {Nothing}]
  BY <1>1 DEF Publish, Typed
<1>4. Typed'
  BY <1>1, <1>2, <1>3 DEF Typed
<1>5. Clean(p)' /\ \A q \in Procs \ {p} : Mine(q)
  BY <1>1, <1>2 DEF Clean, Mine
<1> QED BY <1>4, <1>5, OneCleans

LEMMA StartRestoreCleans == ASSUME CleanInv, NEW p \in Procs, StartRestore(p) PROVE CleanInv'
<1> UNCHANGED <<root, backups, now, edits, dest, listed, body, temp, tar, replaced, touched>>
  BY DEF StartRestore, disk, clock, temps, seen
<1>1. Typed /\ Clean(p) /\ pc[p] = "idle"
  BY DEF CleanInv, StartRestore, MayStart
<1>2. /\ second' \in [Procs -> Seconds] /\ keep' \in [Procs -> BOOLEAN]
      /\ \A q \in Procs \ {p} : keep'[q] = keep[q]
  BY <1>1 DEF StartRestore, Typed
<1>3. PICK b \in {backups[n] : n \in Names} \union {[f \in Files |-> v] : v \in Versions} :
        /\ b # Nothing
        /\ source' = [source EXCEPT ![p] = b]
        /\ todo' = [todo EXCEPT ![p] = {f \in Files : b[f] # Absent}]
  BY DEF StartRestore
<1>4. b \in Body
  BY <1>1, <1>3 DEF Typed, Body
<1>5. /\ source' \in [Procs -> Body] /\ source'[p] = b
      /\ todo' \in [Procs -> SUBSET Files] /\ todo'[p] = {f \in Files : b[f] # Absent}
      /\ \A q \in Procs \ {p} : source'[q] = source[q] /\ todo'[q] = todo[q]
  BY <1>1, <1>3, <1>4 DEF Typed
<1>6. /\ pc' \in [Procs -> Places] /\ \A q \in Procs \ {p} : pc'[q] = pc[q]
      /\ pc'[p] \in {"probe", "restore"}
  BY <1>1 DEF StartRestore, Goto, Typed, Places
<1>7. Typed'
  BY <1>1, <1>2, <1>5, <1>6 DEF Typed
<1>8. Clean(p)'
  BY <1>1, <1>5, <1>6 DEF Clean
<1>9. \A q \in Procs \ {p} : Mine(q)
  BY <1>5, <1>6 DEF Mine
<1> QED BY <1>7, <1>8, <1>9, OneCleans

\* What a restore writes next, and what its temporary file then holds.
LEMMA NextFile ==
  ASSUME CleanInv, NEW p \in Procs, todo[p] # {}
  PROVE  /\ First(todo[p]) \in Files /\ First(todo[p]) \in todo[p]
         /\ source[p][First(todo[p])] \in Versions
<1>1. todo[p] \subseteq Files /\ todo[p] \subseteq Nat /\ source[p] \in Body /\ Clean(p)
  BY ArchiveAssumption DEF CleanInv, Typed
<1>2. First(todo[p]) \in todo[p]
  BY <1>1, FirstIn
<1> QED BY <1>1, <1>2 DEF Clean, Body

LEMMA TempCleans == ASSUME CleanInv, NEW p \in Procs, CreateTemp(p) \/ WriteTemp(p) PROVE CleanInv'
<1> UNCHANGED <<root, backups, now, edits, pc, keep, second, dest, listed, body, todo, source, tar,
                replaced, touched>>
  BY DEF CreateTemp, WriteTemp, disk, clock, local, seen
<1>1. Typed /\ Clean(p) /\ pc[p] = "restore" /\ todo[p] # {}
  BY ArchiveAssumption DEF CleanInv, CreateTemp, WriteTemp, Clean
<1>2. source[p][First(todo[p])] \in Versions
  BY <1>1, NextFile
<1>3. /\ temp' \in [Procs -> Contents \union {Partial}]
      /\ \A q \in Procs \ {p} : temp'[q] = temp[q]
  <2>1. CASE CreateTemp(p)
    BY <1>1, <2>1 DEF CreateTemp, Typed
  <2>2. CASE WriteTemp(p)
    BY <1>1, <1>2, <2>2 DEF WriteTemp, Typed, Contents
  <2> QED BY <2>1, <2>2
<1>4. Typed'
  BY <1>1, <1>3 DEF Typed
<1>5. Clean(p)' /\ \A q \in Procs \ {p} : Mine(q)
  BY <1>1, <1>3 DEF Clean, Mine
<1> QED BY <1>4, <1>5, OneCleans

\* What a rename does to the tree, to the command and to the others' backups.
LEMMA RenameFrame ==
  ASSUME CleanInv, NEW p \in Procs, RenameTemp(p)
  PROVE  LET f == First(todo[p]) IN
         /\ pc[p] = "restore" /\ f \in todo[p] /\ f \in Files /\ temp[p] \in Versions
         /\ root' \in [Files -> Contents]
         /\ \A g \in Files : root'[g] = IF g = f THEN temp[p] ELSE root[g]
         /\ replaced' \in [Procs -> SUBSET (Files \X Contents)]
         /\ replaced'[p] = replaced[p] \union {<<f, root[f]>>}
         /\ todo' \in [Procs -> SUBSET Files] /\ todo'[p] = todo[p] \ {f}
         /\ temp' \in [Procs -> Contents \union {Partial}] /\ temp'[p] = Absent
         /\ touched' \in [Procs -> SUBSET Files] /\ touched'[p] = touched[p]
         /\ \A q \in Procs \ {p} :
              /\ replaced'[q] = replaced[q] /\ todo'[q] = todo[q] /\ temp'[q] = temp[q]
              /\ touched'[q] = touched[q] \union {f}
<1> DEFINE f == First(todo[p])
<1>1. Typed /\ Clean(p) /\ pc[p] = "restore" /\ temp[p] \in Versions /\ todo[p] # {}
  BY ArchiveAssumption DEF CleanInv, RenameTemp, Clean, Typed, Contents
<1>2. f \in todo[p] /\ f \in Files
  BY <1>1, NextFile
<1>3. /\ root' = [root EXCEPT ![f] = temp[p]]
      /\ replaced' = [replaced EXCEPT ![p] = @ \union {<<f, root[f]>>}]
      /\ Touch(f, Procs \ {p})
      /\ todo' = [todo EXCEPT ![p] = @ \ {f}]
      /\ temp' = [temp EXCEPT ![p] = Absent]
  BY DEF RenameTemp
<1> HIDE DEF f
<1>4. root' \in [Files -> Contents] /\ \A g \in Files : root'[g] = IF g = f THEN temp[p] ELSE root[g]
  BY <1>1, <1>2, <1>3 DEF Typed, Contents
<1>5. /\ replaced' \in [Procs -> SUBSET (Files \X Contents)]
      /\ replaced'[p] = replaced[p] \union {<<f, root[f]>>}
      /\ \A q \in Procs \ {p} : replaced'[q] = replaced[q]
  BY <1>1, <1>2, <1>3 DEF Typed
<1>6. /\ todo' \in [Procs -> SUBSET Files] /\ todo'[p] = todo[p] \ {f}
      /\ temp' \in [Procs -> Contents \union {Partial}] /\ temp'[p] = Absent
      /\ \A q \in Procs \ {p} : todo'[q] = todo[q] /\ temp'[q] = temp[q]
  BY <1>1, <1>3 DEF Typed, Contents
<1>7. /\ touched' \in [Procs -> SUBSET Files] /\ touched'[p] = touched[p]
      /\ \A q \in Procs \ {p} : touched'[q] = touched[q] \union {f}
  BY <1>1, <1>2, <1>3 DEF Typed, Touch
<1> QED BY <1>1, <1>2, <1>4, <1>5, <1>6, <1>7 DEF f

LEMMA RenameCleans == ASSUME CleanInv, NEW p \in Procs, RenameTemp(p) PROVE CleanInv'
<1> UNCHANGED <<backups, now, edits, pc, keep, second, dest, listed, body, source, tar>>
  BY DEF RenameTemp, clock
<1>1. Typed /\ Clean(p)
  BY DEF CleanInv
<1>2. Typed'
  BY <1>1, RenameFrame DEF Typed
<1>3. Clean(p)' /\ \A q \in Procs \ {p} : Mine(q)
  BY <1>1, RenameFrame DEF Clean, Mine
<1> QED BY <1>2, <1>3, OneCleans

\* The ends of a command; only a kill leaves a temporary file.
LEMMA EndCleans ==
  ASSUME CleanInv, NEW p \in Procs, RejectArchive(p) \/ RestoreDone(p) \/ Fail(p) \/ Kill(p)
  PROVE  CleanInv'
<1> UNCHANGED <<root, backups, now, edits, keep, second, dest, listed, body, todo, source, replaced,
                touched>>
  BY DEF RejectArchive, RestoreDone, Fail, Kill, disk, clock, local, seen
<1>1. Typed /\ Clean(p)
  BY DEF CleanInv
<1>2. /\ pc' \in [Procs -> Places] /\ \A q \in Procs \ {p} : pc'[q] = pc[q]
      /\ temp' \in [Procs -> Contents \union {Partial}] /\ tar' \subseteq Procs
      /\ \A q \in Procs \ {p} : temp'[q] = temp[q] /\ (q \in tar' <=> q \in tar)
      /\ \/ pc'[p] \in {"ok", "failed"} /\ temp'[p] = Absent /\ p \notin tar'
         \/ pc'[p] = "killed" /\ temp'[p] = temp[p] /\ tar' = tar
  <2>1. CASE RejectArchive(p)
    BY <1>1, <2>1 DEF RejectArchive, MayStart, Goto, Typed, Places, Ended, temps, Clean
  <2>2. CASE RestoreDone(p)
    BY <1>1, <2>2 DEF RestoreDone, Goto, Typed, Places, Ended, temps, Clean
  <2>3. CASE Fail(p)
    BY <1>1, <2>3 DEF Fail, Goto, Typed, Places, Ended, Contents
  <2>4. CASE Kill(p)
    BY <1>1, <2>4 DEF Kill, Goto, Typed, Places, Ended, temps
  <2> QED BY <2>1, <2>2, <2>3, <2>4
<1>3. Typed'
  BY <1>1, <1>2 DEF Typed
<1>4. Clean(p)' /\ \A q \in Procs \ {p} : Mine(q)
  BY <1>1, <1>2 DEF Clean, Mine
<1> QED BY <1>3, <1>4, OneCleans

LEMMA EditFrame ==
  ASSUME CleanInv, NEW f \in Files, UserEdit(f)
  PROVE  /\ root' \in [Files -> Contents] /\ \A g \in Files : g # f => root'[g] = root[g]
         /\ touched' \in [Procs -> SUBSET Files]
         /\ \A q \in Procs : touched'[q] = touched[q] \union {f}
BY DEF CleanInv, Typed, UserEdit, Touch, Contents

LEMMA WorldCleans ==
  ASSUME CleanInv, (\E f \in Files : UserEdit(f)) \/ Tick
  PROVE  CleanInv'
<1> UNCHANGED <<backups, pc, keep, second, dest, listed, body, todo, source, temp, tar, replaced>>
  BY DEF UserEdit, Tick, disk, local, temps, seen
<1>1. Typed
  BY DEF CleanInv
<1>2. /\ root' \in [Files -> Contents] /\ touched' \in [Procs -> SUBSET Files]
      /\ now' \in Seconds /\ edits' \in 0..MaxEdits
  <2>1. CASE Tick
    BY <1>1, <2>1 DEF Tick, Typed, disk, seen
  <2>2. ASSUME NEW f \in Files, UserEdit(f)
        PROVE  now' \in Seconds /\ edits' \in 0..MaxEdits
    BY <1>1, <2>2, ArchiveAssumption DEF UserEdit, Typed
  <2> QED BY <2>1, <2>2, EditFrame
<1>3. Typed'
  BY <1>1, <1>2 DEF Typed
<1> QED BY <1>3 DEF CleanInv, Clean

LEMMA CleanStep == CleanInv /\ [Next]_vars => CleanInv'
<1>1. CleanInv /\ UNCHANGED vars => CleanInv'
  BY DEF CleanInv, Typed, Clean, vars, disk, clock, local, temps, seen
<1> QED
  BY <1>1, StartBackupCleans, ProbeCleans, CollectCleans, StatCleans, ReadCleans, PublishCleans,
     StartRestoreCleans, TempCleans, RenameCleans, EndCleans, WorldCleans, Zenon DEF Next

LEMMA CleanAlways == Spec => []CleanInv
BY CleanInit, CleanStep, PTL DEF Spec

\* Every variable has its type, and an unfinished archive belongs to a backup
\* that is being written or was killed then.
THEOREM ArchiveTypeCorrect == Spec => []TypeOK
<1>1. CleanInv => TypeOK
  BY DEF CleanInv, Typed, Clean, TypeOK, Contents, Places
<1> QED BY <1>1, CleanAlways, PTL

\* No error and no kill leaves a half-written file under a payload path, and a
\* command that returned left no temporary file.
THEOREM FilesStayWhole == Spec => []WholeFiles
<1>1. CleanInv => WholeFiles
  BY ArchiveAssumption DEF CleanInv, Typed, Clean, WholeFiles, Contents
<1> QED BY <1>1, CleanAlways, PTL

-----------------------------------------------------------------------------
(* What a safety backup is worth *)

Writing == {"collect", "stat", "read"}

\* A name that was free when p probed it is free until p publishes.
Free(p) == pc[p] \in Writing => dest[p][1] = second[p] /\ backups[dest[p]] = Nothing

\* What is in the tree, unless it changed since p's collect, is in the archive
\* or still to be read.
Caught(p) ==
    pc[p] \in {"stat", "read"} =>
        \A f \in Files : f \notin touched[p] /\ root[f] # Absent =>
            f \in listed[p] \/ body[p][f] = root[f]

\* The archive stands while p restores and after it replaced anything.
Kept(p) == keep[p] /\ (pc[p] = "restore" \/ replaced[p] # {}) => backups[dest[p]] = body[p]

\* What is to be replaced next is in the archive ...
Due(p) ==
    keep[p] /\ pc[p] = "restore" =>
        \A f \in todo[p] : f \notin touched[p] /\ root[f] # Absent => body[p][f] = root[f]

\* ... and so is what was replaced.
Past(p) ==
    /\ pc[p] \in Writing \union {"idle", "probe"} => replaced[p] = {}
    /\ keep[p] => \A r \in replaced[p] :
         r[2] # Absent /\ r[1] \notin touched[p] => body[p][r[1]] = r[2]

Net(p) == Free(p) /\ Caught(p) /\ Kept(p) /\ Due(p) /\ Past(p)

\* Two commands that run at once started in different seconds.
Apart == \A p, q \in Procs : p # q /\ Active(p) /\ Active(q) => second[p] # second[q]

NetInv == CleanInv /\ Apart /\ \A p \in Procs : Net(p)

LEMMA NetInit == Init => NetInv
<1> SUFFICES ASSUME Init PROVE NetInv
  OBVIOUS
<1>1. CleanInv
  BY CleanInit
<1>2. Apart
  BY DEF Init, Apart, Active
<1>3. \A p \in Procs : Net(p)
  BY DEF Init, Net, Free, Caught, Kept, Due, Past, Writing
<1> QED BY <1>1, <1>2, <1>3 DEF NetInv

\* The archive that p relies on, or the name it has found free.
Claims(p) == pc[p] \in Writing \/ (keep[p] /\ (pc[p] = "restore" \/ replaced[p] # {}))

\* What Net says of p is p's own, but for the tree, of which every change by
\* others is noticed, and the archive under its name.
Theirs(p) ==
    /\ pc'[p] = pc[p] /\ keep'[p] = keep[p] /\ second'[p] = second[p] /\ dest'[p] = dest[p]
    /\ listed'[p] = listed[p] /\ body'[p] = body[p] /\ todo'[p] = todo[p]
    /\ replaced'[p] = replaced[p] /\ touched[p] \subseteq touched'[p]
    /\ \A f \in Files : root'[f] # root[f] => f \in touched'[p]
    /\ Claims(p) => backups'[dest[p]] = backups[dest[p]]

LEMMA OthersKeepNet == ASSUME NetInv, NEW p \in Procs, Theirs(p) PROVE Net(p)'
<1>1. Net(p)
  BY DEF NetInv
<1>2. todo[p] \subseteq Files
  BY DEF NetInv, CleanInv, Typed
<1>3. Free(p)' /\ Kept(p)'
  BY <1>1 DEF Net, Free, Kept, Theirs, Claims
<1>4. Caught(p)'
  BY <1>1 DEF Net, Caught, Theirs
<1>5. Due(p)'
  BY <1>1, <1>2 DEF Net, Due, Theirs
<1>6. Past(p)'
  BY <1>1 DEF Net, Past, Theirs
<1> QED BY <1>3, <1>4, <1>5, <1>6 DEF Net

\* Commands that were active and stay so keep apart.
LEMMA StayApart ==
  ASSUME NetInv, NEW p \in Procs, UNCHANGED second, Active(p)' => Active(p),
         \A q \in Procs \ {p} : pc'[q] = pc[q]
  PROVE  Apart'
BY DEF NetInv, Apart, Active

LEMMA OneNets ==
  ASSUME NetInv, NEW p \in Procs, CleanInv', Apart', Net(p)', \A q \in Procs \ {p} : Theirs(q)
  PROVE  NetInv'
BY OthersKeepNet DEF NetInv

\* A command starts: no other that runs has its second.
LEMMA StartNets ==
  ASSUME NetInv, ~Overlap, CleanInv', NEW p \in Procs, StartBackup(p) \/ StartRestore(p)
  PROVE  NetInv'
<1> UNCHANGED <<root, backups, dest, listed, body, replaced, touched>>
  BY DEF StartBackup, StartRestore, disk, seen
<1>1. Typed /\ Net(p) /\ pc[p] = "idle" /\ \A q \in Procs : Active(q) => second[q] # now
  BY DEF NetInv, CleanInv, StartBackup, StartRestore, MayStart
<1>2. /\ second'[p] = now /\ pc'[p] \in {"probe", "restore"} /\ (pc'[p] = "restore" => ~keep'[p])
      /\ \A q \in Procs \ {p} :
           pc'[q] = pc[q] /\ second'[q] = second[q] /\ keep'[q] = keep[q] /\ todo'[q] = todo[q]
  BY <1>1 DEF StartBackup, StartRestore, Goto, Typed
<1>3. Apart'
  BY <1>1, <1>2 DEF NetInv, Apart, Active
<1>4. Net(p)'
  BY <1>1, <1>2 DEF Net, Free, Caught, Kept, Due, Past, Writing
<1>5. \A q \in Procs \ {p} : Theirs(q)
  BY <1>2 DEF Theirs
<1> QED BY <1>3, <1>4, <1>5, OneNets

LEMMA ProbeNets ==
  ASSUME NetInv, CleanInv', NEW p \in Procs, Probe(p)
  PROVE  NetInv'
<1> UNCHANGED <<root, backups, keep, second, listed, body, todo, replaced, touched>>
  BY DEF Probe, disk, seen
<1> DEFINE free == {k \in Slots : backups[<<second[p], k>>] = Nothing}
<1>1. Typed /\ Net(p) /\ pc[p] = "probe"
  BY DEF NetInv, CleanInv, Probe
<1>2. \/ pc' = [pc EXCEPT ![p] = "failed"] /\ dest' = dest
      \/ /\ free # {} /\ pc' = [pc EXCEPT ![p] = "collect"]
         /\ dest' = [dest EXCEPT ![p] = <<second[p], First(free)>>]
  BY DEF Probe, Goto
<1>3. free # {} => First(free) \in free
  <2>1. free \subseteq Nat
    BY ArchiveAssumption
  <2> HIDE DEF free
  <2> QED BY <2>1, FirstIn
<1>4. free # {} => backups[<<second[p], First(free)>>] = Nothing
  BY <1>3
<1> HIDE DEF free
<1>5. /\ \/ pc'[p] = "failed"
         \/ pc'[p] = "collect" /\ dest'[p][1] = second[p] /\ backups[dest'[p]] = Nothing
      /\ \A q \in Procs \ {p} : pc'[q] = pc[q] /\ dest'[q] = dest[q]
  BY <1>1, <1>2, <1>4 DEF Typed
<1>6. Apart'
  BY <1>1, <1>5, StayApart DEF Active, Ended
<1>7. Net(p)'
  BY <1>1, <1>5 DEF Net, Free, Caught, Kept, Due, Past, Writing
<1>8. \A q \in Procs \ {p} : Theirs(q)
  BY <1>5 DEF Theirs
<1> QED BY <1>6, <1>7, <1>8, OneNets

LEMMA CollectNets ==
  ASSUME NetInv, CleanInv', NEW p \in Procs, Collect(p)
  PROVE  NetInv'
<1> UNCHANGED <<root, backups, keep, second, dest, todo, replaced>>
  BY DEF Collect, disk
<1>1. Typed /\ Net(p) /\ pc[p] = "collect"
  BY DEF NetInv, CleanInv, Collect
<1>2. /\ pc'[p] = "stat" /\ \A f \in Files : root[f] # Absent => f \in listed'[p]
      /\ \A q \in Procs \ {p} :
           /\ pc'[q] = pc[q] /\ listed'[q] = listed[q] /\ body'[q] = body[q]
           /\ touched'[q] = touched[q]
  BY <1>1 DEF Collect, Goto, Typed
<1>3. Apart'
  BY <1>1, <1>2, StayApart DEF Active, Ended
<1>4. Net(p)'
  BY <1>1, <1>2 DEF Net, Free, Caught, Kept, Due, Past, Writing
<1>5. \A q \in Procs \ {p} : Theirs(q)
  BY <1>2 DEF Theirs
<1> QED BY <1>3, <1>4, <1>5, OneNets

LEMMA ReadNets ==
  ASSUME NetInv, CleanInv', NEW p \in Procs, ReadEntry(p)
  PROVE  NetInv'
<1> UNCHANGED <<root, backups, keep, second, dest, todo, replaced, touched>>
  BY DEF ReadEntry, disk, seen
<1>1. CleanInv /\ Typed /\ Net(p) /\ pc[p] = "read"
  BY DEF NetInv, CleanInv, ReadEntry
<1>2. PICK x \in listed[p] :
        LET there == IF x \in Files THEN root[x] # Absent ELSE temp[x] # Absent IN
        /\ listed' = [listed EXCEPT ![p] = @ \ {x}]
        /\ body' = IF x \in Files THEN [body EXCEPT ![p][x] = root[x]] ELSE body
        /\ Goto(p, IF there THEN "read" ELSE "failed")
  BY DEF ReadEntry
<1>3. /\ pc'[p] \in {"read", "failed"} /\ listed'[p] = listed[p] \ {x}
      /\ \A q \in Procs \ {p} : pc'[q] = pc[q] /\ listed'[q] = listed[q]
  BY <1>1, <1>2 DEF Goto, Typed
<1>4. /\ \A f \in Files : body'[p][f] = IF f = x THEN root[f] ELSE body[p][f]
      /\ \A q \in Procs \ {p} : body'[q] = body[q]
  BY <1>1, <1>2, ReadFrame
<1>5. Apart'
  BY <1>1, <1>3, StayApart DEF Active, Ended
<1>6. Caught(p)'
  BY <1>1, <1>3, <1>4 DEF Net, Caught
<1>7. Free(p)' /\ Kept(p)' /\ Due(p)' /\ Past(p)'
  BY <1>1, <1>3 DEF Net, Free, Kept, Due, Past, Writing
<1>8. \A q \in Procs \ {p} : Theirs(q)
  BY <1>3, <1>4 DEF Theirs
<1> QED BY <1>5, <1>6, <1>7, <1>8, OneNets DEF Net

\* Publishing takes a name that is still free, hence nobody's.
LEMMA PublishNets ==
  ASSUME NetInv, CleanInv', NEW p \in Procs, Publish(p)
  PROVE  NetInv'
<1> UNCHANGED <<root, keep, second, dest, listed, body, todo, replaced, touched>>
  BY DEF Publish, local, seen
<1>1. Typed /\ Net(p) /\ pc[p] = "read" /\ listed[p] = {} /\ dest[p] \in Names /\ replaced[p] = {}
  BY DEF NetInv, CleanInv, Publish, Typed, Net, Past, Writing
<1>2. /\ pc'[p] = IF keep[p] THEN "restore" ELSE "ok"
      /\ \A q \in Procs \ {p} : pc'[q] = pc[q]
  BY <1>1 DEF Publish, Goto, Typed
<1>3. /\ backups'[dest[p]] = body[p]
      /\ \A n \in Names : n # dest[p] => backups'[n] = backups[n]
  BY <1>1 DEF Publish, Typed
<1>4. Apart'
  BY <1>1, <1>2, StayApart DEF Active, Ended
<1>5. Net(p)'
  <2>1. Due(p)'
    BY <1>1, <1>2 DEF Net, Caught, Due, Typed
  <2>2. Free(p)' /\ Caught(p)' /\ Kept(p)' /\ Past(p)'
    BY <1>1, <1>2, <1>3 DEF Net, Free, Caught, Kept, Past, Writing
  <2> QED BY <2>1, <2>2 DEF Net
<1>6. ASSUME NEW q \in Procs \ {p} PROVE Theirs(q)
  <2>1. Net(q) /\ dest[q] \in Names /\ body[q] # Nothing
    BY BodyIsSomething DEF NetInv, CleanInv, Typed
  <2>2. backups[dest[p]] = Nothing /\ dest[p][1] = second[p]
    BY <1>1 DEF Net, Free, Writing
  <2>3. pc[q] \in Writing => dest[q] # dest[p]
    <3>1. pc[q] \in Writing => second[q] # second[p]
      BY <1>1 DEF NetInv, Apart, Active, Ended, Writing
    <3> QED BY <2>1, <2>2, <3>1 DEF Net, Free
  <2>4. keep[q] /\ (pc[q] = "restore" \/ replaced[q] # {}) => dest[q] # dest[p]
    BY <2>1, <2>2 DEF Net, Kept
  <2>5. Claims(q) => backups'[dest[q]] = backups[dest[q]]
    BY <1>3, <2>1, <2>3, <2>4 DEF Claims
  <2> QED BY <1>2, <2>5 DEF Theirs
<1> QED BY <1>4, <1>5, <1>6, OneNets

\* A rename puts one more file into the past of p; it is in p's archive unless
\* it was touched, and everyone else notices the change.
LEMMA RenameNets ==
  ASSUME NetInv, CleanInv', NEW p \in Procs, RenameTemp(p)
  PROVE  NetInv'
<1> UNCHANGED <<backups, pc, keep, second, dest, listed, body>>
  BY DEF RenameTemp
<1> DEFINE f == First(todo[p])
<1>1. CleanInv /\ Typed /\ Net(p)
  BY DEF NetInv, CleanInv
<1>2. /\ pc[p] = "restore" /\ f \in todo[p] /\ f \in Files
      /\ \A g \in Files : g # f => root'[g] = root[g]
      /\ replaced'[p] = replaced[p] \union {<<f, root[f]>>} /\ todo'[p] = todo[p] \ {f}
      /\ touched'[p] = touched[p] /\ todo[p] \subseteq Files
      /\ \A q \in Procs \ {p} :
           /\ replaced'[q] = replaced[q] /\ todo'[q] = todo[q]
           /\ touched'[q] = touched[q] \union {f}
  BY <1>1, RenameFrame DEF Typed
<1> HIDE DEF f
<1>3. Apart'
  BY <1>1, <1>2, StayApart DEF Active
<1>4. Free(p)' /\ Caught(p)' /\ Kept(p)'
  BY <1>1, <1>2 DEF Net, Free, Caught, Kept, Writing
<1>5. Due(p)'
  BY <1>1, <1>2 DEF Net, Due
<1>6. Past(p)'
  <2>1. keep[p] /\ root[f] # Absent /\ f \notin touched[p] => body[p][f] = root[f]
    BY <1>1, <1>2 DEF Net, Due
  <2> QED BY <1>1, <1>2, <2>1 DEF Net, Past, Writing
<1>7. \A q \in Procs \ {p} : Theirs(q)
  BY <1>2 DEF Theirs
<1> QED BY <1>3, <1>4, <1>5, <1>6, <1>7, OneNets DEF Net

\* The other steps of a command leave the tree and the archives alone.
LEMMA QuietNets ==
  ASSUME NetInv, CleanInv', NEW p \in Procs,
         \/ StatDest(p) \/ CreateTemp(p) \/ WriteTemp(p)
         \/ RejectArchive(p) \/ RestoreDone(p) \/ Fail(p) \/ Kill(p)
  PROVE  NetInv'
<1> UNCHANGED <<root, backups, keep, second, dest, listed, body, todo, replaced, touched>>
  BY DEF StatDest, CreateTemp, WriteTemp, RejectArchive, RestoreDone, Fail, Kill, disk, local, seen
<1>1. Typed /\ Net(p)
  BY DEF NetInv, CleanInv
<1>2. /\ \A q \in Procs \ {p} : pc'[q] = pc[q]
      /\ \/ pc'[p] = pc[p]
         \/ pc'[p] \in Ended
         \/ pc[p] = "stat" /\ pc'[p] = "read"
  <2>1. CASE StatDest(p)
    BY <1>1, <2>1 DEF StatDest, Goto, Typed, Ended
  <2>2. CASE CreateTemp(p) \/ WriteTemp(p)
    BY <2>2 DEF CreateTemp, WriteTemp
  <2>3. CASE RejectArchive(p) \/ RestoreDone(p) \/ Fail(p) \/ Kill(p)
    BY <1>1, <2>3 DEF RejectArchive, RestoreDone, Fail, Kill, Goto, Typed, Ended
  <2> QED BY <2>1, <2>2, <2>3
<1>3. Apart'
  BY <1>1, <1>2, StayApart DEF Active, Ended
<1>4. Net(p)'
  BY <1>1, <1>2 DEF Net, Free, Caught, Kept, Due, Past, Writing, Ended
<1>5. \A q \in Procs \ {p} : Theirs(q)
  BY <1>2 DEF Theirs
<1> QED BY <1>3, <1>4, <1>5, OneNets

LEMMA WorldNets ==
  ASSUME NetInv, CleanInv', (\E f \in Files : UserEdit(f)) \/ Tick
  PROVE  NetInv'
<1> UNCHANGED <<backups, pc, keep, second, dest, listed, body, todo, replaced>>
  BY DEF UserEdit, Tick, disk, local, seen
<1>1. \A q \in Procs : Theirs(q)
  <2>1. CASE Tick
    BY <2>1 DEF Tick, disk, seen, Theirs
  <2>2. ASSUME NEW f \in Files, UserEdit(f)
        PROVE  \A q \in Procs : Theirs(q)
    BY <2>2, EditFrame DEF NetInv, Theirs
  <2> QED BY <2>1, <2>2
<1> QED BY <1>1, OthersKeepNet DEF NetInv, Apart, Active

LEMMA NetStep == ASSUME ~Overlap PROVE NetInv /\ [Next]_vars => NetInv'
<1> SUFFICES ASSUME NetInv, [Next]_vars PROVE NetInv'
  OBVIOUS
<1>1. CleanInv'
  BY CleanStep DEF NetInv
<1>2. CASE UNCHANGED vars
  <2> UNCHANGED <<root, backups, pc, keep, second, dest, listed, body, todo, replaced, touched>>
    BY <1>2 DEF vars, disk, local, seen
  <2>1. \A q \in Procs : Theirs(q)
    BY DEF Theirs
  <2> QED BY <1>1, <2>1, OthersKeepNet DEF NetInv, Apart, Active
<1>3. CASE Next
  BY <1>1, <1>3, StartNets, ProbeNets, CollectNets, ReadNets, PublishNets, RenameNets, QuietNets,
     WorldNets, Zenon DEF Next
<1> QED BY <1>2, <1>3

\* Where commands overlap only if they started in different seconds, what a
\* restore with a safety backup replaced can be restored.
THEOREM SafetyNetHolds == ASSUME ~Overlap PROVE Spec => []SafetyNet
<1>1. NetInv => SafetyNet
  <2> SUFFICES ASSUME NetInv, NEW p \in Procs, keep[p], NEW r \in replaced[p],
                      r[2] # Absent, r[1] \notin touched[p]
               PROVE  backups[dest[p]] # Nothing /\ backups[dest[p]][r[1]] = r[2]
    BY DEF SafetyNet
  <2>1. Net(p) /\ body[p] # Nothing
    BY BodyIsSomething DEF NetInv, CleanInv, Typed
  <2> QED BY <2>1 DEF Net, Kept, Past
<1> QED BY <1>1, NetInit, NetStep, PTL DEF Spec

\* And then no backup is ever overwritten, as archive.go says of every one.
THEOREM BackupsStay == ASSUME ~Overlap PROVE Spec => BackupsAreKept
<1>1. ASSUME NetInv, [Next]_vars, NEW n \in Names, backups[n] # Nothing
      PROVE  backups'[n] = backups[n]
  <2>1. ASSUME NEW p \in Procs, Publish(p) PROVE backups'[n] = backups[n]
    <3>1. backups[dest[p]] = Nothing
      BY <1>1, <2>1 DEF NetInv, Net, Free, Publish, Writing
    <3> QED BY <1>1, <2>1, <3>1 DEF Publish, NetInv, CleanInv, Typed
  <2>2. CASE UNCHANGED backups
    BY <2>2
  <2>3. (\E p \in Procs : Publish(p)) \/ UNCHANGED backups
    BY <1>1 DEF Next, StartBackup, Probe, Collect, StatDest, ReadEntry, StartRestore, RejectArchive,
       CreateTemp, WriteTemp, RenameTemp, RestoreDone, Fail, Kill, UserEdit, Tick, vars, disk
  <2> QED BY <2>1, <2>2, <2>3
<1>2. NetInv /\ [Next]_vars =>
        [\A n \in Names : backups[n] # Nothing => backups'[n] = backups[n]]_vars
  BY <1>1
<1> QED BY <1>2, NetInit, NetStep, PTL DEF Spec, BackupsAreKept
=============================================================================
