----------------------------- MODULE AuditProofs -----------------------------
(* Theorems about Audit for every number of processes, days and inodes, and  *)
(* every retention.  The inductive invariant is IInv; everything else        *)
(* follows from it.                                                          *)
EXTENDS Audit, SequenceTheorems, TLAPS

USE AuditAssumption

Appending == {"flock", "seek", "write", "release"}

\* Names lead to created inodes, two names never to the same one, and an inode
\* not yet created is empty.
Linked ==
    /\ \A d \in Days : dir[d] <= made
    /\ \A d, e \in Days : dir[d] = dir[e] /\ dir[d] # NoFile => d = e
    /\ \A i \in Inodes : made < i => lines[i] = <<>>

\* A process that appends has a file open, it is still linked under its day
\* unless that day has expired, and past flock the process is its holder.
Holding ==
    \A p \in Procs :
        /\ pc[p] \in Appending => fd[p] \in Inodes /\ fd[p] <= made
        /\ pc[p] \in Appending /\ ~Expired(day[p], today) => dir[day[p]] = fd[p]
        /\ pc[p] \in {"seek", "write", "release"} => holder[fd[p]] = p

\* The position a process took under the lock is still the end of the file.
AtEnd ==
    \A p \in Procs : pc[p] = "write" => offset[p] = Len(lines[fd[p]])

\* No process writes for a day to come, and prune only holds expired names.
Clock ==
    \A p \in Procs :
        /\ day[p] <= today
        /\ \A d \in stale[p] : Expired(d, today)

IInv == TypeOK /\ Linked /\ Holding /\ AtEnd /\ Clock

-----------------------------------------------------------------------------
(* Writing at the end of a file appends *)

\* A write at the end of a file's lines (WriteAt, the write appendLocked makes
\* after its seek) appends one line and changes none.
LEMMA WriteAtEnd ==
    ASSUME NEW S, NEW s \in Seq(S), NEW c \in S
    PROVE  /\ WriteAt(s, Len(s), c) = Append(s, c)
           /\ Append(s, c) \in Seq(S)
<1>1. /\ Append(s, c) \in Seq(S)
      /\ Len(Append(s, c)) = Len(s) + 1
      /\ \A i \in 1..Len(s) : Append(s, c)[i] = s[i]
      /\ Append(s, c)[Len(s) + 1] = c
    BY AppendProperties
<1>2. Len(s) \in Nat
    OBVIOUS
<1> DEFINE t == [i \in 1..Len(s) + 1 |-> IF i = Len(s) + 1 THEN c ELSE s[i]]
<1>3. WriteAt(s, Len(s), c) = t
    BY <1>2 DEF WriteAt
<1>4. t \in Seq(S) /\ Len(t) = Len(s) + 1
    BY <1>2
<1>5. \A i \in 1..Len(t) : t[i] = Append(s, c)[i]
    BY <1>1, <1>2, <1>4
<1> HIDE DEF t
<1>6. t = Append(s, c)
    BY <1>1, <1>4, <1>5, SeqEqual
<1>7. QED
    BY <1>1, <1>3, <1>6

-----------------------------------------------------------------------------
\* The inductive invariant holds initially.
LEMMA InitInv == Init => IInv
BY DEF Init, IInv, TypeOK, Linked, Holding, AtEnd, Clock, Days, Inodes, NoFile,
       Appending, Locations, Outcomes, Expired

\* The cell a process writes, at the end of the file it holds.
LEMMA PutAppends ==
    ASSUME IInv, NEW p \in Procs, pc[p] = "write", NEW w \in BOOLEAN, Put(p, w)
    PROVE  LET c == [proc |-> p, outcome |-> outcome[p], whole |-> w] IN
           /\ c \in Cells
           /\ fd[p] \in Inodes
           /\ fd[p] <= made
           /\ holder[fd[p]] = p
           /\ lines' = [lines EXCEPT ![fd[p]] = Append(@, c)]
           /\ lines' \in [Inodes -> Seq(Cells)]
<1> DEFINE c == [proc |-> p, outcome |-> outcome[p], whole |-> w]
<1>1. c \in Cells
    BY DEF IInv, TypeOK, Cells
<1>2. fd[p] \in Inodes /\ fd[p] <= made /\ holder[fd[p]] = p
    BY DEF IInv, Holding, Appending
<1>3. lines[fd[p]] \in Seq(Cells) /\ offset[p] = Len(lines[fd[p]])
    BY <1>2 DEF IInv, TypeOK, AtEnd
<1>4. WriteAt(lines[fd[p]], offset[p], c) = Append(lines[fd[p]], c)
    BY <1>1, <1>3, WriteAtEnd
<1>5. Append(lines[fd[p]], c) \in Seq(Cells)
    BY <1>1, <1>3, WriteAtEnd
<1>6. lines' = [lines EXCEPT ![fd[p]] = Append(@, c)]
    BY <1>2, <1>4 DEF Put, IInv, TypeOK
<1> HIDE DEF c
<1>7. lines' \in [Inodes -> Seq(Cells)]
    BY <1>2, <1>5, <1>6 DEF IInv, TypeOK
<1>8. QED
    BY <1>1, <1>2, <1>6, <1>7 DEF c

\* The warning of a given-up line has its type.
LEMMA WarnType ==
    ASSUME TypeOK, NEW p \in Procs, Warn(p)
    PROVE  /\ warned' \in SUBSET (Procs \X Outcomes)
           /\ acked' = acked /\ dispatched' = dispatched
BY DEF TypeOK, Warn

\* Every step, of the code and of its environment, preserves the inductive
\* invariant.
LEMMA StepInv == IInv /\ [Next]_vars => IInv'
<1> SUFFICES ASSUME TypeOK, Linked, Holding, AtEnd, Clock, [Next]_vars
             PROVE IInv'
    BY DEF IInv
<1> USE DEF IInv, Days, Inodes, NoFile, Appending, Expired, files, local, seen,
            vars, Goto
<1>1. ASSUME NEW p \in Procs, Begin(p) PROVE IInv'
    <2>1. TypeOK'
        <3>1. PICK se \in BOOLEAN :
                /\ sideEffect' = [sideEffect EXCEPT ![p] = se]
                /\ pc' = [pc EXCEPT ![p] = IF se THEN "open" ELSE "ready"]
            BY <1>1 DEF Begin
        <3>2. pc' \in [Procs -> Locations]
            BY <3>1 DEF TypeOK, Locations
        <3>3. sideEffect' \in [Procs -> BOOLEAN]
            BY <3>1 DEF TypeOK
        <3>4. QED  BY <1>1, <3>2, <3>3 DEF Begin, TypeOK
    <2>2. Linked'
        BY <1>1 DEF Begin, TypeOK, Linked
    <2>3. Holding'
        BY <1>1 DEF Begin, TypeOK, Linked, Holding, Returned, Clock
    <2>4. AtEnd'
        BY <1>1 DEF Begin, TypeOK, Holding, AtEnd, Returned
    <2>5. Clock'
        BY <1>1 DEF Begin, TypeOK, Clock
    <2>6. QED  BY <2>1, <2>2, <2>3, <2>4, <2>5
<1>2. ASSUME NEW p \in Procs, Dispatch(p) PROVE IInv'
    <2>1. TypeOK'
        BY <1>2 DEF Dispatch, TypeOK, Returned, Locations, Outcomes, Linked, Holding
    <2>2. Linked'
        BY <1>2 DEF Dispatch, TypeOK, Linked
    <2>3. Holding'
        BY <1>2 DEF Dispatch, TypeOK, Linked, Holding, Returned, Clock
    <2>4. AtEnd'
        BY <1>2 DEF Dispatch, TypeOK, Holding, AtEnd, Returned
    <2>5. Clock'
        BY <1>2 DEF Dispatch, TypeOK, Clock
    <2>6. QED  BY <2>1, <2>2, <2>3, <2>4, <2>5
<1>3. ASSUME NEW p \in Procs, Finish(p) PROVE IInv'
    <2>1. TypeOK'
        BY <1>3 DEF Finish, TypeOK, Returned, Locations, Outcomes, Linked, Holding
    <2>2. Linked'
        BY <1>3 DEF Finish, TypeOK, Linked
    <2>3. Holding'
        BY <1>3 DEF Finish, TypeOK, Linked, Holding, Returned, Clock
    <2>4. AtEnd'
        BY <1>3 DEF Finish, TypeOK, Holding, AtEnd, Returned
    <2>5. Clock'
        BY <1>3 DEF Finish, TypeOK, Clock
    <2>6. QED  BY <2>1, <2>2, <2>3, <2>4, <2>5
<1>4. ASSUME NEW p \in Procs, HomeFails(p) PROVE IInv'
    <2>1. TypeOK'
        BY <1>4, WarnType DEF HomeFails, TypeOK, Returned, Locations, Outcomes, Linked, Holding
    <2>2. Linked'
        BY <1>4 DEF HomeFails, TypeOK, Linked, Warn
    <2>3. Holding'
        BY <1>4 DEF HomeFails, TypeOK, Linked, Holding, Returned, Clock, Warn
    <2>4. AtEnd'
        BY <1>4 DEF HomeFails, TypeOK, Holding, AtEnd, Returned, Warn
    <2>5. Clock'
        BY <1>4 DEF HomeFails, TypeOK, Clock, Warn
    <2>6. QED  BY <2>1, <2>2, <2>3, <2>4, <2>5
<1>5. ASSUME NEW p \in Procs, OpenExisting(p) PROVE IInv'
    <2>1. TypeOK'
        BY <1>5 DEF OpenExisting, TypeOK, Returned, Locations, Outcomes, Linked, Holding
    <2>2. Linked'
        BY <1>5 DEF OpenExisting, TypeOK, Linked
    <2>3. Holding'
        BY <1>5 DEF OpenExisting, TypeOK, Linked, Holding, Returned, Clock
    <2>4. AtEnd'
        BY <1>5 DEF OpenExisting, TypeOK, Holding, AtEnd, Returned
    <2>5. Clock'
        BY <1>5 DEF OpenExisting, TypeOK, Clock
    <2>6. QED  BY <2>1, <2>2, <2>3, <2>4, <2>5
<1>6. ASSUME NEW p \in Procs, OpenCreates(p) PROVE IInv'
    <2>0. /\ day[p] \in Days /\ made \in Nat /\ made + 1 \in Inodes
          /\ dir[day[p]] = NoFile
          /\ made' = made + 1
          /\ dir' = [dir EXCEPT ![day[p]] = made + 1]
          /\ fd' = [fd EXCEPT ![p] = made + 1]
          /\ pc' = [pc EXCEPT ![p] = "flock"]
          /\ UNCHANGED <<today, lines, holder, sideEffect, outcome, day, offset,
                         stale, seen>>
        BY <1>6 DEF OpenCreates, TypeOK
    <2>1. TypeOK'
        <3>1. pc' \in [Procs -> Locations]
            BY <2>0 DEF TypeOK, Locations
        <3>2. /\ fd' \in [Procs -> Inodes \union {NoFile}]
              /\ dir' \in [Days -> Inodes \union {NoFile}]
              /\ made' \in 0..MaxInodes
            BY <2>0 DEF TypeOK
        <3>3. QED  BY <2>0, <3>1, <3>2 DEF TypeOK
    <2>2. Linked'
        <3>1. ASSUME NEW d \in Days PROVE dir[d] <= made /\ dir[d] \in Nat
            <4>1. dir[d] \in Inodes \union {NoFile}
                BY DEF TypeOK
            <4>2. QED  BY <4>1 DEF Linked
        <3>2. \A d \in Days : dir'[d] = IF d = day[p] THEN made + 1 ELSE dir[d]
            BY <2>0 DEF TypeOK
        <3>3. QED  BY <2>0, <3>1, <3>2 DEF Linked
    <2>3. Holding'
        <3>1. ASSUME NEW q \in Procs, pc'[q] \in Appending
              PROVE  /\ fd'[q] \in Inodes /\ fd'[q] <= made'
                     /\ ~Expired(day[q], today) => dir'[day[q]] = fd'[q]
                     /\ pc'[q] # "flock" => holder[fd'[q]] = q
            <4>1. CASE q = p
                BY <2>0, <4>1 DEF TypeOK
            <4>2. CASE q # p
                <5>1. pc'[q] = pc[q] /\ fd'[q] = fd[q] /\ day[q] \in Days
                    BY <2>0, <4>2 DEF TypeOK
                <5>2. fd[q] \in Inodes /\ fd[q] <= made
                    BY <3>1, <5>1 DEF Holding
                <5>3. ~Expired(day[q], today) => dir'[day[q]] = fd[q]
                    BY <2>0, <3>1, <5>1, <5>2 DEF Holding, TypeOK
                <5>4. QED  BY <2>0, <3>1, <5>1, <5>2, <5>3 DEF Holding
            <4>3. QED  BY <4>1, <4>2
        <3>2. QED  BY <2>0, <3>1 DEF Holding
    <2>4. AtEnd'
        BY <1>6 DEF OpenCreates, TypeOK, Holding, AtEnd, Returned
    <2>5. Clock'
        BY <1>6 DEF OpenCreates, TypeOK, Clock
    <2>6. QED  BY <2>1, <2>2, <2>3, <2>4, <2>5
<1>7. ASSUME NEW p \in Procs, OpenFails(p) PROVE IInv'
    <2>1. TypeOK'
        BY <1>7, WarnType DEF OpenFails, TypeOK, Returned, Locations, Outcomes, Linked, Holding
    <2>2. Linked'
        BY <1>7 DEF OpenFails, TypeOK, Linked, Warn
    <2>3. Holding'
        BY <1>7 DEF OpenFails, TypeOK, Linked, Holding, Returned, Clock, Warn
    <2>4. AtEnd'
        BY <1>7 DEF OpenFails, TypeOK, Holding, AtEnd, Returned, Warn
    <2>5. Clock'
        BY <1>7 DEF OpenFails, TypeOK, Clock, Warn
    <2>6. QED  BY <2>1, <2>2, <2>3, <2>4, <2>5
<1>8. ASSUME NEW p \in Procs, Flock(p) PROVE IInv'
    <2>1. TypeOK'
        BY <1>8 DEF Flock, TypeOK, Returned, Locations, Outcomes, Linked, Holding
    <2>2. Linked'
        BY <1>8 DEF Flock, TypeOK, Linked
    <2>3. Holding'
        BY <1>8 DEF Flock, TypeOK, Linked, Holding, Returned, Clock
    <2>4. AtEnd'
        BY <1>8 DEF Flock, TypeOK, Holding, AtEnd, Returned
    <2>5. Clock'
        BY <1>8 DEF Flock, TypeOK, Clock
    <2>6. QED  BY <2>1, <2>2, <2>3, <2>4, <2>5
<1>9. ASSUME NEW p \in Procs, FlockFails(p) PROVE IInv'
    <2>1. TypeOK'
        BY <1>9, WarnType DEF FlockFails, TypeOK, Returned, Locations, Outcomes, Linked, Holding
    <2>2. Linked'
        BY <1>9 DEF FlockFails, TypeOK, Linked, Warn
    <2>3. Holding'
        BY <1>9 DEF FlockFails, TypeOK, Linked, Holding, Returned, Clock, Warn
    <2>4. AtEnd'
        BY <1>9 DEF FlockFails, TypeOK, Holding, AtEnd, Returned, Warn
    <2>5. Clock'
        BY <1>9 DEF FlockFails, TypeOK, Clock, Warn
    <2>6. QED  BY <2>1, <2>2, <2>3, <2>4, <2>5
<1>10. ASSUME NEW p \in Procs, SeekEnd(p) PROVE IInv'
    <2>1. TypeOK'
        BY <1>10 DEF SeekEnd, TypeOK, Returned, Locations, Outcomes, Linked, Holding
    <2>2. Linked'
        BY <1>10 DEF SeekEnd, TypeOK, Linked
    <2>3. Holding'
        BY <1>10 DEF SeekEnd, TypeOK, Linked, Holding, Returned, Clock
    <2>4. AtEnd'
        BY <1>10 DEF SeekEnd, TypeOK, Holding, AtEnd, Returned
    <2>5. Clock'
        BY <1>10 DEF SeekEnd, TypeOK, Clock
    <2>6. QED  BY <2>1, <2>2, <2>3, <2>4, <2>5
<1>11. ASSUME NEW p \in Procs, EncodeOrSeekFails(p) PROVE IInv'
    <2>1. TypeOK'
        BY <1>11, WarnType DEF EncodeOrSeekFails, TypeOK, Returned, Locations, Outcomes, Linked, Holding
    <2>2. Linked'
        BY <1>11 DEF EncodeOrSeekFails, TypeOK, Linked, Warn
    <2>3. Holding'
        BY <1>11 DEF EncodeOrSeekFails, TypeOK, Linked, Holding, Returned, Clock, Warn
    <2>4. AtEnd'
        BY <1>11 DEF EncodeOrSeekFails, TypeOK, Holding, AtEnd, Returned, Warn
    <2>5. Clock'
        BY <1>11 DEF EncodeOrSeekFails, TypeOK, Clock, Warn
    <2>6. QED  BY <2>1, <2>2, <2>3, <2>4, <2>5
<1>12. ASSUME NEW p \in Procs, WriteFails(p) PROVE IInv'
    <2>1. TypeOK'
        BY <1>12, WarnType DEF WriteFails, TypeOK, Returned, Locations, Outcomes, Linked, Holding
    <2>2. Linked'
        BY <1>12 DEF WriteFails, TypeOK, Linked, Warn
    <2>3. Holding'
        BY <1>12 DEF WriteFails, TypeOK, Linked, Holding, Returned, Clock, Warn
    <2>4. AtEnd'
        BY <1>12 DEF WriteFails, TypeOK, Holding, AtEnd, Returned, Warn
    <2>5. Clock'
        BY <1>12 DEF WriteFails, TypeOK, Clock, Warn
    <2>6. QED  BY <2>1, <2>2, <2>3, <2>4, <2>5
<1>13. ASSUME NEW p \in Procs, Release(p) PROVE IInv'
    <2>1. TypeOK'
        BY <1>13 DEF Release, TypeOK, Returned, Locations, Outcomes, Linked, Holding
    <2>2. Linked'
        BY <1>13 DEF Release, TypeOK, Linked
    <2>3. Holding'
        BY <1>13 DEF Release, TypeOK, Linked, Holding, Returned, Clock
    <2>4. AtEnd'
        BY <1>13 DEF Release, TypeOK, Holding, AtEnd, Returned
    <2>5. Clock'
        BY <1>13 DEF Release, TypeOK, Clock
    <2>6. QED  BY <2>1, <2>2, <2>3, <2>4, <2>5
<1>14. ASSUME NEW p \in Procs, ListDir(p) PROVE IInv'
    <2>1. TypeOK'
        BY <1>14 DEF ListDir, TypeOK, Returned, Locations, Outcomes, Linked, Holding
    <2>2. Linked'
        BY <1>14 DEF ListDir, TypeOK, Linked
    <2>3. Holding'
        BY <1>14 DEF ListDir, TypeOK, Linked, Holding, Returned, Clock
    <2>4. AtEnd'
        BY <1>14 DEF ListDir, TypeOK, Holding, AtEnd, Returned
    <2>5. Clock'
        BY <1>14 DEF ListDir, TypeOK, Clock
    <2>6. QED  BY <2>1, <2>2, <2>3, <2>4, <2>5
<1>15. ASSUME NEW p \in Procs, ListFails(p) PROVE IInv'
    <2>1. TypeOK'
        BY <1>15 DEF ListFails, TypeOK, Returned, Locations, Outcomes, Linked, Holding
    <2>2. Linked'
        BY <1>15 DEF ListFails, TypeOK, Linked
    <2>3. Holding'
        BY <1>15 DEF ListFails, TypeOK, Linked, Holding, Returned, Clock
    <2>4. AtEnd'
        BY <1>15 DEF ListFails, TypeOK, Holding, AtEnd, Returned
    <2>5. Clock'
        BY <1>15 DEF ListFails, TypeOK, Clock
    <2>6. QED  BY <2>1, <2>2, <2>3, <2>4, <2>5
<1>16. ASSUME NEW p \in Procs, Remove(p) PROVE IInv'
    <2>1. TypeOK'
        <3>1. PICK d \in stale[p] :
                /\ dir' = [dir EXCEPT ![d] = NoFile] \/ dir' = dir
                /\ stale' = [stale EXCEPT ![p] = @ \ {d}]
                /\ pc' = [pc EXCEPT ![p] =
                            IF stale[p] = {d} THEN Returned(p) ELSE "remove"]
            BY <1>16 DEF Remove
        <3>2. pc' \in [Procs -> Locations]
            BY <3>1 DEF TypeOK, Locations, Returned
        <3>3. dir' \in [Days -> Inodes \union {NoFile}]
            BY <3>1 DEF TypeOK
        <3>4. stale' \in [Procs -> SUBSET Days]
            BY <3>1 DEF TypeOK
        <3>5. QED  BY <1>16, <3>2, <3>3, <3>4 DEF Remove, TypeOK
    <2>2. Linked'
        BY <1>16 DEF Remove, TypeOK, Linked
    <2>3. Holding'
        BY <1>16 DEF Remove, TypeOK, Linked, Holding, Returned, Clock
    <2>4. AtEnd'
        BY <1>16 DEF Remove, TypeOK, Holding, AtEnd, Returned
    <2>5. Clock'
        BY <1>16 DEF Remove, TypeOK, Clock
    <2>6. QED  BY <2>1, <2>2, <2>3, <2>4, <2>5
<1>17. ASSUME NEW p \in Procs, Kill(p) PROVE IInv'
    <2>1. TypeOK'
        BY <1>17 DEF Kill, TypeOK, Returned, Locations, Outcomes, Linked, Holding
    <2>2. Linked'
        BY <1>17 DEF Kill, TypeOK, Linked
    <2>3. Holding'
        BY <1>17 DEF Kill, TypeOK, Linked, Holding, Returned, Clock
    <2>4. AtEnd'
        BY <1>17 DEF Kill, TypeOK, Holding, AtEnd, Returned
    <2>5. Clock'
        BY <1>17 DEF Kill, TypeOK, Clock
    <2>6. QED  BY <2>1, <2>2, <2>3, <2>4, <2>5
<1>18. ASSUME NEW p \in Procs, WriteWhole(p) \/ WriteTorn(p) PROVE IInv'
    <2>0. PICK w \in BOOLEAN : Put(p, w)
        BY <1>18 DEF WriteWhole, WriteTorn
    <2> DEFINE c == [proc |-> p, outcome |-> outcome[p], whole |-> w]
    <2>a. /\ c \in Cells
          /\ fd[p] \in Inodes /\ fd[p] <= made /\ holder[fd[p]] = p
          /\ lines' = [lines EXCEPT ![fd[p]] = Append(@, c)]
          /\ lines' \in [Inodes -> Seq(Cells)]
        BY <1>18, <2>0, PutAppends DEF WriteWhole, WriteTorn
    <2> HIDE DEF c
    <2>b. /\ pc[p] = "write"
          /\ pc' = [pc EXCEPT ![p] = "release"]
          /\ UNCHANGED <<today, dir, holder, made, local>>
        BY <1>18 DEF WriteWhole, WriteTorn
    <2>1. TypeOK'
        <3>1. <<p, outcome[p], day[p]>> \in Procs \X Outcomes \X Days
            BY DEF TypeOK
        <3>2. /\ acked' \in SUBSET (Procs \X Outcomes \X Days)
              /\ warned' \in SUBSET (Procs \X Outcomes)
              /\ dispatched' \in SUBSET Procs
            BY <1>18, <3>1, WarnType DEF WriteWhole, WriteTorn, TypeOK
        <3>3. QED  BY <2>a, <2>b, <3>2 DEF TypeOK, Locations
    <2>2. Linked'
        <3>1. \A i \in Inodes : made < i => i # fd[p] /\ lines'[i] = lines[i]
            BY <2>a DEF TypeOK
        <3>2. QED  BY <2>b, <3>1 DEF Linked, TypeOK
    <2>3. Holding'
        BY <2>b DEF Holding, TypeOK
    <2>4. AtEnd'
        BY <2>a, <2>b DEF Holding, AtEnd, TypeOK
    <2>5. Clock'
        BY <2>b DEF Clock
    <2>6. QED  BY <2>1, <2>2, <2>3, <2>4, <2>5
<1>19. CASE Midnight
    BY <1>19 DEF Midnight, TypeOK, Linked, Holding, AtEnd, Clock
<1>20. CASE UNCHANGED vars
    BY <1>20 DEF TypeOK, Linked, Holding, AtEnd, Clock
<1>21. QED
    BY <1>1, <1>2, <1>3, <1>4, <1>5, <1>6, <1>7, <1>8, <1>9, <1>10,
        <1>11, <1>12, <1>13, <1>14, <1>15, <1>16, <1>17, <1>18, <1>19, <1>20 DEF Next, Step

\* The inductive invariant holds of every execution.
THEOREM Inductive == Spec => []IInv
<1>1. Init => IInv
    BY InitInv
<1>2. IInv /\ [Next]_vars => IInv'
    BY StepInv
<1>3. QED
    BY <1>1, <1>2, PTL DEF Spec

\* Every variable keeps its type.
THEOREM TypeCorrect == Spec => []TypeOK
<1>1. IInv => TypeOK
    BY DEF IInv
<1>2. QED
    BY <1>1, Inductive, PTL

-----------------------------------------------------------------------------
(* The files implement the append-only trail *)

\* What a step of a process does to the logs a reader sees.
LEMMA TrailStep ==
    ASSUME IInv, IInv', [Next]_vars
    PROVE  [Trail!TrailNext]_(Trail!trail)
<1> DEFINE log == [d \in Days |-> Written(d)]
<1> USE DEF Trail!TrailNext, Trail!trail
<1> SUFFICES \/ today' = today /\ log' = log
             \/ \E d \in Days : Trail!AppendTo(d) \/ Trail!Expire(d)
             \/ Trail!NextDay
    OBVIOUS
<1>a. TypeOK /\ Linked /\ Holding /\ Clock
    BY DEF IInv
<1>1. ASSUME UNCHANGED <<today, dir, lines>>
      PROVE  today' = today /\ log' = log
    BY <1>1 DEF Written
<1>2. ASSUME NEW p \in Procs, OpenCreates(p)
      PROVE  today' = today /\ log' = log
    <2>1. /\ today' = today /\ lines' = lines
          /\ day[p] \in Days /\ dir[day[p]] = NoFile
          /\ made + 1 \in Inodes /\ made < made + 1
          /\ dir' = [dir EXCEPT ![day[p]] = made + 1]
        BY <1>2, <1>a DEF OpenCreates, TypeOK, Inodes
    <2>2. lines[made + 1] = <<>>
        BY <2>1, <1>a DEF Linked
    <2>3. \A d \in Days : dir'[d] = IF d = day[p] THEN made + 1 ELSE dir[d]
        BY <2>1, <1>a DEF TypeOK
    <2>4. \A d \in Days : Written(d)' = Written(d)
        BY <2>1, <2>2, <2>3 DEF Written, NoFile, Inodes
    <2>5. QED  BY <2>1, <2>4
<1>3. ASSUME NEW p \in Procs, WriteWhole(p) \/ WriteTorn(p)
      PROVE  \/ today' = today /\ log' = log
             \/ \E d \in Days : Trail!AppendTo(d)
    <2>0. PICK w \in BOOLEAN : Put(p, w)
        BY <1>3 DEF WriteWhole, WriteTorn
    <2> DEFINE c == [proc |-> p, outcome |-> outcome[p], whole |-> w]
    <2>1. /\ c \in Cells
          /\ fd[p] \in Inodes
          /\ lines' = [lines EXCEPT ![fd[p]] = Append(@, c)]
        BY <1>3, <2>0, PutAppends DEF WriteWhole, WriteTorn
    <2>2. today' = today /\ dir' = dir
        BY <1>3 DEF WriteWhole, WriteTorn
    <2> HIDE DEF c
    <2>3. CASE \E d \in Days : dir[d] = fd[p]
        <3>1. PICK d \in Days : dir[d] = fd[p]
            BY <2>3
        <3>2. dir[d] # NoFile
            BY <2>1, <3>1 DEF Inodes, NoFile
        <3>3. Written(d)' = Append(Written(d), c)
            BY <2>1, <2>2, <3>1, <3>2, <1>a DEF Written, TypeOK
        <3>4. \A e \in Days \ {d} : Written(e)' = Written(e)
            BY <2>1, <2>2, <3>1, <3>2, <1>a DEF Written, TypeOK, Linked
        <3>5. log' = [log EXCEPT ![d] = Append(@, c)]
            BY <3>3, <3>4
        <3>6. Trail!AppendTo(d)
            BY <2>1, <2>2, <3>5 DEF Trail!AppendTo
        <3>7. QED  BY <3>6
    <2>4. CASE ~\E d \in Days : dir[d] = fd[p]
        <3>1. \A d \in Days : Written(d)' = Written(d)
            BY <2>1, <2>2, <2>4, <1>a DEF Written, TypeOK
        <3>2. QED  BY <2>2, <3>1
    <2>5. QED  BY <2>3, <2>4
<1>4. ASSUME NEW p \in Procs, Remove(p)
      PROVE  \/ today' = today /\ log' = log
             \/ \E d \in Days : Trail!Expire(d)
    <2>1. PICK d \in stale[p] :
            dir' = [dir EXCEPT ![d] = NoFile] \/ dir' = dir
        BY <1>4 DEF Remove
    <2>2. today' = today /\ lines' = lines
        BY <1>4 DEF Remove
    <2>3. d \in Days /\ d + Retention < today
        BY <1>a DEF TypeOK, Clock, Expired
    <2>4. CASE dir' = dir
        BY <2>2, <2>4, <1>1
    <2>5. CASE dir' = [dir EXCEPT ![d] = NoFile]
        <3>1. Written(d)' = <<>> /\ \A e \in Days \ {d} : Written(e)' = Written(e)
            BY <2>2, <2>3, <2>5, <1>a DEF Written, TypeOK
        <3>2. log' = [log EXCEPT ![d] = <<>>]
            BY <3>1
        <3>3. QED  BY <2>2, <2>3, <3>2 DEF Trail!Expire
    <2>6. QED  BY <2>1, <2>4, <2>5
<1>5. CASE Midnight
    <2>1. log' = log
        BY <1>5 DEF Midnight, Written, files
    <2>2. QED  BY <1>5, <2>1, <1>a DEF Midnight, Trail!NextDay, TypeOK, Days
<1>6. CASE UNCHANGED vars
    BY <1>6, <1>1 DEF vars, files
<1>7. ASSUME NEW p \in Procs, Step(p) \/ Kill(p),
             ~OpenCreates(p), ~WriteWhole(p), ~WriteTorn(p), ~Remove(p)
      PROVE  today' = today /\ log' = log
    <2>1. UNCHANGED <<today, dir, lines>>
        BY <1>7 DEF Step, Kill, Begin, Dispatch, Finish, HomeFails,
            OpenExisting, OpenFails, Flock, FlockFails, SeekEnd,
            EncodeOrSeekFails, WriteFails, Release, ListDir, ListFails, files
    <2>2. QED  BY <1>1, <2>1
<1> HIDE DEF log
<1>8. QED
    BY <1>2, <1>3, <1>4, <1>5, <1>6, <1>7 DEF Next

\* The day-files refine AuditTrail: whatever the processes do, a reader sees
\* per-day logs that only grow at the end and vanish whole after retention.
THEOREM TrailImplemented == Spec => ImplementsTrail
<1>1. Init => Trail!TrailInit
    BY DEF Init, Trail!TrailInit, Written, NoFile
<1>2. IInv /\ IInv' /\ [Next]_vars => [Trail!TrailNext]_(Trail!trail)
    BY TrailStep
<1>3. QED
    BY <1>1, <1>2, Inductive, PTL DEF Spec, ImplementsTrail, Trail!TrailSpec

-----------------------------------------------------------------------------
(* Nothing acknowledged is lost within the retention window *)

\* Appending a cell loses no cell that was there.
LEMMA HasAppended ==
    ASSUME NEW s \in Seq(Cells), NEW c \in Cells, NEW q, NEW o
    PROVE  /\ Has(s, q, o) => Has(Append(s, c), q, o)
           /\ c = [proc |-> q, outcome |-> o, whole |-> TRUE]
                => Has(Append(s, c), q, o)
<1>1. /\ Append(s, c) \in Seq(Cells)
      /\ Len(Append(s, c)) = Len(s) + 1
      /\ \A i \in 1..Len(s) : Append(s, c)[i] = s[i]
      /\ Append(s, c)[Len(s) + 1] = c
    BY AppendProperties
<1>2. Len(s) \in Nat /\ DOMAIN s = 1..Len(s)
    OBVIOUS
<1>3. DOMAIN Append(s, c) = 1..(Len(s) + 1)
    BY <1>1
<1>4. ASSUME Has(s, q, o) PROVE Has(Append(s, c), q, o)
    <2>1. PICK k \in DOMAIN s :
            s[k] = [proc |-> q, outcome |-> o, whole |-> TRUE]
        BY <1>4 DEF Has
    <2>2. k \in DOMAIN Append(s, c) /\ Append(s, c)[k] = s[k]
        BY <1>1, <1>2, <1>3, <2>1
    <2>3. QED  BY <2>1, <2>2 DEF Has
<1>5. ASSUME c = [proc |-> q, outcome |-> o, whole |-> TRUE]
      PROVE  Has(Append(s, c), q, o)
    <2>1. Len(s) + 1 \in DOMAIN Append(s, c)
        BY <1>2, <1>3
    <2>2. QED  BY <1>1, <1>5, <2>1 DEF Has
<1>6. QED
    BY <1>4, <1>5

\* Every step keeps the acknowledged lines in their files while they are within
\* the retention window.
LEMMA KeptStep ==
    ASSUME IInv, IInv', Kept, [Next]_vars
    PROVE  Kept'
<1>a. TypeOK /\ Linked /\ Holding /\ Clock
    BY DEF IInv
<1> SUFFICES ASSUME NEW a \in acked', Retained(a[3])'
             PROVE  Has(Written(a[3])', a[1], a[2])
    BY DEF Kept
<1>b. a \in Procs \X Outcomes \X Days
    BY DEF IInv, TypeOK
<1>c. today <= today' /\ today \in Nat /\ today' \in Nat
    <2>1. today' = today \/ today' = today + 1
        BY DEF Next, Step, Begin, Dispatch, Finish, HomeFails, OpenExisting,
            OpenCreates, OpenFails, Flock, FlockFails, SeekEnd,
            EncodeOrSeekFails, WriteWhole, WriteTorn, WriteFails, Release,
            ListDir, ListFails, Remove, Kill, Midnight, vars
    <2>2. today \in Nat
        BY <1>a DEF TypeOK, Days
    <2>3. QED  BY <2>1, <2>2
<1>d. Retained(a[3]) /\ ~Expired(a[3], today)
    BY <1>b, <1>c DEF Retained, Expired, Days, AuditAssumption
<1>e. a \in acked => Has(Written(a[3]), a[1], a[2])
    BY <1>d DEF Kept
<1>1. ASSUME UNCHANGED <<dir, lines, acked>>
      PROVE  Has(Written(a[3])', a[1], a[2])
    BY <1>1, <1>e DEF Written
<1>2. ASSUME NEW p \in Procs, OpenCreates(p)
      PROVE  Has(Written(a[3])', a[1], a[2])
    <2>1. /\ lines' = lines /\ acked' = acked
          /\ dir[day[p]] = NoFile
          /\ dir' = [dir EXCEPT ![day[p]] = made + 1]
        BY <1>2 DEF OpenCreates, seen
    <2>2. dir[a[3]] # NoFile
        BY <2>1, <1>e DEF Has, Written
    <2>3. Written(a[3])' = Written(a[3])
        BY <2>1, <2>2, <1>b, <1>a DEF Written, TypeOK
    <2>4. QED  BY <2>1, <2>3, <1>e
<1>3. ASSUME NEW p \in Procs, WriteWhole(p) \/ WriteTorn(p)
      PROVE  Has(Written(a[3])', a[1], a[2])
    <2>0. PICK w \in BOOLEAN : Put(p, w) /\ (WriteWhole(p) => w = TRUE)
        BY <1>3 DEF WriteWhole, WriteTorn
    <2> DEFINE c == [proc |-> p, outcome |-> outcome[p], whole |-> w]
    <2>1. /\ c \in Cells
          /\ fd[p] \in Inodes
          /\ lines' = [lines EXCEPT ![fd[p]] = Append(@, c)]
        BY <1>3, <2>0, PutAppends DEF WriteWhole, WriteTorn
    <2>2. dir' = dir /\ pc[p] = "write"
        BY <1>3 DEF WriteWhole, WriteTorn
    <2> DEFINE i == dir[a[3]]
    <2>3. CASE a \in acked
        <3>1. i # NoFile /\ Written(a[3]) = lines[i] /\ i \in Inodes
            BY <2>3, <1>e, <1>a, <1>b DEF Has, Written, TypeOK
        <3>2. Has(lines[i], a[1], a[2]) /\ lines[i] \in Seq(Cells)
            BY <2>3, <3>1, <1>e, <1>a DEF TypeOK
        <3> HIDE DEF c
        <3>3. lines'[i] = IF i = fd[p] THEN Append(lines[i], c) ELSE lines[i]
            BY <2>1, <3>1, <1>a DEF TypeOK
        <3>4. Has(lines'[i], a[1], a[2])
            BY <2>1, <3>2, <3>3, HasAppended
        <3>5. Written(a[3])' = lines'[i]
            BY <2>2, <3>1 DEF Written
        <3>6. QED  BY <3>4, <3>5
    <2>4. CASE a \notin acked
        <3>1. a = <<p, outcome[p], day[p]>> /\ WriteWhole(p)
            BY <2>4, <1>3 DEF WriteWhole, WriteTorn, Warn
        <3>2. i = fd[p] /\ i # NoFile /\ i \in Inodes /\ a[1] = p /\ a[2] = outcome[p]
            BY <3>1, <2>1, <2>2, <1>a, <1>d DEF Holding, Appending, NoFile, Inodes
        <3>3. c = [proc |-> a[1], outcome |-> a[2], whole |-> TRUE]
            BY <2>0, <3>1, <3>2
        <3>4. lines[i] \in Seq(Cells)
            BY <3>2, <1>a DEF TypeOK
        <3> HIDE DEF c
        <3>5. lines'[i] = Append(lines[i], c)
            BY <2>1, <3>2, <1>a DEF TypeOK
        <3>6. Has(lines'[i], a[1], a[2])
            BY <2>1, <3>3, <3>4, <3>5, HasAppended
        <3>7. Written(a[3])' = lines'[i]
            BY <2>2, <3>2 DEF Written
        <3>8. QED  BY <3>6, <3>7
    <2>5. QED  BY <2>3, <2>4
<1>4. ASSUME NEW p \in Procs, Remove(p)
      PROVE  Has(Written(a[3])', a[1], a[2])
    <2>1. PICK d \in stale[p] :
            dir' = [dir EXCEPT ![d] = NoFile] \/ dir' = dir
        BY <1>4 DEF Remove
    <2>2. lines' = lines /\ acked' = acked
        BY <1>4 DEF Remove, seen
    <2>3. d # a[3]
        BY <1>a, <1>d DEF Clock
    <2>4. Written(a[3])' = Written(a[3])
        BY <2>1, <2>2, <2>3, <1>a, <1>b DEF Written, TypeOK
    <2>5. QED  BY <2>2, <2>4, <1>e
<1>5. CASE Midnight \/ UNCHANGED vars
    BY <1>5, <1>1 DEF Midnight, vars, files, seen
<1>6. ASSUME NEW p \in Procs, Step(p) \/ Kill(p),
             ~OpenCreates(p), ~WriteWhole(p), ~WriteTorn(p), ~Remove(p)
      PROVE  Has(Written(a[3])', a[1], a[2])
    <2>1. UNCHANGED <<dir, lines, acked>>
        BY <1>6 DEF Step, Kill, Begin, Dispatch, Finish, HomeFails,
            OpenExisting, OpenFails, Flock, FlockFails, SeekEnd, Warn,
            EncodeOrSeekFails, WriteFails, Release, ListDir, ListFails, files,
            seen
    <2>2. QED  BY <1>1, <2>1
<1>7. QED
    BY <1>2, <1>3, <1>4, <1>5, <1>6 DEF Next

\* A line whose write succeeded stays in its day's file until retention ends.
THEOREM NothingLost == Spec => []Kept
<1>1. Init => Kept
    BY DEF Init, Kept
<1>2. IInv /\ IInv' /\ Kept /\ [Next]_vars => Kept'
    BY KeptStep
<1>3. QED
    BY <1>1, <1>2, Inductive, PTL DEF Spec

-----------------------------------------------------------------------------
(* No silent path *)

Settled(p, o) ==
    <<p, o>> \in warned \/ \E d \in Days : <<p, o, d>> \in acked

\* Past its write a process has settled its line; past Begin a side-effecting
\* one has settled its started line.
Progress ==
    \A p \in Procs :
        /\ pc[p] \in {"release", "list", "remove"} => Settled(p, outcome[p])
        /\ pc[p] \in {"ready", "running"} /\ sideEffect[p] => Settled(p, "started")
        /\ outcome[p] # "started" /\ sideEffect[p] => Settled(p, "started")
        /\ p \in dispatched /\ sideEffect[p] => Settled(p, "started")
        /\ pc[p] = "done" => outcome[p] # "started" /\ Settled(p, outcome[p])
        /\ pc[p] = "new" => p \notin dispatched
        /\ pc[p] \in {"new", "ready", "running"} => outcome[p] = "started"

\* A line that was written or given up stays so.
LEMMA SettledStays ==
    ASSUME [Next]_vars, NEW p \in Procs, NEW o, Settled(p, o)
    PROVE  Settled(p, o)'
<1>1. acked \subseteq acked' /\ warned \subseteq warned'
    BY DEF Next, Step, Begin, Dispatch, Finish, HomeFails, OpenExisting,
        OpenCreates, OpenFails, Flock, FlockFails, SeekEnd, Warn,
        EncodeOrSeekFails, WriteWhole, WriteTorn, WriteFails, Release,
        ListDir, ListFails, Remove, Kill, Midnight, vars, seen
<1>2. QED  BY <1>1 DEF Settled

\* Every step preserves what ties the place of a process in Begin, dispatch and
\* Finish to the lines it has settled.
LEMMA ProgressStep ==
    ASSUME IInv, Progress, [Next]_vars
    PROVE  Progress'
<1>a. TypeOK
    BY DEF IInv
<1>b. \A p \in Procs, o \in Outcomes : Settled(p, o) => Settled(p, o)'
    BY SettledStays
<1>c. \A p \in Procs : outcome[p] \in Outcomes /\ "started" \in Outcomes
    BY <1>a DEF TypeOK, Outcomes
<1> USE DEF Goto, local, seen, files
<1>1. ASSUME NEW p \in Procs, Begin(p) PROVE Progress'
    BY <1>1, <1>a, <1>b, <1>c DEF Begin, Progress, TypeOK, Returned
<1>2. ASSUME NEW p \in Procs, Dispatch(p) PROVE Progress'
    BY <1>2, <1>a, <1>b, <1>c DEF Dispatch, Progress, TypeOK, Returned
<1>3. ASSUME NEW p \in Procs, Finish(p) PROVE Progress'
    BY <1>3, <1>a, <1>b, <1>c DEF Finish, Progress, TypeOK, Returned
<1>4. ASSUME NEW p \in Procs, HomeFails(p) PROVE Progress'
    <2>1. Settled(p, outcome[p])'
        BY <1>4 DEF HomeFails, Warn, Settled
    <2>2. QED
        BY <1>4, <1>a, <1>b, <1>c, <2>1 DEF HomeFails, Progress, Warn, TypeOK, Returned
<1>5. ASSUME NEW p \in Procs, OpenExisting(p) PROVE Progress'
    BY <1>5, <1>a, <1>b, <1>c DEF OpenExisting, Progress, TypeOK, Returned
<1>6. ASSUME NEW p \in Procs, OpenCreates(p) PROVE Progress'
    BY <1>6, <1>a, <1>b, <1>c DEF OpenCreates, Progress, TypeOK, Returned
<1>7. ASSUME NEW p \in Procs, OpenFails(p) PROVE Progress'
    <2>1. Settled(p, outcome[p])'
        BY <1>7 DEF OpenFails, Warn, Settled
    <2>2. QED
        BY <1>7, <1>a, <1>b, <1>c, <2>1 DEF OpenFails, Progress, Warn, TypeOK, Returned
<1>8. ASSUME NEW p \in Procs, Flock(p) PROVE Progress'
    BY <1>8, <1>a, <1>b, <1>c DEF Flock, Progress, TypeOK, Returned
<1>9. ASSUME NEW p \in Procs, FlockFails(p) PROVE Progress'
    <2>1. Settled(p, outcome[p])'
        BY <1>9 DEF FlockFails, Warn, Settled
    <2>2. QED
        BY <1>9, <1>a, <1>b, <1>c, <2>1 DEF FlockFails, Progress, Warn, TypeOK, Returned
<1>10. ASSUME NEW p \in Procs, SeekEnd(p) PROVE Progress'
    BY <1>10, <1>a, <1>b, <1>c DEF SeekEnd, Progress, TypeOK, Returned
<1>11. ASSUME NEW p \in Procs, EncodeOrSeekFails(p) PROVE Progress'
    <2>1. Settled(p, outcome[p])'
        BY <1>11 DEF EncodeOrSeekFails, Warn, Settled
    <2>2. QED
        BY <1>11, <1>a, <1>b, <1>c, <2>1 DEF EncodeOrSeekFails, Progress, Warn, TypeOK, Returned
<1>12. ASSUME NEW p \in Procs, WriteFails(p) PROVE Progress'
    <2>1. Settled(p, outcome[p])'
        BY <1>12 DEF WriteFails, Warn, Settled
    <2>2. QED
        BY <1>12, <1>a, <1>b, <1>c, <2>1 DEF WriteFails, Progress, Warn, TypeOK, Returned
<1>13. ASSUME NEW p \in Procs, WriteTorn(p) PROVE Progress'
    <2>1. Settled(p, outcome[p])'
        BY <1>13 DEF WriteTorn, Warn, Settled
    <2>2. QED
        BY <1>13, <1>a, <1>b, <1>c, <2>1 DEF WriteTorn, Progress, Warn, TypeOK, Returned
<1>14. ASSUME NEW p \in Procs, WriteWhole(p) PROVE Progress'
    <2>1. Settled(p, outcome[p])'
        BY <1>14, <1>a DEF WriteWhole, Settled, TypeOK
    <2>2. QED
        BY <1>14, <1>a, <1>b, <1>c, <2>1 DEF WriteWhole, Progress, TypeOK
<1>15. ASSUME NEW p \in Procs, Release(p) PROVE Progress'
    BY <1>15, <1>a, <1>b, <1>c DEF Release, Progress, TypeOK, Returned
<1>16. ASSUME NEW p \in Procs, ListDir(p) PROVE Progress'
    BY <1>16, <1>a, <1>b, <1>c DEF ListDir, Progress, TypeOK, Returned
<1>17. ASSUME NEW p \in Procs, ListFails(p) PROVE Progress'
    BY <1>17, <1>a, <1>b, <1>c DEF ListFails, Progress, TypeOK, Returned
<1>18. ASSUME NEW p \in Procs, Remove(p) PROVE Progress'
    BY <1>18, <1>a, <1>b, <1>c DEF Remove, Progress, TypeOK, Returned
<1>19. ASSUME NEW p \in Procs, Kill(p) PROVE Progress'
    BY <1>19, <1>a, <1>b, <1>c DEF Kill, Progress, TypeOK, Returned
<1>20. CASE Midnight \/ UNCHANGED vars
    BY <1>20, <1>b, <1>c DEF Midnight, vars, Progress
<1>21. QED
    BY <1>1, <1>2, <1>3, <1>4, <1>5, <1>6, <1>7, <1>8, <1>9, <1>10,
       <1>11, <1>12, <1>13, <1>14, <1>15, <1>16, <1>17, <1>18, <1>19, <1>20 DEF Next, Step

\* The same as an invariant of the specification.
LEMMA ProgressInv == Spec => []Progress
<1>1. Init => Progress
    BY DEF Init, Progress
<1>2. IInv /\ Progress /\ [Next]_vars => Progress'
    BY ProgressStep
<1>3. QED
    BY <1>1, <1>2, Inductive, PTL DEF Spec

\* A side effect is never issued, and an invocation never ends, before the line
\* that announces it was written or given up with a warning.
THEOREM NothingSilent == Spec => []NoSilentPath
<1>1. Progress /\ IInv => NoSilentPath
    <2> SUFFICES ASSUME Progress, IInv, NEW p \in Procs
                 PROVE  /\ p \in dispatched /\ sideEffect[p] => Settled(p, "started")
                        /\ pc[p] = "done" => \E o \in {"ok", "error"} : Settled(p, o)
        BY DEF NoSilentPath, Settled
    <2>1. outcome[p] \in Outcomes
        BY DEF IInv, TypeOK
    <2>2. QED  BY <2>1 DEF Progress, Outcomes
<1>2. QED
    BY <1>1, ProgressInv, Inductive, PTL

-----------------------------------------------------------------------------
(* The two lines of an operation pair up *)

\* A process whose first line is still to come has no cell anywhere, and one
\* whose terminal line is still to come has only started cells.
Cast ==
    \A i \in Inodes : \A k \in DOMAIN lines[i] :
        LET p == lines[i][k].proc IN
        /\ pc[p] # "new"
        /\ outcome[p] = "started" => pc[p] \notin {"open", "flock", "seek", "write"}
        /\ lines[i][k].outcome # "started" =>
            /\ outcome[p] # "started"
            /\ pc[p] \notin {"open", "flock", "seek", "write"}

\* Every step preserves the pairing of lines together with what a process about
\* to write has not written yet.
LEMMA PairStep ==
    ASSUME IInv, Progress, Cast, PairedInOrder, [Next]_vars
    PROVE  Cast' /\ PairedInOrder'
<1>a. TypeOK
    BY DEF IInv
<1>b. \A i \in Inodes : \A k \in DOMAIN lines[i] : lines[i][k] \in Cells
    BY <1>a DEF TypeOK
<1>c. \A i \in Inodes : \A k \in DOMAIN lines[i] : lines[i][k].proc \in Procs
    BY <1>b DEF Cells
<1> USE DEF Goto, local, seen, files
<1>1. ASSUME NEW p \in Procs, WriteWhole(p) \/ WriteTorn(p)
      PROVE  Cast' /\ PairedInOrder'
    <2>0. PICK w \in BOOLEAN : Put(p, w)
        BY <1>1 DEF WriteWhole, WriteTorn
    <2> DEFINE c == [proc |-> p, outcome |-> outcome[p], whole |-> w]
    <2> DEFINE i == fd[p]
    <2> DEFINE s == lines[i]
    <2>1. /\ c \in Cells /\ i \in Inodes
          /\ lines' = [lines EXCEPT ![i] = Append(s, c)]
        BY <1>1, <2>0, PutAppends DEF WriteWhole, WriteTorn
    <2>2. /\ pc[p] = "write" /\ pc' = [pc EXCEPT ![p] = "release"]
          /\ outcome' = outcome
        BY <1>1 DEF WriteWhole, WriteTorn
    <2>3. c.proc = p /\ c.outcome = outcome[p]
        OBVIOUS
    <2> HIDE DEF c
    <2>4. s \in Seq(Cells) /\ DOMAIN s = 1..Len(s) /\ Len(s) \in Nat
        BY <2>1, <1>a DEF TypeOK
    <2>5. /\ Append(s, c) \in Seq(Cells)
          /\ Len(Append(s, c)) = Len(s) + 1
          /\ \A k \in 1..Len(s) : Append(s, c)[k] = s[k]
          /\ Append(s, c)[Len(s) + 1] = c
        BY <2>1, <2>4, AppendProperties
    <2> DEFINE t == lines'[i]
    <2>6. /\ DOMAIN t = 1..(Len(s) + 1)
          /\ \A k \in DOMAIN s : t[k] = s[k]
          /\ t[Len(s) + 1] = c
        <3>1. t = Append(s, c)
            BY <2>1, <1>a DEF TypeOK
        <3>2. DOMAIN Append(s, c) = 1..(Len(s) + 1)
            BY <2>5
        <3>3. QED  BY <2>4, <2>5, <3>1, <3>2
    <2>7. \A j \in Inodes \ {i} : lines'[j] = lines[j]
        BY <2>1, <1>a DEF TypeOK
    <2>8. \A k \in DOMAIN t : k \in DOMAIN s \/ k = Len(s) + 1
        BY <2>4, <2>6
    <2> HIDE DEF t
    <2>9. Cast'
        <3>1. ASSUME NEW j \in Inodes, NEW k \in DOMAIN lines'[j]
              PROVE  LET q == lines'[j][k].proc IN
                     /\ pc'[q] # "new"
                     /\ outcome[q] = "started"
                        => pc'[q] \notin {"open", "flock", "seek", "write"}
                     /\ lines'[j][k].outcome # "started" =>
                        /\ outcome[q] # "started"
                        /\ pc'[q] \notin {"open", "flock", "seek", "write"}
            <4>1. CASE j = i /\ k = Len(s) + 1
                BY <4>1, <2>2, <2>3, <2>6, <1>a DEF t, TypeOK
            <4>2. CASE ~(j = i /\ k = Len(s) + 1)
                <5>1. k \in DOMAIN lines[j] /\ lines'[j][k] = lines[j][k]
                    BY <4>2, <2>6, <2>7, <2>8 DEF t
                <5>2. QED  BY <5>1, <2>2, <1>a, <1>c DEF Cast, TypeOK
            <4>3. QED  BY <4>1, <4>2
        <3>2. QED  BY <3>1, <2>2 DEF Cast
    <2>10. PairedInOrder'
        <3>1. ASSUME NEW j \in Inodes, NEW k \in DOMAIN lines'[j],
                     NEW m \in DOMAIN lines'[j], k < m,
                     lines'[j][k].proc = lines'[j][m].proc
              PROVE  /\ lines'[j][k].outcome = "started"
                     /\ lines'[j][m].outcome # "started"
            <4>1. CASE j # i
                BY <3>1, <4>1, <2>7 DEF PairedInOrder
            <4>2. CASE j = i /\ m # Len(s) + 1
                <5>1. k \in DOMAIN s /\ m \in DOMAIN s
                    BY <3>1, <4>2, <2>4, <2>6, <2>8 DEF t
                <5>2. QED  BY <3>1, <4>2, <5>1, <2>1, <2>6 DEF PairedInOrder, t
            <4>3. CASE j = i /\ m = Len(s) + 1
                <5>1. k \in DOMAIN s
                    BY <3>1, <4>3, <2>4, <2>6, <2>8 DEF t
                <5>2. s[k].proc = p /\ lines'[j][k] = s[k] /\ lines'[j][m] = c
                    BY <3>1, <4>3, <5>1, <2>3, <2>6 DEF t
                <5>3. QED  BY <5>1, <5>2, <2>1, <2>2, <2>3 DEF Cast
            <4>4. QED  BY <4>1, <4>2, <4>3
        <3>2. QED  BY <3>1 DEF PairedInOrder
    <2>11. QED  BY <2>9, <2>10
<1>2. ASSUME lines' = lines, NEW p \in Procs,
             \A q \in Procs \ {p} : pc'[q] = pc[q] /\ outcome'[q] = outcome[q],
             \/ pc[p] = "new"
             \/ pc'[p] = "open" /\ outcome[p] = "started" /\ outcome'[p] # "started"
                /\ pc[p] \notin {"new", "open", "flock", "seek", "write"}
             \/ outcome'[p] = outcome[p] /\ pc'[p] # "new"
                /\ pc[p] \in {"open", "flock", "seek", "write"}
             \/ outcome'[p] = outcome[p]
                /\ pc'[p] \notin {"new", "open", "flock", "seek", "write"}
      PROVE  Cast' /\ PairedInOrder'
    <2>1. PairedInOrder'
        BY <1>2 DEF PairedInOrder
    <2>2. ASSUME NEW i \in Inodes, NEW k \in DOMAIN lines[i]
          PROVE  LET q == lines[i][k].proc IN
                 /\ pc'[q] # "new"
                 /\ outcome'[q] = "started"
                    => pc'[q] \notin {"open", "flock", "seek", "write"}
                 /\ lines[i][k].outcome # "started" =>
                    /\ outcome'[q] # "started"
                    /\ pc'[q] \notin {"open", "flock", "seek", "write"}
        <3>1. CASE lines[i][k].proc = p
            BY <1>2, <3>1 DEF Cast
        <3>2. CASE lines[i][k].proc # p
            BY <1>2, <3>2, <1>c DEF Cast
        <3>3. QED  BY <3>1, <3>2
    <2>3. QED  BY <2>1, <2>2, <1>2 DEF Cast
<1>3. ASSUME NEW p \in Procs, Begin(p) PROVE Cast' /\ PairedInOrder'
    BY <1>3, <1>2, <1>a DEF Begin, TypeOK
<1>4. ASSUME NEW p \in Procs, Finish(p) PROVE Cast' /\ PairedInOrder'
    BY <1>4, <1>2, <1>a DEF Finish, TypeOK, Progress
<1>5. ASSUME NEW p \in Procs, Step(p) \/ Kill(p), ~Begin(p), ~Finish(p),
             ~WriteWhole(p), ~WriteTorn(p)
      PROVE  Cast' /\ PairedInOrder'
    <2>1. lines' = lines /\ outcome' = outcome
        BY <1>5 DEF Step, Dispatch, HomeFails, OpenExisting, OpenCreates,
            OpenFails, Flock, FlockFails, SeekEnd, EncodeOrSeekFails,
            WriteFails, Release, ListDir, ListFails, Remove, Kill
    <2>2. /\ \A q \in Procs \ {p} : pc'[q] = pc[q]
          /\ pc'[p] # "new"
          /\ \/ pc[p] \in {"open", "flock", "seek", "write"}
             \/ pc'[p] \notin {"new", "open", "flock", "seek", "write"}
        BY <1>5, <1>a DEF Step, Dispatch, HomeFails, OpenExisting, OpenCreates,
            OpenFails, Flock, FlockFails, SeekEnd, EncodeOrSeekFails,
            WriteFails, Release, ListDir, ListFails, Remove, Kill, TypeOK,
            Returned
    <2>3. QED  BY <1>2, <2>1, <2>2
<1>6. CASE Midnight \/ UNCHANGED vars
    BY <1>6, <1>c DEF Midnight, vars, Cast, PairedInOrder
<1>7. QED
    BY <1>1, <1>3, <1>4, <1>5, <1>6 DEF Next

\* In every file an invocation has at most one line of each phase, the started
\* line first.
THEOREM LinesPair == Spec => []PairedInOrder
<1>1. Init => Cast /\ PairedInOrder
    BY DEF Init, Cast, PairedInOrder
<1>2. IInv /\ Progress /\ Cast /\ PairedInOrder /\ [Next]_vars => Cast' /\ PairedInOrder'
    BY PairStep
<1>3. QED
    BY <1>1, <1>2, ProgressInv, Inductive, PTL DEF Spec

\* A line of a day inside the retention stays, and the lines of one invocation
\* stand in order.
THEOREM LinesStanding == Spec => []LinesStand
BY NothingLost, LinesPair, PTL DEF LinesStand
=============================================================================
