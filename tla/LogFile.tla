-------------------------------- MODULE LogFile -------------------------------
(***************************************************************************)
(* The local-file adapter (adapters/log/local_file/local_file.go): the last*)
(* lines of each configured file, then, with -f, a poll of each for what   *)
(* was appended.                                                           *)
(*                                                                         *)
(* A file is a sequence of cells: NL, or a number that grows with every    *)
(* cell written, so that a cell shows when and where it was written.  The  *)
(* program that writes the logs is external: it appends parts of lines,    *)
(* truncates a file in place (copytruncate), renames it away and creates it*)
(* anew; the reader keeps what it has open.                                *)
(***************************************************************************)
EXTENDS LogRun, SequencesExt

CONSTANTS
    MaxFiles,   \* bound: configured files
    MaxWrites,  \* bound: cells written, truncations and rotations
    MaxCuts,    \* bound: truncations and rotations
    MaxFaults,  \* bound: calls of a poll that fail for no lasting reason
    Chunk       \* cells of one read of lastLines (64 KiB)

ASSUME FileAssumption ==
    /\ MaxFiles \in Nat \ {0} /\ MaxWrites \in Nat /\ MaxCuts \in Nat /\ MaxFaults \in Nat
    /\ Chunk \in Nat \ {0}

VARIABLES
    files,     \* number of configured files
    disk,      \* file -> the contents of the inodes its name has led to
    gone,      \* files renamed away and not yet created again
    written,   \* what the writer did, and how often it
    cuts,      \* truncated or rotated a file
    at,        \* the file being read
    fd,        \* index of the inode it has open
    size, pos, \* the size it stat'ed, and the offset it reads from
    data,      \* lastLines: what it has read
    off,       \* file -> offset of the next poll
    faults,    \* calls that failed
    part,      \* file -> its unfinished line
    \* observed by the properties only
    base,      \* file -> offset at which following it began, -1 before
    hurt,      \* files that were truncated or rotated
    mixed,     \* those of them that were while their last lines were read
    reset      \* files a poll saw shrunken, not truncated or rotated since

writer  == <<files, disk, gone, written, cuts>>
reader  == <<at, fd, size, pos, data, off, part, faults>>
watch   == <<base, hurt, mixed, reset>>
filevars == <<writer, reader, watch>>

NL  == -1
NUL == 0

Paths == 1 .. files

\* What a name leads to now.
Current(p) == disk[p][Len(disk[p])]

FileInit ==
    /\ files \in 1 .. MaxFiles
    /\ disk = [p \in Paths |-> << <<>> >>]
    /\ gone = {} /\ written = 0 /\ cuts = 0
    /\ at = 1 /\ fd = 1 /\ size = 0 /\ pos = 0 /\ data = <<>>
    /\ off = [p \in Paths |-> 0] /\ part = [p \in Paths |-> <<>>] /\ faults = 0
    /\ base = [p \in Paths |-> -1] /\ hurt = {} /\ mixed = {} /\ reset = {}

\* The more files, the fewer writes.
Writes == MaxWrites + 1 - files

Chosen == call.source = "file" /\ call.verb = "logs"

-----------------------------------------------------------------------------
(* The writer *)

Log(p) ==
    /\ p \notin gone /\ written < Writes
    /\ \E cell \in {written + 1, NL} :
        disk' = [disk EXCEPT ![p][Len(disk[p])] = Append(@, cell)]
    /\ written' = written + 1
    /\ UNCHANGED <<run, files, gone, cuts, reader, watch>>

Cut(p) ==
    /\ p \notin gone /\ cuts < MaxCuts /\ written < Writes
    /\ cuts' = cuts + 1 /\ written' = written + 1
    /\ hurt' = hurt \union {p}
    /\ mixed' = IF pc = "tail read" /\ at = p THEN mixed \union {p} ELSE mixed
    /\ reset' = reset \ {p}
    /\ UNCHANGED <<run, files, reader, base>>

Truncate(p) ==
    /\ Current(p) # <<>>
    /\ Cut(p)
    /\ disk' = [disk EXCEPT ![p][Len(disk[p])] = <<>>]
    /\ UNCHANGED gone

Rotate(p) ==
    /\ Cut(p)
    /\ gone' = gone \union {p}
    /\ UNCHANGED disk

Create(p) ==
    /\ p \in gone
    /\ gone' = gone \ {p}
    /\ disk' = [disk EXCEPT ![p] = Append(@, <<>>)]
    /\ UNCHANGED <<run, files, written, cuts, reader, watch>>

\* What it does after the last read is of no consequence.
Writer ==
    /\ Chosen /\ pc \notin {"return", "audit", "exited"}
    /\ \E p \in Paths : Log(p) \/ Truncate(p) \/ Rotate(p) \/ Create(p)

-----------------------------------------------------------------------------
(* tailFiles and lastLines *)

\* The finished lines of some cells, and the unfinished one that is left.
Parse(cells) ==
    LET upto[n \in 0 .. Len(cells)] ==
            IF n = 0 THEN [lines |-> <<>>, rest |-> <<>>]
            ELSE LET sofar == upto[n - 1] IN
                 IF cells[n] = NL THEN [lines |-> Append(sofar.lines, sofar.rest), rest |-> <<>>]
                 ELSE [lines |-> sofar.lines, rest |-> Append(sofar.rest, cells[n])]
    IN upto[Len(cells)]

\* splitLines: an unfinished last line counts, a lone newline does not.
Split(cells) ==
    LET p == Parse(cells) IN
      IF cells = <<NL>> THEN <<>>
      ELSE IF p.rest = <<>> THEN p.lines ELSE Append(p.lines, p.rest)

LastLines(lines, n) ==
    IF n >= Len(lines) THEN lines ELSE SubSeq(lines, Len(lines) - n + 1, Len(lines))

Records(p, lines) == [i \in DOMAIN lines |-> [path |-> p, line |-> lines[i]]]

\* With several files each has a header.
Header(p) == IF files > 1 THEN Records(p, << <<>> >>) ELSE <<>>

Open ==
    /\ Asked("file", {"logs"})
    /\ Opened
    /\ pc' = "tail"
    /\ UNCHANGED <<call, late, held, shown, ends, told, verdict, filevars>>

\* The header, open and stat; with --tail 0 nothing is read.
TailOpen ==
    /\ pc = "tail" /\ at \in Paths \ gone
    /\ Put(Header(at))
    /\ fd' = Len(disk[at])
    /\ size' = Len(Current(at))
    /\ pos' = IF call.tail = 0 THEN 0 ELSE size'
    /\ data' = <<>>
    /\ pc' = "tail read"
    /\ UNCHANGED <<call, late, mode, ends, told, verdict, writer, at, off, part, faults, watch>>

\* open, stat or a read fails.
TailFails ==
    /\ \/ pc = "tail" /\ at \in Paths /\ Put(Header(at))
       \/ pc = "tail read" /\ UNCHANGED <<held, shown>>
    /\ Return("general")
    /\ UNCHANGED <<mode, ends, told, filevars>>

Newlines(cells) == Cardinality({i \in DOMAIN cells : cells[i] = NL})
Reading == pos > 0 /\ Newlines(data) <= call.tail

\* One chunk, backwards; the buffer keeps zeros where the file has ended
\* meanwhile, because io.EOF is no error.
TailRead ==
    /\ pc = "tail read" /\ Reading
    /\ LET from == IF pos > Chunk THEN pos - Chunk ELSE 0
           cells == disk[at][fd]
       IN /\ pos' = from
          /\ data' = [i \in 1 .. pos - from |->
                        IF from + i <= Len(cells) THEN cells[from + i] ELSE NUL] \o data
    /\ UNCHANGED <<run, writer, at, fd, size, off, part, faults, watch>>

TailEmit ==
    /\ pc = "tail read" /\ ~Reading
    /\ Put(Records(at, LastLines(Split(data), call.tail)))
    /\ off' = [off EXCEPT ![at] = size]
    /\ base' = [base EXCEPT ![at] = size]
    /\ at' = at + 1
    /\ pc' = "tail"
    /\ UNCHANGED <<call, late, mode, ends, told, verdict, writer, fd, size, pos, data, part, faults,
                   hurt, mixed, reset>>

TailDone ==
    /\ pc = "tail" /\ at \notin Paths
    /\ IF call.follow
       THEN pc' = "tick" /\ UNCHANGED <<call, late, output, verdict>>
       ELSE Produced(held, FALSE)
    /\ UNCHANGED <<held, filevars>>

-----------------------------------------------------------------------------
(* followFiles and pump *)

\* select takes either case when both are ready.
StopFollow ==
    /\ pc = "tick" /\ late
    /\ Refuse("none")
    /\ UNCHANGED filevars

Tick ==
    /\ pc = "tick"
    /\ pc' = "stat" /\ at' = 1
    /\ UNCHANGED <<call, late, held, output, verdict, writer, fd, size, pos, data, off, part, faults, watch>>

\* The next file, or the ticker again after the last.
Onward == IF at = files THEN pc' = "tick" /\ UNCHANGED at ELSE pc' = "stat" /\ at' = at + 1

\* A stat, an open or a read fails: try again at the next tick.
Transient ==
    /\ \/ pc \in {"stat", "open"} /\ at \in gone /\ UNCHANGED faults
       \/ pc \in {"stat", "open", "read"} /\ faults < MaxFaults /\ faults' = faults + 1
    /\ Onward
    /\ UNCHANGED <<call, late, held, output, verdict, writer, fd, size, pos, data, off, part, watch>>

\* Seeded bug: a file without news ends the poll.
StatReturns ==
    /\ pc = "stat" /\ at \notin gone
    /\ size' = Len(Current(at))
    /\ pos' = IF size' < off[at] THEN 0 ELSE off[at]
    /\ part' = IF size' < off[at] THEN [part EXCEPT ![at] = <<>>] ELSE part
    /\ reset' = IF size' < off[at] THEN reset \union {at} ELSE reset
    /\ pc' = (IF size' = pos' THEN "tick" ELSE "open")
    /\ UNCHANGED <<call, late, held, output, verdict, writer, at, fd, data, off, faults, base,
                   hurt, mixed>>

\* A file without news is passed over.
Stat ==
    /\ pc = "stat" /\ at \notin gone
    /\ size' = Len(Current(at))
    /\ pos' = IF size' < off[at] THEN 0 ELSE off[at]
    /\ part' = IF size' < off[at] THEN [part EXCEPT ![at] = <<>>] ELSE part
    /\ reset' = IF size' < off[at] THEN reset \union {at} ELSE reset
    /\ IF size' = pos' THEN Onward ELSE pc' = "open" /\ UNCHANGED at
    /\ UNCHANGED <<call, late, held, output, verdict, writer, fd, data, off, faults, base, hurt, mixed>>

PumpOpen ==
    /\ pc = "open" /\ at \notin gone
    /\ fd' = Len(disk[at])
    /\ pc' = "read"
    /\ UNCHANGED <<call, late, held, output, verdict, writer, at, size, pos, data, off, part, faults, watch>>

\* Seeded bug: the beginning of a line is dropped at the end of a poll.
PumpForgets ==
    /\ pc = "read"
    /\ LET cells == disk[at][fd]
           buf   == SubSeq(cells, pos + 1, IF size < Len(cells) THEN size ELSE Len(cells))
       IN /\ off' = [off EXCEPT ![at] = pos + Len(buf)]
          /\ Put(Records(at, Parse(buf).lines))
    /\ Onward
    /\ UNCHANGED <<call, late, mode, ends, told, verdict, writer, fd, size, pos, data, part,
                   faults, watch>>

\* What was appended up to the size that was stat'ed, as lines; what is left
\* over waits for the next poll.
Pump ==
    /\ pc = "read"
    /\ LET cells == disk[at][fd]
           buf   == SubSeq(cells, pos + 1, IF size < Len(cells) THEN size ELSE Len(cells))
           news  == Parse(part[at] \o buf)
       IN /\ off' = [off EXCEPT ![at] = pos + Len(buf)]
          /\ Put(Records(at, news.lines))
          /\ part' = [part EXCEPT ![at] = news.rest]
    /\ Onward
    /\ UNCHANGED <<call, late, mode, ends, told, verdict, writer, fd, size, pos, data, faults, watch>>

\* ls and doctor: the allow-list, and a stat of each file.
Listed ==
    /\ Asked("file", {"ls"})
    /\ Produced([p \in Paths |-> p], FALSE)
    /\ UNCHANGED <<held, filevars>>

Checked ==
    /\ Asked("file", {"doctor"})
    /\ \E e \in {"none", "config"} : Diagnosed(e)
    /\ UNCHANGED filevars

FileStep ==
    \/ Open \/ TailOpen \/ TailFails \/ TailRead \/ TailEmit \/ TailDone
    \/ Tick \/ Transient \/ Stat \/ PumpOpen \/ Pump
    \/ Listed \/ Checked

-----------------------------------------------------------------------------
(* Properties *)

Output == IF mode = "none" THEN held ELSE shown

\* What was emitted of a file, with an empty line for each of another's.
LinesOf(p) == [i \in DOMAIN Output |-> IF Output[i].path = p THEN Output[i].line ELSE <<>>]

NotEmpty(lines) == FlattenSeq([i \in DOMAIN lines |-> IF lines[i] = <<>> THEN <<>> ELSE <<lines[i]>>])

\* The lines of a file that were emitted, but for the headers and empty ones.
Emitted(p) == NotEmpty(LinesOf(p))

\* Each cell is greater than those before it.
Ascending(lines) ==
    \A i, j \in DOMAIN lines : \A a \in DOMAIN lines[i], b \in DOMAIN lines[j] :
        i < j \/ (i = j /\ a < b) => lines[i][a] < lines[j][b]

\* What `tail -n -f` promises: the last lines of the file as it was when it was
\* opened, then each line that was finished since, up to the offset.
Promised(p) ==
    LET cells == Current(p)
        all   == Parse(SubSeq(cells, 1, base[p]))
        old   == IF all.rest = <<>> THEN all.lines ELSE Append(all.lines, all.rest)
        new   == Parse(SubSeq(cells, base[p] + 1, off[p]))
    IN NotEmpty(LastLines(old, call.tail)) \o NotEmpty(new.lines)

\* A file that was only ever appended to is shown as promised, whatever the
\* chunks and polls it was read in: nothing lost, nothing twice, nothing of a
\* line before its end, but for the one that was unfinished at the beginning.
\* And no cell of a file is shown twice or before an earlier one even if it is
\* truncated or rotated while it is followed.
FileTrue ==
    Chosen => \A p \in Paths :
        /\ p \notin hurt /\ base[p] >= 0 => Emitted(p) = Promised(p)
        /\ p \notin mixed => Ascending(LinesOf(p))

\* local_file.go:203-204, "A shrunken file (truncation/rotation) resets the
\* offset to 0": of a file that a poll has seen shrunken, and that was left in
\* place since, no cell before the offset is missing from the output.
ShrunkenIsReread ==
    \A p \in reset : pc = "tick" =>
        \A i \in 1 .. off[p] : i <= Len(Current(p)) /\ Current(p)[i] # NL =>
            \E l \in {part[p]} \union Range(Emitted(p)) : Current(p)[i] \in Range(l)
===============================================================================
