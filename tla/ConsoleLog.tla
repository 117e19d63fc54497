------------------------------ MODULE ConsoleLog ------------------------------
(***************************************************************************)
(* One `jcli log` of a build that may still run: the whole console, or     *)
(* with -f the part after an offset again and again until Jenkins says     *)
(* there is no more (cmd/jcli/log.go, internal/jcli/console.go).           *)
(*                                                                         *)
(* Jenkins is external: the console it keeps is a sequence of cells, each  *)
(* a line break or a piece of text, known to the command by its place.     *)
(***************************************************************************)
EXTENDS Naturals, Sequences, SequencesExt

CONSTANTS
    MaxCells,   \* bound: cells of the console
    MaxCuts     \* bound: answers whose body breaks off

ASSUME ConsoleAssumption == MaxCells \in Nat /\ MaxCuts \in Nat

VARIABLES
    console,    \* cell -> is it a line break?
    building,
    want,       \* [follow, raw, given]: flags, and was a build number given?
    spot,       \* the command's location
    start,      \* offset of the next request
    count,      \* records of the stream
    printed,    \* stdout: records, each a sequence of cells; Page for an error page
    closed,     \* what ended stdout: "", "end", "data" or "error"
    tally,      \* its audit lines: was each without an error?
    \* observed by the properties only
    cutoffs,    \* bodies that broke off
    pages       \* offsets spent on error pages

logvars == <<console, building, want, spot, start, count, printed, closed, tally, cutoffs, pages>>
jenkinslog == <<console, building>>

Page == <<0>>
Wants == [follow : BOOLEAN, raw : BOOLEAN, given : BOOLEAN]

ConsoleInit ==
    /\ console = <<>> /\ building \in BOOLEAN
    /\ want \in Wants
    /\ spot = "start"
    /\ start = 0 /\ count = 0 /\ printed = <<>> /\ closed = "" /\ tally = <<>>
    /\ cutoffs = 0 /\ pages = 0

-----------------------------------------------------------------------------
(* Jenkins *)

BuildPrints ==
    /\ building /\ Len(console) < MaxCells
    /\ \E break \in BOOLEAN : console' = Append(console, break)
    /\ UNCHANGED <<building, want, spot, start, count, printed, closed, tally, cutoffs, pages>>

BuildOver ==
    /\ building /\ building' = FALSE
    /\ UNCHANGED <<console, want, spot, start, count, printed, closed, tally, cutoffs, pages>>

-----------------------------------------------------------------------------
(* The command *)

LogGoto(l) == spot' = l

\* The audit line and the exit; stdout is closed by an envelope, which --output
\* raw leaves out, or by an error.
LogEnds(how) ==
    /\ LogGoto("over")
    /\ closed' = IF how # "error" /\ want.raw THEN "" ELSE how
    /\ tally' = Append(tally, how # "error")

\* A bad --output, a target that does not resolve, a job without builds, Jenkins
\* away or not letting us in; an answer that does not decode has no build.
LogRefused ==
    /\ \/ spot = "start"
       \/ spot \in {"last", "whole", "chunk"}
    /\ LogEnds("error")
    /\ UNCHANGED <<jenkinslog, want, start, count, printed, cutoffs, pages>>

LogTarget ==
    /\ spot = "start"
    /\ LogGoto(IF ~want.given THEN "last" ELSE IF want.follow THEN "chunk" ELSE "whole")
    /\ UNCHANGED <<jenkinslog, want, start, count, printed, closed, tally, cutoffs, pages>>

\* ResolveBuild
LastBuild ==
    /\ spot = "last"
    /\ LogGoto(IF want.follow THEN "chunk" ELSE "whole")
    /\ UNCHANGED <<jenkinslog, want, start, count, printed, closed, tally, cutoffs, pages>>

\* Console: all there is, and the envelope.
Whole ==
    /\ spot = "whole"
    /\ printed' = << [i \in DOMAIN console |-> i] >>
    /\ LogEnds("data")
    /\ UNCHANGED <<jenkinslog, want, start, count, cutoffs, pages>>

\* The records of a chunk: trailing breaks are trimmed, the rest is split.
Lines(cells) ==
    LET solid == {i \in DOMAIN cells : ~console[cells[i]]}
        end   == IF solid = {} THEN 0 ELSE CHOOSE i \in solid : \A j \in solid : j <= i
        split[n \in 0 .. end] ==
            IF n = 0 THEN << <<>> >>
            ELSE IF console[cells[n]] THEN Append(split[n - 1], <<>>)
            ELSE [split[n - 1] EXCEPT ![Len(split[n - 1])] = Append(@, cells[n])]
    IN split[end]

\* What a chunk adds to stdout.
Show(cells) ==
    LET new == IF cells = <<>> THEN <<>> ELSE IF want.raw THEN <<cells>> ELSE Lines(cells) IN
    /\ printed' = printed \o new
    /\ count' = IF want.raw THEN count ELSE count + Len(new)

\* X-More-Data is set while the build runs.
OnOrEnd(more) ==
    IF more THEN LogGoto("pause") /\ UNCHANGED <<closed, tally>> ELSE LogEnds("end")

\* The cells from the offset on, up to another one.
Chunk(upto) == [i \in 1 .. upto - start |-> start + i]

\* Seeded bug: a chunk without text is taken for the end.
FollowQuiet ==
    /\ spot = "chunk"
    /\ Show(Chunk(Len(console)))
    /\ start' = Len(console)
    /\ OnOrEnd(building /\ start < Len(console))
    /\ UNCHANGED <<jenkinslog, want, cutoffs, pages>>

\* ConsoleProgressive
Follow ==
    /\ spot = "chunk"
    /\ Show(Chunk(Len(console)))
    /\ start' = Len(console)
    /\ OnOrEnd(building)
    /\ UNCHANGED <<jenkinslog, want, cutoffs, pages>>

\* Seeded bug: the offset is advanced by what Jenkins announced.
FollowCutSkips ==
    /\ spot = "chunk" /\ cutoffs < MaxCuts
    /\ \E upto \in start .. Len(console) - 1 : Show(Chunk(upto))
    /\ start' = Len(console)
    /\ OnOrEnd(building)
    /\ cutoffs' = cutoffs + 1
    /\ UNCHANGED <<jenkinslog, want, pages>>

\* The body breaks off, which ConsoleProgressive does not look at.
FollowCut ==
    /\ spot = "chunk" /\ cutoffs < MaxCuts
    /\ \E upto \in start .. Len(console) - 1 : Show(Chunk(upto)) /\ start' = upto
    /\ OnOrEnd(building)
    /\ cutoffs' = cutoffs + 1
    /\ UNCHANGED <<jenkinslog, want, pages>>

\* Any status but 401 and 403 will do: an error page is shown like the console,
\* and has no X-More-Data.
FollowPage ==
    /\ spot = "chunk"
    /\ printed' = Append(printed, Page)
    /\ count' = IF want.raw THEN count ELSE count + 1
    /\ start' = start + 1 /\ pages' = pages + 1
    /\ OnOrEnd(FALSE)
    /\ UNCHANGED <<jenkinslog, want, cutoffs>>

\* A second later.
LogPause ==
    /\ spot = "pause"
    /\ LogGoto("chunk")
    /\ UNCHANGED <<jenkinslog, want, start, count, printed, closed, tally, cutoffs, pages>>

\* An interrupt: the context is Background, nothing notices.
LogKilled ==
    /\ spot \notin {"start", "over", "killed"}
    /\ LogGoto("killed")
    /\ UNCHANGED <<jenkinslog, want, start, count, printed, closed, tally, cutoffs, pages>>

LogStep == LogRefused \/ LogTarget \/ LastBuild \/ Whole
           \/ Follow \/ FollowCut \/ FollowPage \/ LogPause

-----------------------------------------------------------------------------
(* Properties *)

\* The cells that are shown, but for error pages.
Text(records) == {c \in UNION {Range(records[i]) : i \in DOMAIN records} : c > 0}

\* A record is an unbroken piece, and comes after the pieces before it.
InOrder(records) ==
    \A i, j \in DOMAIN records : \A a \in DOMAIN records[i], b \in DOMAIN records[j] :
        /\ i = j => records[j][b] + a = records[i][a] + b
        /\ i < j /\ records[i][a] > 0 /\ records[j][b] > 0 => records[i][a] < records[j][b]

\* The text of the console in order, nothing twice and nothing left out before
\* the offset; no record longer than a line.
TextShown ==
    /\ InOrder(printed)
    /\ want.follow =>
         Text(printed) = {c \in 1 .. start - pages : want.raw \/ ~console[c]}
    /\ ~want.follow => \E n \in 0 .. Len(console) : Text(printed) = 1 .. n
    /\ want.follow /\ ~want.raw => count = Len(printed)

\* A follow that ends well has shown everything, unless its last answer was cut or
\* was no console.
FollowComplete ==
    want.follow /\ closed # "error" /\ spot = "over" /\ pages = 0 /\ cutoffs = 0 =>
        ~building /\ start = Len(console)

\* One audit line tells how the command ended.
EndIsTold ==
    /\ Len(tally) = IF spot = "over" THEN 1 ELSE 0
    /\ spot = "over" => (tally[1] <=> closed # "error")

\* `jcli log` shows the console, to its end if it ends well, however its chunks
\* fall and break off, and says in the audit log how it ended.
ConsoleTrue == TextShown /\ FollowComplete /\ EndIsTold

\* A follow ends after its build has ended, and shows on the way what the build
\* prints, unless it is interrupted or Jenkins turns it away.
FollowEnds ==
    /\ ~building /\ spot # "start" ~> spot \in {"over", "killed"}
    /\ \A n \in 1 .. MaxCells :
         want.follow /\ spot = "chunk" /\ Len(console) >= n ~>
           spot \in {"over", "killed"} \/ start >= n
===============================================================================
