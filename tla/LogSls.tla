-------------------------------- MODULE LogSls --------------------------------
(***************************************************************************)
(* The Aliyun SLS adapter: search, trace and tail by pages of GetLogs      *)
(* (adapters/log/aliyun_sls).                                              *)
(*                                                                         *)
(* The log service is external: it holds rows, numbered by arrival, with   *)
(* the second each belongs to, and can be asked for a page of a window.  A *)
(* scan it has not finished ("Incomplete") gives any of the rows.  Rows    *)
(* come in all the time, under a search too, in the order of their seconds *)
(* and found at once: tail.go documents that later ones may be missed.     *)
(***************************************************************************)
EXTENDS LogRun

CONSTANTS
    MaxRows,    \* bound: rows of the logstore
    MaxClock,   \* bound: seconds
    PageRows,   \* MaxPerRequest
    Tries,      \* incompleteRetryCap
    MaxPatchy,  \* bound: pages used although their scan was incomplete
    LookBack    \* seconds before its start that a tail begins with

ASSUME SlsAssumption ==
    /\ {MaxRows, MaxPatchy, LookBack} \subseteq Nat
    /\ {MaxClock, PageRows, Tries} \subseteq Nat \ {0}

VARIABLES
    rows,      \* row -> its second
    clock,
    want,      \* rows still wanted (--size)
    newest,    \* --reverse: is a search to show the newest rows first?
    plain,     \* has trace fallen back to a full-text search?
    from, to,  \* the window of a tail
    offset,    \* rows of the window fetched
    try,       \* attempts at the current page
    \* observed by the properties only
    begun,     \* the second a tail began with; the rows a search could find then
    misses,    \* pages used although their scan was incomplete, ...
    patchy     \* ... and the positions of their rows in the result of a search,
               \* the seconds of their windows in a tail

slsvars == <<rows, clock, want, newest, plain, from, to, offset, try, begun, misses, patchy>>

Searches == {"search", "trace"}

SlsInit ==
    /\ rows \in IF call.source = "sls"
                THEN UNION {[1 .. n -> {0}] : n \in 0 .. MaxRows} ELSE {<<>>}
    /\ clock = 1
    /\ want \in IF call.verb \in Searches THEN 1 .. MaxRows ELSE {0}
    /\ newest \in IF call.verb = "search" THEN BOOLEAN ELSE {FALSE}
    /\ plain = FALSE
    /\ from = 0 /\ to = 0 /\ offset = 0 /\ try = 1
    /\ begun = 0 /\ misses = 0 /\ patchy = {}

-----------------------------------------------------------------------------
(* The service, and time *)

Arrive ==
    /\ ~Over /\ call.verb \in Searches \union {"tail"} /\ Len(rows) < MaxRows
    /\ rows' = Append(rows, clock)
    /\ UNCHANGED <<run, clock, want, newest, plain, from, to, offset, try, begun, misses, patchy>>

Second ==
    /\ ~Over /\ call.verb = "tail" /\ clock < MaxClock
    /\ clock' = clock + 1
    /\ UNCHANGED <<run, rows, want, newest, plain, from, to, offset, try, begun, misses, patchy>>

\* Some rows, in the order of their numbers.
InOrder(some) ==
    CHOOSE s \in [1 .. Cardinality(some) -> some] : \A i, j \in DOMAIN s : i < j => s[i] < s[j]

\* The rows of the window, in order; a search asks for all there are, the oldest
\* or the newest first.
Window ==
    IF call.verb = "tail"
    THEN InOrder({r \in DOMAIN rows : from <= rows[r] /\ rows[r] < to})
    ELSE [i \in 1 .. Len(rows) |-> IF newest THEN Len(rows) + 1 - i ELSE i]

\* Rows asked for in a request.
Line == IF call.verb = "tail" \/ want > PageRows THEN PageRows ELSE want

Page == SubSeq(Window, offset + 1,
               IF offset + Line < Len(Window) THEN offset + Line ELSE Len(Window))

\* A page of an incomplete scan: some rows of the window.
Scanned(some) ==
    LET places == InOrder(some) IN [k \in 1 .. Len(places) |-> Window[places[k]]]

\* What an incomplete page may have spoilt.
Spoilt(page) ==
    IF call.verb = "tail" THEN from .. to - 1 ELSE offset + 1 .. offset + Len(page)

Recorded(page, whole) ==
    IF whole THEN UNCHANGED <<misses, patchy>>
    ELSE misses' = misses + 1 /\ patchy' = patchy \union Spoilt(page)

-----------------------------------------------------------------------------
(* Search, Trace and Tail *)

Search ==
    /\ Asked("sls", Searches)
    /\ begun' = Len(rows)
    /\ pc' = "fetch"
    /\ UNCHANGED <<call, late, held, output, verdict, rows, clock, want, newest, plain, from, to,
                   offset, try, misses, patchy>>

TailRows ==
    /\ Asked("sls", {"tail"})
    /\ mode' = "stream"
    /\ pc' = "loop"
    /\ from' = (IF clock > LookBack THEN clock - LookBack ELSE 0) /\ begun' = from'
    /\ UNCHANGED <<call, late, held, shown, ends, told, verdict, rows, clock, want, newest, plain,
                   to, offset, try, misses, patchy>>

\* The next poll of a tail.
Poll ==
    /\ pc = "loop" /\ ~late
    /\ to' = clock /\ offset' = 0 /\ try' = 1
    /\ pc' = "fetch"
    /\ UNCHANGED <<call, late, held, output, verdict, rows, clock, want, newest, plain, from,
                   begun, misses, patchy>>

Ask ==
    /\ pc = "fetch" /\ ~late
    /\ pc' = "asked"
    /\ UNCHANGED <<call, late, held, output, verdict, slsvars>>

\* The context is done before a request, in a pause, or while rows are emitted.
TimesOut ==
    /\ late /\ pc \in {"loop", "fetch"}
    /\ Refuse("timeout")
    /\ UNCHANGED slsvars

\* An incomplete answer is asked for again, a few times.
AskAgain ==
    /\ pc = "asked" /\ try < Tries
    /\ try' = try + 1
    /\ pc' = "fetch"
    /\ UNCHANGED <<call, late, held, output, verdict, rows, clock, want, newest, plain, from, to,
                   offset, begun, misses, patchy>>

\* What a request may end with: it cannot be built, it fails, by the context too,
\* or it is turned down.
AskErrors == {"general", "remote", "auth"}

AskFails ==
    /\ pc = "asked"
    /\ \E e \in AskErrors : Refuse(e)
    /\ UNCHANGED slsvars

\* A trace field without an index: the id is searched for as text, from the
\* beginning.
Fallback ==
    /\ pc = "asked" /\ call.verb = "trace" /\ ~plain
    /\ plain' = TRUE
    /\ held' = <<>> /\ offset' = 0 /\ want' = want + offset /\ try' = 1
    /\ begun' = Len(rows) /\ patchy' = {}
    /\ pc' = "fetch"
    /\ UNCHANGED <<call, late, output, verdict, rows, clock, newest, from, to, misses>>

\* Rows of a tail are emitted until the context is done.
Interrupted(page, whole) ==
    /\ late /\ call.verb = "tail"
    /\ \E k \in 0 .. Len(page) - 1 : Put(SubSeq(page, 1, k))
    /\ Return("timeout")
    /\ Recorded(page, whole)
    /\ UNCHANGED <<mode, ends, told, rows, clock, want, newest, plain, from, to, offset, try,
                   begun>>

\* Seeded bug: a full page ends the window like a short one.
TakenOnce(page, whole) ==
    /\ Recorded(page, whole)
    /\ try' = 1
    /\ offset' = offset + Len(page)
    /\ want' = IF call.verb = "tail" THEN want ELSE want - Len(page)
    /\ IF call.verb = "tail"
       THEN from' = to /\ pc' = "loop" /\ Put(page) /\ UNCHANGED <<mode, ends, told, err>>
       ELSE Produced(held \o page, ~whole) /\ UNCHANGED <<held, from>>
    /\ UNCHANGED <<call, late, finals, rows, clock, newest, plain, to, begun>>

\* Seeded bug: the warning of an incomplete scan is forgotten.
TakenSilent(page, whole) ==
    /\ Recorded(page, whole)
    /\ try' = 1
    /\ offset' = offset + Len(page)
    /\ want' = IF call.verb = "tail" THEN want ELSE want - Len(page)
    /\ IF Len(page) = Line /\ (call.verb = "tail" \/ want' > 0)
       THEN pc' = "fetch" /\ Put(page) /\ UNCHANGED <<mode, ends, told, err, from>>
       ELSE IF call.verb = "tail"
       THEN pc' = "loop" /\ Put(page) /\ from' = to /\ UNCHANGED <<mode, ends, told, err>>
       ELSE Produced(held \o page, FALSE) /\ UNCHANGED <<held, from>>
    /\ UNCHANGED <<call, late, finals, rows, clock, newest, plain, to, begun>>

\* A full page is followed by another one; a short one ends the window of a
\* tail, or the search, whose last page says whether it was complete.
Taken(page, whole) ==
    /\ Recorded(page, whole)
    /\ try' = 1
    /\ offset' = offset + Len(page)
    /\ want' = IF call.verb = "tail" THEN want ELSE want - Len(page)
    /\ IF Len(page) = Line /\ (call.verb = "tail" \/ want' > 0)
       THEN pc' = "fetch" /\ Put(page) /\ UNCHANGED <<mode, ends, told, err, from>>
       ELSE IF call.verb = "tail"
       THEN pc' = "loop" /\ Put(page) /\ from' = to /\ UNCHANGED <<mode, ends, told, err>>
       ELSE Produced(held \o page, ~whole) /\ UNCHANGED <<held, from>>
    /\ UNCHANGED <<call, late, finals, rows, clock, newest, plain, to, begun>>

Answered ==
    /\ pc = "asked"
    /\ Taken(Page, TRUE) \/ Interrupted(Page, TRUE)

\* The scan was still incomplete at the last attempt: its rows are used.
Patchy ==
    /\ pc = "asked" /\ try = Tries /\ misses < MaxPatchy
    /\ \E some \in SUBSET DOMAIN Window :
        /\ Cardinality(some) <= Line
        /\ Taken(Scanned(some), FALSE) \/ Interrupted(Scanned(some), FALSE)

\* doctor: one small search, then the checks.
Probed ==
    /\ Asked("sls", {"doctor"})
    /\ \E e \in {"none"} \union AskErrors \union (IF late THEN {"timeout"} ELSE {}) :
          Diagnosed(e)
    /\ UNCHANGED slsvars

SlsStep ==
    \/ Search \/ TailRows \/ Poll \/ Ask \/ TimesOut \/ AskAgain \/ AskFails \/ Fallback
    \/ Answered \/ Patchy \/ Probed

-----------------------------------------------------------------------------
(* Properties *)

\* A search shows at each place, but where an incomplete page was used, the row
\* that belongs there: of the rows there were when the page was asked for, which
\* the pages of a newest-first search may repeat while rows come in, but never
\* skip.  Without a warning its last page was complete, and it ended because it
\* had all it wanted, or all there was when it began.
SearchTrue ==
    LET sound == DOMAIN shown \ patchy IN
      /\ \A i \in sound :
           IF newest THEN shown[i] + i - 1 \in begun .. Len(rows) ELSE shown[i] = i
      /\ newest => \A i, j \in sound : i < j => shown[i] + i <= shown[j] + j
      /\ ~told => IF want = 0 THEN Len(shown) \notin patchy ELSE Len(shown) >= begun
      /\ told => misses > 0

\* A tail shows each row of its windows once, in order and without a gap, but for
\* the seconds of a window in which it used an incomplete page: no row before
\* the one it shows is left out, and none of a window it has closed.
TailTrue ==
    LET Sound(r)  == rows[r] \notin patchy
        AllTo(r)  == \A q \in DOMAIN rows :
                       q < r /\ begun <= rows[q] /\ Sound(q) => \E k \in DOMAIN shown : shown[k] = q
    IN
      /\ \A i \in DOMAIN shown :
           /\ begun <= rows[shown[i]]
           /\ Sound(shown[i]) => AllTo(shown[i])
      /\ \A i, j \in DOMAIN shown :
           i < j /\ Sound(shown[i]) /\ Sound(shown[j]) => shown[i] < shown[j]
      /\ pc = "loop" =>
           \A r \in DOMAIN rows :
             begun <= rows[r] /\ rows[r] < from /\ Sound(r) => \E k \in DOMAIN shown : shown[k] = r

\* What the SLS adapter shows is what is in the logstore.
SlsTrue ==
    /\ mode = "batch" /\ call.verb \in Searches => SearchTrue
    /\ call.verb = "tail" => TailTrue
===============================================================================
