------------------------------ MODULE AuditTrail ------------------------------
(***************************************************************************)
(* What the audit package promises to a reader of the audit directory: one *)
(* append-only log per UTC day.  A record only ever lands at the end of    *)
(* its day's log, nothing that landed is changed or moved, and a log       *)
(* disappears only as a whole and only once its day has left the retention *)
(* window.  How the writers of many processes agree on "the end" is the    *)
(* business of module Audit, which implements this one.                    *)
(***************************************************************************)
EXTENDS Naturals, Sequences

CONSTANTS Days,        \* the calendar
          Retention,   \* days a day-file is kept
          Cells        \* what one append leaves in a file

VARIABLES today, log

trail == <<today, log>>

TrailInit ==
    /\ today = 1
    /\ log = [d \in Days |-> <<>>]

AppendTo(d) ==
    /\ \E c \in Cells : log' = [log EXCEPT ![d] = Append(@, c)]
    /\ UNCHANGED today

Expire(d) ==
    /\ d + Retention < today
    /\ log' = [log EXCEPT ![d] = <<>>]
    /\ UNCHANGED today

NextDay ==
    /\ today + 1 \in Days
    /\ today' = today + 1
    /\ UNCHANGED log

TrailNext ==
    \/ \E d \in Days : AppendTo(d) \/ Expire(d)
    \/ NextDay

TrailSpec == TrailInit /\ [][TrailNext]_trail
===============================================================================
