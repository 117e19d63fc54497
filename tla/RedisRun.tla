------------------------------- MODULE RedisRun -------------------------------
(***************************************************************************)
(* The redis driver of dbcli (adapters/db/redis): one call of its Run.  A  *)
(* command goes out on a connection of the client's pool, beside a         *)
(* goroutine that kills that connection when the context is done; `tables` *)
(* walks the keys with SCAN; the other verbs are a request or two.         *)
(*                                                                         *)
(* The server is external, and so is the client library: a command may fail*)
(* while the server still works on it, and it is sent again on another     *)
(* connection as long as the context is not done.                          *)
(***************************************************************************)
EXTENDS Naturals, FiniteSets

CONSTANTS
    RowCap,    \* rowCap and scanCap
    Keys,      \* the keys that match
    Buckets    \* bound: buckets of the hash table, of which a SCAN visits one

ASSUME RedisAssumption == RowCap \in Nat /\ Buckets \in Nat \ {0} /\ IsFiniteSet(Keys)

VARIABLES
    ask,       \* the call: [verb, class, allow]
    spot,      \* where the driver is
    due,       \* is the context done?
    id,        \* is the id of connection 1 known?
    killer,    \* the goroutine of doWithCancel
    stopped,   \* is its stop channel closed?
    kill,      \* what became of CLIENT KILL
    conn,      \* the connection that the command went to last
    work,      \* connection -> the command at the server
    reply,     \* connection -> the number of elements of its reply
    told,      \* was the context done when the command returned?
    bucket,    \* key -> its bucket
    cursor,    \* buckets that SCAN has not visited
    listed,    \* the keys that SCAN gave, and in how many rows
    found,
    result     \* [kind, rows, warned]

asking    == <<spot, result>>
killing   == <<id, killer, stopped, kill, told>>
serving   == <<conn, work, reply>>
scanning  == <<cursor, listed, found>>
redisvars == <<ask, bucket, due, asking, killing, serving, scanning>>

Conns == {1, 2}

RedisCalls ==
    [verb : {"command"}, class : {"read", "write", "admin"}, allow : BOOLEAN]
    \union [verb : {"tables", "databases", "describe", "doctor"}, class : {"read"}, allow : {FALSE}]

NoResult == [kind |-> "none", rows |-> 0, warned |-> FALSE]
Min2(a, b) == IF a < b THEN a ELSE b

RedisInit ==
    /\ ask \in RedisCalls /\ bucket \in [Keys -> 1 .. Buckets]
    /\ ask.verb # "tables" => \A k \in Keys : bucket[k] = 1
    /\ spot = "start" /\ due = FALSE /\ result = NoResult
    /\ id = FALSE /\ killer = "none" /\ stopped = FALSE /\ kill = "no" /\ told = FALSE
    /\ conn = 1 /\ work = [c \in Conns |-> "none"] /\ reply = [c \in Conns |-> 0]
    /\ cursor = Buckets /\ listed = {} /\ found = 0

At(here, there) == spot = here /\ spot' = there
Ends(kind) == spot' = "over" /\ result' = [NoResult EXCEPT !.kind = kind]

\* wrapErr: the context's error is a timeout, and so is a dial that the library
\* itself gives up (DialTimeout), with the context done or not.
Errs == {"remote", "timeout"}

-----------------------------------------------------------------------------
(* Run, connect *)

\* No command; an address that is not valid, a database that is no number; a
\* `describe` without a key.
Misasked ==
    /\ spot \in {"start", "dispatch"}
    /\ spot = "dispatch" => ask.verb = "describe"
    /\ Ends("config")
    /\ UNCHANGED <<ask, bucket, due, killing, serving, scanning>>

Reach ==
    /\ At("start", "dispatch")
    /\ UNCHANGED <<ask, bucket, due, result, killing, serving, scanning>>

\* The tunnel, the connection, the first PING.
ReachFails ==
    /\ spot = "start"
    /\ \E e \in Errs \union {"auth"} : Ends(e)
    /\ UNCHANGED <<ask, bucket, due, killing, serving, scanning>>

\* `databases` falls back on "0"; of `describe` only the first request need be
\* answered.
Inform ==
    /\ spot = "dispatch" /\ ask.verb \in {"databases", "describe", "doctor"}
    /\ Ends("data")
    /\ UNCHANGED <<ask, bucket, due, killing, serving, scanning>>

InformFails ==
    /\ spot = "dispatch" /\ ask.verb \in {"describe", "doctor"}
    /\ \E e \in Errs : Ends(e)
    /\ UNCHANGED <<ask, bucket, due, killing, serving, scanning>>

-----------------------------------------------------------------------------
(* runCommand, doWithCancel *)

Permitted == ask.class = "read" \/ (ask.class = "write" /\ ask.allow)

Deny ==
    /\ spot = "dispatch" /\ ask.verb = "command" /\ ~Permitted
    /\ Ends("config")
    /\ UNCHANGED <<ask, bucket, due, killing, serving, scanning>>

\* CLIENT ID is answered, by the connection that it went to.
Identify ==
    /\ At("dispatch", "issue") /\ ask.verb = "command" /\ Permitted
    /\ id' = TRUE /\ killer' = "armed"
    /\ UNCHANGED <<ask, bucket, due, result, stopped, kill, told, serving, scanning>>

\* Without an id the command is run all the same.
Anonymous ==
    /\ At("dispatch", "issue") /\ ask.verb = "command" /\ Permitted
    /\ UNCHANGED <<ask, bucket, due, result, killing, serving, scanning>>

\* The pool gives no connection when the context is done, and never the killed
\* one; it need not give the one that told its id.
Issue ==
    /\ At("issue", "wait") /\ ~due
    /\ \E c \in Conns :
        /\ conn' = c /\ work' = [work EXCEPT ![c] = "running"]
    /\ UNCHANGED <<ask, bucket, due, result, killing, reply, scanning>>

Reissue ==
    /\ spot = "wait" /\ ~due /\ conn = 1
    /\ conn' = 2 /\ work' = [work EXCEPT ![2] = "running"]
    /\ UNCHANGED <<ask, bucket, due, asking, killing, reply, scanning>>

CommandReturns ==
    /\ At("wait", "returned") /\ work[conn] = "done"
    /\ result' = [NoResult EXCEPT !.kind = "value"]
    /\ UNCHANGED <<ask, bucket, due, killing, serving, scanning>>

\* An error reply, a connection that breaks or says nothing for too long, or a
\* context that is done.
CommandFails ==
    /\ spot = "wait" \/ (spot = "issue" /\ due)
    /\ spot' = "returned"
    /\ \E e \in Errs : result' = [NoResult EXCEPT !.kind = e]
    /\ UNCHANGED <<ask, bucket, due, killing, serving, scanning>>

\* Seeded bug: the killer is always called off, so that it may miss its context.
StopAlways ==
    /\ At("returned", IF killer = "none" THEN "shape" ELSE "join")
    /\ told' = due /\ stopped' = TRUE
    /\ UNCHANGED <<ask, bucket, due, result, id, killer, kill, serving, scanning>>

\* Called off, unless the context is done: then it kills.
Stop ==
    /\ At("returned", IF killer = "none" THEN "shape" ELSE "join")
    /\ told' = due /\ stopped' = ~due
    /\ UNCHANGED <<ask, bucket, due, result, id, killer, kill, serving, scanning>>

\* Seeded bug: the killer is not waited for.
JoinAtOnce ==
    /\ At("join", "shape")
    /\ UNCHANGED <<ask, bucket, due, result, killing, serving, scanning>>

Join ==
    /\ At("join", "shape") /\ killer = "done"
    /\ UNCHANGED <<ask, bucket, due, result, killing, serving, scanning>>

\* Seeded bug: a reply is cut without a warning when it is longer by one.
ShapeShort ==
    /\ spot = "shape" /\ spot' = "over"
    /\ result' = IF result.kind # "value" THEN result
                 ELSE [kind |-> "data", rows |-> Min2(reply[conn], RowCap),
                       warned |-> reply[conn] > RowCap + 1]
    /\ UNCHANGED <<ask, bucket, due, killing, serving, scanning>>

\* A reply is cut at RowCap, that to a write is a number.
Shape ==
    /\ spot = "shape" /\ spot' = "over"
    /\ result' =
        IF result.kind # "value" THEN result
        ELSE IF ask.class = "write" THEN [kind |-> "data", rows |-> 1, warned |-> FALSE]
        ELSE [kind |-> "data", rows |-> Min2(reply[conn], RowCap), warned |-> reply[conn] > RowCap]
    /\ UNCHANGED <<ask, bucket, due, killing, serving, scanning>>

-----------------------------------------------------------------------------
(* listTables *)

BeginScan ==
    /\ At("dispatch", "scan") /\ ask.verb = "tables"
    /\ UNCHANGED <<ask, bucket, due, result, killing, serving, scanning>>

\* Seeded bug: an empty page is taken for the last one.
ScanEmpty ==
    /\ At("scan", "scan") /\ found < RowCap /\ cursor > 0
    /\ LET page == {k \in Keys : bucket[k] = cursor}
       IN /\ listed' = listed \union page
          /\ found' = found + Cardinality(page)
          /\ cursor' = IF page = {} THEN 0 ELSE cursor - 1
    /\ UNCHANGED <<ask, bucket, due, result, killing, serving>>

\* A page holds the keys of a bucket, maybe none, and maybe one again that an
\* earlier page held.
Scan ==
    /\ At("scan", "scan") /\ found < RowCap /\ cursor > 0
    /\ LET page == {k \in Keys : bucket[k] = cursor}
       IN /\ listed' = listed \union page
          /\ \E again \in {0} \union {1 : k \in listed} : found' = found + Cardinality(page) + again
    /\ cursor' = cursor - 1
    /\ UNCHANGED <<ask, bucket, due, result, killing, serving>>

ScanFails ==
    /\ spot = "scan" /\ found < RowCap /\ cursor > 0
    /\ \E e \in Errs : Ends(e)
    /\ UNCHANGED <<ask, bucket, due, killing, serving, scanning>>

ScanEnds ==
    /\ spot = "scan" /\ (found >= RowCap \/ cursor = 0)
    /\ spot' = "over"
    /\ result' = [kind |-> "data", rows |-> Min2(found, RowCap), warned |-> found >= RowCap]
    /\ UNCHANGED <<ask, bucket, due, killing, serving, scanning>>

-----------------------------------------------------------------------------
(* The goroutine of doWithCancel *)

KillerWakes ==
    /\ killer = "armed" /\ due
    /\ killer' = "killing"
    /\ UNCHANGED <<ask, bucket, due, asking, id, stopped, kill, told, serving, scanning>>

KillerQuits ==
    /\ killer = "armed" /\ stopped
    /\ killer' = "done"
    /\ UNCHANGED <<ask, bucket, due, asking, id, stopped, kill, told, serving, scanning>>

\* CLIENT KILL breaks connection 1; what it runs is lost.
KillsConn ==
    /\ killer = "killing" /\ killer' = "done"
    /\ kill' = "arrived"
    /\ work' = [work EXCEPT ![1] = IF @ = "running" THEN "dead" ELSE @]
    /\ UNCHANGED <<ask, bucket, due, asking, id, stopped, told, conn, reply, scanning>>

\* Refused, or not answered within five seconds.
KillFails ==
    /\ killer = "killing" /\ killer' = "done"
    /\ kill' = "lost"
    /\ UNCHANGED <<ask, bucket, due, asking, id, stopped, told, serving, scanning>>

-----------------------------------------------------------------------------
(* The server, the clock and the user *)

ServerReplies ==
    /\ \E c \in Conns :
        /\ work[c] = "running"
        /\ work' = [work EXCEPT ![c] = "done"]
        /\ reply' \in {[reply EXCEPT ![c] = n] : n \in 0 .. RowCap + 1}
    /\ UNCHANGED <<ask, bucket, due, asking, killing, conn, scanning>>

DueNow ==
    /\ ~due /\ spot # "over" /\ due' = TRUE
    /\ UNCHANGED <<ask, bucket, asking, killing, serving, scanning>>

Driver ==
    \/ Misasked \/ Reach \/ ReachFails \/ Inform \/ InformFails
    \/ Deny \/ Identify \/ Anonymous \/ Issue \/ CommandReturns \/ CommandFails
    \/ Stop \/ Join \/ Shape \/ BeginScan \/ Scan \/ ScanFails \/ ScanEnds

Killer == KillerWakes \/ KillerQuits \/ KillsConn \/ KillFails

RedisNext == Driver \/ Reissue \/ Killer \/ ServerReplies \/ DueNow

RedisSpec == RedisInit /\ [][RedisNext]_redisvars

-----------------------------------------------------------------------------
(* Properties *)

RedisTypeOK ==
    /\ ask \in RedisCalls /\ bucket \in [Keys -> 1 .. Buckets]
    /\ spot \in {"start", "dispatch", "issue", "wait", "returned", "join", "shape", "scan", "over"}
    /\ {due, id, stopped, told} \subseteq BOOLEAN
    /\ killer \in {"none", "armed", "killing", "done"} /\ kill \in {"no", "arrived", "lost"}
    /\ conn \in Conns /\ work \in [Conns -> {"none", "running", "done", "dead"}]
    /\ reply \in [Conns -> Nat]
    /\ cursor \in 0 .. Buckets /\ listed \subseteq Keys /\ found \in Nat
    /\ result \in [kind : {"none", "value", "data", "config", "auth", "timeout", "remote"},
                   rows : Nat, warned : BOOLEAN]

\* What the call gives is true of the server: a command that is not permitted
\* never gets there, data come of a reply to this command, and what is missing of
\* a reply or of the keys is warned of, however SCAN spreads them over its pages.
\* A call that was told to stop has sent its CLIENT KILL when it returns, and no
\* command runs on the connection that it killed.
RedisServed ==
    /\ \A c \in Conns : work[c] # "none" => Permitted
    /\ result.kind = "data" /\ ask.verb = "command" => work[conn] = "done"
    /\ result.kind = "data" /\ ask.verb = "command" /\ ask.class = "read" =>
         /\ result.rows <= RowCap
         /\ ~result.warned => result.rows = reply[conn]
    /\ result.kind = "data" /\ ask.verb = "tables" /\ ~result.warned => listed = Keys
    /\ spot = "over" /\ id /\ told => kill # "no"
    /\ kill = "arrived" => work[1] # "running"
    /\ spot = "over" => killer \in {"none", "done"}
===============================================================================
