------------------------------- MODULE MongoRun -------------------------------
(***************************************************************************)
(* The mongo driver of dbcli (adapters/db/mongo): a statement is parsed,   *)
(* guarded by its method and its arguments, and carried out by one call of *)
(* the client library; documents come through a cursor, batch by batch.    *)
(* The server and the library are external.                                *)
(***************************************************************************)
EXTENDS MongoStatement, FiniteSets

CONSTANTS
    DocCap,    \* defaultDocCap and maxDocCap
    Texts      \* bound: what may be asked, [text, stm]: a text and the
               \* statement it means

Kinds == {"doc", "array", "string", "digits", "int", "null", "other"}
IsValue(v) == v.kind \in Kinds /\ v.num \in Int
IsStatement(s) ==
    /\ Len(s.args) \in Nat /\ \A i \in 1 .. Len(s.args) : IsValue(s.args[i])
    /\ \A i \in DOMAIN s.mods : IsValue(s.mods[i].arg)

\* What the parser makes of a text is a statement.
ASSUME MongoAssumption ==
    /\ DocCap \in Nat \ {0}
    /\ \A t \in Texts : IsStatement(ParseStatement(t.text))

VARIABLES
    given,     \* the invocation: [verb, input, allow]
    stage,     \* where the driver is
    stm,       \* the statement as it was parsed
    request,   \* what was sent: [what, limit], "nothing" before
    op,        \* the operation at the server
    stock,     \* documents (values, changes) that answer it
    got,       \* documents that came
    lost,      \* is the cursor lost?
    final      \* [kind, size, warned]

mongovars == <<given, stage, stm, request, op, stock, got, lost, final>>

ReadMethods  == {"find", "findOne", "aggregate", "countDocuments", "distinct"}
WriteMethods == {"insertOne", "insertMany", "updateMany", "deleteMany", "findOneAndDelete"}

NotAsked == [text |-> <<>>, stm |-> NoStatement]
MongoCalls ==
    [verb : {"statement"}, input : Texts, allow : BOOLEAN]
    \union [verb : {"databases", "tables", "describe", "doctor"}, input : {NotAsked}, allow : {FALSE}]

NoRequest == [what |-> "nothing", limit |-> 0]
NoFinal   == [kind |-> "none", size |-> 0, warned |-> FALSE]

MongoInit ==
    /\ given \in MongoCalls
    /\ stage = "attach" /\ stm = NoStatement /\ request = NoRequest
    /\ op = "none" /\ stock = 0 /\ got = 0 /\ lost = FALSE /\ final = NoFinal

Proceeds(here, there) == stage = here /\ stage' = there
Finishes(kind, size, warned) ==
    /\ stage' = "over"
    /\ final' = [kind |-> kind, size |-> size, warned |-> warned]
Rejects == Finishes("config", 0, FALSE)
Breaks  == Finishes("remote", 0, FALSE)

atServer == <<request, op, stock, got, lost>>

-----------------------------------------------------------------------------
(* Run, connect *)

Attach ==
    /\ Proceeds("attach", IF given.verb = "statement" THEN "parse" ELSE "discover")
    /\ UNCHANGED <<given, stm, atServer, final>>

\* No statement, a target or URI that is wrong; the first ping.  A deadline that has
\* passed is not told from other failures, here and below.
AttachFails ==
    /\ stage = "attach"
    /\ \E e \in {"config", "auth", "remote"} : Finishes(e, 0, FALSE)
    /\ UNCHANGED <<given, stm, atServer>>

\* The ping was answered already.  The indexes of `describe` are those that came
\* before its cursor was lost.
Discover ==
    /\ stage = "discover"
    /\ Finishes("data", 1, FALSE)
    /\ UNCHANGED <<given, stm, atServer>>

DiscoverFails ==
    /\ stage = "discover" /\ given.verb # "doctor"
    /\ \/ Breaks
       \/ given.verb = "describe" /\ Rejects
    /\ UNCHANGED <<given, stm, atServer>>

ParseIt ==
    /\ stage = "parse"
    /\ stm' = ParseStatement(given.input.text)
    /\ IF stm' = NoStatement THEN Rejects ELSE stage' = "guard" /\ UNCHANGED final
    /\ UNCHANGED <<given, atServer>>

-----------------------------------------------------------------------------
(* The guards *)

Arity == Len(stm.args)
HasServerJS(v) == v.keys \intersect JSKeys # {}
AggregateWrites(v) == v.keys \intersect OutKeys # {}

\* Seeded bug: only the first argument is looked at.
HasJSFirst == Arity > 0 /\ HasServerJS(stm.args[1])

HasJS == \E i \in 1 .. Arity : HasServerJS(stm.args[i])

Writes ==
    \/ stm.method \in WriteMethods
    \/ stm.method = "aggregate" /\ Arity > 0 /\ AggregateWrites(stm.args[1])

\* A method that is not known, a $where, a change.
Forbids ==
    /\ stage = "guard"
    /\ \/ stm.method \notin ReadMethods \union WriteMethods
       \/ HasJS
       \/ Writes /\ ~given.allow
    /\ Rejects
    /\ UNCHANGED <<given, stm, atServer>>

Admits ==
    /\ Proceeds("guard", "prepare")
    /\ stm.method \in ReadMethods \union WriteMethods /\ ~HasJS
    /\ Writes => given.allow
    /\ UNCHANGED <<given, stm, atServer, final>>

-----------------------------------------------------------------------------
(* Execute *)

NumberIn(v) == IF v.kind = "int" THEN v.num ELSE 0      \* asInt64

\* The number in the first .limit(), if there is one.
Limit == {NumberIn(stm.mods[i].arg) : i \in
            {i \in DOMAIN stm.mods : /\ stm.mods[i].name = "limit"
                                    /\ \A j \in 1 .. i - 1 : stm.mods[j].name # "limit"}}

\* Seeded bug: a limit of 0 is passed on, which means no limit to the server.
FindLimitZero == IF \E n \in Limit : n >= 0 THEN CHOOSE n \in Limit : n >= 0 ELSE DocCap

\* 0, a negative limit and one that is no number are the default.
FindLimit == IF \E n \in Limit : n > 0 THEN CHOOSE n \in Limit : n > 0 ELSE DocCap

Supported == {"limit", "sort", "skip", "projection", "hint", "toArray", "pretty"}

\* The arguments that a method asks for; modifiers are looked at by find only.
Fit ==
    LET m == stm.method
    IN  /\ m \in {"find", "findOne"} =>
             FindLimit <= DocCap /\ \A i \in DOMAIN stm.mods : stm.mods[i].name \in Supported
        /\ m \in {"distinct", "insertOne", "insertMany"} => Arity >= 1
        /\ m = "updateMany" => Arity >= 2
        /\ m = "distinct" => IsString(stm.args[1])
        /\ m = "insertMany" \/ (m = "aggregate" /\ Arity > 0) => stm.args[1].kind = "array"

RejectArgs ==
    /\ stage = "prepare" /\ ~Fit
    /\ Rejects
    /\ UNCHANGED <<given, stm, atServer>>

\* An argument that the library cannot encode is its error, and nothing is sent.
Request ==
    /\ Proceeds("prepare", "wait") /\ Fit
    /\ request' = [what |-> stm.method,
                   limit |-> CASE stm.method = "find" -> FindLimit
                               [] stm.method = "findOne" -> 1
                               [] OTHER -> 0]
    /\ op' = "running"
    /\ UNCHANGED <<given, stm, stock, got, lost, final>>

RequestFails ==
    /\ stage = "prepare" /\ Fit
    /\ Breaks
    /\ UNCHANGED <<given, stm, atServer>>

Cursored == stm.method \in {"find", "findOne", "aggregate"}

\* Distinct values are cut here; changes and counts are a number.
Reply ==
    /\ stage = "wait" /\ op = "done"
    /\ \/ Cursored /\ stage' = "fetch" /\ UNCHANGED final
       \/ stm.method = "distinct" /\ stock <= DocCap /\ Finishes("data", stock, FALSE)
       \/ stm.method = "distinct" /\ stock > DocCap /\ Finishes("data", DocCap, TRUE)
       \/ /\ ~Cursored /\ stm.method # "distinct"
          /\ Finishes("data", IF stm.method = "insertOne" THEN 1 ELSE stock, FALSE)
    /\ UNCHANGED <<given, stm, atServer>>

\* The server's error, a connection that breaks, a context that is done: whatever
\* the server did, or goes on to do.
ReplyFails ==
    /\ stage = "wait"
    /\ Breaks
    /\ UNCHANGED <<given, stm, atServer>>

-----------------------------------------------------------------------------
(* The cursor *)

\* What the server gives of it: no more than the limit, if that is not 0.
Available == IF request.limit = 0 \/ stock < request.limit THEN stock ELSE request.limit
Full == stm.method = "aggregate" /\ got >= DocCap

Fetch ==
    /\ stage = "fetch" /\ ~lost /\ got < Available /\ ~Full
    /\ got' = got + 1
    /\ UNCHANGED <<given, stage, stm, request, op, stock, lost, final>>

\* Another document than the last one that aggregate gives.
Overflows ==
    /\ stage = "fetch" /\ ~lost /\ got < Available /\ Full
    /\ Finishes("data", got, TRUE)
    /\ UNCHANGED <<given, stm, atServer>>

\* The next batch does not come.
LoseCursor ==
    /\ stage = "fetch" /\ ~lost /\ got < Available
    /\ lost' = TRUE
    /\ UNCHANGED <<given, stage, stm, request, op, stock, got, final>>

\* Seeded bug: cur.Err is not asked.
FetchEndsAnyhow ==
    /\ stage = "fetch" /\ (lost \/ got = Available)
    /\ Finishes("data", got, FALSE)
    /\ UNCHANGED <<given, stm, atServer>>

FetchEnds ==
    /\ stage = "fetch" /\ (lost \/ got = Available)
    /\ IF lost THEN Breaks ELSE Finishes("data", got, FALSE)
    /\ UNCHANGED <<given, stm, atServer>>

\* The server ends: with what answers, or with a part of the changes made.
OpEnds ==
    /\ op = "running"
    /\ \/ op' = "done" /\ stock' \in IF stm.method = "insertOne" THEN {1} ELSE 0 .. DocCap + 1
       \/ op' = "failed" /\ UNCHANGED stock
    /\ UNCHANGED <<given, stage, stm, request, got, lost, final>>

MongoDriver ==
    \/ Attach \/ AttachFails \/ Discover \/ DiscoverFails \/ ParseIt
    \/ Forbids \/ Admits \/ RejectArgs \/ Request \/ RequestFails
    \/ Reply \/ ReplyFails \/ Fetch \/ Overflows \/ FetchEnds

MongoNext == MongoDriver \/ LoseCursor \/ OpEnds

MongoSpec == MongoInit /\ [][MongoNext]_mongovars

-----------------------------------------------------------------------------
(* Properties *)

MongoTypeOK ==
    /\ given \in MongoCalls
    /\ stage \in {"attach", "discover", "parse", "guard", "prepare", "wait", "fetch", "over"}
    /\ IsStatement(stm)
    /\ request \in [what : {"nothing"} \union ReadMethods \union WriteMethods, limit : 0 .. DocCap]
    /\ op \in {"none", "running", "done", "failed"}
    /\ stock \in Nat /\ got \in 0 .. stock /\ lost \in BOOLEAN
    /\ final \in [kind : {"none", "data", "config", "auth", "remote"}, size : Nat, warned : BOOLEAN]

\* What was meant by the text (not what was made of it): it writes, or runs
\* JavaScript at the server.
Meant == given.input.stm
MeansWrite ==
    \/ Meant.method \in WriteMethods
    \/ Meant.method = "aggregate" /\ Len(Meant.args) > 0 /\ AggregateWrites(Meant.args[1])
MeansJS == \E i \in 1 .. Len(Meant.args) : HasServerJS(Meant.args[i])

\* A text is taken for what it means, and nothing is sent for one that means no
\* statement, that has JavaScript in the arguments of its method, that writes
\* without --allow-write, or that is refused.  Never more than DocCap documents are
\* asked for, and those given are all that there are, unless a limit or a warning
\* says otherwise.  (A text without the parenthesis that closes MinKey( is no
\* statement, but it is plain which one it means: value.go:401 takes it.)
MongoServed ==
    /\ stm # NoStatement => stm = Meant
    /\ op # "none" =>
         /\ Meant # NoStatement /\ ~MeansJS /\ (MeansWrite => given.allow)
         /\ request.what = Meant.method
         /\ request.what \in {"find", "findOne"} => request.limit \in 1 .. DocCap
    /\ final.kind = "config" => op = "none"
    /\ final.kind = "data" /\ given.verb = "statement" =>
         /\ op = "done"
         /\ Meant.method \notin WriteMethods \union {"countDocuments"} => final.size <= DocCap
         /\ ~final.warned => final.size = Available
===============================================================================
