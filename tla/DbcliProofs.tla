----------------------------- MODULE DbcliProofs -----------------------------
(***************************************************************************)
(* What holds of dbcli. First of DbRun, for any number of rows: what a     *)
(* finished invocation reports agrees with what the server did with its    *)
(* statement, nothing reaches the server before the guards and the audit   *)
(* log, and there is one verdict. The properties speak of the end of a run *)
(* (or of what the server got at some time); the inductive invariant says  *)
(* what holds on the way there.                                            *)
(*                                                                         *)
(* Then of the other drivers: of dataease for any number of commands and   *)
(* sites, of redis whatever the cap, the keys and the pages, of mongo for  *)
(* every set of texts.                                                     *)
(*                                                                         *)
(* At the end: a behaviour of dbcli is a behaviour of each of its drivers, *)
(* of which those that do not run stutter; so that what is proved of the   *)
(* drivers holds of dbcli.                                                 *)
(***************************************************************************)
EXTENDS Dbcli, FiniteSetTheorems, TLAPS

\* Where nothing has been sent yet, and where the driver has not failed yet
Unsent  == {"resolve", "begin", "dial", "handshake", "guard", "connect", "use",
            "backend", "limit"}
Running == Unsent \union {"send", "wait", "rows", "emit"}
\* Where the driver has returned, its error is known and nothing is printed yet
Leaving == {"unwind", "release", "untunnel", "finish", "print"}
Statement == call.verb \in {"sql", "insert"}

\* Which verb leads where.
Route ==
    /\ pc \in {"guard", "connect", "use", "backend", "limit"} => Statement
    /\ pc = "rows" => call.verb = "insert"
    /\ pc = "emit" => call.verb \in {"sql", "catalog"}

\* Nothing is on the server before it is sent; afterwards, it had passed the
\* guards and, except for doctor, was on record.
Sent ==
    /\ pc \in Unsent \union {"send"} => server = "idle"
    /\ (pc \in {"connect", "use", "backend", "limit", "send"} /\ Statement)
            \/ (server # "idle" /\ Statement) => ~Refused
    /\ (pc \in Running \ {"resolve", "begin"} \/ server # "idle")
            /\ call.verb # "doctor" => started = call.write

\* Where an error can come from.
Blame ==
    /\ pc \in Running => err = "none"
    /\ err = "timeout" => ctxDone
    /\ err = "config" /\ call.verb # "catalog" => server = "idle"

\* The database is chosen on the pinned connection before the statement.
Chosen ==
    /\ pc \in Unsent \ {"use", "backend", "limit"} => ~pinned
    /\ Statement /\ call.database /\ pinned
            /\ (pc \in Running \ {"use"} \/ (err = "none" /\ pc \in Leaving \union {"exited"}))
       => used

\* A driver that returned without an error got its answer.
Completed ==
    err = "none" /\ pc \in {"emit", "exited"} \union Leaving => server = "done"

\* There is no terminal audit line before Finish and one after it.
Terminal ==
    /\ pc \in Running \union {"unwind", "release", "untunnel", "finish"} => finals = <<>>
    /\ pc \in {"print", "exited"} =>
            finals = <<IF err = "none" THEN "ok" ELSE "error">>

\* Nothing is printed unless wrote is set, until the very end.
Printed ==
    /\ wrote => call.verb # "doctor"
    /\ pc \in Running \ {"rows"} => ~wrote
    /\ pc \in Running \union Leaving =>
            stdout \in {<<>>, <<"data">>, <<"rows">>} /\ (~wrote => stdout = <<>>)

IInv ==
    TypeOK /\ Route /\ Sent /\ Blame /\ Chosen /\ Completed /\ Terminal /\ Printed
    /\ OneVerdict

-----------------------------------------------------------------------------
(* Facts the steps rest on *)

\* What printing or auditing adds to nothing, and to one result (runOutput).
LEMMA Singletons ==
    /\ \A x : Append(<<>>, x) = <<x>> /\ <<>> \o <<x>> = <<x>> /\ <<x>> \o <<>> = <<x>>
    /\ \A x : Len(<<x>>) = 1 /\ <<x>> # <<>>
    /\ <<>> \o <<>> = <<>> /\ Len(<<>>) = 0
<1>1. \A x : Append(<<>>, x) = <<x>> /\ <<>> \o <<x>> = <<x>> /\ <<x>> \o <<>> = <<x>>
    OBVIOUS
<1>2. /\ \A x : Len(<<x>>) = 1 /\ <<x>> # <<>>
      /\ <<>> \o <<>> = <<>> /\ Len(<<>>) = 0
    OBVIOUS
<1>3. QED
    BY <1>1, <1>2

\* The flags and the statement of an invocation (parseArgs).
LEMMA CallFields ==
    call \in Calls =>
        /\ call.verb \in Verbs /\ call.stmt \in Stmts
        /\ call.write \in BOOLEAN /\ call.database \in BOOLEAN /\ call.raw \in BOOLEAN
        /\ call.verb \in {"catalog", "doctor"} => call.stmt = "read"
BY DEF Calls

\* The inductive invariant holds before the first step of any invocation (main).
LEMMA InitInv == Init => IInv
<1> SUFFICES ASSUME Init PROVE IInv
    OBVIOUS
<1>1. rows \in 0..MaxRows
    BY DbAssumption DEF Init
<1>2. TypeOK
    BY <1>1 DEF Init, TypeOK, Locations, InDriver, Errors
<1>3. Route /\ Sent /\ Blame /\ Chosen /\ Completed
    BY DEF Init, Route, Sent, Blame, Chosen, Completed, Unsent, Running, Leaving
<1>4. Terminal /\ Printed /\ OneVerdict
    BY DEF Init, Terminal, Printed, OneVerdict, Unsent, Running, Leaving
<1>5. QED
    BY <1>2, <1>3, <1>4 DEF IInv

-----------------------------------------------------------------------------
(* The invariant is preserved, action by action *)

\* Everything up to the driver keeps the invariant (main, Run, OpenTunnel).
LEMMA StartKept ==
    ASSUME IInv,
           EarlyErr \/ Resolve \/ Begin \/ Dial \/ DialFails \/ Handshake
           \/ HandshakeFails
    PROVE  IInv'
<1> USE DEF IInv, TypeOK, Route, Sent, Blame, Chosen, Completed, Terminal, Printed,
            OneVerdict, Locations, InDriver, Ended, Errors, Unsent, Running,
            Leaving, Statement, Goto, flow, output, trail
<1>1. CASE EarlyErr
    BY <1>1, Singletons DEF EarlyErr, Refused
<1>2. CASE Resolve
    BY <1>2, CallFields DEF Resolve, Refused, Verbs
<1>3. CASE Begin
    <2>1. Sent'
        BY <1>3, CallFields DEF Begin, Refused
    <2>2. TypeOK' /\ Route' /\ Blame' /\ Chosen' /\ Completed' /\ Terminal' /\ Printed'
          /\ OneVerdict'
        BY <1>3, CallFields DEF Begin
    <2>3. QED
        BY <2>1, <2>2
<1>4. CASE Dial
    BY <1>4, CallFields DEF Dial, Refused, Verbs
<1>5. CASE DialFails
    BY <1>5 DEF DialFails, Refused
<1>6. CASE Handshake
    BY <1>6, CallFields DEF Handshake, Refused, Verbs
<1>7. CASE HandshakeFails
    BY <1>7 DEF HandshakeFails, Refused
<1>8. QED
    BY <1>1, <1>2, <1>3, <1>4, <1>5, <1>6, <1>7

\* The guards, the connection and the limit keep the invariant (runSQL,
\* runInsert).
LEMMA GuardsKept ==
    ASSUME IInv,
           GuardRefuses \/ GuardPasses \/ Connect \/ ConnectFails \/ Use
           \/ UseFails \/ Watch \/ NoBackendID \/ TooLarge
           \/ Limited
    PROVE  IInv'
<1> USE DEF IInv, TypeOK, Route, Sent, Blame, Chosen, Completed, Terminal, Printed,
            OneVerdict, Locations, InDriver, Ended, Errors, Unsent, Running,
            Leaving, Statement, Goto, flow, output, trail
<1>1. CASE GuardRefuses
    BY <1>1 DEF GuardRefuses, Refused, Fails
<1>2. CASE GuardPasses
    BY <1>2 DEF GuardPasses, Refused
<1>3. CASE Connect
    BY <1>3 DEF Connect, Refused
<1>4. CASE ConnectFails
    BY <1>4 DEF ConnectFails, Refused
<1>5. CASE Use
    <2>1. TypeOK' /\ Chosen'
        BY <1>5, CallFields DEF Use
    <2>2. Sent'
        BY <1>5, CallFields DEF Use, Refused
    <2>3. Route' /\ Blame' /\ Completed' /\ Terminal' /\ Printed' /\ OneVerdict'
        BY <1>5 DEF Use
    <2>4. QED
        BY <2>1, <2>2, <2>3
<1>6. CASE UseFails
    BY <1>6 DEF UseFails, Refused, Fails
<1>7. CASE Watch
    BY <1>7 DEF Watch, Refused
<1>8. CASE NoBackendID
    BY <1>8 DEF NoBackendID, Refused
<1>9. CASE TooLarge
    BY <1>9 DEF TooLarge, Refused, Fails
<1>10. CASE Limited
    BY <1>10 DEF Limited, Refused
<1>11. QED
    BY <1>1, <1>2, <1>3, <1>4, <1>5, <1>6, <1>7, <1>8, <1>9, <1>10

\* The statement and its rows keep the invariant (executeStatement,
\* renderInsert, Batch).
LEMMA StatementKept ==
    ASSUME IInv,
           Send \/ SendFails \/ Answered \/ Unanswered \/ RenderRow
           \/ RowsEnd \/ RowsFail \/ Emit \/ EmitFails \/ Panics
    PROVE  IInv'
<1> USE DEF IInv, TypeOK, Route, Sent, Blame, Chosen, Completed, Terminal, Printed,
            OneVerdict, Locations, InDriver, Ended, Errors, Unsent, Running,
            Leaving, Statement, Goto, flow, output, trail
<1>1. CASE Send
    BY <1>1 DEF Send, Refused
<1>2. CASE SendFails
    BY <1>2, CallFields DEF SendFails, Refused, Fails, Lost
<1>3. CASE Answered
    <2> USE <1>3
    <2>1. CASE server = "done" /\ UNCHANGED flow
        <3>1. CASE call.verb = "insert"
            BY <2>1, <3>1 DEF Answered, Refused
        <3>2. CASE call.verb = "doctor"
            BY <2>1, <3>2 DEF Answered, Refused
        <3>3. CASE call.verb \in {"sql", "catalog"}
            <4>1. pc' = "emit"
                BY <2>1, <3>3 DEF Answered, Fails
            <4>2. QED
                BY <2>1, <3>3, <4>1 DEF Answered, Refused
        <3>4. call.verb \in {"insert", "doctor", "sql", "catalog"}
            BY CallFields DEF Verbs
        <3>5. QED
            BY <3>1, <3>2, <3>3, <3>4
    <2>2. CASE server = "running" /\ UNCHANGED flow
        BY <2>2 DEF Answered, Refused
    <2>3. CASE \E e \in Lost : Fails(e)
        BY <2>3 DEF Answered, Refused, Fails, Lost
    <2>4. CASE call.verb = "catalog" /\ Fails("config")
        BY <2>4 DEF Answered, Refused, Fails
    <2>5. QED
        BY <2>1, <2>2, <2>3, <2>4 DEF Answered
<1>4. CASE Unanswered
    BY <1>4 DEF Unanswered, Refused, Fails, Lost, Dropped, Remote
<1>5. CASE RenderRow
    <2>1. rows' \in 0..MaxRows
        BY <1>5, DbAssumption DEF RenderRow
    <2>2. stdout' \in {<<>>, <<"data">>, <<"rows">>} /\ wrote'
        BY <1>5, Singletons DEF RenderRow
    <2>3. QED
        BY <1>5, <2>1, <2>2 DEF RenderRow, Refused
<1>6. CASE RowsEnd
    BY <1>6 DEF RowsEnd, Refused
<1>7. CASE RowsFail
    BY <1>7 DEF RowsFail, Refused, Fails, Lost, Dropped, Remote
<1>8. CASE Emit
    BY <1>8, Singletons DEF Emit, Refused
<1>9. CASE EmitFails
    BY <1>9 DEF EmitFails, Refused, Fails
<1>10. CASE Panics
    BY <1>10 DEF Panics, Refused, Fails, Dropped, Remote
<1>11. QED
    BY <1>1, <1>2, <1>3, <1>4, <1>5, <1>6, <1>7, <1>8, <1>9, <1>10

\* The deferred calls and the verdict keep the invariant (Run).
LEMMA EndKept ==
    ASSUME IInv,
           Unwind \/ Release \/ Untunnel \/ Finish \/ Conclude
    PROVE  IInv'
<1> USE DEF IInv, TypeOK, Route, Sent, Blame, Chosen, Completed, Terminal, Printed,
            OneVerdict, Locations, InDriver, Ended, Errors, Unsent, Running,
            Leaving, Statement, Goto, flow, output, trail
<1>1. CASE Unwind
    BY <1>1 DEF Unwind, Refused
<1>2. CASE Release
    BY <1>2 DEF Release, Refused
<1>3. CASE Untunnel
    BY <1>3 DEF Untunnel, Refused
<1>4. CASE Finish
    BY <1>4, Singletons DEF Finish, Refused
<1>5. CASE Conclude
    <2>1. CASE wrote
        <3>1. stdout' = stdout /\ stdout \in {<<>>, <<"data">>, <<"rows">>}
            BY <1>5, <2>1, Singletons DEF Conclude, Verdict
        <3>2. Len(<<>>) <= 1 /\ Len(<<"data">>) <= 1 /\ Len(<<"rows">>) <= 1
            BY Singletons
        <3>3. <<>> # <<"error">> /\ <<"data">> # <<"error">> /\ <<"rows">> # <<"error">>
            OBVIOUS
        <3>4. Len(stdout) <= 1 /\ stdout # <<"error">>
            BY <3>1, <3>2, <3>3
        <3>5. QED
            BY <1>5, <2>1, <3>1, <3>4 DEF Conclude, Refused
    <2>2. CASE ~wrote
        <3>1. stdout' = Verdict
            BY <1>5, <2>2, Singletons DEF Conclude, Verdict
        <3>2. stdout' \in {<<>>, <<"health">>, <<"error">>, <<"nothing">>}
            BY <2>2, <3>1 DEF Verdict
        <3>3. /\ Len(stdout') <= 1
              /\ err # "none" => stdout' \in {<<"error">>, <<"health">>}
              /\ err = "none" => stdout' # <<"error">>
            BY <2>2, <3>1, <3>2, Singletons DEF Verdict
        <3>4. QED
            BY <1>5, <2>2, <3>2, <3>3 DEF Conclude, Refused
    <2>3. QED
        BY <2>1, <2>2
<1>6. QED
    BY <1>1, <1>2, <1>3, <1>4, <1>5

\* The watcher, the server and the user keep the invariant (watchCancel).
LEMMA OthersKept ==
    ASSUME IInv,
           Wake \/ Quit \/ DialKill \/ KillArrives \/ KillLost
           \/ ServerEnds \/ CtxDone \/ Sigkill
    PROVE  IInv'
<1> USE DEF IInv, TypeOK, Route, Sent, Blame, Chosen, Completed, Terminal, Printed,
            OneVerdict, Locations, InDriver, Ended, Errors, Unsent, Running,
            Leaving, Statement, Goto, flow, output, trail
<1>1. CASE Wake
    BY <1>1 DEF Wake, Refused, Alive
<1>2. CASE Quit
    BY <1>2 DEF Quit, Refused, Alive
<1>3. CASE DialKill
    BY <1>3 DEF DialKill, Refused, Alive
<1>4. CASE KillArrives
    BY <1>4 DEF KillArrives, Refused, Alive
<1>5. CASE KillLost
    BY <1>5 DEF KillLost, Refused, Alive
<1>6. CASE ServerEnds
    BY <1>6 DEF ServerEnds, Refused
<1>7. CASE CtxDone
    BY <1>7 DEF CtxDone, Refused, Alive
<1>8. CASE Sigkill
    BY <1>8 DEF Sigkill, Refused, Dropped, Remote, Alive
<1>9. QED
    BY <1>1, <1>2, <1>3, <1>4, <1>5, <1>6, <1>7, <1>8

\* The invariant is inductive: every step, and every stutter, keeps it.
LEMMA NextKept == IInv /\ [Next]_vars => IInv'
<1> SUFFICES ASSUME IInv, [Next]_vars PROVE IInv'
    OBVIOUS
<1>1. CASE Runs
    BY <1>1, StartKept, GuardsKept, StatementKept, EndKept DEF Runs
<1>2. CASE Handshake \/ HandshakeFails
    BY <1>2, StartKept
<1>3. CASE Unanswered \/ RenderRow \/ RowsFail \/ Panics
    BY <1>3, StatementKept
<1>4. CASE \/ Wake \/ Quit \/ DialKill \/ KillArrives \/ KillLost
           \/ ServerEnds \/ CtxDone \/ Sigkill
    BY <1>4, OthersKept
<1>5. CASE UNCHANGED vars
    BY <1>5 DEF vars, flow, output, trail, IInv, TypeOK, Route, Sent, Blame, Chosen,
                Completed, Terminal, Printed, OneVerdict, Statement, Refused
<1>6. QED
    BY <1>1, <1>2, <1>3, <1>4, <1>5 DEF Next

\* IInv holds in every state of every invocation (Run).
THEOREM Inductive == Spec => []IInv
BY InitInv, NextKept, PTL DEF Spec

-----------------------------------------------------------------------------
(* The properties *)

\* Every variable of an invocation has its type, for any number of rows.
THEOREM TypeCorrect == Spec => []TypeOK
<1>1. IInv => TypeOK
    BY DEF IInv
<1>2. QED
    BY <1>1, Inductive, PTL

\* Exit 0 is earned: the server completed the statement, in the database the
\* caller named if the connection could be pinned; a timeout is a timeout.
THEOREM VerdictTrue == Spec => []VerdictIsTrue
<1>1. IInv => VerdictIsTrue
    BY DEF IInv, VerdictIsTrue, Reported, Blame, Chosen, Completed, Statement
<1>2. QED
    BY <1>1, Inductive, PTL

\* Nothing reaches the server before the guards, and no write that is not
\* allowed and on record.
THEOREM GuardedFirst == Spec => []GuardedBeforeSent
<1>1. IInv => GuardedBeforeSent
    BY CallFields DEF IInv, TypeOK, GuardedBeforeSent, Reported, Blame, Sent, Refused,
                      Statement, Verbs
<1>2. QED
    BY <1>1, Inductive, PTL

\* An invocation that exits has one audit line and at most one result, and they
\* agree with its exit code.
THEOREM VerdictOnce == Spec => []OneVerdict
<1>1. IInv => OneVerdict
    BY DEF IInv
<1>2. QED
    BY <1>1, Inductive, PTL

-----------------------------------------------------------------------------
(***************************************************************************)
(* What holds of the dataease driver for any number of commands and sites. *)
(*                                                                         *)
(* The invariant says of every command how far it can have got at each of  *)
(* its locations (Phase), what its temporary file holds (Written), and of  *)
(* every token which site it came from (Homes); a token granted to a       *)
(* command is not younger than its last login (Aged), which is why the     *)
(* token of a second query is another one than that of the first.          *)
(***************************************************************************)

\* The n-th session granted to a command.
Own(u, n) == [at |-> target[u].site, by |-> u, nth |-> n, bound |-> TRUE]

Active == {"login", "write", "rename", "query"}

\* Where a command stands.
Phase(u) ==
    /\ where[u] = "start" => asked[u] = <<>> /\ logins[u] = 0
    /\ where[u] \in Active => Len(asked[u]) <= 1 /\ outcome[u] = "none"
    /\ where[u] \in {"start", "killed"} => outcome[u] = "none"
    /\ where[u] = "login" => target[u].cred /\ logins[u] <= Len(asked[u])
    /\ where[u] \in {"write", "rename"} =>
         logins[u] >= 1 /\ logins[u] <= Len(asked[u]) + 1
    /\ where[u] = "query" =>
         /\ logins[u] <= Len(asked[u]) + 1 /\ logins[u] >= Len(asked[u])
         /\ logins[u] >= 1 => sess[u] = Own(u, logins[u])

\* The temporary file.
Written(u) ==
    /\ temp[u].state \in {"none", "part", "whole"}
    /\ where[u] \in {"write", "rename"} =>
         /\ temp[u].token = Own(u, logins[u])
         /\ temp[u].site = target[u].site
    /\ where[u] = "rename" => temp[u].state = "whole"
    /\ where[u] \notin {"write", "rename", "killed"} => temp[u] = NoFile

\* The site of every token.
Homes(u) ==
    /\ sess[u].bound => sess[u].at = target[u].site
    /\ \A i \in DOMAIN asked[u] :
         asked[u][i].token.bound => asked[u][i].token.at = target[u].site
HomeFile ==
    /\ file.state # "part"
    /\ file.state = "whole" =>
         file.token \in Tokens /\ file.site = IF file.token.bound THEN file.token.at ELSE ""

\* The age of every token.
Aged(u) ==
    /\ file.token.by = u => file.token.nth <= logins[u]
    /\ sess[u].by = u => sess[u].nth <= logins[u]
    /\ \A i \in DOMAIN asked[u] :
         asked[u][i].token.by = u => asked[u][i].token.nth <= logins[u]
    /\ where[u] \in {"write", "rename", "query"} /\ Len(asked[u]) = 1 =>
         (asked[u][1].token.by = u => asked[u][1].token.nth < logins[u])

\* RetriedAfresh, of one command.
Afresh(u) ==
    /\ Len(asked[u]) <= 2 /\ logins[u] <= 2
    /\ Len(asked[u]) = 2 =>
         /\ asked[u][2].token.by = u /\ asked[u][2].token.nth = logins[u]
         /\ asked[u][1].token # asked[u][2].token
    /\ outcome[u] = "expired" /\ target[u].cred => Len(asked[u]) = 2
    /\ outcome[u] = "rows" => asked[u] # <<>> /\ asked[u][Len(asked[u])].honoured
    /\ outcome[u] \in {"refused", "no_session"} => asked[u] = <<>> /\ logins[u] = 0
    /\ where[u] = "over" => temp[u] = NoFile

Each(u) == Phase(u) /\ Written(u) /\ Homes(u) /\ Aged(u) /\ Afresh(u)
DsInv == DsTypeOK /\ HomeFile /\ \A u \in Users : Each(u)

-----------------------------------------------------------------------------

LEMMA Nothing ==
    /\ NoToken.by = "before" /\ NoToken.bound = FALSE
    /\ NoFile.state = "none" /\ NoFile.token = NoToken /\ NoFile.site = ""
BY DEF NoToken, NoFile

LEMMA NothingNth == NoToken.nth = 1
BY DEF NoToken

SessionFile == [state : States, token : Tokens \union {NoToken}, site : Sites \union {""}]

Sound(f) ==
    /\ f \in SessionFile /\ f.state # "part" /\ f.token.by = "before"
    /\ f.state = "whole" =>
         f.token \in Tokens /\ f.site = IF f.token.bound THEN f.token.at ELSE ""

LEMMA EarlierFiles == ASSUME NEW f \in Files PROVE Sound(f)
<1>1. CASE f = NoFile
  BY <1>1 DEF NoFile, NoToken, SessionFile, States, Sound
<1>2. CASE f \in [state : {"junk", "foreign"}, token : {NoToken}, site : {""}]
  <2>1. f.token = NoToken /\ f.site = "" /\ f.state \in {"junk", "foreign"}
    BY <1>2
  <2>2. f \in SessionFile
    BY <1>2 DEF SessionFile, States
  <2>3. NoToken.by = "before"
    BY DEF NoToken
  <2> QED BY <2>1, <2>2, <2>3 DEF Sound
<1>3. ASSUME NEW t \in Earlier, f = Session(t) PROVE Sound(f)
  <2>1. /\ t.by = "before" /\ t.at \in Sites /\ t.nth = 1 /\ t.bound \in BOOLEAN
        /\ t = [at |-> t.at, by |-> t.by, nth |-> t.nth, bound |-> t.bound]
    BY DEF Earlier
  <2>2. t \in Tokens
    BY <2>1 DEF Tokens
  <2> QED BY <1>3, <2>1, <2>2 DEF Session, SessionFile, States, Sound
<1> QED BY <1>1, <1>2, <1>3 DEF Files

LEMMA DsInit_Inv == DsInit => DsInv
<1> SUFFICES ASSUME DsInit PROVE DsInv
  OBVIOUS
<1>1. file \in Files
  BY DEF DsInit
<1>2. NoFile \in SessionFile
  BY DEF NoFile, SessionFile, States
<1>3. live \subseteq Tokens
  BY <1>1, EarlierFiles DEF Sound, DsInit, SessionFile
<1>4. DsTypeOK
  <2>1. <<>> \in Seq(Questions)
    OBVIOUS
  <2>2. file \in SessionFile
    BY <1>1, EarlierFiles DEF Sound
  <2> QED BY <1>2, <1>3, <2>1, <2>2 DEF DsTypeOK, DsInit, SessionFile
<1>5. HomeFile
  BY <1>1, EarlierFiles DEF Sound, HomeFile
<1>6. ASSUME NEW u \in Users PROVE Each(u)
  <2>1. u # "before"
    BY SitesAssumption
  <2>2. /\ where[u] = "start" /\ temp[u] = NoFile /\ sess[u] = NoToken
        /\ asked[u] = <<>> /\ logins[u] = 0 /\ outcome[u] = "none"
    BY DEF DsInit
  <2>3. Phase(u)
    BY <2>2 DEF Phase, Active
  <2>4. Written(u)
    <3>1. temp[u].state = "none"
      BY <2>2, Nothing
    <3> QED BY <2>2, <3>1 DEF Written
  <2>5. Homes(u)
    <3>1. ~sess[u].bound
      BY <2>2, Nothing
    <3> QED BY <2>2, <3>1 DEF Homes
  <2>6. Aged(u)
    <3>1. file.token.by = "before"
      BY <1>1, EarlierFiles DEF Sound
    <3>2. sess[u].by = "before"
      BY <2>2, Nothing
    <3> QED BY <2>1, <2>2, <3>1, <3>2 DEF Aged
  <2>7. Afresh(u)
    BY <2>2 DEF Afresh
  <2> QED BY <2>3, <2>4, <2>5, <2>6, <2>7 DEF Each
<1> QED BY <1>4, <1>5, <1>6 DEF DsInv

-----------------------------------------------------------------------------

LEMMA OwnFacts ==
    ASSUME DsTypeOK, NEW u \in Users, NEW n \in Nat
    PROVE  /\ Own(u, n) \in Tokens
           /\ Own(u, n).at = target[u].site /\ Own(u, n).by = u
           /\ Own(u, n).nth = n /\ Own(u, n).bound = TRUE
<1>1. target[u].site \in Sites
  BY DEF DsTypeOK
<1> QED BY <1>1 DEF Own, Tokens

\* What a step of u leaves of another command.
LEMMA OthersKeep ==
    ASSUME DsInv, NEW v \in Users,
           target' = target, where'[v] = where[v], temp'[v] = temp[v], sess'[v] = sess[v],
           asked'[v] = asked[v], logins'[v] = logins[v], outcome'[v] = outcome[v],
           file'.token.by = v => file'.token.nth <= logins[v]
    PROVE  Each(v)'
<1>1. Each(v)
  BY DEF DsInv
<1>2. Phase(v)' /\ Written(v)'
  BY <1>1 DEF Each, Phase, Written, Own, NoFile, NoToken, Active
<1>3. Homes(v)' /\ Aged(v)'
  BY <1>1 DEF Each, Homes, Aged
<1>4. Afresh(v)'
  BY <1>1 DEF Each, Afresh, NoFile, NoToken
<1> QED BY <1>2, <1>3, <1>4 DEF Each

\* A step that only moves a command on, or ends it.
LEMMA Moves ==
    ASSUME DsInv, NEW u \in Users, NEW l \in {"login", "over", "killed"},
           NEW how \in {"none", "refused", "no_session", "failed"},
           DsGoto(u, l), outcome' = [outcome EXCEPT ![u] = how],
           where[u] \in {"start", "login"} \/ l = "killed",
           where[u] \notin {"over", "killed"},
           l # "over" => how = "none",
           l = "login" => where[u] = "start" /\ target[u].cred,
           how \in {"refused", "no_session"} => where[u] = "start",
           UNCHANGED <<target, file, temp, sess, live, asked, logins>>
    PROVE  DsInv'
<1>1. DsTypeOK /\ HomeFile /\ Each(u)
  BY DEF DsInv
<1>2. DsTypeOK'
  BY <1>1 DEF DsTypeOK, DsGoto
<1>3. HomeFile'
  BY <1>1 DEF HomeFile
<1>4. where'[u] = l /\ outcome'[u] = how
  BY <1>1 DEF DsTypeOK, DsGoto
<1>5. Each(u)'
  <2>1. Phase(u)'
    BY <1>1, <1>4 DEF Each, Phase, Own, Active
  <2>2. Written(u)'
    BY <1>1, <1>4 DEF Each, Written, Own, NoFile, NoToken
  <2>3. Homes(u)' /\ Aged(u)'
    BY <1>1, <1>4 DEF Each, Homes, Aged
  <2>4. Afresh(u)'
    BY <1>1, <1>4 DEF Each, Afresh, Phase, Written, NoFile, NoToken
  <2> QED BY <2>1, <2>2, <2>3, <2>4 DEF Each
<1>6. ASSUME NEW v \in Users, v # u PROVE Each(v)'
  <2>1. where'[v] = where[v] /\ outcome'[v] = outcome[v]
    BY <1>1, <1>6 DEF DsTypeOK, DsGoto
  <2>2. file'.token.by = v => file'.token.nth <= logins[v]
    BY DEF DsInv, Each, Aged
  <2> QED BY <2>1, <2>2, OthersKeep
<1> QED BY <1>2, <1>3, <1>5, <1>6 DEF DsInv

LEMMA LoadKeeps == ASSUME DsInv, NEW u \in Users, Load(u) PROVE DsInv'
<1>1. DsTypeOK /\ HomeFile /\ Each(u)
  BY DEF DsInv
<1>2. DsTypeOK'
  BY <1>1 DEF DsTypeOK, HomeFile, Load, DsGoto
<1>3. HomeFile'
  BY <1>1 DEF HomeFile, Load
<1>4. /\ where[u] = "start" /\ where'[u] = "query" /\ sess'[u] = file.token
      /\ UNCHANGED <<target, file, temp, asked, logins, outcome>>
  BY <1>1 DEF DsTypeOK, Load, DsGoto
<1>5. asked[u] = <<>> /\ logins[u] = 0 /\ outcome[u] = "none" /\ temp[u] = NoFile
  BY <1>1, <1>4 DEF Each, Phase, Written
<1>6. Each(u)'
  <2>1. Phase(u)'
    BY <1>4, <1>5 DEF Phase, Active
  <2>2. Written(u)'
    BY <1>1, <1>4, <1>5, Nothing DEF Each, Written, NoFile, NoToken
  <2>3. file.token.bound => file.token.at = target[u].site
    BY <1>1, SitesAssumption DEF HomeFile, Load, Tokens
  <2>4. Homes(u)'
    BY <1>1, <1>4, <2>3 DEF Each, Homes
  <2>5. Aged(u)'
    BY <1>1, <1>4, <1>5 DEF Each, Aged
  <2>6. Afresh(u)'
    BY <1>4, <1>5 DEF Afresh
  <2> QED BY <2>1, <2>2, <2>4, <2>5, <2>6 DEF Each
<1>7. ASSUME NEW v \in Users, v # u PROVE Each(v)'
  <2>1. where'[v] = where[v] /\ sess'[v] = sess[v]
    BY <1>1, <1>7 DEF DsTypeOK, Load, DsGoto
  <2>2. file'.token.by = v => file'.token.nth <= logins[v]
    BY <1>4 DEF DsInv, Each, Aged
  <2> QED BY <1>4, <2>1, <2>2, OthersKeep
<1> QED BY <1>2, <1>3, <1>6, <1>7 DEF DsInv

LEMMA LoginKeeps == ASSUME DsInv, NEW u \in Users, Login(u) PROVE DsInv'
<1>1. DsTypeOK /\ HomeFile /\ Each(u)
  BY DEF DsInv
<1> DEFINE n == logins[u] + 1
<1>2. n \in Nat /\ NewSession(u) = Own(u, n) /\ Own(u, n) \in Tokens
  <2>1. n \in Nat
    <3>1. logins[u] \in Nat
      BY <1>1 DEF DsTypeOK
    <3> QED BY <3>1 DEF n
  <2>2. NewSession(u) = Own(u, n)
    BY Zenon DEF NewSession, Own, n
  <2> QED BY <1>1, <2>1, <2>2, OwnFacts
<1> HIDE DEF n
<1>3. PICK t \in SessionFile : /\ t.state = "part" /\ t.token = Own(u, n)
                               /\ t.site = target[u].site
                               /\ temp' = [temp EXCEPT ![u] = t]
  <2>1. Own(u, n) \in Tokens /\ Own(u, n).at = target[u].site /\ Own(u, n).bound
    BY <1>1, <1>2, OwnFacts
  <2>2. [Session(NewSession(u)) EXCEPT !.state = "part"]
          = [state |-> "part", token |-> Own(u, n), site |-> target[u].site]
    BY <1>2, <2>1 DEF Session
  <2>3. target[u].site \in Sites
    BY <1>1 DEF DsTypeOK
  <2>4. [state |-> "part", token |-> Own(u, n), site |-> target[u].site] \in SessionFile
    BY <2>1, <2>3 DEF SessionFile, States
  <2> QED BY <2>2, <2>4 DEF Login
<1>4. /\ where[u] = "login" /\ where'[u] = "write" /\ logins'[u] = n /\ temp'[u] = t
      /\ UNCHANGED <<target, file, sess, asked, outcome>>
  BY <1>1, <1>3 DEF DsTypeOK, Login, DsGoto, n
<1>5. DsTypeOK'
  <2>1. live' \subseteq Tokens
    <3>1. PICK ended : live' = (live \ ended) \union {NewSession(u)}
      BY DEF Login
    <3> QED BY <1>1, <1>2, <3>1 DEF DsTypeOK
  <2>2. logins' = [logins EXCEPT ![u] = n]
    BY DEF Login, n
  <2>3. temp' \in [Users -> SessionFile]
    BY <1>1, <1>3 DEF DsTypeOK, SessionFile
  <2>4. logins' \in [Users -> Nat]
    BY <1>1, <1>2, <2>2 DEF DsTypeOK
  <2>5. where' \in [Users -> {"start", "login", "write", "rename", "query", "over", "killed"}]
    BY <1>1 DEF DsTypeOK, Login, DsGoto
  <2> QED BY <1>1, <1>4, <2>1, <2>3, <2>4, <2>5 DEF DsTypeOK, SessionFile
<1>6. HomeFile'
  BY <1>1, <1>4 DEF HomeFile
<1>7. Own(u, logins[u])' = Own(u, n)
  BY <1>4, Zenon DEF Own
<1>8. /\ logins[u] \in Nat /\ Len(asked[u]) <= 1 /\ logins[u] <= Len(asked[u])
      /\ outcome[u] = "none" /\ asked[u] \in Seq(Questions)
  BY <1>1, <1>4 DEF Each, Phase, Active, DsTypeOK
<1>9. Each(u)'
  <2>1. Phase(u)'
    BY <1>4, <1>8 DEF Phase, Active, n
  <2>2. Written(u)'
    BY <1>3, <1>4, <1>7 DEF Written
  <2>3. Homes(u)'
    BY <1>1, <1>4 DEF Each, Homes
  <2>4. Aged(u)'
    <3>1. file.token \in Tokens \union {NoToken} /\ sess[u] \in Tokens \union {NoToken}
      BY <1>1 DEF DsTypeOK
    <3>2. \A i \in DOMAIN asked[u] : asked[u][i].token \in Tokens \union {NoToken}
      <4>1. \A i \in DOMAIN asked[u] : asked[u][i] \in Questions
        BY <1>8
      <4> QED BY <4>1 DEF Questions
    <3>3. \A k \in Tokens \union {NoToken} : k.nth \in Nat
      BY NothingNth DEF Tokens
    <3>4. \A k \in Nat : k <= logins[u] => k <= n /\ k < n
      BY <1>8 DEF n
    <3>5. Len(asked[u]) = 1 => 1 \in DOMAIN asked[u]
      BY <1>8
    <3> QED BY <1>1, <1>4, <3>1, <3>2, <3>3, <3>4, <3>5 DEF Each, Aged
  <2>5. Afresh(u)'
    BY <1>4, <1>8 DEF Afresh, n
  <2> QED BY <2>1, <2>2, <2>3, <2>4, <2>5 DEF Each
<1>10. ASSUME NEW v \in Users, v # u PROVE Each(v)'
  <2>1. where'[v] = where[v] /\ logins'[v] = logins[v] /\ temp'[v] = temp[v]
    BY <1>1, <1>3, <1>10 DEF DsTypeOK, Login, DsGoto
  <2>2. file'.token.by = v => file'.token.nth <= logins[v]
    BY <1>4 DEF DsInv, Each, Aged
  <2> QED BY <1>4, <2>1, <2>2, OthersKeep
<1> QED BY <1>5, <1>6, <1>9, <1>10 DEF DsInv

LEMMA WriteTempKeeps == ASSUME DsInv, NEW u \in Users, WriteTemp(u) PROVE DsInv'
<1>1. DsTypeOK /\ HomeFile /\ Each(u)
  BY DEF DsInv
<1>2. temp[u] \in SessionFile
  BY <1>1 DEF DsTypeOK, SessionFile
<1>3. PICK t \in SessionFile : /\ t.state = "whole" /\ t.token = temp[u].token
                               /\ t.site = temp[u].site
                               /\ temp' = [temp EXCEPT ![u] = t]
  <2> DEFINE t == [temp[u] EXCEPT !.state = "whole"]
  <2>1. t \in SessionFile /\ t.state = "whole" /\ t.token = temp[u].token /\ t.site = temp[u].site
    BY <1>2 DEF SessionFile, States
  <2>2. temp' = [temp EXCEPT ![u] = t]
    BY <1>1 DEF DsTypeOK, WriteTemp
  <2> QED BY <2>1, <2>2
<1>4. /\ where[u] = "write" /\ where'[u] = "rename" /\ temp'[u] = t
      /\ UNCHANGED <<target, file, sess, live, asked, logins, outcome>>
  BY <1>1, <1>3 DEF DsTypeOK, WriteTemp, DsGoto
<1>5. DsTypeOK'
  <2>1. temp' \in [Users -> SessionFile]
    BY <1>1, <1>3 DEF DsTypeOK, SessionFile
  <2>2. where' \in [Users -> {"start", "login", "write", "rename", "query", "over", "killed"}]
    BY <1>1 DEF DsTypeOK, WriteTemp, DsGoto
  <2> QED BY <1>1, <1>4, <2>1, <2>2 DEF DsTypeOK, SessionFile
<1>6. HomeFile'
  BY <1>1, <1>4 DEF HomeFile
<1>7. Own(u, logins[u])' = Own(u, logins[u])
  BY <1>4, Zenon DEF Own
<1>8. Each(u)'
  <2>1. Phase(u)'
    BY <1>1, <1>4 DEF Each, Phase, Active
  <2>2. Written(u)'
    BY <1>1, <1>3, <1>4, <1>7 DEF Each, Written
  <2>3. Homes(u)' /\ Aged(u)'
    BY <1>1, <1>4 DEF Each, Homes, Aged
  <2>4. Afresh(u)'
    BY <1>1, <1>4 DEF Each, Afresh
  <2> QED BY <2>1, <2>2, <2>3, <2>4 DEF Each
<1>9. ASSUME NEW v \in Users, v # u PROVE Each(v)'
  <2>1. where'[v] = where[v] /\ temp'[v] = temp[v]
    BY <1>1, <1>3, <1>9 DEF DsTypeOK, WriteTemp, DsGoto
  <2>2. file'.token.by = v => file'.token.nth <= logins[v]
    BY <1>4 DEF DsInv, Each, Aged
  <2> QED BY <1>4, <2>1, <2>2, OthersKeep
<1> QED BY <1>5, <1>6, <1>8, <1>9 DEF DsInv

LEMMA SaveFailsKeeps == ASSUME DsInv, NEW u \in Users, SaveFails(u) PROVE DsInv'
<1>1. DsTypeOK /\ HomeFile /\ Each(u)
  BY DEF DsInv
<1>2. NoFile \in SessionFile
  BY DEF NoFile, SessionFile, States
<1>3. /\ where[u] \in {"write", "rename"} /\ where'[u] = "over" /\ outcome'[u] = "failed"
      /\ temp'[u] = NoFile
      /\ UNCHANGED <<target, file, sess, live, asked, logins>>
  BY <1>1 DEF DsTypeOK, SaveFails, DsEnds, DsGoto
<1>4. DsTypeOK'
  <2>1. temp' \in [Users -> SessionFile]
    BY <1>1, <1>2 DEF DsTypeOK, SaveFails, SessionFile
  <2>2. where' \in [Users -> {"start", "login", "write", "rename", "query", "over", "killed"}]
    BY <1>1 DEF DsTypeOK, SaveFails, DsEnds, DsGoto
  <2>3. outcome' \in [Users -> {"none", "refused", "no_session", "failed", "expired", "rows"}]
    BY <1>1 DEF DsTypeOK, SaveFails, DsEnds
  <2> QED BY <1>1, <1>3, <2>1, <2>2, <2>3 DEF DsTypeOK, SessionFile
<1>5. HomeFile'
  BY <1>1, <1>3 DEF HomeFile
<1>6. NoFile' = NoFile
  BY DEF NoFile, NoToken
<1>7. Each(u)'
  <2>1. Phase(u)'
    BY <1>3 DEF Phase, Active
  <2>2. Written(u)'
    BY <1>3, <1>6, Nothing DEF Written
  <2>3. Homes(u)' /\ Aged(u)'
    BY <1>1, <1>3 DEF Each, Homes, Aged
  <2>4. Afresh(u)'
    BY <1>1, <1>3, <1>6 DEF Each, Afresh
  <2> QED BY <2>1, <2>2, <2>3, <2>4 DEF Each
<1>8. ASSUME NEW v \in Users, v # u PROVE Each(v)'
  <2>1. where'[v] = where[v] /\ temp'[v] = temp[v] /\ outcome'[v] = outcome[v]
    BY <1>1, <1>8 DEF DsTypeOK, SaveFails, DsEnds, DsGoto
  <2>2. file'.token.by = v => file'.token.nth <= logins[v]
    BY <1>3 DEF DsInv, Each, Aged
  <2> QED BY <1>3, <2>1, <2>2, OthersKeep
<1> QED BY <1>4, <1>5, <1>7, <1>8 DEF DsInv

LEMMA RenameKeeps == ASSUME DsInv, NEW u \in Users, Rename(u) PROVE DsInv'
<1>1. DsTypeOK /\ HomeFile /\ Each(u)
  BY DEF DsInv
<1>2. NoFile \in SessionFile
  BY DEF NoFile, SessionFile, States
<1>3. /\ where[u] = "rename" /\ where'[u] = "query" /\ temp'[u] = NoFile
      /\ file' = temp[u] /\ sess'[u] = temp[u].token
      /\ UNCHANGED <<target, live, asked, logins, outcome>>
  BY <1>1 DEF DsTypeOK, Rename, DsGoto
<1>4. /\ logins[u] \in Nat /\ temp[u] \in SessionFile
      /\ temp[u].state = "whole" /\ temp[u].token = Own(u, logins[u])
      /\ temp[u].site = target[u].site
  BY <1>1, <1>3 DEF DsTypeOK, SessionFile, Each, Written
<1>5. /\ Own(u, logins[u]) \in Tokens /\ Own(u, logins[u]).at = target[u].site
      /\ Own(u, logins[u]).by = u /\ Own(u, logins[u]).nth = logins[u]
      /\ Own(u, logins[u]).bound = TRUE
  BY <1>1, <1>4, OwnFacts
<1>6. DsTypeOK'
  <2>1. temp' \in [Users -> SessionFile]
    BY <1>1, <1>2 DEF DsTypeOK, Rename, SessionFile
  <2>2. where' \in [Users -> {"start", "login", "write", "rename", "query", "over", "killed"}]
    BY <1>1 DEF DsTypeOK, Rename, DsGoto
  <2>3. sess' \in [Users -> Tokens \union {NoToken}]
    BY <1>1, <1>3, <1>4, <1>5 DEF DsTypeOK, Rename
  <2> QED BY <1>1, <1>3, <1>4, <2>1, <2>2, <2>3 DEF DsTypeOK, SessionFile
<1>7. HomeFile'
  BY <1>3, <1>4, <1>5 DEF HomeFile
<1>8. Own(u, logins[u])' = Own(u, logins[u])
  BY <1>3, Zenon DEF Own
<1>9. NoFile' = NoFile
  BY DEF NoFile, NoToken
<1>10. Len(asked[u]) \in Nat
  <2>1. asked[u] \in Seq(Questions)
    BY <1>1 DEF DsTypeOK
  <2> QED BY <2>1
<1>11. Each(u)'
  <2>1. Phase(u)'
    BY <1>1, <1>3, <1>4, <1>8, <1>10 DEF Each, Phase, Active
  <2>2. Written(u)'
    BY <1>3, <1>9, Nothing DEF Written
  <2>3. Homes(u)'
    BY <1>1, <1>3, <1>4, <1>5 DEF Each, Homes
  <2>4. Aged(u)'
    BY <1>1, <1>3, <1>4, <1>5 DEF Each, Aged
  <2>5. Afresh(u)'
    BY <1>1, <1>3 DEF Each, Afresh
  <2> QED BY <2>1, <2>2, <2>3, <2>4, <2>5 DEF Each
<1>12. ASSUME NEW v \in Users, v # u PROVE Each(v)'
  <2>1. where'[v] = where[v] /\ temp'[v] = temp[v] /\ sess'[v] = sess[v]
    BY <1>1, <1>12 DEF DsTypeOK, Rename, DsGoto
  <2>2. file'.token.by # v
    BY <1>3, <1>4, <1>5, <1>12
  <2> QED BY <1>3, <2>1, <2>2, OthersKeep
<1> QED BY <1>6, <1>7, <1>11, <1>12 DEF DsInv

\* The sequence with one more element.
LEMMA OneMore ==
    ASSUME NEW S, NEW s \in Seq(S), NEW e \in S
    PROVE  /\ Append(s, e) \in Seq(S) /\ Append(s, e) # <<>>
           /\ Len(s) \in Nat /\ Len(Append(s, e)) = Len(s) + 1
           /\ Append(s, e)[Len(s) + 1] = e
           /\ \A i \in DOMAIN Append(s, e) :
                \/ Append(s, e)[i] = e
                \/ i \in DOMAIN s /\ Append(s, e)[i] = s[i]
           /\ Len(s) = 1 => Append(s, e)[1] = s[1]
           /\ s = <<>> <=> Len(s) = 0
<1>1. /\ Append(s, e) \in Seq(S) /\ Append(s, e) # <<>>
      /\ Len(s) \in Nat /\ Len(Append(s, e)) = Len(s) + 1
      /\ Append(s, e)[Len(s) + 1] = e
  OBVIOUS
<1>2. ASSUME NEW i \in DOMAIN Append(s, e)
      PROVE  \/ Append(s, e)[i] = e
             \/ i \in DOMAIN s /\ Append(s, e)[i] = s[i]
  BY <1>1
<1>3. Len(s) = 1 => Append(s, e)[1] = s[1]
  BY <1>1
<1>4. s = <<>> <=> Len(s) = 0
  OBVIOUS
<1> QED BY <1>1, <1>2, <1>3, <1>4

\* What an answer to a query leaves, however it ends.
LEMMA Asks ==
    ASSUME DsInv, NEW u \in Users, NEW l \in {"login", "over"},
           NEW how \in {"none", "failed", "expired", "rows"},
           Ask(u), DsGoto(u, l), outcome' = [outcome EXCEPT ![u] = how],
           l = "login" <=> how = "none",
           l = "login" => target[u].cred /\ asked[u] = <<>>,
           how = "rows" => Honoured(u),
           how = "expired" /\ target[u].cred => asked[u] # <<>>
    PROVE  DsInv'
<1>1. DsTypeOK /\ HomeFile /\ Each(u)
  BY DEF DsInv
<1> DEFINE q == [token |-> sess[u], honoured |-> Honoured(u)]
<1>2. /\ q \in Questions /\ q.token = sess[u] /\ q.honoured = Honoured(u)
      /\ asked[u] \in Seq(Questions) /\ logins[u] \in Nat
      /\ sess[u] \in Tokens \union {NoToken}
  BY <1>1 DEF DsTypeOK, Questions, Honoured
<1>3. /\ where[u] = "query" /\ where'[u] = l /\ outcome'[u] = how
      /\ asked' = [asked EXCEPT ![u] = Append(asked[u], q)]
      /\ asked'[u] = Append(asked[u], q)
      /\ UNCHANGED <<target, file, temp, sess, live, logins>>
  BY <1>1 DEF DsTypeOK, Ask, DsGoto
<1> HIDE DEF q
<1>4. Append(asked[u], q) \in Seq(Questions)
  BY <1>2
<1>5. DsTypeOK'
  <2>1. asked' \in [Users -> Seq(Questions)]
    BY <1>1, <1>3, <1>4 DEF DsTypeOK
  <2>2. where' \in [Users -> {"start", "login", "write", "rename", "query", "over", "killed"}]
    BY <1>1 DEF DsTypeOK, DsGoto
  <2>3. outcome' \in [Users -> {"none", "refused", "no_session", "failed", "expired", "rows"}]
    BY <1>1 DEF DsTypeOK
  <2> QED BY <1>1, <1>3, <2>1, <2>2, <2>3 DEF DsTypeOK
<1>6. HomeFile'
  BY <1>1, <1>3 DEF HomeFile
<1>7. /\ Len(asked[u]) \in Nat /\ Len(asked[u]) <= 1
      /\ logins[u] <= Len(asked[u]) + 1 /\ logins[u] >= Len(asked[u])
      /\ logins[u] >= 1 => sess[u] = Own(u, logins[u])
      /\ temp[u] = NoFile
      /\ asked[u] = <<>> <=> Len(asked[u]) = 0
  BY <1>1, <1>2, <1>3, OneMore DEF Each, Phase, Written, Active
<1>8. /\ Len(asked'[u]) = Len(asked[u]) + 1 /\ asked'[u] # <<>>
      /\ asked'[u][Len(asked[u]) + 1] = q
      /\ \A i \in DOMAIN asked'[u] :
           \/ asked'[u][i] = q
           \/ i \in DOMAIN asked[u] /\ asked'[u][i] = asked[u][i]
      /\ Len(asked[u]) = 1 => asked'[u][1] = asked[u][1]
  BY <1>2, <1>3, OneMore
<1>9. NoFile' = NoFile
  BY DEF NoFile, NoToken
<1>10. Each(u)'
  <2>1. Phase(u)'
    BY <1>3, <1>7, <1>8 DEF Phase, Active
  <2>2. Written(u)'
    BY <1>1, <1>3, <1>7, <1>9, Nothing DEF Written
  <2>3. Homes(u)'
    BY <1>1, <1>2, <1>3, <1>8 DEF Each, Homes
  <2>4. Aged(u)'
    BY <1>1, <1>2, <1>3, <1>8 DEF Each, Aged
  <2>5. Afresh(u)'
    <3>1. Own(u, logins[u]).by = u /\ Own(u, logins[u]).nth = logins[u]
      BY <1>1, <1>2, OwnFacts
    <3>2. logins[u] >= 1 => q.token.by = u /\ q.token.nth = logins[u]
      BY <1>2, <1>7, <3>1
    <3>3. CASE Len(asked[u]) = 0
      BY <1>2, <1>3, <1>7, <1>8, <1>9, <3>3 DEF Afresh
    <3>4. CASE Len(asked[u]) = 1
      <4>1. /\ asked'[u][1] = asked[u][1] /\ asked'[u][2] = q /\ Len(asked'[u]) = 2
            /\ logins[u] >= 1 /\ logins[u] <= 2
        BY <1>2, <1>7, <1>8, <3>4
      <4>2. asked[u][1].token # q.token
        BY <1>1, <1>2, <1>3, <1>7, <3>2, <3>4, <4>1 DEF Each, Aged
      <4>3. outcome'[u] = "rows" => asked'[u] # <<>> /\ asked'[u][Len(asked'[u])].honoured
        BY <1>2, <1>3, <1>8, <4>1
      <4>4. where'[u] = "over" => temp'[u] = NoFile'
        BY <1>3, <1>7, <1>9
      <4>5. /\ asked'[u][2].token.by = u /\ asked'[u][2].token.nth = logins'[u]
            /\ asked'[u][1].token # asked'[u][2].token
        BY <1>3, <3>2, <4>1, <4>2
      <4>6. Len(asked'[u]) <= 2 /\ logins'[u] <= 2 /\ outcome'[u] \notin {"refused", "no_session"}
        BY <1>3, <4>1
      <4> QED BY <4>1, <4>3, <4>4, <4>5, <4>6 DEF Afresh
    <3>5. Len(asked[u]) = 0 \/ Len(asked[u]) = 1
      <4>1. \A k \in Nat : k <= 1 => k = 0 \/ k = 1
        OBVIOUS
      <4>2. Len(asked[u]) \in Nat /\ Len(asked[u]) <= 1
        BY <1>7
      <4> QED BY <4>1, <4>2
    <3> QED BY <3>3, <3>4, <3>5
  <2> QED BY <2>1, <2>2, <2>3, <2>4, <2>5 DEF Each
<1>11. ASSUME NEW v \in Users, v # u PROVE Each(v)'
  <2>1. where'[v] = where[v] /\ outcome'[v] = outcome[v] /\ asked'[v] = asked[v]
    BY <1>1, <1>3, <1>11 DEF DsTypeOK, DsGoto
  <2>2. file'.token.by = v => file'.token.nth <= logins[v]
    BY <1>3 DEF DsInv, Each, Aged
  <2> QED BY <1>3, <2>1, <2>2, OthersKeep
<1> QED BY <1>5, <1>6, <1>10, <1>11 DEF DsInv

-----------------------------------------------------------------------------

LEMMA DsNext_Inv == DsInv /\ [DsNext]_dsvars => DsInv'
<1> SUFFICES ASSUME DsInv, [DsNext]_dsvars PROVE DsInv'
  OBVIOUS
<1>1. CASE Lapse
  <2>1. DsTypeOK' /\ HomeFile'
    BY <1>1 DEF DsInv, DsTypeOK, HomeFile, Lapse
  <2>2. \A u \in Users : Each(u)'
    <3> TAKE u \in Users
    <3>1. file'.token.by = u => file'.token.nth <= logins[u]
      BY <1>1 DEF DsInv, Each, Aged, Lapse
    <3> QED BY <1>1, <3>1, OthersKeep DEF Lapse
  <2> QED BY <2>1, <2>2 DEF DsInv
<1>2. ASSUME NEW u \in Users, DsStep(u) \/ DsKill(u) PROVE DsInv'
  <2>0. /\ where[u] \in Active \union {"start"} => outcome[u] = "none"
        /\ outcome \in [Users -> {"none", "refused", "no_session", "failed", "expired", "rows"}]
        /\ target[u].cred \in BOOLEAN
    BY DEF DsInv, DsTypeOK, Each, Phase, Active
  <2>0a. outcome[u] = "none" => outcome = [outcome EXCEPT ![u] = "none"]
    BY <2>0
  <2>1. CASE DsRefuse(u)
    BY <2>1, Moves DEF DsRefuse, DsEnds
  <2>2. CASE LoadFails(u)
    BY <2>2, Moves DEF LoadFails, DsEnds
  <2>3. CASE LoadNothing(u)
    <3>1. CASE target[u].cred
      BY <2>0, <2>0a, <2>3, <3>1, Moves DEF LoadNothing, LoginOrEnd, DsGoto
    <3>2. CASE ~target[u].cred
      BY <2>3, <3>2, Moves DEF LoadNothing, LoginOrEnd, DsEnds
    <3> QED BY <3>1, <3>2
  <2>4. CASE LoginFails(u)
    BY <2>4, Moves DEF LoginFails, DsEnds
  <2>5. CASE DsKill(u)
    BY <2>0, <2>0a, <2>5, Moves DEF DsKill, DsInv, DsTypeOK, Active
  <2>6. CASE Load(u)
    BY <2>6, LoadKeeps
  <2>7. CASE Login(u)
    BY <2>7, LoginKeeps
  <2>8. CASE WriteTemp(u)
    BY <2>8, WriteTempKeeps
  <2>9. CASE SaveFails(u)
    BY <2>9, SaveFailsKeeps
  <2>10. CASE Rename(u)
    BY <2>10, RenameKeeps
  <2>11. CASE QueryRows(u)
    <3>1. PICK how \in {"rows", "failed"} : DsEnds(u, how)
      BY <2>11 DEF QueryRows
    <3> QED BY <2>11, <3>1, Asks DEF QueryRows, DsEnds
  <2>12. CASE QueryExpired(u)
    <3>1. CASE asked[u] = <<>> /\ target[u].cred
      BY <2>0, <2>0a, <2>12, <3>1, Asks DEF QueryExpired, LoginOrEnd, DsGoto, Ask, Active
    <3>2. CASE ~(asked[u] = <<>> /\ target[u].cred)
      BY <2>12, <3>2, Asks DEF QueryExpired, LoginOrEnd, DsEnds
    <3> QED BY <3>1, <3>2
  <2>13. CASE QueryFails(u)
    BY <2>13, Asks DEF QueryFails, DsEnds
  <2> QED BY <1>2, <2>1, <2>2, <2>3, <2>4, <2>5, <2>6, <2>7, <2>8, <2>9, <2>10, <2>11,
             <2>12, <2>13 DEF DsStep
<1>3. CASE UNCHANGED dsvars
  <2>1. DsTypeOK' /\ HomeFile'
    BY <1>3 DEF DsInv, DsTypeOK, HomeFile, dsvars
  <2>2. \A u \in Users : Each(u)'
    <3> TAKE u \in Users
    <3>1. file'.token.by = u => file'.token.nth <= logins[u]
      BY <1>3 DEF DsInv, Each, Aged, dsvars
    <3> QED BY <1>3, <3>1, OthersKeep DEF dsvars
  <2> QED BY <2>1, <2>2 DEF DsInv
<1> QED BY <1>1, <1>2, <1>3 DEF DsNext

-----------------------------------------------------------------------------

\* Whatever the commands and the sites do, in whatever order: the invariant holds.
THEOREM DsInductive == DsSpec => []DsInv
<1> QED BY DsInit_Inv, DsNext_Inv, PTL DEF DsSpec

\* Every variable has its type.
THEOREM DsTypeCorrect == DsSpec => []DsTypeOK
<1>1. DsInv => DsTypeOK
  BY DEF DsInv
<1> QED BY <1>1, DsInductive, PTL

\* A token is never sent to another site than the one that was recorded with it.
THEOREM TokensAtHome == DsSpec => []TokensStayHome
<1>1. DsInv => TokensStayHome
  BY DEF DsInv, HomeFile, Each, Homes, TokensStayHome
<1> QED BY <1>1, DsInductive, PTL

\* A statement is sent twice at most, the second time with a session of its own.
THEOREM RetriesFresh == DsSpec => []RetriedAfresh
<1>1. DsInv => RetriedAfresh
  BY DEF DsInv, Each, Afresh, RetriedAfresh
<1> QED BY <1>1, DsInductive, PTL

-----------------------------------------------------------------------------
(***************************************************************************)
(* What holds of the redis driver whatever the cap, the keys and the pages. *)
(*                                                                         *)
(* The invariant says how far the driver can have got at each of its stops *)
(* (Course), that the reply it took cannot change any more (Taken), which  *)
(* keys the pages so far have shown (Shown), and what the killer can have  *)
(* done at each of its own stops (Killed).                                 *)
(***************************************************************************)

Course ==
    /\ spot \in {"issue", "wait", "returned", "join", "shape"} => ask.verb = "command" /\ Permitted
    /\ \A c \in Conns : work[c] # "none" => Permitted
    /\ spot \in {"start", "dispatch", "issue", "wait", "scan"} => result = NoResult
    /\ spot = "scan" => ask.verb = "tables"
    /\ result.kind = "data" => spot = "over"

Taken ==
    /\ result.kind = "value" => work[conn] = "done" /\ spot # "over"
    /\ result.kind = "data" /\ ask.verb = "command" => work[conn] = "done"
    /\ result.kind = "data" /\ ask.verb = "command" /\ ask.class = "read" =>
         /\ result.rows <= RowCap
         /\ ~result.warned => result.rows = reply[conn]

Shown ==
    /\ listed = {k \in Keys : bucket[k] > cursor}
    /\ result.kind = "data" /\ ask.verb = "tables" /\ ~result.warned => cursor = 0

Killed ==
    /\ id <=> killer # "none"
    /\ spot \in {"start", "dispatch", "scan"} => killer = "none"
    /\ spot \in {"shape", "over"} => killer \in {"none", "done"}
    /\ stopped => spot \in {"join", "shape", "over"}
    /\ told => due /\ ~stopped
    /\ killer = "done" /\ ~stopped => kill # "no"
    /\ killer = "killing" => due
    /\ kill # "no" => due
    /\ kill = "arrived" => work[1] # "running"

RedisInv == RedisTypeOK /\ Course /\ Taken /\ Shown /\ Killed

LEMMA RedisInit_Inv == RedisInit => RedisInv
<1> SUFFICES ASSUME RedisInit PROVE RedisInv
  OBVIOUS
<1>1. Buckets \in Nat /\ RowCap \in Nat
  BY RedisAssumption
<1>2. RedisTypeOK
  <2>1. /\ NoResult \in [kind : {"none", "value", "data", "config", "auth", "timeout", "remote"},
                        rows : Nat, warned : BOOLEAN]
        /\ Buckets \in 0 .. Buckets
    BY <1>1 DEF NoResult
  <2>2. [c \in Conns |-> "none"] \in [Conns -> {"none", "running", "done", "dead"}]
        /\ [c \in Conns |-> 0] \in [Conns -> Nat]
    OBVIOUS
  <2>3. 1 \in Conns
    BY DEF Conns
  <2> QED BY <2>1, <2>2, <2>3 DEF RedisInit, RedisTypeOK
<1>3. Course /\ Taken
  BY DEF RedisInit, Course, Taken, NoResult, Conns
<1>4. Shown
  BY <1>1 DEF RedisInit, Shown, NoResult
<1>5. Killed
  BY DEF RedisInit, Killed, Conns
<1> QED BY <1>2, <1>3, <1>4, <1>5 DEF RedisInv

\* A step that leaves the killer, the server and the pages alone keeps what is
\* said of them, if what it says of its own stop and result is right.
LEMMA Quiet ==
  ASSUME RedisInv, UNCHANGED <<ask, bucket, due, killing, serving, scanning>>,
         spot' \in {"start", "dispatch", "issue", "wait", "returned", "join", "shape", "scan", "over"},
         result' \in [kind : {"none", "value", "data", "config", "auth", "timeout", "remote"},
                      rows : Nat, warned : BOOLEAN],
         Course', Taken',
         result'.kind = "data" /\ ask.verb = "tables" /\ ~result'.warned => cursor = 0,
         spot' \in {"start", "dispatch", "scan"} => killer = "none",
         spot' \in {"shape", "over"} => killer \in {"none", "done"},
         stopped => spot' \in {"join", "shape", "over"}
  PROVE  RedisInv'
<1>1. RedisTypeOK'
  BY DEF RedisInv, RedisTypeOK, killing, serving, scanning
<1>2. Shown'
  BY DEF RedisInv, Shown, killing, serving, scanning
<1>3. Killed'
  BY DEF RedisInv, Killed, killing, serving, scanning
<1> QED BY <1>1, <1>2, <1>3 DEF RedisInv

LEMMA ErrsAre == Errs \subseteq {"remote", "timeout"}
BY DEF Errs

\* A step to the end with an error, or with one row of a verb that is no command.
LEMMA EndsQuietly ==
  ASSUME RedisInv, UNCHANGED <<ask, bucket, due, killing, serving, scanning>>,
         NEW e \in {"config", "auth", "remote", "timeout", "data"}, Ends(e),
         spot \in {"start", "dispatch", "scan"},
         e = "data" => ask.verb \notin {"command", "tables"}
  PROVE  RedisInv'
<1>1. result' = [kind |-> e, rows |-> 0, warned |-> FALSE] /\ spot' = "over"
  BY DEF Ends, NoResult
<1>2. Course'
  BY <1>1 DEF RedisInv, Course, serving, killing, Permitted
<1>3. Taken'
  BY <1>1 DEF RedisInv, Taken, serving
<1>4. killer = "none"
  BY DEF RedisInv, Killed
<1> QED BY <1>1, <1>2, <1>3, <1>4, Quiet

LEMMA RedisNext_Inv == RedisInv /\ [RedisNext]_redisvars => RedisInv'
<1> SUFFICES ASSUME RedisInv, [RedisNext]_redisvars PROVE RedisInv'
  OBVIOUS
<1> USE RedisAssumption
<1>1. CASE Misasked
  BY <1>1, EndsQuietly DEF Misasked, RedisInv, RedisTypeOK
<1>2. CASE Reach
  <2>1. spot = "start" /\ spot' = "dispatch" /\ result' = result
    BY <1>2 DEF Reach, At
  <2>2. UNCHANGED <<ask, bucket, due, killing, serving, scanning>>
    BY <1>2 DEF Reach
  <2>3. Course' /\ Taken'
    BY <2>1, <2>2 DEF RedisInv, Course, Taken, serving, Permitted
  <2> QED BY <2>1, <2>2, <2>3, Quiet DEF RedisInv, RedisTypeOK, Killed, Shown
<1>3. CASE ReachFails
  BY <1>3, EndsQuietly, ErrsAre DEF ReachFails
<1>4. CASE Inform
  BY <1>4, EndsQuietly DEF Inform
<1>5. CASE InformFails
  BY <1>5, EndsQuietly, ErrsAre DEF InformFails
<1>6. CASE Deny
  BY <1>6, EndsQuietly DEF Deny
<1>7. CASE Identify
  <2>1. RedisTypeOK'
    BY <1>7 DEF Identify, At, RedisInv, RedisTypeOK, serving, scanning
  <2>2. Course' /\ Taken' /\ Shown'
    BY <1>7 DEF Identify, At, RedisInv, Course, Taken, Shown, serving, scanning, Permitted
  <2>3. Killed'
    BY <1>7 DEF Identify, At, RedisInv, Killed, serving
  <2> QED BY <2>1, <2>2, <2>3 DEF RedisInv
<1>8. CASE Anonymous
  <2>1. spot = "dispatch" /\ spot' = "issue" /\ result' = result
    BY <1>8 DEF Anonymous, At
  <2>2. UNCHANGED <<ask, bucket, due, killing, serving, scanning>>
    BY <1>8 DEF Anonymous
  <2>3. Course' /\ Taken'
    BY <1>8, <2>1, <2>2 DEF Anonymous, RedisInv, Course, Taken, serving, Permitted
  <2> QED BY <2>1, <2>2, <2>3, Quiet DEF RedisInv, RedisTypeOK, Shown, Killed
<1>9. CASE Issue
  <2>1. RedisTypeOK'
    BY <1>9 DEF Issue, At, RedisInv, RedisTypeOK, killing, scanning, Conns
  <2>2. Course' /\ Taken' /\ Shown'
    BY <1>9 DEF Issue, At, RedisInv, RedisTypeOK, Course, Taken, Shown, NoResult, scanning, Permitted
  <2>3. Killed'
    BY <1>9 DEF Issue, At, RedisInv, RedisTypeOK, Killed, killing
  <2> QED BY <2>1, <2>2, <2>3 DEF RedisInv
<1>10. CASE Reissue
  <2>1. RedisTypeOK'
    BY <1>10 DEF Reissue, asking, RedisInv, RedisTypeOK, killing, scanning, Conns
  <2>2. Course' /\ Taken' /\ Shown'
    BY <1>10 DEF Reissue, asking, RedisInv, RedisTypeOK, Course, Taken, Shown, NoResult, scanning, Permitted
  <2>3. Killed'
    BY <1>10 DEF Reissue, asking, RedisInv, RedisTypeOK, Killed, killing, Conns
  <2> QED BY <2>1, <2>2, <2>3 DEF RedisInv
<1>11. CASE CommandReturns
  <2>1. spot = "wait" /\ spot' = "returned" /\ work[conn] = "done"
        /\ result' = [kind |-> "value", rows |-> 0, warned |-> FALSE]
    BY <1>11 DEF CommandReturns, At, NoResult
  <2>2. UNCHANGED <<ask, bucket, due, killing, serving, scanning>>
    BY <1>11 DEF CommandReturns
  <2>3. Course' /\ Taken'
    BY <2>1, <2>2 DEF RedisInv, Course, Taken, serving, Permitted
  <2> QED BY <2>1, <2>2, <2>3, Quiet DEF RedisInv, Killed
<1>12. CASE CommandFails
  <2>1. PICK e \in Errs : result' = [kind |-> e, rows |-> 0, warned |-> FALSE]
    BY <1>12 DEF CommandFails, NoResult
  <2>2. spot \in {"wait", "issue"} /\ spot' = "returned"
        /\ UNCHANGED <<ask, bucket, due, killing, serving, scanning>>
    BY <1>12 DEF CommandFails
  <2>3. Course' /\ Taken'
    BY <2>1, <2>2, ErrsAre DEF RedisInv, Course, Taken, serving, Permitted
  <2> QED BY <2>1, <2>2, <2>3, ErrsAre, Quiet DEF RedisInv, Killed
<1>13. CASE Stop
  <2>1. RedisTypeOK'
    BY <1>13 DEF Stop, At, RedisInv, RedisTypeOK, serving, scanning
  <2>2. Course' /\ Taken' /\ Shown'
    BY <1>13 DEF Stop, At, RedisInv, Course, Taken, Shown, serving, scanning, Permitted
  <2>3. Killed'
    BY <1>13 DEF Stop, At, RedisInv, RedisTypeOK, Killed, serving
  <2> QED BY <2>1, <2>2, <2>3 DEF RedisInv
<1>14. CASE Join
  <2>1. spot = "join" /\ spot' = "shape" /\ result' = result /\ killer = "done"
    BY <1>14 DEF Join, At
  <2>2. UNCHANGED <<ask, bucket, due, killing, serving, scanning>>
    BY <1>14 DEF Join
  <2>3. Course' /\ Taken'
    BY <2>1, <2>2 DEF RedisInv, Course, Taken, serving, Permitted
  <2> QED BY <2>1, <2>2, <2>3, Quiet DEF RedisInv, RedisTypeOK, Shown
<1>15. CASE Shape
  <2>1. /\ spot = "shape" /\ spot' = "over"
        /\ UNCHANGED <<ask, bucket, due, killing, serving, scanning>>
    BY <1>15 DEF Shape
  <2>2. ask.verb = "command" /\ result.kind # "data" /\ killer \in {"none", "done"}
    BY <2>1 DEF RedisInv, Course, Killed
  <2>3. conn \in Conns /\ reply[conn] \in Nat
    BY DEF RedisInv, RedisTypeOK
  <2>4. CASE result.kind # "value"
    <3>1. result' = result
      BY <1>15, <2>4 DEF Shape
    <3>2. Course' /\ Taken'
      BY <2>1, <2>2, <2>4, <3>1 DEF RedisInv, Course, Taken, serving, Permitted
    <3> QED BY <2>1, <2>2, <3>1, <3>2, Quiet DEF RedisInv, RedisTypeOK
  <2>5. CASE result.kind = "value" /\ ask.class = "write"
    <3>1. result' = [kind |-> "data", rows |-> 1, warned |-> FALSE]
      BY <1>15, <2>5 DEF Shape
    <3>2. Course' /\ Taken'
      BY <2>1, <2>2, <2>5, <3>1 DEF RedisInv, Course, Taken, serving, Permitted
    <3> QED BY <2>1, <2>2, <3>1, <3>2, Quiet
  <2>6. CASE result.kind = "value" /\ ask.class # "write"
    <3>1. result' = [kind |-> "data", rows |-> Min2(reply[conn], RowCap), warned |-> reply[conn] > RowCap]
      BY <1>15, <2>6 DEF Shape
    <3>2. /\ Min2(reply[conn], RowCap) \in Nat /\ Min2(reply[conn], RowCap) <= RowCap
          /\ ~(reply[conn] > RowCap) => Min2(reply[conn], RowCap) = reply[conn]
      BY <2>3 DEF Min2
    <3>3. Course'
      BY <2>1, <2>2, <2>6, <3>1 DEF RedisInv, Course, serving, Permitted
    <3>4. Taken'
      BY <2>1, <2>2, <2>6, <3>1, <3>2 DEF RedisInv, Taken, serving
    <3> QED BY <2>1, <2>2, <3>1, <3>2, <3>3, <3>4, Quiet
  <2> QED BY <2>4, <2>5, <2>6
<1>16. CASE BeginScan
  <2>1. spot = "dispatch" /\ spot' = "scan" /\ result' = result /\ ask.verb = "tables"
    BY <1>16 DEF BeginScan, At
  <2>2. UNCHANGED <<ask, bucket, due, killing, serving, scanning>>
    BY <1>16 DEF BeginScan
  <2>3. Course' /\ Taken'
    BY <2>1, <2>2 DEF RedisInv, Course, Taken, serving, Permitted
  <2> QED BY <2>1, <2>2, <2>3, Quiet DEF RedisInv, RedisTypeOK, Shown, Killed
<1>17. CASE Scan
  <2> DEFINE page == {k \in Keys : bucket[k] = cursor}
  <2>1. /\ spot = "scan" /\ spot' = "scan" /\ cursor > 0
        /\ listed' = listed \union page /\ cursor' = cursor - 1
        /\ \E again \in {0, 1} : found' = found + Cardinality(page) + again
        /\ UNCHANGED <<ask, bucket, due, result, killing, serving>>
    BY <1>17 DEF Scan, At
  <2>2. Cardinality(page) \in Nat
    BY FS_Subset, FS_CardinalityType
  <2>3. RedisTypeOK'
    BY <2>1, <2>2 DEF RedisInv, RedisTypeOK, killing, serving
  <2>4. Course' /\ Taken'
    BY <2>1 DEF RedisInv, Course, Taken, serving, Permitted
  <2>5. Shown'
    <3>1. \A k \in Keys : bucket[k] \in Nat
      BY DEF RedisInv, RedisTypeOK
    <3>2. cursor \in Nat /\ result.kind # "data"
      BY <2>1 DEF RedisInv, RedisTypeOK, Course
    <3> QED BY <2>1, <3>1, <3>2 DEF RedisInv, Shown
  <2>6. Killed'
    BY <2>1 DEF RedisInv, Killed, killing, serving
  <2> QED BY <2>3, <2>4, <2>5, <2>6 DEF RedisInv
<1>18. CASE ScanFails
  BY <1>18, EndsQuietly, ErrsAre DEF ScanFails
<1>19. CASE ScanEnds
  <2>1. /\ spot = "scan" /\ spot' = "over" /\ (found >= RowCap \/ cursor = 0)
        /\ result' = [kind |-> "data", rows |-> Min2(found, RowCap), warned |-> found >= RowCap]
        /\ UNCHANGED <<ask, bucket, due, killing, serving, scanning>>
    BY <1>19 DEF ScanEnds
  <2>2. found \in Nat /\ Min2(found, RowCap) \in Nat
    BY DEF RedisInv, RedisTypeOK, Min2
  <2>3. ask.verb = "tables" /\ killer = "none"
    BY <2>1 DEF RedisInv, Course, Killed
  <2>4. Course' /\ Taken'
    BY <2>1, <2>3 DEF RedisInv, Course, Taken, serving, Permitted
  <2>5. result' \in [kind : {"none", "value", "data", "config", "auth", "timeout", "remote"},
                     rows : Nat, warned : BOOLEAN]
    BY <2>1, <2>2
  <2>6. ~result'.warned => cursor = 0
    BY <2>1
  <2> QED BY <2>1, <2>3, <2>4, <2>5, <2>6, Quiet DEF RedisInv, Killed
<1>20. CASE Killer
  <2>1. /\ killer \in {"armed", "killing"} /\ killer' \in {"killing", "done"}
        /\ UNCHANGED <<ask, bucket, due, asking, id, stopped, told, scanning, conn, reply>>
    BY <1>20 DEF Killer, KillerWakes, KillerQuits, KillsConn, KillFails, serving
  <2>2. /\ work' = work \/ work' = [work EXCEPT ![1] = IF @ = "running" THEN "dead" ELSE @]
        /\ kill' \in {kill, "arrived", "lost"}
    BY <1>20 DEF Killer, KillerWakes, KillerQuits, KillsConn, KillFails, serving
  <2>3. \A c \in Conns : work'[c] = work[c] \/ (work[c] = "running" /\ work'[c] = "dead")
    BY <2>2 DEF RedisInv, RedisTypeOK, Conns
  <2>4. RedisTypeOK'
    BY <2>1, <2>2 DEF RedisInv, RedisTypeOK, asking, scanning, Conns
  <2>5. Course'
    BY <2>1, <2>3 DEF RedisInv, RedisTypeOK, Course, asking, Permitted
  <2>6. Taken' /\ Shown'
    BY <2>1, <2>3 DEF RedisInv, RedisTypeOK, Taken, Shown, asking, scanning
  <2>7. Killed'
    <3>1. CASE KillerWakes
      BY <3>1 DEF KillerWakes, asking, serving, RedisInv, Killed
    <3>2. CASE KillerQuits
      BY <3>2 DEF KillerQuits, asking, serving, RedisInv, Killed
    <3>3. CASE KillsConn
      BY <3>3 DEF KillsConn, asking, RedisInv, RedisTypeOK, Killed, Conns
    <3>4. CASE KillFails
      BY <3>4 DEF KillFails, asking, serving, RedisInv, Killed
    <3> QED BY <1>20, <3>1, <3>2, <3>3, <3>4 DEF Killer
  <2> QED BY <2>4, <2>5, <2>6, <2>7 DEF RedisInv
<1>21. CASE ServerReplies
  <2>1. PICK c \in Conns :
          /\ work[c] = "running" /\ work' = [work EXCEPT ![c] = "done"]
          /\ reply' \in {[reply EXCEPT ![c] = n] : n \in 0 .. RowCap + 1}
    BY <1>21 DEF ServerReplies
  <2>2. UNCHANGED <<ask, bucket, due, asking, killing, conn, scanning>>
    BY <1>21 DEF ServerReplies
  <2>3. RedisTypeOK'
    BY <2>1, <2>2 DEF RedisInv, RedisTypeOK, asking, killing, scanning
  <2>4. work[conn] = "done" => work'[conn] = "done" /\ reply'[conn] = reply[conn]
    BY <2>1 DEF RedisInv, RedisTypeOK
  <2>5. Course'
    BY <2>1, <2>2 DEF RedisInv, RedisTypeOK, Course, asking, Permitted
  <2>6. Taken' /\ Shown'
    BY <2>2, <2>4 DEF RedisInv, Taken, Shown, asking, scanning
  <2>7. Killed'
    BY <2>1, <2>2 DEF RedisInv, RedisTypeOK, Killed, asking, killing, Conns
  <2> QED BY <2>3, <2>5, <2>6, <2>7 DEF RedisInv
<1>22. CASE DueNow
  <2>1. RedisTypeOK'
    BY <1>22 DEF DueNow, RedisInv, RedisTypeOK, asking, killing, serving, scanning
  <2>2. Course' /\ Taken' /\ Shown' /\ Killed'
    BY <1>22 DEF DueNow, RedisInv, Course, Taken, Shown, Killed, asking, killing, serving, scanning, Permitted
  <2> QED BY <2>1, <2>2 DEF RedisInv
<1>23. CASE UNCHANGED redisvars
  BY <1>23 DEF redisvars, RedisInv, RedisTypeOK, Course, Taken, Shown, Killed,
               asking, killing, serving, scanning, Permitted
<1> QED
  BY <1>1, <1>2, <1>3, <1>4, <1>5, <1>6, <1>7, <1>8, <1>9, <1>10, <1>11, <1>12, <1>13, <1>14,
     <1>15, <1>16, <1>17, <1>18, <1>19, <1>20, <1>21, <1>22, <1>23 DEF RedisNext, Driver

LEMMA RedisInv_Served == RedisInv => RedisServed
<1> SUFFICES ASSUME RedisInv PROVE RedisServed
  OBVIOUS
<1>1. cursor = 0 => listed = Keys
  <2>1. \A k \in Keys : bucket[k] > 0
    BY RedisAssumption DEF RedisInv, RedisTypeOK
  <2> QED BY <2>1 DEF RedisInv, Shown
<1>2. spot = "over" /\ id /\ told => kill # "no"
  BY DEF RedisInv, Killed
<1> QED BY <1>1, <1>2 DEF RedisInv, RedisTypeOK, Course, Taken, Shown, Killed, RedisServed

\* RedisInv holds of every state.
THEOREM RedisInductive == RedisSpec => []RedisInv
BY RedisInit_Inv, RedisNext_Inv, PTL DEF RedisSpec

\* Every variable has its type.
THEOREM RedisTypeCorrect == RedisSpec => []RedisTypeOK
<1>1. RedisInv => RedisTypeOK
  BY DEF RedisInv
<1> QED BY <1>1, RedisInductive, PTL

\* What a redis command gives is true of the server, and what was told to stop
\* has been killed.
THEOREM RedisCorrect == RedisSpec => []RedisServed
BY RedisInv_Served, RedisInductive, PTL

-----------------------------------------------------------------------------
(***************************************************************************)
(* What holds of the mongo driver for every set of texts, if the parser    *)
(* takes each of them for what it means (ParserRight, which the run finds  *)
(* true of the sentences of a grammar and of damaged ones).                *)
(*                                                                         *)
(* The invariant says what is known of the statement at each stage (Read,  *)
(* Guarded) and how the documents that came relate to those asked for      *)
(* (Counted).                                                              *)
(***************************************************************************)

ParserRight ==
    \A t \in Texts : ParseStatement(t.text) # NoStatement => ParseStatement(t.text) = t.stm

Read ==
    /\ stage \in {"attach", "discover", "parse"} => stm = NoStatement
    /\ stage \in {"guard", "prepare", "wait", "fetch"} => stm # NoStatement
    /\ stage \in {"parse", "guard", "prepare", "wait", "fetch"} => given.verb = "statement"
    /\ stage = "discover" => given.verb # "statement"
    /\ stm # NoStatement =>
         given.verb = "statement" /\ given.input \in Texts /\ stm = ParseStatement(given.input.text)

Guarded ==
    /\ stage \in {"prepare", "wait", "fetch"} \/ op # "none" =>
         /\ stm.method \in ReadMethods \union WriteMethods /\ ~HasJS
         /\ Writes => given.allow
    /\ op = "none" <=> request = NoRequest
    /\ op # "none" =>
         /\ stm # NoStatement /\ request.what = stm.method
         /\ stm.method \in {"find", "findOne"} => request.limit \in 1 .. DocCap
         /\ stm.method \notin {"find", "findOne"} => request.limit = 0
    /\ stage \in {"attach", "discover", "parse", "guard", "prepare"} => op = "none"
    /\ stage \in {"wait", "fetch"} => op # "none"

Counted ==
    /\ stage # "over" => final = NoFinal
    /\ stage \notin {"fetch", "over"} \/ op # "done" => got = 0
    /\ stage = "fetch" =>
         /\ op = "done" /\ Cursored /\ got <= Available
         /\ stm.method = "aggregate" => got <= DocCap
    /\ final.kind = "config" => op = "none"
    /\ final.kind = "data" /\ given.verb = "statement" =>
         /\ op = "done"
         /\ stm.method \notin WriteMethods \union {"countDocuments"} => final.size <= DocCap
         /\ ~final.warned => final.size = Available
         /\ stm.method = "insertOne" => stock = 1
    /\ stm.method = "insertOne" /\ op = "done" => stock = 1

MongoInv == MongoTypeOK /\ Read /\ Guarded /\ Counted

-----------------------------------------------------------------------------

LEMMA NoStatementIs ==
    /\ IsStatement(NoStatement)
    /\ NoStatement.method = "none" /\ NoStatement.args = <<>>
<1>1. NoStatement.method = "none" /\ NoStatement.args = <<>> /\ NoStatement.mods = <<>>
  BY DEF NoStatement
<1>2. Len(<<>>) = 0 /\ DOMAIN <<>> = {}
  OBVIOUS
<1> QED BY <1>1, <1>2 DEF IsStatement

\* A limit that fits is between 1 and DocCap.
LEMMA LimitFits == ASSUME IsStatement(stm), FindLimit <= DocCap PROVE FindLimit \in 1 .. DocCap
<1>1. \A n \in Limit : n \in Int
  BY DEF Limit, NumberIn, IsStatement, IsValue
<1> QED BY <1>1, MongoAssumption DEF FindLimit

LEMMA AvailableIs ==
  ASSUME MongoTypeOK
  PROVE  /\ Available \in Nat /\ Available <= stock
         /\ request.limit # 0 => Available <= request.limit
         /\ request.limit = 0 => Available = stock
BY MongoAssumption DEF MongoTypeOK, Available

LEMMA MongoInit_Inv == MongoInit => MongoInv
<1> SUFFICES ASSUME MongoInit PROVE MongoInv
  OBVIOUS
<1>1. MongoTypeOK
  <2>1. IsStatement(stm) /\ given \in MongoCalls
    BY NoStatementIs DEF MongoInit
  <2>2. request \in [what : {"nothing"} \union ReadMethods \union WriteMethods, limit : 0 .. DocCap]
    BY MongoAssumption DEF MongoInit, NoRequest
  <2>3. final \in [kind : {"none", "data", "config", "auth", "remote"}, size : Nat, warned : BOOLEAN]
    BY DEF MongoInit, NoFinal
  <2>4. stock = 0 /\ got = 0 /\ 0 \in 0 .. 0
    BY DEF MongoInit
  <2>5. stage = "attach" /\ op = "none" /\ lost = FALSE
    BY DEF MongoInit
  <2> QED BY <2>1, <2>2, <2>3, <2>4, <2>5 DEF MongoTypeOK
<1>2. Read /\ Guarded
  BY DEF MongoInit, Read, Guarded
<1>3. Counted
  BY NoStatementIs DEF MongoInit, Counted, NoFinal
<1> QED BY <1>1, <1>2, <1>3 DEF MongoInv

\* A step to the end before anything was sent.
LEMMA EndsUnsent ==
  ASSUME MongoInv, stage \notin {"wait", "fetch", "over"}, NEW e \in {"config", "auth", "remote", "data"},
         NEW n \in Nat, Finishes(e, n, FALSE), e = "data" => given.verb # "statement",
         UNCHANGED <<given, atServer>>,
         stm' = stm \/ (stm' = NoStatement /\ stage = "parse")
  PROVE  MongoInv'
<1>1. stage' = "over" /\ final' = [kind |-> e, size |-> n, warned |-> FALSE] /\ op' = "none" /\ got' = 0
  BY DEF MongoInv, Guarded, Counted, Finishes, atServer, MongoTypeOK
<1>2. stm' = stm
  BY DEF MongoInv, Read
<1>3. MongoTypeOK'
  BY <1>1, <1>2 DEF MongoInv, MongoTypeOK, atServer
<1>4. Read' /\ Guarded'
  BY <1>1, <1>2 DEF MongoInv, Read, Guarded, atServer, HasJS, Arity, Writes, NoRequest
<1>5. Counted'
  BY <1>1, <1>2 DEF MongoInv, Counted, atServer, Guarded, MongoTypeOK
<1> QED BY <1>3, <1>4, <1>5 DEF MongoInv

\* A step to the end with an error after the request, or with what came.
LEMMA EndsSent ==
  ASSUME MongoInv, stage \in {"wait", "fetch"}, NEW e \in {"remote", "data"}, NEW n \in Nat, NEW w \in BOOLEAN,
         Finishes(e, n, w), UNCHANGED <<given, stm, atServer>>,
         e = "data" => /\ op = "done"
                       /\ stm.method \notin WriteMethods \union {"countDocuments"} => n <= DocCap
                       /\ ~w => n = Available
  PROVE  MongoInv'
<1>1. stage' = "over" /\ final' = [kind |-> e, size |-> n, warned |-> w]
  BY DEF Finishes
<1>2. MongoTypeOK'
  BY <1>1 DEF MongoInv, MongoTypeOK, atServer
<1>3. Read' /\ Guarded'
  BY <1>1 DEF MongoInv, Read, Guarded, atServer, HasJS, Arity, Writes
<1>4. Available' = Available
  BY DEF Available, atServer
<1>5. Counted'
  BY <1>1, <1>4 DEF MongoInv, Counted, atServer
<1> QED BY <1>2, <1>3, <1>5 DEF MongoInv

LEMMA MongoNext_Inv == MongoInv /\ [MongoNext]_mongovars => MongoInv'
<1> SUFFICES ASSUME MongoInv, [MongoNext]_mongovars PROVE MongoInv'
  OBVIOUS
<1> USE MongoAssumption
<1>1. CASE Attach
  <2>1. stage = "attach" /\ stage' \in {"parse", "discover"}
        /\ (stage' = "parse" <=> given.verb = "statement") /\ UNCHANGED <<given, stm, atServer, final>>
    BY <1>1 DEF Attach, Proceeds
  <2>2. MongoTypeOK'
    BY <2>1 DEF MongoInv, MongoTypeOK, atServer
  <2>3. Read' /\ Guarded'
    BY <2>1 DEF MongoInv, Read, Guarded, atServer, HasJS, Arity, Writes
  <2>4. Counted'
    BY <2>1 DEF MongoInv, Counted, atServer, NoFinal
  <2> QED BY <2>2, <2>3, <2>4 DEF MongoInv
<1>2. CASE AttachFails
  BY <1>2, EndsUnsent DEF AttachFails
<1>3. CASE Discover
  <2>1. given.verb # "statement" /\ stage = "discover"
    BY <1>3 DEF Discover, MongoInv, Read
  <2> QED BY <1>3, <2>1, EndsUnsent DEF Discover
<1>4. CASE DiscoverFails
  BY <1>4, EndsUnsent DEF DiscoverFails, Breaks, Rejects
<1>5. CASE ParseIt
  <2>1. /\ stage = "parse" /\ stm' = ParseStatement(given.input.text)
        /\ UNCHANGED <<given, atServer>>
    BY <1>5 DEF ParseIt
  <2>2. CASE stm' = NoStatement
    <3>1. Finishes("config", 0, FALSE)
      BY <1>5, <2>2 DEF ParseIt, Rejects
    <3> QED BY <2>1, <2>2, <3>1, EndsUnsent
  <2>3. CASE stm' # NoStatement
    <3>1. stage' = "guard" /\ final' = final
      BY <1>5, <2>3 DEF ParseIt
    <3>2. given.verb = "statement" /\ given \in MongoCalls /\ op = "none"
      BY <2>1 DEF MongoInv, Read, MongoTypeOK, Guarded
    <3>3. given.input \in Texts
      BY <3>2 DEF MongoCalls
    <3>4. IsStatement(stm')
      BY <2>1, <3>3
    <3>5. MongoTypeOK'
      BY <2>1, <3>1, <3>4 DEF MongoInv, MongoTypeOK, atServer
    <3>6. Read' /\ Guarded'
      BY <2>1, <2>3, <3>1, <3>2, <3>3 DEF MongoInv, Read, Guarded, atServer
    <3>7. Counted'
      BY <2>1, <3>1, <3>2 DEF MongoInv, Counted, atServer, NoFinal
    <3> QED BY <3>5, <3>6, <3>7 DEF MongoInv
  <2> QED BY <2>2, <2>3
<1>6. CASE Forbids
  <2>1. stage = "guard" /\ Finishes("config", 0, FALSE) /\ UNCHANGED <<given, stm, atServer>>
    BY <1>6 DEF Forbids, Rejects
  <2> QED BY <2>1, EndsUnsent
<1>7. CASE Admits
  <2>1. /\ stage = "guard" /\ stage' = "prepare" /\ UNCHANGED <<given, stm, atServer, final>>
        /\ stm.method \in ReadMethods \union WriteMethods /\ ~HasJS
        /\ Writes => given.allow
    BY <1>7 DEF Admits, Proceeds
  <2>2. MongoTypeOK'
    BY <2>1 DEF MongoInv, MongoTypeOK, atServer
  <2>3. Read' /\ Guarded'
    BY <2>1 DEF MongoInv, Read, Guarded, atServer, HasJS, Arity, Writes
  <2>4. Counted'
    BY <2>1 DEF MongoInv, Counted, atServer, NoFinal
  <2> QED BY <2>2, <2>3, <2>4 DEF MongoInv
<1>8. CASE RejectArgs
  <2>1. stage = "prepare" /\ Finishes("config", 0, FALSE) /\ UNCHANGED <<given, stm, atServer>>
    BY <1>8 DEF RejectArgs, Rejects
  <2> QED BY <2>1, EndsUnsent
<1>9. CASE Request
  <2>1. /\ stage = "prepare" /\ stage' = "wait" /\ op' = "running"
        /\ UNCHANGED <<given, stm, stock, got, lost, final>>
    BY <1>9 DEF Request, Proceeds
  <2>2. /\ stm.method = "find" => request' = [what |-> stm.method, limit |-> FindLimit]
        /\ stm.method = "findOne" => request' = [what |-> stm.method, limit |-> 1]
        /\ stm.method \notin {"find", "findOne"} => request' = [what |-> stm.method, limit |-> 0]
    BY <1>9 DEF Request
  <2>3. stm.method = "find" => FindLimit \in 1 .. DocCap
    BY <1>9, LimitFits DEF Request, Fit, MongoInv, MongoTypeOK
  <2>4. /\ request'.what = stm.method /\ request' # NoRequest
        /\ stm.method \in {"find", "findOne"} => request'.limit \in 1 .. DocCap
        /\ stm.method \notin {"find", "findOne"} => request'.limit = 0
    <3>1. stm.method \in ReadMethods \union WriteMethods
      BY <2>1 DEF MongoInv, Guarded
    <3>2. stm.method # "nothing"
      BY <3>1 DEF ReadMethods, WriteMethods
    <3> QED BY <2>2, <2>3, <3>2 DEF NoRequest
  <2>5. MongoTypeOK'
    <3>1. stm.method \in ReadMethods \union WriteMethods
      BY <2>1 DEF MongoInv, Guarded
    <3>2. request' \in [what : {"nothing"} \union ReadMethods \union WriteMethods, limit : 0 .. DocCap]
      BY <2>2, <2>3, <3>1
    <3> QED BY <2>1, <3>2 DEF MongoInv, MongoTypeOK
  <2>6. Read' /\ Guarded'
    BY <2>1, <2>4 DEF MongoInv, Read, Guarded, HasJS, Arity, Writes
  <2>7. Counted'
    BY <2>1 DEF MongoInv, Counted, Guarded, NoFinal
  <2> QED BY <2>5, <2>6, <2>7 DEF MongoInv
<1>10. CASE RequestFails
  <2>1. stage = "prepare" /\ Finishes("remote", 0, FALSE) /\ UNCHANGED <<given, stm, atServer>>
    BY <1>10 DEF RequestFails, Breaks
  <2> QED BY <2>1, EndsUnsent
<1>11. CASE Reply
  <2>1. stage = "wait" /\ op = "done" /\ UNCHANGED <<given, stm, atServer>>
    BY <1>11 DEF Reply
  <2>2. /\ stock \in Nat /\ stm.method \in ReadMethods \union WriteMethods
        /\ stm.method = "insertOne" => stock = 1
    BY <2>1 DEF MongoInv, MongoTypeOK, Guarded, Counted
  <2>3. CASE Cursored /\ stage' = "fetch" /\ UNCHANGED final
    <3>1. MongoTypeOK'
      BY <2>1, <2>3 DEF MongoInv, MongoTypeOK, atServer
    <3>2. Read' /\ Guarded'
      BY <2>1, <2>3 DEF MongoInv, Read, Guarded, atServer, HasJS, Arity, Writes
    <3>3. got = 0 /\ Available \in Nat /\ Available' = Available
      BY <2>1, AvailableIs DEF MongoInv, Counted, Available, atServer
    <3>4. Counted'
      BY <2>1, <2>3, <3>3 DEF MongoInv, Counted, atServer, Cursored, NoFinal
    <3> QED BY <3>1, <3>2, <3>4 DEF MongoInv
  <2>4. CASE ~Cursored
    <3>1. request.limit = 0
      BY <2>1, <2>4 DEF MongoInv, Guarded, Cursored
    <3>2. Available = stock
      BY <3>1, AvailableIs DEF MongoInv
    <3>3. CASE stm.method = "distinct"
      <4>1. CASE stock > DocCap /\ Finishes("data", DocCap, TRUE)
        <5>1. DocCap \in Nat /\ DocCap <= DocCap /\ TRUE \in BOOLEAN
          OBVIOUS
        <5> QED BY <2>1, <4>1, <5>1, EndsSent
      <4>2. CASE stock <= DocCap /\ Finishes("data", stock, FALSE)
        BY <2>1, <2>2, <3>2, <4>2, EndsSent
      <4> QED BY <1>11, <2>4, <3>3, <4>1, <4>2 DEF Reply
    <3>4. CASE stm.method # "distinct"
      <4>1. Finishes("data", stock, FALSE)
        BY <1>11, <2>2, <2>4, <3>4 DEF Reply
      <4>2. stm.method \in WriteMethods \union {"countDocuments"}
        BY <2>2, <2>4, <3>4 DEF ReadMethods, Cursored
      <4> QED BY <2>1, <2>2, <3>2, <4>1, <4>2, EndsSent
    <3> QED BY <3>3, <3>4
  <2> QED BY <1>11, <2>3, <2>4 DEF Reply, Cursored
<1>12. CASE ReplyFails
  <2>1. stage = "wait" /\ Finishes("remote", 0, FALSE) /\ UNCHANGED <<given, stm, atServer>>
    BY <1>12 DEF ReplyFails, Breaks
  <2> QED BY <2>1, EndsSent
<1>13. CASE Fetch
  <2>1. /\ stage = "fetch" /\ got < Available /\ ~Full /\ got' = got + 1
        /\ UNCHANGED <<given, stage, stm, request, op, stock, lost, final>>
    BY <1>13 DEF Fetch
  <2>2. Available \in Nat /\ Available <= stock /\ Available' = Available /\ got \in Nat /\ stock \in Nat
    BY <2>1, AvailableIs DEF MongoInv, MongoTypeOK, Available
  <2>3. MongoTypeOK'
    BY <2>1, <2>2 DEF MongoInv, MongoTypeOK
  <2>4. Read' /\ Guarded'
    BY <2>1 DEF MongoInv, Read, Guarded, HasJS, Arity, Writes
  <2>5. Counted'
    BY <2>1, <2>2 DEF MongoInv, Counted, Cursored, Full
  <2> QED BY <2>3, <2>4, <2>5 DEF MongoInv
<1>14. CASE Overflows
  <2>1. /\ stage = "fetch" /\ Finishes("data", got, TRUE) /\ Full
        /\ UNCHANGED <<given, stm, atServer>>
    BY <1>14 DEF Overflows
  <2>2. op = "done" /\ got \in Nat /\ got <= DocCap
    BY <2>1 DEF MongoInv, MongoTypeOK, Counted, Full
  <2> QED BY <2>1, <2>2, EndsSent
<1>15. CASE FetchEnds
  <2>1. stage = "fetch" /\ (lost \/ got = Available) /\ UNCHANGED <<given, stm, atServer>>
    BY <1>15 DEF FetchEnds
  <2>2. CASE lost
    <3>1. Finishes("remote", 0, FALSE)
      BY <1>15, <2>2 DEF FetchEnds, Breaks
    <3> QED BY <2>1, <3>1, EndsSent
  <2>3. CASE ~lost
    <3>1. Finishes("data", got, FALSE) /\ got = Available
      BY <1>15, <2>1, <2>3 DEF FetchEnds
    <3>2. op = "done" /\ got \in Nat /\ Cursored
      BY <2>1 DEF MongoInv, MongoTypeOK, Counted
    <3>3. got <= DocCap
      <4>1. CASE stm.method = "aggregate"
        BY <2>1, <4>1 DEF MongoInv, Counted
      <4>2. CASE stm.method \in {"find", "findOne"}
        <5>1. request.limit \in 1 .. DocCap
          BY <2>1, <4>2 DEF MongoInv, Guarded
        <5>2. Available <= request.limit
          BY <5>1, AvailableIs DEF MongoInv
        <5> QED BY <3>1, <3>2, <5>1, <5>2
      <4> QED BY <3>2, <4>1, <4>2 DEF Cursored
    <3> QED BY <2>1, <3>1, <3>2, <3>3, EndsSent
  <2> QED BY <2>2, <2>3
<1>16. CASE LoseCursor
  <2>1. /\ stage = "fetch" /\ lost' = TRUE
        /\ UNCHANGED <<given, stage, stm, request, op, stock, got, final>>
    BY <1>16 DEF LoseCursor
  <2>2. MongoTypeOK'
    BY <2>1 DEF MongoInv, MongoTypeOK
  <2>3. Read' /\ Guarded'
    BY <2>1 DEF MongoInv, Read, Guarded, HasJS, Arity, Writes
  <2>4. Counted'
    BY <2>1 DEF MongoInv, Counted, Cursored, Available
  <2> QED BY <2>2, <2>3, <2>4 DEF MongoInv
<1>17. CASE OpEnds
  <2>1. /\ op = "running" /\ op' \in {"done", "failed"}
        /\ UNCHANGED <<given, stage, stm, request, got, lost, final>>
    BY <1>17 DEF OpEnds
  <2>2. got = 0 /\ stock \in Nat
    BY <2>1 DEF MongoInv, Counted, MongoTypeOK
  <2>3. stock' \in Nat /\ (stm.method = "insertOne" /\ op' = "done" => stock' = 1)
    BY <1>17, <2>2 DEF OpEnds
  <2>4. MongoTypeOK'
    BY <2>1, <2>2, <2>3 DEF MongoInv, MongoTypeOK
  <2>5. Read' /\ Guarded'
    BY <2>1 DEF MongoInv, Read, Guarded, HasJS, Arity, Writes
  <2>6. Counted'
    BY <2>1, <2>2, <2>3 DEF MongoInv, Counted
  <2> QED BY <2>4, <2>5, <2>6 DEF MongoInv
<1>18. CASE UNCHANGED mongovars
  BY <1>18 DEF mongovars, MongoInv, MongoTypeOK, Read, Guarded, Counted, HasJS, Arity, Writes, Cursored, Available
<1> QED
  BY <1>1, <1>2, <1>3, <1>4, <1>5, <1>6, <1>7, <1>8, <1>9, <1>10, <1>11, <1>12, <1>13, <1>14,
     <1>15, <1>16, <1>17, <1>18 DEF MongoNext, MongoDriver

LEMMA MongoInv_Served == ASSUME ParserRight PROVE MongoInv => MongoServed
<1> SUFFICES ASSUME MongoInv PROVE MongoServed
  OBVIOUS
<1>1. stm # NoStatement => stm = Meant
  BY DEF MongoInv, Read, ParserRight, Meant
<1>2. op # "none" => stm # NoStatement /\ stm = Meant
  BY <1>1 DEF MongoInv, Guarded
<1>3. op # "none" => ~MeansJS /\ (MeansWrite => given.allow)
  BY <1>2 DEF MongoInv, Guarded, MeansJS, MeansWrite, HasJS, Writes, Arity
<1> QED BY <1>1, <1>2, <1>3 DEF MongoInv, Guarded, Counted, MongoServed

\* MongoInv holds of every state.
THEOREM MongoInductive == MongoSpec => []MongoInv
BY MongoInit_Inv, MongoNext_Inv, PTL DEF MongoSpec

\* Every variable has its type.
THEOREM MongoTypeCorrect == MongoSpec => []MongoTypeOK
<1>1. MongoInv => MongoTypeOK
  BY DEF MongoInv
<1> QED BY <1>1, MongoInductive, PTL

\* If the parser is right about the texts, what is sent is what was meant, and
\* allowed, and no document is missing without a word.
THEOREM MongoCorrect == ASSUME ParserRight PROVE MongoSpec => []MongoServed
BY MongoInv_Served, MongoInductive, PTL

-----------------------------------------------------------------------------
(* dbcli as a whole *)

\* Every step of dbcli is a step of each driver or leaves it alone.
THEOREM DriversImplemented == DbcliSpec => Spec /\ DsSpec /\ RedisSpec /\ MongoSpec
<1>1. DbcliInit => Init /\ DsInit /\ RedisInit /\ MongoInit
  BY Zenon DEF DbcliInit
<1>2. [DbcliNext]_dbclivars =>
        [Next]_vars /\ [DsNext]_dsvars /\ [RedisNext]_redisvars /\ [MongoNext]_mongovars
  <2>1. ASSUME Sql(Next)
        PROVE  Next /\ UNCHANGED dsvars /\ UNCHANGED redisvars /\ UNCHANGED mongovars
    BY <2>1, Zenon DEF Sql
  <2>2. ASSUME Dataease(DsNext)
        PROVE  DsNext /\ UNCHANGED vars /\ UNCHANGED redisvars /\ UNCHANGED mongovars
    BY <2>2, Zenon DEF Dataease
  <2>3. ASSUME Redis(RedisNext)
        PROVE  RedisNext /\ UNCHANGED vars /\ UNCHANGED dsvars /\ UNCHANGED mongovars
    BY <2>3, Zenon DEF Redis
  <2>4. ASSUME Mongo(MongoNext)
        PROVE  MongoNext /\ UNCHANGED vars /\ UNCHANGED dsvars /\ UNCHANGED redisvars
    BY <2>4, Zenon DEF Mongo
  <2>5. ASSUME UNCHANGED dbclivars
        PROVE  UNCHANGED vars /\ UNCHANGED dsvars /\ UNCHANGED redisvars /\ UNCHANGED mongovars
    BY <2>5, Zenon DEF dbclivars
  <2> QED BY <2>1, <2>2, <2>3, <2>4, <2>5, Zenon DEF DbcliNext
<1> QED BY <1>1, <1>2, PTL DEF DbcliSpec, Spec, DsSpec, RedisSpec, MongoSpec

\* Every variable of every driver has its type.
THEOREM DbcliTypeCorrect == DbcliSpec => []DbcliTypeOK
BY DriversImplemented, TypeCorrect, DsTypeCorrect, RedisTypeCorrect, MongoTypeCorrect, PTL DEF DbcliTypeOK

\* Success is reported only for what the server completed.
THEOREM DbcliVerdictTrue == DbcliSpec => []VerdictIsTrue
BY DriversImplemented, VerdictTrue, PTL

\* A session of one site is not sent to another, and a statement at most twice.
THEOREM DbcliSessions == DbcliSpec => [](TokensStayHome /\ RetriedAfresh)
BY DriversImplemented, TokensAtHome, RetriesFresh, PTL

\* If the parser is right about the texts, redis and mongo get only what is
\* allowed, and what they give is complete or said not to be.
THEOREM DbcliNosql == ASSUME ParserRight PROVE DbcliSpec => []NosqlServed
BY DriversImplemented, RedisCorrect, MongoCorrect, PTL DEF NosqlServed
=============================================================================
