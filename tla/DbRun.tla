-------------------------------- MODULE DbRun --------------------------------
(***************************************************************************)
(* One dbcli invocation with a SQL driver: the run loop of internal/dbcli, *)
(* the guards and the pinned connection of sqlcore, the drivers that open  *)
(* and close the pool, and the goroutine that cancels a statement on the   *)
(* server when the context (--timeout or a signal) is done.                *)
(*                                                                         *)
(* Three actors interleave: the main goroutine (pc), the watcher, and the  *)
(* database server, which goes on with a statement whether or not anybody  *)
(* still waits for it.  The server is external.                            *)
(***************************************************************************)
EXTENDS Naturals, Sequences, FiniteSets

CONSTANT MaxRows   \* bound: rows an insert renders

ASSUME DbAssumption == MaxRows \in Nat

Verbs == {"sql", "insert", "catalog", "doctor"}

\* What the guards tell apart in a statement: "joined" is a read of which no
\* single table can be inferred, "wide" a read with an explicit LIMIT above 100.
Stmts == {"empty", "multi", "ddl", "hazard", "write", "read", "joined", "wide"}

Errors == {"none", "general", "config", "auth", "timeout", "remote"}
Ended  == {"exited", "crashed", "killed"}
\* where a panic of the driver can surface
InDriver == {"dial", "handshake", "guard", "connect", "use", "backend", "limit",
             "send", "wait", "rows", "emit"}
Locations == {"resolve", "begin", "unwind", "release", "untunnel", "finish",
              "print"} \union InDriver \union Ended

VARIABLES
    call,      \* the invocation: flags, statement, target
    pc,        \* where the main goroutine is
    err,       \* class of the error the driver returned
    pinned,    \* one connection serves USE, the backend id and the statement
    used,      \* UseDatabase ran on it
    rows,      \* rows rendered by insert
    wrote,     \* runOutput.wrote
    stdout,    \* what was printed
    ctxDone,   \* the context is done
    watcher,   \* the goroutine of watchCancel
    server,    \* the statement on the server
    started,   \* the started line is on record
    finals     \* terminal audit lines, by outcome

flow   == <<err, pinned, used, rows>>
output == <<wrote, stdout>>
trail  == <<started, finals>>
vars   == <<call, pc, flow, output, ctxDone, watcher, server, trail>>

Alive == pc \notin Ended
Remote == call.engine = "server"

\* The target is a server, possibly behind a tunnel, or a local sqlite file;
\* the catalog verbs and doctor have no statement.
Calls == {c \in [verb : Verbs, stmt : Stmts, write : BOOLEAN, database : BOOLEAN,
                 raw : BOOLEAN, engine : {"server", "local"}, tunnel : BOOLEAN] :
            /\ c.tunnel => c.engine = "server"
            /\ c.verb \in {"catalog", "doctor"} => c.stmt = "read"}

Init ==
    /\ call \in Calls
    /\ pc = "resolve"
    /\ err = "none"
    /\ pinned = FALSE /\ used = FALSE
    /\ rows = 0
    /\ wrote = FALSE /\ stdout = <<>>
    /\ ctxDone = FALSE
    /\ watcher = "off"
    /\ server = "idle"
    /\ started = FALSE /\ finals = <<>>

Goto(l) == pc' = l

\* The driver returns e: the deferred calls run next
Fails(e) ==
    /\ err' = e
    /\ Goto("unwind")
    /\ UNCHANGED <<pinned, used, rows>>

\* The classes of a failed statement.  wrapDBErr asks the context, a failed Scan
\* does not; catalog verbs hand rows.Err on as it is; doctor's is remote.
Lost == CASE call.verb = "catalog" -> {"remote", "general"}
          [] call.verb = "doctor"  -> {"remote"}
          [] OTHER -> IF ctxDone THEN {"timeout", "remote"} ELSE {"remote"}

\* A statement of an in-process engine stops with its caller
Dropped == IF ~Remote /\ server = "running" THEN "stopped" ELSE server

-----------------------------------------------------------------------------
(* The run loop up to the driver *)

\* Seeded bug: the run goes on after the early error
EarlyErrFallsOn ==
    /\ pc = "resolve"
    /\ err' = "config"
    /\ finals' = Append(finals, "error")
    /\ stdout' = Append(stdout, "error")
    /\ Goto("begin")
    /\ UNCHANGED <<call, pinned, used, rows, wrote, ctxDone, watcher, server,
                   started>>

\* Flags, --file, --timeout, driver, target or adapter are wrong: one terminal
\* line, one error, exit 2
EarlyErr ==
    /\ pc = "resolve"
    /\ err' = "config"
    /\ finals' = Append(finals, "error")
    /\ stdout' = Append(stdout, "error")
    /\ Goto("exited")
    /\ UNCHANGED <<call, pinned, used, rows, wrote, ctxDone, watcher, server,
                   started>>

\* doctor is audited after it ran
Resolve ==
    /\ pc = "resolve"
    /\ Goto(IF call.verb = "doctor" THEN "dial" ELSE "begin")
    /\ UNCHANGED <<call, flow, output, ctxDone, watcher, server, trail>>

\* Seeded bug: a write is not opened as side-effecting
BeginPlain ==
    /\ pc = "begin"
    /\ Goto("dial")
    /\ UNCHANGED <<call, flow, output, ctxDone, watcher, server, trail>>

Begin ==
    /\ pc = "begin"
    /\ started' = call.write
    /\ Goto("dial")
    /\ UNCHANGED <<call, flow, output, ctxDone, watcher, server, finals>>

\* dbconn.Resolve: DSN, credential, TCP connection to the bastion.  The pool is
\* opened lazily.
Dial ==
    /\ pc = "dial"
    /\ Goto(IF call.tunnel THEN "handshake"
            ELSE IF call.verb \in {"sql", "insert"} THEN "guard" ELSE "send")
    /\ UNCHANGED <<call, flow, output, ctxDone, watcher, server, trail>>

\* The driver returns before it opened anything
DialFails ==
    /\ pc = "dial"
    /\ \E e \in {"config", "auth", "remote"} : err' = e
    /\ Goto("finish")
    /\ UNCHANGED <<call, pinned, used, rows, output, ctxDone, watcher, server, trail>>

\* ssh.NewClientConn: takes neither the context nor ClientConfig.Timeout
Handshake ==
    /\ pc = "handshake"
    /\ Goto(IF call.verb \in {"sql", "insert"} THEN "guard" ELSE "send")
    /\ UNCHANGED <<call, flow, output, ctxDone, watcher, server, trail>>

HandshakeFails ==
    /\ pc = "handshake"
    /\ err' = "auth"
    /\ Goto("finish")
    /\ UNCHANGED <<call, pinned, used, rows, output, ctxDone, watcher, server, trail>>

-----------------------------------------------------------------------------
(* sqlcore *)

\* The guards of runSQL and runInsert before anything is sent.  "joined" stands
\* for a read given without --table.
Refused ==
    \/ call.stmt \in {"empty", "multi", "ddl", "hazard"}
    \/ call.stmt = "write" /\ (call.verb = "insert" \/ ~call.write)
    \/ call.verb = "insert" /\ call.stmt \in {"joined", "wide"}

GuardRefuses ==
    /\ pc = "guard"
    /\ Refused
    /\ Fails("config")
    /\ UNCHANGED <<call, output, ctxDone, watcher, server, trail>>

GuardPasses ==
    /\ pc = "guard"
    /\ ~Refused
    /\ Goto("connect")
    /\ UNCHANGED <<call, flow, output, ctxDone, watcher, server, trail>>

\* db.Conn
Connect ==
    /\ pc = "connect"
    /\ ~ctxDone
    /\ pinned' = TRUE
    /\ Goto("use")
    /\ UNCHANGED <<call, err, used, rows, output, ctxDone, watcher, server, trail>>

\* No dedicated connection: the statement goes to the pool, without --database
\* and without a watcher
ConnectFails ==
    /\ pc = "connect"
    /\ Goto("limit")
    /\ UNCHANGED <<call, flow, output, ctxDone, watcher, server, trail>>

Use ==
    /\ pc = "use"
    /\ call.database => Remote
    /\ used' = call.database
    /\ Goto("backend")
    /\ UNCHANGED <<call, err, pinned, rows, output, ctxDone, watcher, server, trail>>

\* sqlite always; the servers for an unknown name, a lost connection, a deadline
UseFails ==
    /\ pc = "use"
    /\ call.database
    /\ Fails("config")
    /\ UNCHANGED <<call, output, ctxDone, watcher, server, trail>>

\* BackendID, then the watcher; insert has none, and sqlite has no id
Watch ==
    /\ pc = "backend"
    /\ call.verb = "sql" /\ Remote
    /\ watcher' = "waiting"
    /\ Goto("limit")
    /\ UNCHANGED <<call, flow, output, ctxDone, server, trail>>

NoBackendID ==
    /\ pc = "backend"
    /\ Goto("limit")
    /\ UNCHANGED <<call, flow, output, ctxDone, watcher, server, trail>>

\* ApplyAutoLimit: an explicit LIMIT above MaxLimit is an error, not a cap
TooLarge ==
    /\ pc = "limit"
    /\ call.stmt = "wide"
    /\ Fails("config")
    /\ UNCHANGED <<call, output, ctxDone, watcher, server, trail>>

Limited ==
    /\ pc = "limit"
    /\ call.stmt # "wide"
    /\ Goto("send")
    /\ UNCHANGED <<call, flow, output, ctxDone, watcher, server, trail>>

\* The statement, a catalog query, or doctor's ping
Send ==
    /\ pc = "send"
    /\ ~ctxDone
    /\ server' = "running"
    /\ Goto("wait")
    /\ UNCHANGED <<call, flow, output, ctxDone, watcher, trail>>

\* The connection is not made, or is lost; describe lacks its table
SendFails ==
    /\ pc = "send"
    /\ (\E e \in Lost : Fails(e)) \/ (call.verb = "catalog" /\ Fails("config"))
    /\ UNCHANGED <<call, output, ctxDone, watcher, server, trail>>

Answered ==
    /\ pc = "wait"
    /\ \/ /\ server = "done"
          /\ Goto(CASE call.verb = "insert" -> "rows"
                    [] call.verb = "doctor" -> "unwind"
                    [] OTHER -> "emit")
          /\ UNCHANGED flow
       \/ /\ server = "running" /\ call.verb = "insert"
          /\ Goto("rows")
          /\ UNCHANGED flow
       \/ /\ server \in {"failed", "stopped"}
          /\ (\E e \in Lost : Fails(e))
       \/ /\ server = "done" /\ call.verb = "catalog"   \* describe: not one table
          /\ Fails("config")
    /\ UNCHANGED <<call, output, ctxDone, watcher, server, trail>>

\* Seeded bug: the statement is sent without the context
UnansweredNoContext ==
    /\ pc = "wait"
    /\ ~ctxDone
    /\ (\E e \in Lost : Fails(e))
    /\ server' = Dropped
    /\ UNCHANGED <<call, output, ctxDone, watcher, trail>>

\* The context is done or the connection is lost: the driver closes it and
\* returns, whatever the server does with the statement
Unanswered ==
    /\ pc = "wait"
    /\ (\E e \in Lost : Fails(e))
    /\ server' = Dropped
    /\ UNCHANGED <<call, output, ctxDone, watcher, trail>>

-----------------------------------------------------------------------------
(* Output *)

\* insert renders each row as it is read
RenderRow ==
    /\ pc = "rows"
    /\ rows < MaxRows
    /\ server \in {"running", "done"}
    /\ rows' = rows + 1
    /\ wrote' = TRUE
    /\ stdout' = IF wrote THEN stdout ELSE Append(stdout, "rows")
    /\ UNCHANGED <<call, pc, err, pinned, used, ctxDone, watcher, server, trail>>

\* Seeded bug: the loop ends without a look at rows.Err
RowsEndUnchecked ==
    /\ pc = "rows"
    /\ server \in {"done", "failed", "stopped"}
    /\ Goto("unwind")
    /\ UNCHANGED <<call, flow, output, ctxDone, watcher, server, trail>>

RowsEnd ==
    /\ pc = "rows"
    /\ server = "done"
    /\ Goto("unwind")
    /\ UNCHANGED <<call, flow, output, ctxDone, watcher, server, trail>>

RowsFail ==
    /\ pc = "rows"
    /\ (\E e \in Lost : Fails(e))
    /\ server' = Dropped
    /\ UNCHANGED <<call, output, ctxDone, watcher, trail>>

\* out.Batch; doctor's driver call has an output that discards it
Emit ==
    /\ pc = "emit"
    /\ wrote' = TRUE
    /\ stdout' = Append(stdout, "data")
    /\ Goto("unwind")
    /\ UNCHANGED <<call, flow, ctxDone, watcher, server, trail>>

\* A cell that JSON cannot hold (NaN): marked as written, nothing printed
EmitFails ==
    /\ pc = "emit"
    /\ call.verb = "sql" /\ call.stmt # "write" /\ ~call.raw
    /\ wrote' = TRUE
    /\ Fails("general")
    /\ UNCHANGED <<call, stdout, ctxDone, watcher, server, trail>>

\* safeRun turns a panic into an error, after the deferred calls; doctor calls
\* the driver without it
Panics ==
    /\ pc \in InDriver
    /\ IF call.verb = "doctor"
       THEN /\ Goto("crashed")
            /\ UNCHANGED flow
       ELSE Fails("general")
    /\ server' = Dropped
    /\ UNCHANGED <<call, output, ctxDone, watcher, trail>>

-----------------------------------------------------------------------------
(* The deferred calls, the terminal line, the exit *)

\* stop closes the channel and does not wait for the goroutine
Unwind ==
    /\ pc = "unwind"
    /\ Goto("release")
    /\ UNCHANGED <<call, flow, output, ctxDone, watcher, server, trail>>

\* conn.Close and db.Close
Release ==
    /\ pc = "release"
    /\ Goto("untunnel")
    /\ UNCHANGED <<call, flow, output, ctxDone, watcher, server, trail>>

\* Tunnel.Close; a no-op without a tunnel
Untunnel ==
    /\ pc = "untunnel"
    /\ Goto("finish")
    /\ UNCHANGED <<call, flow, output, ctxDone, watcher, server, trail>>

Finish ==
    /\ pc = "finish"
    /\ finals' = Append(finals, IF err = "none" THEN "ok" ELSE "error")
    /\ Goto("print")
    /\ UNCHANGED <<call, flow, output, ctxDone, watcher, server, started>>

\* Seeded bug: the error is printed without a look at wrote
VerdictAlways ==
    IF call.verb = "doctor" THEN <<"health">>
    ELSE IF err # "none" THEN <<"error">>
    ELSE IF ~wrote /\ ~call.raw THEN <<"nothing">> ELSE <<>>

\* What Run prints after the driver: doctor's stages; the error, or an empty
\* result, of a driver that wrote nothing
Verdict ==
    IF call.verb = "doctor" THEN <<"health">>
    ELSE IF wrote THEN <<>>
    ELSE IF err # "none" THEN <<"error">>
    ELSE IF call.raw THEN <<>> ELSE <<"nothing">>

Conclude ==
    /\ pc = "print"
    /\ stdout' = stdout \o Verdict
    /\ Goto("exited")
    /\ UNCHANGED <<call, flow, wrote, ctxDone, watcher, server, trail>>

-----------------------------------------------------------------------------
(* The watcher, the server, the user *)

\* The select's two branches; when both are ready either is taken
Wake ==
    /\ watcher = "waiting" /\ Alive
    /\ ctxDone
    /\ watcher' = "woken"
    /\ UNCHANGED <<call, pc, flow, output, ctxDone, server, trail>>

Quit ==
    /\ watcher = "waiting" /\ Alive
    /\ pc \in {"release", "untunnel", "finish", "print"}
    /\ watcher' = "gone"
    /\ UNCHANGED <<call, pc, flow, output, ctxDone, server, trail>>

\* A second connection from the pool, or its refusal once the pool is closed
DialKill ==
    /\ watcher = "woken" /\ Alive
    /\ watcher' = IF pc \in {"untunnel", "finish", "print"} THEN "gone"
                                                            ELSE "connected"
    /\ UNCHANGED <<call, pc, flow, output, ctxDone, server, trail>>

\* KILL QUERY or pg_cancel_backend arrives, unless the tunnel is closed
KillArrives ==
    /\ watcher = "connected" /\ Alive
    /\ call.tunnel => pc \notin {"finish", "print"}
    /\ watcher' = "gone"
    /\ server' = IF server = "running" THEN "stopped" ELSE server
    /\ UNCHANGED <<call, pc, flow, output, ctxDone, trail>>

\* No connection, no permission, tunnel closed: CancelQuery's error is dropped
KillLost ==
    /\ watcher \in {"woken", "connected"} /\ Alive
    /\ watcher' = "gone"
    /\ UNCHANGED <<call, pc, flow, output, ctxDone, server, trail>>

ServerEnds ==
    /\ server = "running"
    /\ server' \in {"done", "failed"}
    /\ UNCHANGED <<call, pc, flow, output, ctxDone, watcher, trail>>

\* --timeout, SIGINT or SIGTERM
CtxDone ==
    /\ Alive /\ ~ctxDone
    /\ ctxDone' = TRUE
    /\ UNCHANGED <<call, pc, flow, output, watcher, server, trail>>

Sigkill ==
    /\ Alive
    /\ Goto("killed")
    /\ server' = Dropped
    /\ UNCHANGED <<call, flow, output, ctxDone, watcher, trail>>

\* Steps of the main goroutine that need nothing from outside the process
Runs ==
    \/ EarlyErr \/ Resolve \/ Begin \/ Dial \/ DialFails
    \/ GuardRefuses \/ GuardPasses \/ Connect \/ ConnectFails
    \/ Use \/ UseFails \/ Watch \/ NoBackendID \/ TooLarge \/ Limited
    \/ Send \/ SendFails \/ Answered
    \/ RowsEnd \/ Emit \/ EmitFails
    \/ Unwind \/ Release \/ Untunnel \/ Finish \/ Conclude

Next ==
    \/ Runs
    \/ Handshake \/ HandshakeFails
    \/ Unanswered \/ RenderRow \/ RowsFail \/ Panics
    \/ Wake \/ Quit \/ DialKill \/ KillArrives \/ KillLost
    \/ ServerEnds \/ CtxDone \/ Sigkill

Spec == Init /\ [][Next]_vars

\* The driver honours the context: while it is done, a wait for the server ends
GivesUp == ctxDone /\ (Unanswered \/ RowsFail)

FairSpec == Spec /\ WF_vars(Runs) /\ WF_vars(GivesUp)

-----------------------------------------------------------------------------
(* Properties *)

\* Every variable has its type.
TypeOK ==
    /\ call \in Calls
    /\ pc \in Locations
    /\ err \in Errors
    /\ pinned \in BOOLEAN /\ used \in BOOLEAN
    /\ rows \in 0..MaxRows
    /\ wrote \in BOOLEAN
    /\ stdout \in {<<>>} \union
           {<<o>> : o \in {"data", "rows", "error", "health", "nothing"}}
    /\ ctxDone \in BOOLEAN
    /\ watcher \in {"off", "waiting", "woken", "connected", "gone"}
    /\ server \in {"idle", "running", "done", "failed", "stopped"}
    /\ started \in BOOLEAN
    /\ finals \in {<<>>, <<"ok">>, <<"error">>}

Reported(e) == pc = "exited" /\ err = e

\* Success is only reported for a statement the server completed, and, on a
\* pinned connection, one that ran in the database the caller named; a timeout
\* only when the context is done.
VerdictIsTrue ==
    /\ Reported("none") =>
        /\ server = "done"
        /\ call.verb \in {"sql", "insert"} /\ call.database /\ pinned => used
    /\ Reported("timeout") => ctxDone

\* The guards, the row limit and the choice of the database come before the
\* statement: one refused for its arguments (exit 2) was never sent; and one that
\* writes reaches the server only as SQL with --allow-write and with its started
\* line on record, so that a kill leaves a trace of it.
GuardedBeforeSent ==
    /\ Reported("config") /\ call.verb # "catalog" => server = "idle"
    /\ server # "idle" /\ call.stmt = "write" =>
            call.verb = "sql" /\ call.write /\ started

\* An invocation that exits has one terminal line that agrees with its exit code,
\* has printed at most one result, and shows its error unless output had begun.
OneVerdict ==
    pc = "exited" =>
        /\ finals = <<IF err = "none" THEN "ok" ELSE "error">>
        /\ Len(stdout) <= 1
        /\ err # "none" /\ ~wrote => stdout \in {<<"error">>, <<"health">>}
        /\ err = "none" => stdout # <<"error">>

\* Once the deadline has passed or a signal has come the invocation ends, unless
\* it is in the handshake with the bastion, which has no deadline.
EndsWhenTold == ctxDone ~> (pc \in Ended \union {"handshake"})

\* docs/cli-dbcli.md:253-254: "A query that overruns its --timeout is cancelled".
\* An invocation that reports the timeout, and had a watcher to cancel its
\* statement, has stopped it on the server.
TimeoutStopsQuery ==
    Reported("timeout") /\ watcher # "off" => server # "running"
===============================================================================
