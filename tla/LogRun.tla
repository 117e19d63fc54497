-------------------------------- MODULE LogRun --------------------------------
(***************************************************************************)
(* One logcli invocation around its adapter: the flags, the target, the    *)
(* guarded adapter call, the output and the audit line (cmd/logcli/main.go,*)
(* internal/logcli/run.go, stream.go, doctor.go).  The adapters are the    *)
(* modules that extend this one; LogCli puts them together.                *)
(*                                                                         *)
(* stdout is `shown`, the records it got, and `ends`, what else it got: the*)
(* {data} envelope of a batch, the end or the error of a stream, an error. *)
(***************************************************************************)
EXTENDS Integers, Sequences, FiniteSets

CONSTANTS
    MaxTail,   \* bound: the --tail that is asked for
    RawToo     \* bound: sources that are also asked for --output raw

ASSUME RunAssumption == MaxTail \in Nat /\ RawToo \subseteq {"file", "child", "sls"}

VARIABLES
    call,      \* the invocation's arguments
    pc,
    late,      \* is the context done (--timeout, SIGINT, SIGTERM)?
    mode,      \* which output the adapter has used: "none", "batch", "stream"
    held,      \* lines collected for a batch
    shown, ends,
    told,      \* was a batch shown with a warning that it may be partial?
    err,       \* class of the error the invocation returns
    finals     \* its audit lines

output  == <<mode, shown, ends, told>>
verdict == <<err, finals>>
run     == <<call, pc, late, held, output, verdict>>

Sources == {"file", "child", "sls"}
Errors  == {"none", "general", "config", "auth", "timeout", "remote"}

\* What an adapter can be asked for.
Verbs == [file  |-> {"logs", "ls", "doctor", "other"},
          child |-> {"logs", "ls", "doctor", "other"},
          sls   |-> {"search", "trace", "tail", "doctor", "other"}]

\* How a credential may be refused; the arguments of a child's adapter, which
\* pass a policy; the block, window or trace id of SLS.
CredErrors  == {"config", "auth"}
ArgErrors   == {"config"}
BlockErrors == {"config", "general"}

Refusals == [file  |-> ArgErrors,
             child |-> ArgErrors \union CredErrors,
             sls   |-> BlockErrors \union CredErrors]

\* -f makes a stream of "logs"; "tail" is one by itself.
Calls == {c \in [source : Sources, verb : UNION {Verbs[s] : s \in Sources},
                 follow : BOOLEAN, raw : BOOLEAN, tail : 0 .. MaxTail] :
            /\ c.verb \in Verbs[c.source]
            /\ c.follow => c.verb \in {"logs", "tail"}
            /\ c.verb = "tail" => c.follow
            /\ c.source # "file" \/ c.verb # "logs" => c.tail = 0
            /\ c.raw => c.source \in RawToo}

Asked(source, verbs) == pc = "run" /\ call.source = source /\ call.verb \in verbs

RunInit ==
    /\ call \in Calls
    /\ pc = "start" /\ late = FALSE
    /\ mode = "none" /\ held = <<>> /\ shown = <<>> /\ ends = <<>> /\ told = FALSE
    /\ err = "none" /\ finals = <<>>

Over == pc = "exited"

\* Finish of an audit record that was begun without side effects.
Audit(e, lines) == finals' = Append(finals, [ok |-> e = "none", lines |-> lines])

\* An envelope, which --output raw leaves out.
Enveloped(what) == IF call.raw THEN ends ELSE Append(ends, what)

-----------------------------------------------------------------------------
(* main and Run, up to the adapter *)

\* Bad flags, an unknown adapter, a target that does not resolve or belongs to
\* another adapter: the audit line, then the error.
EarlyErr ==
    /\ pc = "start"
    /\ err' \in {"config", "general"}
    /\ Audit(err', 0)
    /\ ends' = Append(ends, "error")
    /\ pc' = "exited"
    /\ UNCHANGED <<call, late, mode, held, shown, told>>

\* `logcli targets`: no adapter, one line, the listing.
Targets ==
    /\ pc = "start"
    /\ Audit("none", 0)
    /\ ends' = Enveloped("data")
    /\ pc' = "exited"
    /\ UNCHANGED <<call, late, mode, held, shown, told, err>>

\* safeRun calls the adapter.
Dispatch ==
    /\ pc = "start"
    /\ pc' = "run"
    /\ UNCHANGED <<call, late, held, output, verdict>>

-----------------------------------------------------------------------------
(* What an adapter does with its Output *)

Return(e) ==
    /\ pc' = "return"
    /\ err' = e
    /\ UNCHANGED <<call, late, finals>>

\* Seeded bug: the lines of a stream are collected as well.
PutTwice(ls) ==
    /\ held' = held \o ls
    /\ IF mode = "stream" THEN shown' = shown \o ls ELSE UNCHANGED shown

\* emit, for each line in turn: a record of the stream, or of the batch to be.
Put(ls) ==
    IF mode = "stream"
    THEN shown' = shown \o ls /\ UNCHANGED held
    ELSE held' = held \o ls /\ UNCHANGED shown

\* Batch, once: the records and the envelope.
Batch(records, warn) ==
    /\ mode' = "batch"
    /\ shown' = records
    /\ ends' = Enveloped("data")
    /\ told' = warn

\* StreamLines: -f opens a stream, else the lines are collected.
Opened == mode' = IF call.follow THEN "stream" ELSE mode

\* The producer of StreamLines has returned without an error.
Produced(records, warn) ==
    /\ IF mode = "stream" THEN UNCHANGED output ELSE Batch(records, warn)
    /\ Return("none")

\* An error of the adapter leaves the output as it is.
Refuse(e) == Return(e) /\ UNCHANGED <<held, output>>

\* Doctor: the checks are shown whether or not the probe failed.
Diagnosed(e) ==
    /\ Batch(<<"config", "connect">>, FALSE)
    /\ Return(e)
    /\ UNCHANGED held

\* A verb the adapter does not know, a flag it denies, a target that lacks what
\* it needs, a credential that cannot be read.
BadRequest ==
    /\ pc = "run"
    /\ \/ call.verb = "other" /\ Refuse("config")
       \/ /\ call.verb # "other" /\ (call.source = "file" => call.verb = "logs")
          /\ \E e \in Refusals[call.source] : Refuse(e)

\* The adapter panics; safeRun makes an error of it.
Panics ==
    /\ pc \notin {"start", "return", "audit", "exited"}
    /\ Refuse("general")

-----------------------------------------------------------------------------
(* finalize, and the deferred audit line *)

\* Seeded bug: a failed invocation always gets an error envelope.
FinalizeTwice ==
    /\ pc = "return"
    /\ ends' = IF err # "none" THEN Append(ends, "error")
               ELSE CASE mode = "none"   -> Enveloped("data")
                      [] mode = "stream" -> Enveloped("end")
                      [] mode = "batch"  -> ends
    /\ pc' = "audit"
    /\ UNCHANGED <<call, late, mode, held, shown, told, verdict>>

\* A stream gets its last line, an adapter without output an empty result; a
\* batch has its envelope already, and its error shows in the exit code only.
Finalize ==
    /\ pc = "return"
    /\ ends' = CASE err # "none" /\ (call.raw \/ mode # "batch") -> Append(ends, "error")
                 [] err = "none" /\ mode = "none"                -> Enveloped("data")
                 [] err = "none" /\ mode = "stream"              -> Enveloped("end")
                 [] OTHER                                        -> ends
    /\ pc' = "audit"
    /\ UNCHANGED <<call, late, mode, held, shown, told, verdict>>

Finish ==
    /\ pc = "audit"
    /\ Audit(err, Len(shown))
    /\ pc' = "exited"
    /\ UNCHANGED <<call, late, held, output, err>>

\* --timeout passes, or a signal: only the context notices.
Cancel ==
    /\ ~late /\ ~Over /\ pc # "start"
    /\ late' = TRUE
    /\ UNCHANGED <<call, pc, held, output, verdict>>

Step == EarlyErr \/ Targets \/ Dispatch \/ Finalize \/ Finish

-----------------------------------------------------------------------------
(* Properties *)

\* An invocation that exits has exactly one audit line, whose outcome and count
\* are those of its exit code and of the records on stdout, and what else it
\* printed fits them: one envelope or closing line, an error if and only if it
\* failed; doctor's failure shows in its checks (docs/OUTPUT-CONTRACT.md).
OneVerdict ==
    /\ Len(finals) = IF pc = "exited" THEN 1 ELSE 0
    /\ pc = "exited" =>
        /\ finals[1] = [ok |-> err = "none", lines |-> Len(shown)]
        /\ ends = IF err = "none"
                  THEN IF call.raw THEN <<>> ELSE IF mode = "stream" THEN <<"end">> ELSE <<"data">>
                  ELSE IF mode = "batch" /\ ~call.raw THEN <<"data">> ELSE <<"error">>
        /\ mode = "batch" /\ err # "none" => call.verb = "doctor"
===============================================================================
