------------------------------ MODULE ApiSession ------------------------------
(***************************************************************************)
(* apicli's commands against one app, as one actor, in one environment:    *)
(* the session file they share, the login flow, and a call's "re-login     *)
(* once, retry once" (internal/apicli/call.go, login.go, session.go).      *)
(* Several commands run at once and any of them may be killed.             *)
(*                                                                         *)
(* The HTTP service behind the app is external: it grants sessions, ends   *)
(* them when it likes, and handles a request when its session is alive.    *)
(* A request is one step: it reaches the service or not, and its answer    *)
(* comes back or not.  How responses are spelled is abstracted to what     *)
(* the app's predicates tell apart: success, business failure, expiry; and *)
(* to what each of them makes of a body that it is not given, because it   *)
(* went to a file.                                                         *)
(***************************************************************************)
EXTENDS Naturals, FiniteSets

CONSTANTS
    Procs,       \* the running commands
    MaxTokens,   \* bound: sessions the service grants in one behaviour
    Steps,       \* requests in the app's login flow
    Kinds,       \* subset of {"flow", "none"}: the app's auth.kind
    Signals,     \* subset of {"status", "body"}: what the predicates look at
    Styles,      \* subset of {"capture", "cookie"}: what each flow step keeps
    Unseens,     \* sets of predicates that an absent body may satisfy
    Exclusive,   \* TRUE when a login ends the account's earlier sessions
    None,        \* no file, no session, no answer yet
    Torn         \* a file of which only a part was written

Replies  == {"done", "refused", "expired"}
Outcomes == {"ok", "notok", "error", "session expired", "auth failed"}

ASSUME ApiAssumption ==
    /\ MaxTokens \in Nat \ {0}
    /\ Steps \in Nat \ {0}
    /\ Kinds \subseteq {"flow", "none"}
    /\ Signals \subseteq {"status", "body"}
    /\ Styles \subseteq {"capture", "cookie"}
    /\ Unseens \subseteq SUBSET {"ok_when", "expired_when"}
    /\ Exclusive \in BOOLEAN
    /\ None \notin Nat /\ Torn \notin Nat /\ None # Torn
    /\ None \notin Replies \cup Outcomes /\ Torn \notin Replies

VARIABLES
    app,      \* the app's configuration, the same for every command;
              \* app.unseen: the predicates an absent body satisfies
    issued,   \* how many sessions the service has granted
    live,     \* the sessions it still honours
    stored,   \* the session file
    temp,     \* temp[p]: the temporary file SaveSession of p created
    pc,       \* where the command p is
    req,      \* what the command p was asked to do
    sess,     \* the session p holds in memory
    mode,     \* where that session came from: freshLogin and relogged of Call
    step,     \* the flow step p sends next
    full,     \* no capture of the flow came out empty so far
    reply,    \* the last answer to the request of p itself
    body,     \* the file --output-file names, as p left it
    out,      \* how the command ended, as its caller sees it
    trail,    \* the last line p wrote to the audit log
    logins,   \* history: how often p ran the login flow
    handled   \* history: how often the service acted on the request of p

vars == <<app, issued, live, stored, temp, pc, req, sess, mode, step, full,
          reply, body, out, trail, logins, handled>>

service == <<issued, live>>
flow    == <<step, full, logins>>
answer  == <<reply, body, handled>>
ending  == <<out, trail>>

Dead   == 0                       \* a session that was never granted
Tokens == Dead .. MaxTokens

Requests == [cmd : {"call", "login", "logout"}, unsafe : BOOLEAN,
             sink : {"memory", "file"}, auto : BOOLEAN]

\* To a predicate a field of a body that went to a file is null: `==` a value
\* is false of it, `!=` a value and `== null` are true.
Apps == [kind : Kinds, signal : Signals, style : Styles,
         unseen : Unseens]

\* The commands a user can give: only a call has a method and an output file,
\* and a logout sends nothing.
Command(r) == /\ r.cmd # "call" => ~r.unsafe /\ r.sink = "memory"
              /\ r.cmd = "logout" => r.auto

Goto(p, l) == pc' = [pc EXCEPT ![p] = l]

\* The command ends: the terminal audit line, then its exit.
Return(p, o) ==
    /\ Goto(p, "done")
    /\ out' = [out EXCEPT ![p] = o]
    /\ trail' = [trail EXCEPT ![p] = IF o \in {"ok", "notok"} THEN "ok" ELSE "error"]

-------------------------------------------------------------------------------
Init ==
    /\ app \in {a \in Apps : a.signal = "status" => a.unseen = {}}
    /\ issued = 1
    /\ live \in SUBSET {1}
    /\ stored \in {None, 1}
    /\ temp = [p \in Procs |-> None]
    /\ pc = [p \in Procs |-> "idle"]
    /\ req \in [Procs -> {r \in Requests : Command(r)}]
    /\ sess = [p \in Procs |-> None]
    /\ mode = [p \in Procs |-> "stored"]
    /\ step = [p \in Procs |-> 1]
    /\ full = [p \in Procs |-> TRUE]
    /\ reply = [p \in Procs |-> None]
    /\ body = [p \in Procs |-> None]
    /\ out = [p \in Procs |-> None]
    /\ trail = [p \in Procs |-> None]
    /\ logins = [p \in Procs |-> 0]
    /\ handled = [p \in Procs |-> 0]

\* A command that fails before it does anything leaves one line and an error.
Reject(p) ==
    /\ pc[p] = "idle"
    /\ Return(p, "error")
    /\ UNCHANGED <<app, service, stored, temp, req, sess, mode, flow, answer>>

\* Seeded bug: the line is only written when the command returns.
StartUnrecorded(p) ==
    /\ pc[p] = "idle"
    /\ Goto(p, CASE req[p].cmd = "call"   -> "load"
                 [] req[p].cmd = "login"  -> "login"
                 [] req[p].cmd = "logout" -> "logout")
    /\ UNCHANGED <<app, service, stored, temp, req, sess, mode, flow, answer, ending>>

\* Only a call whose method changes something writes a line before it acts.
Start(p) ==
    /\ pc[p] = "idle"
    /\ Goto(p, CASE req[p].cmd = "call"   -> "load"
                 [] req[p].cmd = "login"  -> "login"
                 [] req[p].cmd = "logout" -> "logout")
    /\ trail' = [trail EXCEPT ![p] = IF req[p].unsafe THEN "started" ELSE @]
    /\ UNCHANGED <<app, service, stored, temp, req, sess, mode, flow, answer, out>>

\* Seeded bug: whether LoadSession found a file is not looked at.
LoadUnchecked(p) ==
    /\ pc[p] = "load"
    /\ Goto(p, "request")
    /\ sess' = [sess EXCEPT ![p] = IF app.kind = "none" THEN @ ELSE stored]
    /\ UNCHANGED <<app, service, stored, temp, req, mode, flow, answer, ending>>

\* Seeded bug: a session from the file counts as one that was just obtained.
LoadAsFresh(p) ==
    /\ pc[p] = "load"
    /\ mode' = [mode EXCEPT ![p] = "fresh"]
    /\ \/ /\ app.kind # "none" /\ stored \in Tokens
          /\ Goto(p, "request")
          /\ sess' = [sess EXCEPT ![p] = stored]
       \/ /\ stored \notin Tokens
          /\ Goto(p, IF app.kind = "none" THEN "request" ELSE "login")
          /\ UNCHANGED sess
    /\ UNCHANGED <<app, service, stored, temp, req, flow, answer, ending>>

\* Call looks for a session; a file it cannot parse is no session.
Load(p) ==
    /\ pc[p] = "load"
    /\ \/ /\ app.kind = "none"
          /\ Goto(p, "request")
          /\ UNCHANGED <<sess, mode>>
       \/ /\ app.kind # "none" /\ stored \in Tokens
          /\ Goto(p, "request")
          /\ sess' = [sess EXCEPT ![p] = stored]
          /\ UNCHANGED mode
       \/ /\ app.kind # "none" /\ stored \notin Tokens
          /\ Goto(p, "login")
          /\ mode' = [mode EXCEPT ![p] = "fresh"]
          /\ UNCHANGED sess
    /\ UNCHANGED <<app, service, stored, temp, req, flow, answer, ending>>

-------------------------------------------------------------------------------
\* Login: the flow's requests one after the other.
CanAutoLogin(p) == app.kind = "flow" /\ req[p].auto

LoginNeedsUser(p) ==
    /\ pc[p] = "login" /\ ~CanAutoLogin(p)
    /\ Return(p, "session expired")
    /\ UNCHANGED <<app, service, stored, temp, req, sess, mode, flow, answer>>

LoginBegins(p) ==
    /\ pc[p] = "login" /\ CanAutoLogin(p)
    /\ Goto(p, "flow")
    /\ step' = [step EXCEPT ![p] = 1]
    /\ full' = [full EXCEPT ![p] = TRUE]
    /\ logins' = [logins EXCEPT ![p] = @ + 1]
    /\ sess' = [sess EXCEPT ![p] = Dead]
    /\ UNCHANGED <<app, service, stored, temp, req, mode, answer, ending>>

\* The service grants a session on the flow's last request.
Grant(t) ==
    /\ t = issued + 1 /\ t <= MaxTokens
    /\ issued' = t
    /\ live' = IF Exclusive THEN {t} ELSE live \cup {t}

\* A step the service accepts fills its captures and cookie.
StepAccepted(p) ==
    /\ pc[p] = "flow" /\ step[p] <= Steps
    /\ IF step[p] < Steps
       THEN UNCHANGED <<issued, live, sess>>
       ELSE /\ Grant(issued + 1)
            /\ sess' = [sess EXCEPT ![p] = issued + 1]
    /\ step' = [step EXCEPT ![p] = @ + 1]
    /\ UNCHANGED <<app, stored, temp, pc, req, mode, full, logins, answer, ending>>

\* A step it turns down still answers, often 200: the captures come out empty
\* and the flow goes on, unless the step asserts something.
StepRefused(p) ==
    /\ pc[p] = "flow" /\ step[p] <= Steps
    /\ step' = [step EXCEPT ![p] = @ + 1]
    /\ full' = [full EXCEPT ![p] = FALSE]
    /\ UNCHANGED <<app, service, stored, temp, pc, req, sess, mode, logins, answer, ending>>

StepAssertFails(p) ==
    /\ pc[p] = "flow" /\ step[p] <= Steps
    /\ Return(p, "auth failed")
    /\ UNCHANGED <<app, service, stored, temp, req, sess, mode, flow, answer>>

\* The request or its answer is lost; the service may have granted the session.
StepLost(p) ==
    /\ pc[p] = "flow" /\ step[p] <= Steps
    /\ \/ UNCHANGED service
       \/ step[p] = Steps /\ Grant(issued + 1)
    /\ Return(p, "error")
    /\ UNCHANGED <<app, stored, temp, req, sess, mode, flow, answer>>

\* The gate after the flow: a declared capture that came out empty.  A flow
\* that only keeps cookies declares none.
Complete(p) == app.style = "cookie" \/ full[p]

LoginEnds(p) ==
    /\ pc[p] = "flow" /\ step[p] > Steps
    /\ IF Complete(p)
       THEN Goto(p, "save") /\ UNCHANGED ending
       ELSE Return(p, "auth failed")
    /\ UNCHANGED <<app, service, stored, temp, req, sess, mode, flow, answer>>

-------------------------------------------------------------------------------
\* SaveSession.  A call goes on whether or not it worked; `apicli login` says so.
Saved(p, ok) ==
    IF req[p].cmd = "call"
    THEN Goto(p, "request") /\ UNCHANGED ending
    ELSE Return(p, IF ok THEN "ok" ELSE "error")

CreateTemp(p) ==
    /\ pc[p] = "save"
    /\ \/ /\ temp' = [temp EXCEPT ![p] = Torn]
          /\ Goto(p, "write")
          /\ UNCHANGED ending
       \/ Saved(p, FALSE) /\ UNCHANGED temp
    /\ UNCHANGED <<app, service, stored, req, sess, mode, flow, answer>>

\* Seeded bug: the error of the write is dropped.
WriteUnchecked(p) ==
    /\ pc[p] = "write"
    /\ \/ temp' = [temp EXCEPT ![p] = sess[p]]
       \/ UNCHANGED temp
    /\ Goto(p, "rename")
    /\ UNCHANGED <<app, service, stored, req, sess, mode, flow, answer, ending>>

WriteTemp(p) ==
    /\ pc[p] = "write"
    /\ \/ /\ temp' = [temp EXCEPT ![p] = sess[p]]
          /\ Goto(p, "rename")
          /\ UNCHANGED ending
       \/ /\ temp' = [temp EXCEPT ![p] = None]
          /\ Saved(p, FALSE)
    /\ UNCHANGED <<app, service, stored, req, sess, mode, flow, answer>>

RenameTemp(p) ==
    /\ pc[p] = "rename"
    /\ \/ stored' = temp[p] /\ Saved(p, TRUE)
       \/ UNCHANGED stored /\ Saved(p, FALSE)
    /\ temp' = [temp EXCEPT ![p] = None]
    /\ UNCHANGED <<app, service, req, sess, mode, flow, answer>>

-------------------------------------------------------------------------------
\* DoRequest, the first time and after the re-login.
Honoured(p) == app.kind = "none" \/ sess[p] \in live

Act(p) == handled' = [handled EXCEPT ![p] = IF Honoured(p) THEN @ + 1 ELSE @]

\* streamToFile truncates the file, then copies what arrives.
Keep(p, r, whole) ==
    body' = [body EXCEPT ![p] =
                IF req[p].sink # "file" THEN @ ELSE IF whole THEN r ELSE Torn]

Answered(p) ==
    /\ pc[p] = "request"
    /\ Act(p)
    /\ \E r \in IF Honoured(p) THEN {"done", "refused"} ELSE {"expired"} :
          /\ reply' = [reply EXCEPT ![p] = r]
          /\ \E whole \in BOOLEAN : Keep(p, r, whole)
    /\ Goto(p, "judge")
    /\ UNCHANGED <<app, service, stored, temp, req, sess, mode, flow, ending>>

\* A timeout, a broken connection, an answer too large, an output file that
\* cannot be written: the service may have acted all the same.
Unanswered(p) ==
    /\ pc[p] = "request"
    /\ \/ Act(p)
       \/ UNCHANGED handled
    /\ \/ UNCHANGED body
       \/ Keep(p, None, FALSE)
    /\ Return(p, "error")
    /\ UNCHANGED <<app, service, stored, temp, req, sess, mode, flow, reply>>

\* Whether the predicates are given the body they look at: a streamed one
\* stays out of the response they judge.
Visible(p) == app.signal = "status" \/ req[p].sink = "memory"

\* Whether the app's predicate w holds of p's last answer, which it holds of
\* when the answer is r.
Judged(p, w, r) == IF Visible(p) THEN reply[p] = r ELSE w \in app.unseen

\* Seeded bug: any answer but success counts as an expired session.
StaleOnFailure(p) == mode[p] = "stored" /\ app.kind # "none" /\ reply[p] # "done"

Stale(p) == /\ mode[p] = "stored" /\ app.kind # "none"
            /\ Judged(p, "expired_when", "expired")

Relogin(p) ==
    /\ pc[p] = "judge" /\ Stale(p)
    /\ Goto(p, "login")
    /\ mode' = [mode EXCEPT ![p] = "relogged"]
    /\ UNCHANGED <<app, service, stored, temp, req, sess, flow, answer, ending>>

\* ok_when, on the answer that came last.
Succeeded(p) == Judged(p, "ok_when", "done")

Classify(p) ==
    /\ pc[p] = "judge" /\ ~Stale(p)
    /\ Return(p, IF Succeeded(p) THEN "ok" ELSE "notok")
    /\ UNCHANGED <<app, service, stored, temp, req, sess, mode, flow, answer>>

\* A predicate of the configuration that does not parse is found here.
BadPredicate(p) ==
    /\ pc[p] = "judge"
    /\ Return(p, "error")
    /\ UNCHANGED <<app, service, stored, temp, req, sess, mode, flow, answer>>

-------------------------------------------------------------------------------
Logout(p) ==
    /\ pc[p] = "logout"
    /\ \/ stored' = None /\ Return(p, "ok")
       \/ UNCHANGED stored /\ Return(p, "error")
    /\ UNCHANGED <<app, service, temp, req, sess, mode, flow, answer>>

Running(p) == pc[p] \notin {"idle", "done", "killed"}

\* A killed command leaves its temporary file behind.
Kill(p) ==
    /\ Running(p)
    /\ Goto(p, "killed")
    /\ UNCHANGED <<app, service, stored, temp, req, sess, mode, flow, answer, ending>>

\* The service ends a session.
Expire(t) ==
    /\ live' = live \ {t}
    /\ UNCHANGED <<app, issued, stored, temp, pc, req, sess, mode, flow, answer, ending>>

Next ==
    \/ \E p \in Procs :
          \/ Reject(p) \/ Start(p) \/ Load(p)
          \/ LoginNeedsUser(p) \/ LoginBegins(p) \/ StepAccepted(p)
          \/ StepRefused(p) \/ StepAssertFails(p) \/ StepLost(p) \/ LoginEnds(p)
          \/ CreateTemp(p) \/ WriteTemp(p) \/ RenameTemp(p)
          \/ Answered(p) \/ Unanswered(p)
          \/ Relogin(p) \/ Classify(p) \/ BadPredicate(p)
          \/ Logout(p) \/ Kill(p)
    \/ \E t \in live : Expire(t)

Spec == Init /\ [][Next]_vars
-------------------------------------------------------------------------------
(* Properties *)

\* Every variable has its type; and an app with a login flow is never sent a
\* request without a session (call.go loads one or logs in first).
TypeOK ==
    /\ issued \in 1 .. MaxTokens /\ live \subseteq 1 .. issued
    /\ stored \in {None} \cup Tokens
    /\ temp \in [Procs -> {None, Torn} \cup Tokens]
    /\ pc \in [Procs -> {"idle", "load", "login", "flow", "save", "write", "rename",
                         "request", "judge", "logout", "done", "killed"}]
    /\ req \in [Procs -> {r \in Requests : Command(r)}]
    /\ sess \in [Procs -> {None} \cup Tokens]
    /\ mode \in [Procs -> {"stored", "fresh", "relogged"}]
    /\ step \in [Procs -> 1 .. Steps + 1] /\ full \in [Procs -> BOOLEAN]
    /\ reply \in [Procs -> {None} \cup Replies]
    /\ body \in [Procs -> {None, Torn} \cup Replies]
    /\ out \in [Procs -> {None} \cup Outcomes]
    /\ trail \in [Procs -> {None, "started", "ok", "error"}]
    /\ logins \in [Procs -> Nat] /\ handled \in [Procs -> Nat]
    /\ \A p \in Procs :
          pc[p] = "request" /\ app.kind = "flow" => sess[p] \in Tokens

\* Whatever commands race, fail or are killed, the session file is absent or
\* the whole of one session; and when the flow declares captures it is a
\* session the service granted (session.go:43, "never sees a half-written
\* file"; login.go:58, no "dead session" is persisted).
SoundFile ==
    /\ stored # Torn
    /\ app.style = "capture" => stored # Dead

\* Whether the verdict on p's session is one on its answer: expired_when is
\* given what it looks at, or does not hold of a body it is not given.
Discerning(p) == Visible(p) \/ "expired_when" \notin app.unseen

\* A command runs the login flow at most once (call.go:52, "at most one login
\* per Call"), and the service acts on its request at most once: the retry
\* after an expired session repeats nothing.  Only where expired_when is not
\* given the body it looks at, and holds of an absent one, may the request be
\* carried out a second time, and then no oftener.
ActsOnce ==
    \A p \in Procs :
        /\ logins[p] <= 1
        /\ handled[p] <= IF Discerning(p) THEN 1 ELSE 2

\* A call's exit tells what happened to the request, wherever the predicates
\* are given the body they look at: success means that the service acted on
\* it, a business failure that it did not carry it out as asked, an
\* authentication failure that it did not act at all, not even before the
\* re-login that failed.  And a stale session file alone never fails a call
\* (Call's auto-relogin): one that reports a business result although its last
\* answer said the session had expired has logged in itself, and the session it
\* obtained was ended by the service or by another command's login before its
\* request.
EndsTruthfully ==
    \A p \in Procs : req[p].cmd = "call" =>
        /\ out[p] = "ok" /\ Visible(p) => reply[p] = "done" /\ handled[p] = 1
        /\ out[p] = "notok" /\ Visible(p) => reply[p] \in {"refused", "expired"}
        /\ out[p] \in {"session expired", "auth failed"} /\ Discerning(p) => handled[p] = 0
        /\ (/\ app.kind = "flow" /\ Visible(p)
            /\ out[p] \in {"ok", "notok"} /\ reply[p] = "expired")
           => logins[p] = 1 /\ sess[p] \notin live

\* A request with side effects that the service acted on is on record, even
\* if the command was killed before it could report (commands.go, Begin
\* before Call).
OnRecord ==
    \A p \in Procs :
        req[p].unsafe /\ handled[p] > 0 =>
            trail[p] = IF out[p] = None THEN "started"
                       ELSE IF out[p] \in {"ok", "notok"} THEN "ok" ELSE "error"

\* What a command reports and what it leaves on record agree with what the
\* service did.
TruthOnRecord == EndsTruthfully /\ OnRecord
===============================================================================
