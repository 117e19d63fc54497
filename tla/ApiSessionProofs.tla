--------------------------- MODULE ApiSessionProofs ---------------------------
(***************************************************************************)
(* What holds of apicli's session file and of a call's retry for any number*)
(* of commands, sessions and requests in the login flow.                   *)
(*                                                                         *)
(* Each command is described by its own state alone, except that a session *)
(* which its last answer called expired is not honoured any more.  What    *)
(* others do leaves that true, because the service never honours again     *)
(* what it ended (Grown); OthersKeep says so once for all actions.         *)
(***************************************************************************)
EXTENDS ApiSession, TLAPS

Places == {"idle", "load", "login", "flow", "save", "write", "rename",
           "request", "judge", "logout", "done", "killed"}
TrailLines == {None, "started", "ok", "error"}
Bodies == {None, Torn} \cup Replies

\* The types, and what TypeOK leaves out: the configuration.
Typed ==
    /\ app \in Apps
    /\ issued \in 1 .. MaxTokens /\ live \subseteq 1 .. issued
    /\ stored \in {None} \cup Tokens
    /\ temp \in [Procs -> {None, Torn} \cup Tokens]
    /\ pc \in [Procs -> Places]
    /\ req \in [Procs -> {r \in Requests : Command(r)}]
    /\ sess \in [Procs -> {None} \cup Tokens]
    /\ mode \in [Procs -> {"stored", "fresh", "relogged"}]
    /\ step \in [Procs -> 1 .. Steps + 1] /\ full \in [Procs -> BOOLEAN]
    /\ reply \in [Procs -> {None} \cup Replies]
    /\ body \in [Procs -> Bodies]
    /\ out \in [Procs -> {None} \cup Outcomes]
    /\ trail \in [Procs -> TrailLines]
    /\ logins \in [Procs -> Nat] /\ handled \in [Procs -> Nat]

\* A session that may be kept: one that was granted, if the flow has captures.
Sound(s) == app.style = "capture" => s # Dead

\* The session p has in memory, and what it is about to rename.
Provided(p) ==
    /\ sess[p] # None => sess[p] <= issued
    /\ pc[p] \in {"flow", "save", "write", "rename"} => sess[p] # None
    /\ pc[p] = "flow" /\ full[p] /\ step[p] > Steps => sess[p] # Dead
    /\ pc[p] \in {"save", "write", "rename"} => Sound(sess[p])
    /\ pc[p] = "rename" => temp[p] = sess[p]
    /\ pc[p] = "request" /\ app.kind = "flow" => sess[p] # None

\* How often p has logged in.
LoggedIn(p) ==
    /\ logins[p] <= 1
    /\ pc[p] \in {"idle", "load", "login", "logout"} => logins[p] = 0
    /\ pc[p] \in {"idle", "load"} => mode[p] = "stored"
    /\ pc[p] \in {"flow", "save", "write", "rename"} => logins[p] = 1
    /\ pc[p] \in {"login", "flow", "save", "write", "rename"} /\ req[p].cmd = "call" =>
         mode[p] # "stored"
    /\ pc[p] \in {"request", "judge"} /\ mode[p] # "stored" => logins[p] = 1
    /\ pc[p] \in {"request", "judge"} /\ mode[p] = "stored" => logins[p] = 0

\* How often the service may have acted on p's request before it was sent for
\* the last time: once, if it was repeated although it had been honoured.
Before(p) == IF mode[p] = "relogged" /\ ~Discerning(p) THEN 1 ELSE 0

\* Whether the service acted on p's request, and what its answer says of that.
Acted(p) ==
    /\ handled[p] <= IF Discerning(p) THEN 1 ELSE 2
    /\ pc[p] \notin {"judge", "done", "killed"} => handled[p] <= Before(p)
    /\ handled[p] > 0 => req[p].cmd = "call"
    /\ pc[p] = "judge" => reply[p] # None
    /\ pc[p] = "judge" /\ reply[p] # "expired" =>
         handled[p] \in 1 .. Before(p) + 1
    /\ pc[p] = "judge" /\ reply[p] = "expired" =>
         handled[p] <= Before(p) /\ app.kind = "flow" /\ sess[p] \notin live
    /\ pc[p] \in {"load", "request", "judge"} => req[p].cmd = "call"
    /\ pc[p] = "logout" => req[p].cmd = "logout"

\* What p has reported and left on record.
Told(p) ==
    /\ out[p] # None <=> pc[p] = "done"
    /\ req[p].cmd = "call" =>
        /\ out[p] = "ok" /\ Visible(p) => reply[p] = "done" /\ handled[p] = 1
        /\ out[p] = "notok" /\ Visible(p) => reply[p] \in {"refused", "expired"}
        /\ out[p] \in {"session expired", "auth failed"} /\ Discerning(p) => handled[p] = 0
        /\ (/\ app.kind = "flow" /\ Visible(p)
            /\ out[p] \in {"ok", "notok"} /\ reply[p] = "expired")
           => logins[p] = 1 /\ sess[p] \notin live
    /\ req[p].unsafe /\ pc[p] # "idle" =>
        trail[p] = IF out[p] = None THEN "started"
                   ELSE IF out[p] \in {"ok", "notok"} THEN "ok" ELSE "error"

Held(p) == Provided(p) /\ LoggedIn(p) /\ Acted(p) /\ Told(p)

\* The file, with what makes SoundFile inductive: no session of the future.
FileHeld == stored # None => Sound(stored) /\ stored <= issued

ApiInv == Typed /\ FileHeld /\ \A p \in Procs : Held(p)

\* Sessions are granted, and none is honoured again.
Grown ==
    /\ app' = app /\ issued <= issued'
    /\ \A t \in live' : t \in live \/ t > issued

\* The configuration and what p was asked say what its predicates see.
LEMMA SameSight ==
  ASSUME NEW p, app' = app, req'[p] = req[p]
  PROVE  Visible(p)' = Visible(p) /\ Discerning(p)' = Discerning(p)
BY DEF Visible, Discerning

\* What belongs to the command p stays.
Still(p) ==
    /\ temp'[p] = temp[p] /\ pc'[p] = pc[p] /\ req'[p] = req[p] /\ sess'[p] = sess[p]
    /\ mode'[p] = mode[p] /\ step'[p] = step[p] /\ full'[p] = full[p]
    /\ reply'[p] = reply[p] /\ out'[p] = out[p] /\ trail'[p] = trail[p]
    /\ logins'[p] = logins[p] /\ handled'[p] = handled[p]

\* The session p has in memory was granted before, and once ended stays so.
LEMMA Remembered ==
  ASSUME ApiInv, Typed', NEW p \in Procs, sess'[p] = sess[p], Grown
  PROVE  /\ sess[p] # None => sess[p] <= issued'
         /\ sess[p] \notin live => sess[p] \notin live'
<1>1. issued \in Nat /\ issued' \in Nat /\ issued <= issued'
  BY ApiAssumption DEF ApiInv, Typed, Grown
<1>2. sess[p] \in {None} \cup Nat /\ live' \subseteq Nat /\ None \notin Nat
  BY ApiAssumption DEF ApiInv, Typed, Tokens, Dead
<1>3. sess[p] # None => sess[p] <= issued
  BY DEF ApiInv, Held, Provided
<1>4. ~(sess[p] \in Nat /\ sess[p] > issued)
  BY <1>1, <1>2, <1>3
<1>5. sess[p] # None => sess[p] <= issued'
  BY <1>1, <1>2, <1>3
<1>6. sess[p] \notin live => sess[p] \notin live'
  BY <1>2, <1>4 DEF Grown
<1> QED BY <1>5, <1>6

LEMMA OthersKeep ==
  ASSUME ApiInv, Typed', NEW p \in Procs, Still(p), Grown
  PROVE  Held(p)'
<1> USE ApiAssumption
<1>1. Held(p) /\ app' = app
  BY DEF ApiInv, Grown
<1>4. /\ sess[p] # None => sess[p] <= issued'
      /\ sess[p] \notin live => sess[p] \notin live'
  BY Remembered DEF Still
<1>5. Provided(p)'
  BY <1>1, <1>4 DEF Held, Provided, Still, Sound
<1>7. Visible(p)' = Visible(p) /\ Discerning(p)' = Discerning(p)
  BY <1>1, SameSight DEF Still
<1>6. LoggedIn(p)' /\ Acted(p)'
  BY <1>1, <1>4, <1>7 DEF Held, LoggedIn, Acted, Before, Still
<1>8. Told(p)'
  BY <1>1, <1>4, <1>7 DEF Held, Told, Still
<1> QED BY <1>5, <1>6, <1>8 DEF Held

LEMMA ApiInit_Inv == Init => ApiInv
<1> SUFFICES ASSUME Init PROVE ApiInv
  OBVIOUS
<1> USE ApiAssumption
<1>1. Typed
  <2>1. 1 \in 1 .. MaxTokens /\ 1 \in Tokens /\ 1 \in 1 .. Steps + 1
    BY DEF Tokens, Dead
  <2>2. issued \in 1 .. MaxTokens /\ live \subseteq 1 .. issued
    BY <2>1 DEF Init
  <2>3. stored \in {None} \cup Tokens
    BY <2>1 DEF Init
  <2>4. app \in Apps
    BY DEF Init
  <2>5. /\ body \in [Procs -> Bodies] /\ trail \in [Procs -> TrailLines]
        /\ reply \in [Procs -> {None} \cup Replies] /\ out \in [Procs -> {None} \cup Outcomes]
    BY DEF Init, Bodies, TrailLines
  <2>6. step \in [Procs -> 1 .. Steps + 1] /\ full \in [Procs -> BOOLEAN]
    BY <2>1 DEF Init
  <2>7. /\ pc \in [Procs -> Places] /\ mode \in [Procs -> {"stored", "fresh", "relogged"}]
        /\ sess \in [Procs -> {None} \cup Tokens] /\ temp \in [Procs -> {None, Torn} \cup Tokens]
    BY DEF Init, Places
  <2>8. logins \in [Procs -> Nat] /\ handled \in [Procs -> Nat]
    BY DEF Init
  <2>9. req \in [Procs -> {r \in Requests : Command(r)}]
    BY DEF Init
  <2> QED BY <2>2, <2>3, <2>4, <2>5, <2>6, <2>7, <2>8, <2>9 DEF Typed
<1>2. FileHeld
  BY DEF Init, FileHeld, Sound, Dead
<1>3. ASSUME NEW p \in Procs PROVE Held(p)
  <2>1. /\ pc[p] = "idle" /\ sess[p] = None /\ out[p] = None /\ mode[p] = "stored"
        /\ logins[p] = 0 /\ handled[p] = 0
    BY DEF Init
  <2>2. Provided(p) /\ LoggedIn(p) /\ Acted(p)
    BY <2>1 DEF Provided, LoggedIn, Acted, Before, Discerning, Visible
  <2>3. Told(p)
    BY <2>1 DEF Told, Outcomes
  <2> QED BY <2>2, <2>3 DEF Held
<1> QED BY <1>1, <1>2, <1>3 DEF ApiInv

\* A step of p.
LEMMA OneKeeps ==
  ASSUME ApiInv, NEW p \in Procs, Typed', Grown, FileHeld', Held(p)',
         \A q \in Procs \ {p} : Still(q)
  PROVE  ApiInv'
BY OthersKeep DEF ApiInv

\* As long as the service grants and ends nothing.
LEMMA SameGrown == ASSUME ApiInv, UNCHANGED <<app, issued, live>> PROVE Grown
BY DEF ApiInv, Typed, Grown

LEMMA SameFile ==
  ASSUME ApiInv, Typed', Grown, UNCHANGED stored PROVE FileHeld'
BY ApiAssumption DEF ApiInv, Typed, Grown, FileHeld, Sound, Tokens, Dead

\* What a return leaves of p.
LEMMA ReturnFrame ==
  ASSUME ApiInv, NEW p \in Procs, NEW o \in Outcomes, Return(p, o)
  PROVE  /\ pc' \in [Procs -> Places] /\ pc'[p] = "done"
         /\ out' \in [Procs -> {None} \cup Outcomes] /\ out'[p] = o
         /\ trail' \in [Procs -> TrailLines]
         /\ trail'[p] = IF o \in {"ok", "notok"} THEN "ok" ELSE "error"
         /\ \A q \in Procs \ {p} : pc'[q] = pc[q] /\ out'[q] = out[q] /\ trail'[q] = trail[q]
<1>1. Typed
  BY DEF ApiInv
<1> QED BY <1>1 DEF Typed, Return, Goto, Places, TrailLines

\* What a move of p leaves of it.
LEMMA GotoFrame ==
  ASSUME ApiInv, NEW p \in Procs, NEW l \in Places, Goto(p, l)
  PROVE  pc' \in [Procs -> Places] /\ pc'[p] = l /\ \A q \in Procs \ {p} : pc'[q] = pc[q]
BY DEF ApiInv, Typed, Goto

\* Nothing was done for a call that logs in, if its verdicts are on its answers.
LEMMA Unacted ==
  ASSUME ApiInv, NEW p \in Procs, pc[p] \in {"login", "flow"}, Discerning(p)
  PROVE  handled[p] = 0
<1>1. handled[p] \in Nat /\ handled[p] <= Before(p)
  BY DEF ApiInv, Typed, Held, Acted
<1>2. Before(p) = 0
  BY DEF Before
<1> QED BY <1>1, <1>2

\* p ends: with an error at any time, with another outcome where it is true.
LEMMA EndHeld ==
  ASSUME ApiInv, NEW p \in Procs, NEW o \in Outcomes, Return(p, o), Typed', Grown,
         UNCHANGED <<req, sess, mode, flow, reply>>,
         \/ handled'[p] = handled[p]
         \/ pc[p] = "request" /\ handled'[p] \in {handled[p], handled[p] + 1} /\ o = "error",
         \/ o = "error" /\ pc[p] # "done"
         \/ o \in {"session expired", "auth failed"} /\ pc[p] \in {"login", "flow"}
         \/ o = "ok" /\ pc[p] = "judge" /\ Succeeded(p)
         \/ o = "notok" /\ pc[p] = "judge" /\ ~Stale(p) /\ ~Succeeded(p)
         \/ o = "ok" /\ pc[p] \in {"save", "write", "rename", "logout"} /\ req[p].cmd # "call"
  PROVE  Held(p)'
<1> USE ApiAssumption
<1> UNCHANGED <<step, full, logins>>
  BY DEF flow
<1>1. Typed /\ Held(p) /\ app' = app /\ handled[p] \in Nat
  BY DEF ApiInv, Grown, Typed
<1>3. /\ sess[p] # None => sess[p] <= issued'
      /\ sess[p] \notin live => sess[p] \notin live'
  BY Remembered
<1>2. pc'[p] = "done" /\ out'[p] = o /\ trail'[p] = IF o \in {"ok", "notok"} THEN "ok" ELSE "error"
  BY ReturnFrame
<1>4. Provided(p)'
  BY <1>1, <1>2, <1>3 DEF Provided
<1>5. LoggedIn(p)'
  BY <1>1, <1>2 DEF Held, LoggedIn
<1>6. Acted(p)'
  <2>1. /\ handled'[p] <= IF Discerning(p) THEN 1 ELSE 2
        /\ handled'[p] > 0 => req[p].cmd = "call"
    <3>1. CASE handled'[p] = handled[p]
      BY <1>1, <3>1 DEF Held, Acted
    <3>2. CASE pc[p] = "request" /\ handled'[p] = handled[p] + 1
      <4>1. handled[p] <= Before(p) /\ req[p].cmd = "call"
        BY <1>1, <3>2 DEF Held, Acted
      <4> QED BY <1>1, <3>2, <4>1 DEF Before
    <3> QED BY <3>1, <3>2
  <2> QED BY <1>1, <1>2, <2>1, SameSight DEF Acted
<1>7. Told(p)'
  <2>1. o # None
    OBVIOUS
  <2>2. Visible(p)' = Visible(p) /\ Discerning(p)' = Discerning(p)
    BY <1>1, SameSight
  <2>3. ASSUME o = "notok", app.kind = "flow", Visible(p), reply[p] = "expired"
        PROVE  logins[p] = 1 /\ sess[p] \notin live'
    <3>1. pc[p] = "judge" /\ ~Stale(p)
      BY <2>3
    <3>2. mode[p] # "stored" /\ sess[p] \notin live
      BY <1>1, <2>3, <3>1 DEF Held, Acted, Stale, Judged
    <3>3. logins[p] = 1
      BY <1>1, <3>1, <3>2 DEF Held, LoggedIn
    <3> QED BY <1>3, <3>2, <3>3
  <2>4. o = "ok" /\ req[p].cmd = "call" /\ Visible(p) => reply[p] = "done" /\ handled'[p] = 1
    <3> SUFFICES ASSUME o = "ok", req[p].cmd = "call", Visible(p)
                 PROVE  reply[p] = "done" /\ handled'[p] = 1
      OBVIOUS
    <3>1. pc[p] = "judge" /\ reply[p] = "done" /\ handled'[p] = handled[p]
      BY DEF Succeeded, Judged
    <3>2. handled[p] \in 1 .. Before(p) + 1 /\ Before(p) = 0
      BY <1>1, <3>1 DEF Held, Acted, Before, Discerning
    <3> QED BY <1>1, <3>1, <3>2
  <2>5. o = "notok" /\ Visible(p) => reply[p] \in {"refused", "expired"}
    <3> SUFFICES ASSUME o = "notok", Visible(p) PROVE reply[p] \in {"refused", "expired"}
      OBVIOUS
    <3>1. pc[p] = "judge" /\ reply[p] # "done"
      BY DEF Succeeded, Judged
    <3>2. reply[p] \in Replies
      BY <1>1, <3>1 DEF Held, Acted, Typed
    <3> QED BY <3>1, <3>2 DEF Replies
  <2>6. o \in {"session expired", "auth failed"} /\ Discerning(p) => handled'[p] = 0
    <3>1. o \in {"session expired", "auth failed"} =>
            handled'[p] = handled[p] /\ pc[p] \in {"login", "flow"}
      OBVIOUS
    <3> QED BY <3>1, Unacted
  <2> QED BY <1>1, <1>2, <2>1, <2>2, <2>3, <2>4, <2>5, <2>6 DEF Told
<1> QED BY <1>4, <1>5, <1>6, <1>7 DEF Held

\* p ends, and that is all.
LEMMA EndKeeps ==
  ASSUME ApiInv, NEW p \in Procs, NEW o \in Outcomes, Return(p, o),
         UNCHANGED <<app, service, stored, temp, req, sess, mode, flow, answer>>,
         \/ o = "error" /\ pc[p] # "done"
         \/ o \in {"session expired", "auth failed"} /\ pc[p] \in {"login", "flow"}
         \/ o = "ok" /\ pc[p] = "judge" /\ Succeeded(p)
         \/ o = "notok" /\ pc[p] = "judge" /\ ~Stale(p) /\ ~Succeeded(p)
  PROVE  ApiInv'
<1> UNCHANGED <<issued, live, step, full, logins, reply, body, handled>>
  BY DEF service, flow, answer
<1>1. /\ pc' \in [Procs -> Places] /\ out' \in [Procs -> {None} \cup Outcomes]
      /\ trail' \in [Procs -> TrailLines]
      /\ \A q \in Procs \ {p} : pc'[q] = pc[q] /\ out'[q] = out[q] /\ trail'[q] = trail[q]
  BY ReturnFrame
<1>2. Typed'
  BY <1>1 DEF ApiInv, Typed, Tokens, Command
<1>3. \A q \in Procs \ {p} : Still(q)
  BY <1>1 DEF Still
<1>4. Held(p)'
  BY <1>2, SameGrown, EndHeld
<1> QED BY <1>2, <1>3, <1>4, OneKeeps, SameGrown, SameFile

\* p goes to another place.
LEMMA MoveHeld ==
  ASSUME ApiInv, NEW p \in Procs, NEW l \in Places, Goto(p, l),
         UNCHANGED <<app, service, req, sess, mode, flow, answer, ending>>,
         \/ l = "killed" /\ Running(p)
         \/ l = "save" /\ pc[p] = "flow" /\ step[p] > Steps /\ Complete(p)
         \/ l = "write" /\ pc[p] = "save"
         \/ l = "rename" /\ pc[p] = "write" /\ temp'[p] = sess[p]
         \/ l = "request" /\ pc[p] \in {"save", "write", "rename"} /\ req[p].cmd = "call"
  PROVE  Held(p)'
<1> USE ApiAssumption
<1> UNCHANGED <<issued, live, step, full, logins, reply, body, handled, out, trail>>
  BY DEF service, flow, answer, ending
<1>1. Held(p) /\ pc'[p] = l
  BY GotoFrame DEF ApiInv
<1>2. Provided(p)'
  BY <1>1 DEF Held, Provided, Sound, Complete
<1>3. LoggedIn(p)'
  BY <1>1 DEF Held, LoggedIn
<1>4. Acted(p)'
  BY <1>1 DEF Held, Acted, Before, Discerning, Visible, Running
<1>5. Told(p)'
  BY <1>1 DEF Held, Told, Running, Visible, Discerning
<1> QED BY <1>2, <1>3, <1>4, <1>5 DEF Held

LEMMA MoveKeeps ==
  ASSUME ApiInv, NEW p \in Procs, NEW l \in {"killed", "save"}, Goto(p, l),
         UNCHANGED <<app, service, stored, temp, req, sess, mode, flow, answer, ending>>,
         \/ l = "killed" /\ Running(p)
         \/ l = "save" /\ pc[p] = "flow" /\ step[p] > Steps /\ Complete(p)
  PROVE  ApiInv'
<1> l \in Places
  BY DEF Places
<1>1. Held(p)'
  BY MoveHeld
<1> UNCHANGED <<issued, live, step, full, logins, reply, body, handled, out, trail>>
  BY DEF service, flow, answer, ending
<1>2. pc' \in [Procs -> Places] /\ \A q \in Procs \ {p} : pc'[q] = pc[q]
  BY GotoFrame
<1>3. Typed'
  BY <1>2 DEF ApiInv, Typed, Tokens, Command
<1>4. \A q \in Procs \ {p} : Still(q)
  BY <1>2 DEF Still
<1> QED BY <1>1, <1>3, <1>4, OneKeeps, SameGrown, SameFile

\* SaveSession returns, whatever it did to the files.
LEMMA SavedKeeps ==
  ASSUME ApiInv, NEW p \in Procs, NEW ok \in BOOLEAN, Saved(p, ok),
         pc[p] \in {"save", "write", "rename"},
         UNCHANGED <<app, service, req, sess, mode, flow, answer>>,
         stored' \in {None} \cup Tokens, FileHeld',
         temp' \in [Procs -> {None, Torn} \cup Tokens],
         \A q \in Procs \ {p} : temp'[q] = temp[q]
  PROVE  ApiInv'
<1> UNCHANGED <<issued, live, step, full, logins, reply, body, handled>>
  BY DEF service, flow, answer
<1>1. CASE req[p].cmd = "call"
  <2>1. Goto(p, "request") /\ UNCHANGED <<out, trail>> /\ UNCHANGED ending /\ "request" \in Places
    BY <1>1 DEF Saved, ending, Places
  <2>2. Held(p)'
    BY <1>1, <2>1, MoveHeld
  <2>3. pc' \in [Procs -> Places] /\ \A q \in Procs \ {p} : pc'[q] = pc[q]
    BY <2>1, GotoFrame
  <2>4. Typed'
    BY <2>1, <2>3 DEF ApiInv, Typed, Tokens, Command
  <2>5. \A q \in Procs \ {p} : Still(q)
    BY <2>1, <2>3 DEF Still
  <2> QED BY <2>2, <2>4, <2>5, OneKeeps, SameGrown
<1>2. CASE req[p].cmd # "call"
  <2>1. PICK o \in {"ok", "error"} : Return(p, o)
    BY <1>2 DEF Saved
  <2> o \in Outcomes
    BY DEF Outcomes
  <2>2. /\ pc' \in [Procs -> Places] /\ out' \in [Procs -> {None} \cup Outcomes]
        /\ trail' \in [Procs -> TrailLines]
        /\ \A q \in Procs \ {p} : pc'[q] = pc[q] /\ out'[q] = out[q] /\ trail'[q] = trail[q]
    BY <2>1, ReturnFrame
  <2>3. Typed'
    BY <2>2 DEF ApiInv, Typed, Tokens, Command
  <2>4. \A q \in Procs \ {p} : Still(q)
    BY <2>2 DEF Still
  <2>5. Held(p)'
    BY <1>2, <2>1, <2>3, SameGrown, EndHeld
  <2> QED BY <2>3, <2>4, <2>5, OneKeeps, SameGrown
<1> QED BY <1>1, <1>2

LEMMA StartKeeps == ASSUME ApiInv, NEW p \in Procs, Start(p) PROVE ApiInv'
<1> USE ApiAssumption
<1> UNCHANGED <<app, issued, live, stored, temp, req, sess, mode, step, full, logins, reply,
                body, handled, out>>
  BY DEF Start, service, flow, answer
<1>1. Typed /\ Held(p) /\ pc[p] = "idle"
  BY DEF ApiInv, Start
<1>2. req[p].cmd \in {"call", "login", "logout"} /\ (req[p].cmd # "call" => ~req[p].unsafe)
  BY <1>1 DEF Typed, Requests, Command
<1>3. /\ pc' \in [Procs -> Places] /\ trail' \in [Procs -> TrailLines]
      /\ \/ pc'[p] = "load" /\ req[p].cmd = "call"
         \/ pc'[p] = "login" /\ req[p].cmd = "login"
         \/ pc'[p] = "logout" /\ req[p].cmd = "logout"
      /\ trail'[p] = IF req[p].unsafe THEN "started" ELSE trail[p]
      /\ \A q \in Procs \ {p} : pc'[q] = pc[q] /\ trail'[q] = trail[q]
  BY <1>1, <1>2 DEF Start, Goto, Typed, Places, TrailLines
<1>4. Typed'
  BY <1>1, <1>3 DEF Typed, Tokens, Command
<1>5. \A q \in Procs \ {p} : Still(q)
  BY <1>3 DEF Still
<1>6. Provided(p)' /\ LoggedIn(p)' /\ Acted(p)'
  BY <1>1, <1>3 DEF Held, Provided, LoggedIn, Acted, Before, Discerning, Visible
<1>7. Told(p)'
  BY <1>1, <1>3 DEF Held, Told, Visible, Discerning
<1> QED BY <1>4, <1>5, <1>6, <1>7, OneKeeps, SameGrown, SameFile DEF Held

LEMMA LoadKeeps == ASSUME ApiInv, NEW p \in Procs, Load(p) PROVE ApiInv'
<1> USE ApiAssumption
<1> UNCHANGED <<app, issued, live, stored, temp, req, step, full, logins, reply, body, handled,
                out, trail>>
  BY DEF Load, service, flow, answer, ending
<1>1. Typed /\ Held(p) /\ pc[p] = "load" /\ FileHeld
  BY DEF ApiInv, Load
<1>2. /\ pc' \in [Procs -> Places] /\ sess' \in [Procs -> {None} \cup Tokens]
      /\ mode' \in [Procs -> {"stored", "fresh", "relogged"}]
      /\ \/ pc'[p] = "request" /\ sess'[p] = sess[p] /\ mode'[p] = mode[p] /\ app.kind = "none"
         \/ pc'[p] = "request" /\ sess'[p] = stored /\ mode'[p] = mode[p] /\ stored # None
         \/ pc'[p] = "login" /\ sess'[p] = sess[p] /\ mode'[p] = "fresh"
      /\ \A q \in Procs \ {p} : pc'[q] = pc[q] /\ sess'[q] = sess[q] /\ mode'[q] = mode[q]
  <2>1. CASE app.kind = "none"
    BY <1>1, <2>1 DEF Load, Goto, Typed, Places
  <2>2. CASE app.kind # "none" /\ stored \in Tokens
    BY <1>1, <2>2 DEF Load, Goto, Typed, Places, Tokens, Dead
  <2>3. CASE app.kind # "none" /\ stored \notin Tokens
    BY <1>1, <2>3 DEF Load, Goto, Typed, Places
  <2> QED BY <2>1, <2>2, <2>3
<1>3. Typed'
  BY <1>1, <1>2 DEF Typed, Tokens, Command
<1>4. \A q \in Procs \ {p} : Still(q)
  BY <1>2 DEF Still
<1>5. Provided(p)'
  BY <1>1, <1>2 DEF Held, Provided, FileHeld
<1>6. LoggedIn(p)'
  BY <1>1, <1>2 DEF Held, LoggedIn, Acted, Typed
<1>7. Acted(p)'
  <2>1. handled[p] \in Nat /\ mode[p] = "stored" /\ handled[p] <= Before(p)
    BY <1>1 DEF Held, LoggedIn, Acted, Typed
  <2>2. handled[p] = 0
    BY <2>1 DEF Before
  <2>3. handled'[p] <= Before(p)' /\ Discerning(p)' = Discerning(p)
    BY <2>2, SameSight DEF Before
  <2> QED BY <1>1, <1>2, <2>2, <2>3 DEF Held, Acted
<1>8. Told(p)'
  BY <1>1, <1>2 DEF Held, Told, Outcomes
<1> QED BY <1>3, <1>4, <1>5, <1>6, <1>7, <1>8, OneKeeps, SameGrown, SameFile DEF Held

LEMMA BeginsKeeps == ASSUME ApiInv, NEW p \in Procs, LoginBegins(p) PROVE ApiInv'
<1> USE ApiAssumption
<1> UNCHANGED <<app, issued, live, stored, temp, req, mode, reply, body, handled, out, trail>>
  BY DEF LoginBegins, service, answer, ending
<1>1. Typed /\ Held(p) /\ pc[p] = "login" /\ issued \in Nat /\ logins[p] = 0
  BY DEF ApiInv, LoginBegins, Typed, Held, LoggedIn
<1>2. /\ pc' \in [Procs -> Places] /\ pc'[p] = "flow"
      /\ sess' \in [Procs -> {None} \cup Tokens] /\ sess'[p] = Dead
      /\ step' \in [Procs -> 1 .. Steps + 1] /\ step'[p] = 1
      /\ full' \in [Procs -> BOOLEAN]
      /\ logins' \in [Procs -> Nat] /\ logins'[p] = 1
      /\ \A q \in Procs \ {p} :
            /\ pc'[q] = pc[q] /\ sess'[q] = sess[q] /\ step'[q] = step[q]
            /\ full'[q] = full[q] /\ logins'[q] = logins[q]
  BY <1>1 DEF LoginBegins, Goto, Typed, Places, Tokens, Dead
<1>3. Typed'
  BY <1>1, <1>2 DEF Typed, Tokens, Command
<1>4. \A q \in Procs \ {p} : Still(q)
  BY <1>2 DEF Still
<1>5. Provided(p)'
  BY <1>1, <1>2 DEF Provided, Dead
<1>6. LoggedIn(p)' /\ Acted(p)'
  BY <1>1, <1>2 DEF Held, LoggedIn, Acted, Before, Discerning, Visible
<1>7. Told(p)'
  BY <1>1, <1>2 DEF Held, Told, Outcomes
<1> QED BY <1>3, <1>4, <1>5, <1>6, <1>7, OneKeeps, SameGrown, SameFile DEF Held

\* The service grants a session that nobody has seen.
LEMMA GrantGrows ==
  ASSUME ApiInv, UNCHANGED app, Grant(issued + 1)
  PROVE  /\ Grown /\ issued' = issued + 1
         /\ issued' \in 1 .. MaxTokens /\ live' \subseteq 1 .. issued'
<1>1. issued \in Nat /\ issued >= 1 /\ live \subseteq 1 .. issued
  BY ApiAssumption DEF ApiInv, Typed
<1>2. issued' = issued + 1 /\ issued + 1 <= MaxTokens
  BY DEF Grant
<1>3. issued' \in 1 .. MaxTokens
  BY <1>1, <1>2, ApiAssumption
<1>4. live' \subseteq 1 .. issued' /\ \A t \in live' : t \in live \/ t = issued + 1
  BY <1>1, <1>2 DEF Grant
<1> QED BY <1>1, <1>2, <1>3, <1>4 DEF Grown

LEMMA AcceptedKeeps == ASSUME ApiInv, NEW p \in Procs, StepAccepted(p) PROVE ApiInv'
<1> USE ApiAssumption
<1> UNCHANGED <<app, stored, temp, pc, req, mode, full, logins, reply, body, handled, out, trail>>
  BY DEF StepAccepted, answer, ending
<1>1. /\ Typed /\ Held(p) /\ pc[p] = "flow" /\ step[p] \in 1 .. Steps /\ issued \in 1 .. MaxTokens
  BY DEF ApiInv, StepAccepted, Typed
<1>2. /\ step' \in [Procs -> 1 .. Steps + 1] /\ step'[p] = step[p] + 1
      /\ \A q \in Procs \ {p} : step'[q] = step[q]
  BY <1>1 DEF StepAccepted, Typed
<1>3. /\ Grown /\ issued' \in 1 .. MaxTokens /\ live' \subseteq 1 .. issued'
      /\ sess' \in [Procs -> {None} \cup Tokens]
      /\ \A q \in Procs \ {p} : sess'[q] = sess[q]
      /\ \/ step[p] < Steps /\ sess'[p] = sess[p] /\ issued' = issued
         \/ sess'[p] = issued' /\ sess'[p] \in Nat \ {0}
  <2>1. CASE step[p] < Steps
    <3>1. UNCHANGED <<issued, live, sess>>
      BY <2>1 DEF StepAccepted
    <3> QED BY <1>1, <2>1, <3>1, SameGrown DEF Typed
  <2>2. CASE ~(step[p] < Steps)
    <3>1. Grant(issued + 1) /\ sess' = [sess EXCEPT ![p] = issued + 1]
      BY <2>2 DEF StepAccepted
    <3>2. issued' = issued + 1 /\ issued' \in 1 .. MaxTokens
      BY <3>1, GrantGrows
    <3>3. issued + 1 \in Tokens /\ issued + 1 \in Nat \ {0}
      BY <1>1, <3>2 DEF Tokens, Dead
    <3> QED BY <1>1, <3>1, <3>2, <3>3, GrantGrows DEF Typed
  <2> QED BY <2>1, <2>2
<1>4. Typed'
  BY <1>1, <1>2, <1>3 DEF Typed, Tokens, Command
<1>5. \A q \in Procs \ {p} : Still(q)
  BY <1>2, <1>3 DEF Still
<1>6. Provided(p)'
  <2>1. sess'[p] # None /\ sess'[p] <= issued'
    BY <1>1, <1>3 DEF Held, Provided
  <2>2. step'[p] > Steps => sess'[p] # Dead
    BY <1>1, <1>2, <1>3 DEF Dead
  <2> QED BY <1>1, <2>1, <2>2 DEF Provided
<1>7. LoggedIn(p)' /\ Acted(p)'
  BY <1>1 DEF Held, LoggedIn, Acted, Before, Discerning, Visible
<1>8. Told(p)'
  BY <1>1 DEF Held, Told, Outcomes
<1> QED BY <1>3, <1>4, <1>5, <1>6, <1>7, <1>8, OneKeeps, SameFile DEF Held

LEMMA RefusedKeeps == ASSUME ApiInv, NEW p \in Procs, StepRefused(p) PROVE ApiInv'
<1> USE ApiAssumption
<1> UNCHANGED <<app, issued, live, stored, temp, pc, req, sess, mode, logins, reply, body, handled,
                out, trail>>
  BY DEF StepRefused, service, answer, ending
<1>1. Typed /\ Held(p) /\ pc[p] = "flow" /\ step[p] \in 1 .. Steps
  BY DEF ApiInv, StepRefused, Typed
<1>2. /\ step' \in [Procs -> 1 .. Steps + 1] /\ full' \in [Procs -> BOOLEAN] /\ full'[p] = FALSE
      /\ \A q \in Procs \ {p} : step'[q] = step[q] /\ full'[q] = full[q]
  BY <1>1 DEF StepRefused, Typed
<1>3. Typed'
  BY <1>1, <1>2 DEF Typed, Tokens, Command
<1>4. \A q \in Procs \ {p} : Still(q)
  BY <1>2 DEF Still
<1>5. Provided(p)' /\ LoggedIn(p)' /\ Acted(p)'
  BY <1>1, <1>2 DEF Held, Provided, LoggedIn, Acted, Before, Discerning, Visible
<1>6. Told(p)'
  BY <1>1 DEF Held, Told, Visible, Discerning
<1> QED BY <1>3, <1>4, <1>5, <1>6, OneKeeps, SameGrown, SameFile DEF Held

LEMMA LostKeeps == ASSUME ApiInv, NEW p \in Procs, StepLost(p) PROVE ApiInv'
<1> UNCHANGED <<app, stored, temp, req, sess, mode, step, full, logins, reply, body, handled>>
  BY DEF StepLost, flow, answer
<1>1. Typed /\ pc[p] = "flow" /\ Return(p, "error") /\ "error" \in Outcomes
  BY DEF ApiInv, StepLost, Outcomes
<1>2. Grown /\ issued' \in 1 .. MaxTokens /\ live' \subseteq 1 .. issued'
  <2>1. CASE UNCHANGED service
    BY <1>1, <2>1, SameGrown DEF service, Typed
  <2>2. CASE Grant(issued + 1)
    BY <2>2, GrantGrows
  <2> QED BY <2>1, <2>2 DEF StepLost
<1>3. /\ pc' \in [Procs -> Places] /\ out' \in [Procs -> {None} \cup Outcomes]
      /\ trail' \in [Procs -> TrailLines]
      /\ \A q \in Procs \ {p} : pc'[q] = pc[q] /\ out'[q] = out[q] /\ trail'[q] = trail[q]
  BY <1>1, ReturnFrame
<1>4. Typed'
  BY <1>1, <1>2, <1>3 DEF Typed, Tokens, Command
<1>5. \A q \in Procs \ {p} : Still(q)
  BY <1>3 DEF Still
<1>6. Held(p)'
  BY <1>1, <1>2, <1>4, EndHeld DEF flow
<1> QED BY <1>2, <1>4, <1>5, <1>6, OneKeeps, SameFile

LEMMA CreateKeeps == ASSUME ApiInv, NEW p \in Procs, CreateTemp(p) PROVE ApiInv'
<1>1. Typed /\ pc[p] = "save" /\ UNCHANGED <<app, service, stored, req, sess, mode, flow, answer>>
  BY DEF ApiInv, CreateTemp
<1> UNCHANGED <<issued, live, step, full, logins, reply, body, handled>>
  BY <1>1 DEF service, flow, answer
<1>2. CASE Saved(p, FALSE) /\ UNCHANGED temp
  <2>1. stored' \in {None} \cup Tokens /\ FileHeld' /\ temp' \in [Procs -> {None, Torn} \cup Tokens]
    BY <1>1, <1>2 DEF ApiInv, Typed, FileHeld, Sound
  <2> QED BY <1>1, <1>2, <2>1, SavedKeeps
<1>3. CASE temp' = [temp EXCEPT ![p] = Torn] /\ Goto(p, "write") /\ UNCHANGED ending
  <2>1. UNCHANGED <<out, trail>> /\ "write" \in Places
    BY <1>3 DEF ending, Places
  <2>2. Held(p)'
    BY <1>1, <1>3, <2>1, MoveHeld
  <2>3. pc' \in [Procs -> Places] /\ \A q \in Procs \ {p} : pc'[q] = pc[q]
    BY <1>3, <2>1, GotoFrame
  <2>4. temp' \in [Procs -> {None, Torn} \cup Tokens] /\ \A q \in Procs \ {p} : temp'[q] = temp[q]
    BY <1>1, <1>3 DEF Typed
  <2>5. Typed'
    BY <1>1, <2>1, <2>3, <2>4 DEF Typed, Tokens, Command
  <2>6. \A q \in Procs \ {p} : Still(q)
    BY <1>1, <2>1, <2>3, <2>4 DEF Still
  <2> QED BY <1>1, <2>2, <2>5, <2>6, OneKeeps, SameGrown, SameFile
<1> QED BY <1>2, <1>3 DEF CreateTemp

LEMMA WriteKeeps == ASSUME ApiInv, NEW p \in Procs, WriteTemp(p) PROVE ApiInv'
<1>1. /\ Typed /\ pc[p] = "write" /\ UNCHANGED <<app, service, stored, req, sess, mode, flow, answer>>
      /\ sess[p] \in Tokens
  BY DEF ApiInv, WriteTemp, Held, Provided, Typed
<1> UNCHANGED <<issued, live, step, full, logins, reply, body, handled>>
  BY <1>1 DEF service, flow, answer
<1>2. CASE temp' = [temp EXCEPT ![p] = None] /\ Saved(p, FALSE)
  <2>1. /\ stored' \in {None} \cup Tokens /\ FileHeld'
        /\ temp' \in [Procs -> {None, Torn} \cup Tokens] /\ \A q \in Procs \ {p} : temp'[q] = temp[q]
    BY <1>1, <1>2 DEF ApiInv, Typed, FileHeld, Sound
  <2> QED BY <1>1, <1>2, <2>1, SavedKeeps
<1>3. CASE temp' = [temp EXCEPT ![p] = sess[p]] /\ Goto(p, "rename") /\ UNCHANGED ending
  <2>1. UNCHANGED <<out, trail>> /\ "rename" \in Places
    BY <1>3 DEF ending, Places
  <2>2. /\ temp' \in [Procs -> {None, Torn} \cup Tokens] /\ temp'[p] = sess[p]
        /\ \A q \in Procs \ {p} : temp'[q] = temp[q]
    BY <1>1, <1>3 DEF Typed
  <2>3. Held(p)'
    BY <1>1, <1>3, <2>1, <2>2, MoveHeld
  <2>4. pc' \in [Procs -> Places] /\ \A q \in Procs \ {p} : pc'[q] = pc[q]
    BY <1>3, <2>1, GotoFrame
  <2>5. Typed'
    BY <1>1, <2>1, <2>2, <2>4 DEF Typed, Tokens, Command
  <2>6. \A q \in Procs \ {p} : Still(q)
    BY <1>1, <2>1, <2>2, <2>4 DEF Still
  <2> QED BY <1>1, <2>3, <2>5, <2>6, OneKeeps, SameGrown, SameFile
<1> QED BY <1>2, <1>3 DEF WriteTemp

\* Only here does a session reach the file: the one its temporary file holds.
LEMMA RenameKeeps == ASSUME ApiInv, NEW p \in Procs, RenameTemp(p) PROVE ApiInv'
<1>1. Typed /\ pc[p] = "rename" /\ UNCHANGED <<app, service, req, sess, mode, flow, answer>>
  BY DEF ApiInv, RenameTemp
<1> UNCHANGED <<issued, live>>
  BY <1>1 DEF service
<1>2. temp' \in [Procs -> {None, Torn} \cup Tokens] /\ \A q \in Procs \ {p} : temp'[q] = temp[q]
  BY <1>1 DEF RenameTemp, Typed
<1>3. temp[p] = sess[p] /\ sess[p] \in Tokens /\ sess[p] <= issued /\ Sound(sess[p])
  BY <1>1 DEF ApiInv, Held, Provided, Typed
<1>4. CASE stored' = temp[p] /\ Saved(p, TRUE)
  <2>1. stored' \in {None} \cup Tokens /\ FileHeld'
    BY <1>1, <1>3, <1>4 DEF FileHeld, Sound
  <2> QED BY <1>1, <1>2, <1>4, <2>1, SavedKeeps
<1>5. CASE UNCHANGED stored /\ Saved(p, FALSE)
  <2>1. stored' \in {None} \cup Tokens /\ FileHeld'
    BY <1>1, <1>5 DEF ApiInv, Typed, FileHeld, Sound
  <2> QED BY <1>1, <1>2, <1>5, <2>1, SavedKeeps
<1> QED BY <1>4, <1>5 DEF RenameTemp

LEMMA KeepFrame ==
  ASSUME ApiInv, NEW p \in Procs, NEW r \in {None} \cup Replies, NEW whole \in BOOLEAN,
         Keep(p, r, whole)
  PROVE  body' \in [Procs -> Bodies]
BY DEF ApiInv, Typed, Keep, Bodies

LEMMA AnsweredKeeps == ASSUME ApiInv, NEW p \in Procs, Answered(p) PROVE ApiInv'
<1> USE ApiAssumption
<1> UNCHANGED <<app, issued, live, stored, temp, req, sess, mode, step, full, logins, out, trail>>
  BY DEF Answered, service, flow, ending
<1>1. /\ Typed /\ Held(p) /\ pc[p] = "request" /\ handled[p] \in Nat
      /\ handled[p] <= Before(p) /\ req[p].cmd = "call"
  BY DEF ApiInv, Answered, Held, Acted, Typed
<1>2. PICK r \in IF Honoured(p) THEN {"done", "refused"} ELSE {"expired"} :
        reply' = [reply EXCEPT ![p] = r] /\ \E whole \in BOOLEAN : Keep(p, r, whole)
  BY DEF Answered
<1>3. r \in Replies /\ r # None
  BY <1>2 DEF Replies
<1>4. body' \in [Procs -> Bodies]
  BY <1>2, <1>3, KeepFrame
<1>5. /\ pc' \in [Procs -> Places] /\ pc'[p] = "judge"
      /\ reply' \in [Procs -> {None} \cup Replies] /\ reply'[p] = r
      /\ handled' \in [Procs -> Nat] /\ handled'[p] = IF Honoured(p) THEN handled[p] + 1 ELSE handled[p]
      /\ \A q \in Procs \ {p} : pc'[q] = pc[q] /\ reply'[q] = reply[q] /\ handled'[q] = handled[q]
  BY <1>1, <1>2, <1>3 DEF Answered, Act, Goto, Typed, Places
<1>6. Typed'
  BY <1>1, <1>4, <1>5 DEF Typed, Tokens, Command
<1>7. \A q \in Procs \ {p} : Still(q)
  BY <1>5 DEF Still
<1>8. Provided(p)' /\ LoggedIn(p)'
  BY <1>1, <1>5 DEF Held, Provided, LoggedIn
<1>9. Acted(p)'
  <2>1. Before(p)' = Before(p) /\ Discerning(p)' = Discerning(p)
    BY SameSight DEF Before
  <2>2. Before(p) \in Nat /\ Before(p) + 1 = IF mode[p] = "relogged" /\ ~Discerning(p) THEN 2 ELSE 1
    BY DEF Before
  <2>3. handled[p] + 1 <= IF Discerning(p) THEN 1 ELSE 2
    BY <1>1, <2>2
  <2>4. CASE Honoured(p)
    <3>1. r # "expired"
      BY <1>2, <2>4
    <3>2. handled'[p] \in 1 .. Before(p) + 1
      BY <1>1, <1>5, <2>2, <2>4
    <3> QED BY <1>1, <1>3, <1>5, <2>1, <2>3, <2>4, <3>1, <3>2 DEF Acted
  <2>5. CASE ~Honoured(p)
    <3>1. r = "expired" /\ app.kind = "flow" /\ sess[p] \notin live
      BY <1>1, <1>2, <2>5 DEF Honoured, Typed, Apps
    <3> QED BY <1>1, <1>3, <1>5, <2>1, <2>3, <2>5, <3>1 DEF Held, Acted
  <2> QED BY <2>4, <2>5
<1>10. Told(p)'
  BY <1>1, <1>5 DEF Held, Told, Outcomes
<1> QED BY <1>6, <1>7, <1>8, <1>9, <1>10, OneKeeps, SameGrown, SameFile DEF Held

LEMMA UnansweredKeeps == ASSUME ApiInv, NEW p \in Procs, Unanswered(p) PROVE ApiInv'
<1> UNCHANGED <<app, issued, live, stored, temp, req, sess, mode, step, full, logins, reply>>
  BY DEF Unanswered, service, flow
<1>1. /\ Typed /\ pc[p] = "request" /\ Return(p, "error") /\ "error" \in Outcomes
  BY DEF ApiInv, Unanswered, Outcomes
<1>2. /\ handled' \in [Procs -> Nat] /\ handled'[p] \in {handled[p], handled[p] + 1}
      /\ \A q \in Procs \ {p} : handled'[q] = handled[q]
  BY <1>1 DEF Unanswered, Act, Typed
<1>3. body' \in [Procs -> Bodies]
  BY <1>1, KeepFrame DEF Unanswered, Typed
<1>4. /\ pc' \in [Procs -> Places] /\ out' \in [Procs -> {None} \cup Outcomes]
      /\ trail' \in [Procs -> TrailLines]
      /\ \A q \in Procs \ {p} : pc'[q] = pc[q] /\ out'[q] = out[q] /\ trail'[q] = trail[q]
  BY <1>1, ReturnFrame
<1>5. Typed'
  BY <1>1, <1>2, <1>3, <1>4 DEF Typed, Tokens, Command
<1>6. \A q \in Procs \ {p} : Still(q)
  BY <1>2, <1>4 DEF Still
<1>7. Held(p)'
  BY <1>1, <1>2, <1>5, SameGrown, EndHeld DEF flow
<1> QED BY <1>5, <1>6, <1>7, OneKeeps, SameGrown, SameFile

\* The request goes out again only when the service turned it down, or when
\* expired_when does not see the answer.
LEMMA ReloginKeeps == ASSUME ApiInv, NEW p \in Procs, Relogin(p) PROVE ApiInv'
<1> USE ApiAssumption
<1> UNCHANGED <<app, issued, live, stored, temp, req, sess, step, full, logins, reply, body, handled,
                out, trail>>
  BY DEF Relogin, service, flow, answer, ending
<1>1. /\ Typed /\ Held(p) /\ pc[p] = "judge" /\ mode[p] = "stored"
      /\ Judged(p, "expired_when", "expired") /\ handled[p] \in Nat
  BY DEF ApiInv, Relogin, Stale, Typed
<1>2. /\ pc' \in [Procs -> Places] /\ pc'[p] = "login"
      /\ mode' \in [Procs -> {"stored", "fresh", "relogged"}] /\ mode'[p] = "relogged"
      /\ \A q \in Procs \ {p} : pc'[q] = pc[q] /\ mode'[q] = mode[q]
  BY <1>1 DEF Relogin, Goto, Typed, Places
<1>3. Typed'
  BY <1>1, <1>2 DEF Typed, Tokens, Command
<1>4. \A q \in Procs \ {p} : Still(q)
  BY <1>2 DEF Still
<1>5. Provided(p)' /\ LoggedIn(p)'
  BY <1>1, <1>2 DEF Held, Provided, LoggedIn
<1>6. Acted(p)'
  <2>1. Discerning(p) => reply[p] = "expired"
    BY <1>1 DEF Judged, Discerning
  <2>2. Before(p) = 0
    BY <1>1 DEF Before
  <2>3. Discerning(p) => handled[p] = 0
    BY <1>1, <2>1, <2>2 DEF Held, Acted
  <2>4. handled[p] <= 1
    BY <1>1, <2>2 DEF Held, Acted
  <2>5. Discerning(p)' = Discerning(p)
    BY SameSight
  <2>6. handled[p] <= Before(p)'
    BY <1>1, <1>2, <2>3, <2>4, <2>5 DEF Before
  <2> QED BY <1>1, <1>2, <2>5, <2>6 DEF Held, Acted
<1>7. Told(p)'
  BY <1>1, <1>2 DEF Held, Told, Visible, Discerning
<1> QED BY <1>3, <1>4, <1>5, <1>6, <1>7, OneKeeps, SameGrown, SameFile DEF Held

LEMMA LogoutKeeps == ASSUME ApiInv, NEW p \in Procs, Logout(p) PROVE ApiInv'
<1> UNCHANGED <<app, issued, live, temp, req, sess, mode, step, full, logins, reply, body, handled>>
  BY DEF Logout, service, flow, answer
<1>1. Typed /\ pc[p] = "logout" /\ req[p].cmd = "logout"
  BY DEF ApiInv, Logout, Held, Acted
<1>2. PICK o \in {"ok", "error"} : Return(p, o)
  BY DEF Logout
<1> o \in Outcomes
  BY DEF Outcomes
<1>3. /\ pc' \in [Procs -> Places] /\ out' \in [Procs -> {None} \cup Outcomes]
      /\ trail' \in [Procs -> TrailLines]
      /\ \A q \in Procs \ {p} : pc'[q] = pc[q] /\ out'[q] = out[q] /\ trail'[q] = trail[q]
  BY <1>2, ReturnFrame
<1>4. stored' \in {None, stored}
  BY DEF Logout
<1>5. Typed'
  BY <1>1, <1>3, <1>4 DEF Typed, Tokens, Command
<1>6. FileHeld'
  BY <1>4 DEF ApiInv, FileHeld, Sound
<1>7. \A q \in Procs \ {p} : Still(q)
  BY <1>3 DEF Still
<1>8. Held(p)'
  BY <1>1, <1>2, <1>5, SameGrown, EndHeld DEF flow
<1> QED BY <1>5, <1>6, <1>7, <1>8, OneKeeps, SameGrown

LEMMA ExpireKeeps == ASSUME ApiInv, NEW t \in live, Expire(t) PROVE ApiInv'
<1> UNCHANGED <<app, issued, stored, temp, pc, req, sess, mode, step, full, logins, reply, body,
                handled, out, trail>>
  BY DEF Expire, flow, answer, ending
<1>1. live' \subseteq live /\ Typed
  BY DEF Expire, ApiInv
<1>2. Typed'
  BY <1>1 DEF Typed, Tokens, Command
<1>3. Grown
  BY <1>1 DEF Typed, Grown
<1>4. \A q \in Procs : Still(q)
  BY DEF Still
<1> QED BY <1>2, <1>3, <1>4, OthersKeep, SameFile DEF ApiInv

-------------------------------------------------------------------------------
LEMMA ApiStep_Inv == ApiInv /\ [Next]_vars => ApiInv'
<1> SUFFICES ASSUME ApiInv, [Next]_vars PROVE ApiInv'
  OBVIOUS
<1> {"error", "ok", "notok", "session expired", "auth failed"} \subseteq Outcomes
  BY DEF Outcomes
<1>1. ASSUME NEW p \in Procs, Reject(p) PROVE ApiInv'
  BY <1>1, EndKeeps DEF Reject
<1>2. ASSUME NEW p \in Procs, LoginNeedsUser(p) PROVE ApiInv'
  BY <1>2, EndKeeps DEF LoginNeedsUser
<1>3. ASSUME NEW p \in Procs, StepAssertFails(p) PROVE ApiInv'
  BY <1>3, EndKeeps DEF StepAssertFails
<1>4. ASSUME NEW p \in Procs, LoginEnds(p) PROVE ApiInv'
  BY <1>4, EndKeeps, MoveKeeps DEF LoginEnds
<1>5. ASSUME NEW p \in Procs, Classify(p) PROVE ApiInv'
  <2>1. CASE Succeeded(p)
    BY <1>5, <2>1, EndKeeps DEF Classify, Succeeded, Judged
  <2>2. CASE ~Succeeded(p)
    BY <1>5, <2>2, EndKeeps DEF Classify
  <2> QED BY <2>1, <2>2
<1>6. ASSUME NEW p \in Procs, BadPredicate(p) PROVE ApiInv'
  BY <1>6, EndKeeps DEF BadPredicate
<1>7. ASSUME NEW p \in Procs, Kill(p) PROVE ApiInv'
  BY <1>7, MoveKeeps DEF Kill
<1>8. ASSUME NEW p \in Procs,
             \/ Start(p) \/ Load(p) \/ LoginBegins(p) \/ StepAccepted(p) \/ StepRefused(p)
             \/ StepLost(p) \/ CreateTemp(p) \/ WriteTemp(p) \/ RenameTemp(p) \/ Answered(p)
             \/ Unanswered(p) \/ Relogin(p) \/ Logout(p)
      PROVE  ApiInv'
  BY <1>8, StartKeeps, LoadKeeps, BeginsKeeps, AcceptedKeeps, RefusedKeeps, LostKeeps, CreateKeeps,
     WriteKeeps, RenameKeeps, AnsweredKeeps, UnansweredKeeps, ReloginKeeps, LogoutKeeps, Zenon
<1>9. ASSUME NEW t \in live, Expire(t) PROVE ApiInv'
  BY <1>9, ExpireKeeps
<1>10. CASE UNCHANGED vars
  <2> UNCHANGED <<app, issued, live, stored, temp, pc, req, sess, mode, step, full, logins, reply,
                  body, handled, out, trail>>
    BY <1>10 DEF vars
  <2>1. Typed'
    BY DEF ApiInv, Typed, Tokens, Command
  <2>2. \A q \in Procs : Still(q)
    BY DEF Still
  <2> QED BY <2>1, <2>2, OthersKeep, SameGrown, SameFile DEF ApiInv
<1> QED
  BY <1>1, <1>2, <1>3, <1>4, <1>5, <1>6, <1>7, <1>8, <1>9, <1>10, Zenon DEF Next

\* Every reachable state is one that the invariant describes.
THEOREM ApiInvariant == Spec => []ApiInv
BY ApiInit_Inv, ApiStep_Inv, PTL DEF Spec

\* Every variable has its type, and no request of an app with a login flow
\* goes out without a session (Call loads one or logs in).
THEOREM ApiTypeCorrect == Spec => []TypeOK
<1>1. ApiInv => TypeOK
  BY DEF ApiInv, Typed, TypeOK, Held, Provided, Places, TrailLines, Bodies
<1> QED BY <1>1, ApiInvariant, PTL

\* Whatever commands race, fail or are killed, the session file is absent or
\* the whole of one session, a granted one if the flow declares captures.
THEOREM FileStaysSound == Spec => []SoundFile
<1>1. ApiInv => SoundFile
  BY ApiAssumption DEF ApiInv, Typed, FileHeld, Sound, SoundFile, Tokens, Dead
<1> QED BY <1>1, ApiInvariant, PTL

\* At most one login and at most one effect of a call's request: the retry
\* repeats nothing.
THEOREM ActsAtMostOnce == Spec => []ActsOnce
<1>1. ApiInv => ActsOnce
  BY DEF ApiInv, Held, LoggedIn, Acted, ActsOnce
<1> QED BY <1>1, ApiInvariant, PTL

\* What a call reports is what happened to its request, and what had an effect
\* is on record.
THEOREM TruthIsOnRecord == Spec => []TruthOnRecord
<1>1. ApiInv => EndsTruthfully
  BY DEF ApiInv, Held, Told, EndsTruthfully
<1>2. ApiInv => OnRecord
  <2> SUFFICES ASSUME ApiInv, NEW p \in Procs, req[p].unsafe, handled[p] > 0
               PROVE  trail[p] = IF out[p] = None THEN "started"
                                 ELSE IF out[p] \in {"ok", "notok"} THEN "ok" ELSE "error"
    BY DEF OnRecord
  <2>1. Told(p) /\ Acted(p) /\ LoggedIn(p) /\ handled[p] \in Nat
    BY DEF ApiInv, Held, Typed
  <2>2. pc[p] # "idle"
    <3>1. pc[p] = "idle" => mode[p] = "stored" /\ handled[p] <= Before(p)
      BY <2>1 DEF Acted, LoggedIn
    <3> QED BY <2>1, <3>1 DEF Before
  <2> QED BY <2>1, <2>2 DEF Told
<1> QED BY <1>1, <1>2, ApiInvariant, PTL DEF TruthOnRecord
===============================================================================
