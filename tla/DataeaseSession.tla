---------------------------- MODULE DataeaseSession ----------------------------
(***************************************************************************)
(* The dataease driver of dbcli (adapters/db/dataease): a query sent to a  *)
(* web service with the token of a session that is kept on disk, and the   *)
(* login that replaces it.  The commands here share one session file (their*)
(* targets name the same `session`), whatever their base_url and whether or*)
(* not they have a login_credential.                                       *)
(*                                                                         *)
(* The web services are external: each honours a set of tokens, which may  *)
(* lapse at any moment.                                                    *)
(***************************************************************************)
EXTENDS Naturals, Sequences

CONSTANTS
    Users,     \* the commands
    Sites      \* base_urls; "" is not one of them

ASSUME SitesAssumption == "" \notin Sites /\ "before" \notin Users

VARIABLES
    target,      \* command -> [site, cred]: its base_url, and can it log in?
    where,       \* command -> its location
    file,      \* [state, token, site]: the session file
    temp,      \* command -> its temporary file, the same
    sess,      \* command -> the session it holds
    live,      \* the tokens that are honoured
    \* observed by the properties only
    asked,     \* command -> its queries, each [token, honoured]
    logins,    \* command -> logins that were granted
    outcome    \* command -> "none" or how it ended

dsvars == <<target, where, file, temp, sess, live, asked, logins, outcome>>

\* A token: the site that granted it, the command it was granted to ("before"
\* all of them), the how manieth; and was the site recorded with it?
Tokens == [at : Sites, by : Users \union {"before"}, nth : Nat, bound : BOOLEAN]
NoToken == [at |-> "", by |-> "before", nth |-> 1, bound |-> FALSE]

Questions == [token : Tokens \union {NoToken}, honoured : BOOLEAN]

States == {"none", "junk", "foreign", "part", "whole"}
NoFile == [state |-> "none", token |-> NoToken, site |-> ""]
Session(t) == [state |-> "whole", token |-> t, site |-> IF t.bound THEN t.at ELSE ""]

\* What a file may hold before: nothing, no JSON, no token, another key's session,
\* or a session, written by a login or (without base_url) by hand.
Earlier == [at : Sites, by : {"before"}, nth : {1}, bound : BOOLEAN]
Files == {NoFile} \union [state : {"junk", "foreign"}, token : {NoToken}, site : {""}]
         \union {Session(t) : t \in Earlier}

DsInit ==
    /\ target \in [Users -> [site : Sites, cred : BOOLEAN]]
    /\ where = [u \in Users |-> "start"]
    /\ file \in Files
    /\ temp = [u \in Users |-> NoFile]
    /\ sess = [u \in Users |-> NoToken]
    /\ live \in SUBSET ({file.token} \ {NoToken})
    /\ asked = [u \in Users |-> <<>>]
    /\ logins = [u \in Users |-> 0]
    /\ outcome = [u \in Users |-> "none"]

DsGoto(u, l) == where' = [where EXCEPT ![u] = l]
DsEnds(u, how) == DsGoto(u, "over") /\ outcome' = [outcome EXCEPT ![u] = how]

\* canAutoLogin, of an error that a login may cure
LoginOrEnd(u, how) ==
    IF target[u].cred THEN DsGoto(u, "login") /\ UNCHANGED outcome ELSE DsEnds(u, how)

-----------------------------------------------------------------------------
(* Run, queryWithAutoLogin *)

\* A configuration that is not valid, a verb that is not supported, no SQL, a
\* statement that is no read, no table to insert into: before any request.
DsRefuse(u) ==
    /\ where[u] = "start"
    /\ DsEnds(u, "refused")
    /\ UNCHANGED <<target, file, temp, sess, live, asked, logins>>

\* LoadSession finds no session, and a login may help.
LoadNothing(u) ==
    /\ where[u] = "start" /\ file.state \in {"none", "junk"}
    /\ LoginOrEnd(u, "no_session")
    /\ UNCHANGED <<target, file, temp, sess, live, asked, logins>>

\* No home, a file that cannot be read, of another key, or of another site.
LoadFails(u) ==
    /\ where[u] = "start"
    /\ DsEnds(u, "failed")
    /\ UNCHANGED <<target, file, temp, sess, live, asked, logins>>

\* Seeded bug: the recorded base_url is not compared.
LoadAnySite(u) ==
    /\ where[u] = "start" /\ file.state = "whole"
    /\ sess' = [sess EXCEPT ![u] = file.token]
    /\ DsGoto(u, "query")
    /\ UNCHANGED <<target, file, temp, live, asked, logins, outcome>>

Load(u) ==
    /\ where[u] = "start" /\ file.state = "whole" /\ file.site \in {"", target[u].site}
    /\ sess' = [sess EXCEPT ![u] = file.token]
    /\ DsGoto(u, "query")
    /\ UNCHANGED <<target, file, temp, live, asked, logins, outcome>>

-----------------------------------------------------------------------------
(* loginAndSaveSession *)

\* The token that the next login of this command gets.
NewSession(u) == [at |-> target[u].site, by |-> u, nth |-> logins[u] + 1, bound |-> TRUE]

\* The site may end the other sessions of its user.
Login(u) ==
    /\ where[u] = "login"
    /\ \E ended \in {{}, {t \in live : t.at = target[u].site}} :
        live' = (live \ ended) \union {NewSession(u)}
    /\ logins' = [logins EXCEPT ![u] = @ + 1]
    /\ temp' = [temp EXCEPT ![u] = [Session(NewSession(u)) EXCEPT !.state = "part"]]
    /\ DsGoto(u, "write")
    /\ UNCHANGED <<target, file, sess, asked, outcome>>

\* No credential file, no request, no token in the answer.
LoginFails(u) ==
    /\ where[u] = "login"
    /\ DsEnds(u, "failed")
    /\ UNCHANGED <<target, file, temp, sess, live, asked, logins>>

WriteTemp(u) ==
    /\ where[u] = "write"
    /\ temp' = [temp EXCEPT ![u].state = "whole"]
    /\ DsGoto(u, "rename")
    /\ UNCHANGED <<target, file, sess, live, asked, logins, outcome>>

\* A session that is not saved is not used; the temporary file is removed.
SaveFails(u) ==
    /\ where[u] \in {"write", "rename"}
    /\ temp' = [temp EXCEPT ![u] = NoFile]
    /\ DsEnds(u, "failed")
    /\ UNCHANGED <<target, file, sess, live, asked, logins>>

\* Seeded bug: the new session shadows the old one, which is sent again.
RenameShadowed(u) ==
    /\ where[u] = "rename"
    /\ file' = temp[u] /\ temp' = [temp EXCEPT ![u] = NoFile]
    /\ sess' = [sess EXCEPT ![u] = IF asked[u] = <<>> THEN file'.token ELSE @]
    /\ DsGoto(u, "query")
    /\ UNCHANGED <<target, live, asked, logins, outcome>>

Rename(u) ==
    /\ where[u] = "rename"
    /\ file' = temp[u] /\ temp' = [temp EXCEPT ![u] = NoFile]
    /\ sess' = [sess EXCEPT ![u] = file'.token]
    /\ DsGoto(u, "query")
    /\ UNCHANGED <<target, live, asked, logins, outcome>>

-----------------------------------------------------------------------------
(* Client.Query *)

Honoured(u) == sess[u] \in live /\ sess[u].at = target[u].site

Ask(u) ==
    /\ where[u] = "query"
    /\ asked' = [asked EXCEPT ![u] = Append(@, [token |-> sess[u], honoured |-> Honoured(u)])]
    /\ UNCHANGED <<target, file, temp, sess, live, logins>>

\* Rows; a doctor that gets another number of them than one, and an insert that
\* cannot be rendered, end in an error.
QueryRows(u) ==
    /\ Ask(u) /\ Honoured(u)
    /\ \E how \in {"rows", "failed"} : DsEnds(u, how)

\* Seeded bug: an answer that looks expired is cured again and again.
QueryExpiredAgain(u) ==
    /\ Ask(u)
    /\ LoginOrEnd(u, "expired")

\* A redirection, a 401 or 403, or a message with a word like "token" or "auth" in
\* it, which the error of a query that was carried out may have as well.  The
\* first one is cured by a login, the second one is final.
QueryExpired(u) ==
    /\ Ask(u)
    /\ IF asked[u] = <<>> THEN LoginOrEnd(u, "expired") ELSE DsEnds(u, "expired")

\* No answer, the firewall's page, another status, no JSON, another message.
QueryFails(u) ==
    /\ Ask(u)
    /\ DsEnds(u, "failed")

-----------------------------------------------------------------------------

\* A token lapses, or is revoked.
Lapse ==
    /\ \E t \in live : live' = live \ {t}
    /\ UNCHANGED <<target, where, file, temp, sess, asked, logins, outcome>>

DsKill(u) ==
    /\ where[u] \notin {"start", "over", "killed"}
    /\ DsGoto(u, "killed")
    /\ UNCHANGED <<target, file, temp, sess, live, asked, logins, outcome>>

DsStep(u) ==
    \/ DsRefuse(u) \/ LoadNothing(u) \/ LoadFails(u) \/ Load(u)
    \/ Login(u) \/ LoginFails(u) \/ WriteTemp(u) \/ SaveFails(u) \/ Rename(u)
    \/ QueryRows(u) \/ QueryExpired(u) \/ QueryFails(u)

DsNext == Lapse \/ \E u \in Users : DsStep(u) \/ DsKill(u)

DsSpec == DsInit /\ [][DsNext]_dsvars
-----------------------------------------------------------------------------
(* Properties *)

DsTypeOK ==
    /\ target \in [Users -> [site : Sites, cred : BOOLEAN]]
    /\ where \in [Users -> {"start", "login", "write", "rename", "query", "over", "killed"}]
    /\ file \in [state : States, token : Tokens \union {NoToken}, site : Sites \union {""}]
    /\ temp \in [Users -> [state : States, token : Tokens \union {NoToken}, site : Sites \union {""}]]
    /\ sess \in [Users -> Tokens \union {NoToken}]
    /\ live \subseteq Tokens
    /\ asked \in [Users -> Seq(Questions)]
    /\ logins \in [Users -> Nat]
    /\ outcome \in [Users -> {"none", "refused", "no_session", "failed", "expired", "rows"}]

\* session.go:15: a token is never sent to another site than the one recorded
\* with it, however commands of several sites replace each other's sessions in
\* the one file; and what is in the file is a whole session with its own site.
TokensStayHome ==
    /\ \A u \in Users : \A i \in DOMAIN asked[u] :
         asked[u][i].token.bound => asked[u][i].token.at = target[u].site
    /\ file.state # "part"
    /\ file.state = "whole" =>
         file.token \in Tokens /\ file.site = IF file.token.bound THEN file.token.at ELSE ""

\* A command never sends its statement more than twice, and the second time with
\* a session granted to itself since; with a credential it does not give a session
\* up as expired before that.  It has rows only of a query that was let in.
RetriedAfresh ==
    \A u \in Users :
        /\ Len(asked[u]) <= 2 /\ logins[u] <= 2
        /\ Len(asked[u]) = 2 =>
             /\ asked[u][2].token.by = u /\ asked[u][2].token.nth = logins[u]
             /\ asked[u][1].token # asked[u][2].token
        /\ outcome[u] = "expired" /\ target[u].cred => Len(asked[u]) = 2
        /\ outcome[u] = "rows" => asked[u] # <<>> /\ asked[u][Len(asked[u])].honoured
        /\ outcome[u] \in {"refused", "no_session"} => asked[u] = <<>> /\ logins[u] = 0
        /\ where[u] = "over" => temp[u] = NoFile
================================================================================
