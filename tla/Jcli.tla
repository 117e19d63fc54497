--------------------------------- MODULE Jcli ---------------------------------
(***************************************************************************)
(* jcli as a whole: commands that build, deploy and cancel (JenkinsDeploy),*)
(* commands that meet in the jobs cache (JobsCache, JobRouting), and the   *)
(* reader of a console (ConsoleLog).  They share Jenkins and the cache     *)
(* file but no state of their own, so that a behaviour runs one of them.   *)
(***************************************************************************)
EXTENDS JenkinsDeploy, JobsCache, ConsoleLog

VARIABLE part   \* the commands that run

jclivars == <<part, vars, cachevars, logvars>>

\* Nobody builds, nobody looks for a job, nobody reads a console.
NoBuild ==
    /\ builds = <<>>
    /\ opt = [p \in Procs |-> [cmd |-> "build", wait |-> FALSE, steps |-> 0, extract |-> FALSE,
                              target |-> 0]]
NoErrand == \A c \in Clis : errand[c].verb = "none"
NoLog    == ~building /\ ~want.follow /\ ~want.raw /\ ~want.given

JcliInit ==
    /\ part \in {"build", "cache", "log"}
    /\ Init /\ (part # "build" => NoBuild)
    /\ CacheInit /\ (part # "cache" <=> NoErrand)
    /\ ConsoleInit /\ (part # "log" => NoLog)

Builds(A) == part = "build" /\ A /\ UNCHANGED <<part, cachevars, logvars>>
Caches(A) == part = "cache" /\ A /\ UNCHANGED <<part, vars, logvars>>
Logs(A)   == part = "log" /\ A /\ UNCHANGED <<part, vars, cachevars>>

JcliNext ==
    \/ Builds(Next)
    \/ Caches(CacheStep)
    \/ Logs(BuildPrints \/ BuildOver \/ LogStep \/ LogKilled)

\* See JenkinsDeploy; the reader's requests are answered or fail within the
\* client's 30 s, its body breaks off MaxCuts times, and it need not be turned
\* away nor interrupted.
JcliSpec ==
    /\ JcliInit /\ [][JcliNext]_jclivars
    /\ \A p \in Procs :
        /\ WF_jclivars(Builds(Request(p))) /\ WF_jclivars(Builds(Deadline(p)))
        /\ WF_jclivars(Builds(p \in late /\ StageFails(p)))
        /\ WF_jclivars(Builds(Stepping(p)))
    /\ WF_jclivars(Logs(LogStep))

-----------------------------------------------------------------------------
(* Properties *)

\* Every variable has its type (see JenkinsDeploy for the builds').
JcliTypeOK ==
    /\ TypeOK
    /\ at \in [Clis -> {"start", "open", "write", "read", "over"}]
    /\ disk # <<>> => there
    /\ \A c \in Clis : at[c] # "over" <=> result[c] = Pending
    /\ spot \in {"start", "last", "whole", "chunk", "pause", "over", "killed"}
    /\ closed \in {"", "end", "data", "error"} /\ start <= Len(console) + pages

\* A command that reports success tells the truth, and what it did is on record.
SuccessOnRecord == SuccessIsReal /\ OnRecord

\* No command of jcli goes on for ever.
CommandsEnd == EveryCommandEnds /\ FollowEnds
===============================================================================
