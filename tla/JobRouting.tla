------------------------------ MODULE JobRouting ------------------------------
(***************************************************************************)
(* How jcli finds the Jenkins job and the group of a service, and the group*)
(* of a job (internal/jcli/config.go, cache.go, cmd/jcli/resolve.go).      *)
(*                                                                         *)
(* Services, prefixes and job paths are sequences of letters, "/" among    *)
(* them; a template is such a sequence in which PH is the placeholder.  A  *)
(* group is [template, templates: prefix -> template, overrides: service ->*)
(* job]; the empty template is one that is not configured.                 *)
(***************************************************************************)
EXTENDS Naturals, Sequences, FiniteSets, SequencesExt

PH == "${service}"

\* A job that Jenkins lists: its path, and its name, the last part of the path.
LeafName(path) ==
    LET cuts == {i \in DOMAIN path : path[i] = "/"}
        cut  == IF cuts = {} THEN 0 ELSE CHOOSE i \in cuts : \A j \in cuts : j <= i
    IN SubSeq(path, cut + 1, Len(path))

-----------------------------------------------------------------------------
(* A group *)

Subst(template, service) ==
    FlattenSeq([i \in DOMAIN template |->
                  IF template[i] = PH THEN service ELSE <<template[i]>>])

\* The prefixes that fit; they are keys of one map and fit one service, so that
\* no two have the same length.
Fitting(g, service) == {p \in DOMAIN g.templates : IsPrefix(p, service)}
Longest(prefixes)   == CHOOSE p \in prefixes : \A q \in prefixes : Len(q) <= Len(p)

\* Override, then the longest prefix, then the catch-all, then the bare name.
ResolveJobName(g, service) ==
    CASE service \in DOMAIN g.overrides -> g.overrides[service]
      [] service \notin DOMAIN g.overrides /\ Fitting(g, service) # {} ->
           Subst(g.templates[Longest(Fitting(g, service))], service)
      [] OTHER -> IF g.template # <<>> THEN Subst(g.template, service) ELSE service

\* The service a template needs to make this job, if any; only a template with
\* one placeholder and something around it is turned round.
ReverseTemplate(template, job) ==
    LET holes == {i \in DOMAIN template : template[i] = PH}
        at    == CHOOSE i \in holes : TRUE
        after == Len(template) - at
    IN IF /\ Cardinality(holes) = 1 /\ Len(template) > 1
          /\ Len(template) - 1 < Len(job)
          /\ IsPrefix(SubSeq(template, 1, at - 1), job)
          /\ IsSuffix(SubSeq(template, at + 1, Len(template)), job)
       THEN {SubSeq(job, at, Len(job) - after)}
       ELSE {}

Templates(g) == {g.template} \union Range(g.templates)

\* Seeded bug: a template that fits the job is enough.
ClaimsUnchecked(g, job) ==
    \/ job \in Range(g.overrides)
    \/ \E t \in Templates(g) : ReverseTemplate(t, job) # {}

\* An override, or a template whose service is indeed routed to this job.
ClaimsJob(g, job) ==
    \/ job \in Range(g.overrides)
    \/ \E t \in Templates(g) : \E s \in ReverseTemplate(t, job) : ResolveJobName(g, s) = job

-----------------------------------------------------------------------------
(* A target: groups by name.  The outcome of a look-up is [err, group, job]; *)
(* "none" is no error, NoGroup the nil group, NoJob a job not determined.    *)

NoGroup == "nil"
NoJob   == <<>>
Refused(code)    == [err |-> code, group |-> NoGroup, job |-> NoJob]
Found(name, job) == [err |-> "none", group |-> name, job |-> job]

\* Seeded bug: the only group is taken, whatever --group names.
GroupOnly(groups, name) ==
    IF Cardinality(DOMAIN groups) = 1 THEN Found(CHOOSE n \in DOMAIN groups : TRUE, NoJob)
    ELSE IF name = "" THEN Refused("GROUP_REQUIRED")
    ELSE IF name \in DOMAIN groups THEN Found(name, NoJob) ELSE Refused("GROUP_UNKNOWN")

\* The group that --group names, or the only one.
Group(groups, name) ==
    IF name # ""
    THEN IF name \in DOMAIN groups THEN Found(name, NoJob) ELSE Refused("GROUP_UNKNOWN")
    ELSE IF Cardinality(DOMAIN groups) = 1
         THEN Found(CHOOSE n \in DOMAIN groups : TRUE, NoJob)
         ELSE Refused("GROUP_REQUIRED")

\* Seeded bug: the first of several will do.
TheFirst(names, none, many) ==
    IF names = {} THEN Refused(none) ELSE Found(CHOOSE n \in names : TRUE, NoJob)

\* Exactly one of the names that fit, or an error.
TheOne(names, none, many) ==
    CASE Cardinality(names) = 1 -> Found(CHOOSE n \in names : TRUE, NoJob)
      [] names = {}             -> Refused(none)
      [] OTHER                  -> Refused(many)

\* The jobs cache that was read; the nil cache lists nothing.  FindByName gives
\* the places of the jobs with a name.
NoCache     == [read |-> FALSE, jobs |-> <<>>]
Cache(jobs) == [read |-> TRUE, jobs |-> jobs]
HasPath(cache, path)    == path \in Range(cache.jobs)
FindByName(cache, name) == {i \in DOMAIN cache.jobs : LeafName(cache.jobs[i]) = name}

\* The group whose job for this service is listed.
AutoResolveGroup(groups, service, cache) ==
    IF ~cache.read THEN Refused("GROUP_REQUIRED")
    ELSE LET listed == {n \in DOMAIN groups : HasPath(cache, ResolveJobName(groups[n], service))}
             one    == TheOne(listed, "SERVICE_UNKNOWN", "GROUP_AMBIGUOUS")
         IN IF one.err = "none"
            THEN Found(one.group, ResolveJobName(groups[one.group], service)) ELSE one

\* The group that would make this job.
GroupForJob(groups, job) ==
    TheOne({n \in DOMAIN groups : ClaimsJob(groups[n], job)}, "JOB_NO_GROUP", "GROUP_AMBIGUOUS")

-----------------------------------------------------------------------------
(* resolveTarget: flags is [service, job, group], <<>> and "" where absent *)

\* --job leaves the group open if it cannot be inferred.
ResolveByJob(groups, flags) ==
    LET given == Group(groups, flags.group) IN
    CASE given.err = "none"                       -> Found(given.group, flags.job)
      [] given.err # "none" /\ flags.group # ""   -> given
      [] given.err # "none" /\ flags.group = ""   ->
           Found(GroupForJob(groups, flags.job).group, flags.job)

\* Is the jobs cache read: to choose the group, or for a service no rule maps?
NeedsCache(groups, flags) ==
    /\ flags.job = NoJob /\ flags.service # <<>>
    /\ LET given == Group(groups, flags.group) IN
         IF given.err = "none"
         THEN ResolveJobName(groups[given.group], flags.service) = flags.service
         ELSE flags.group = ""

\* Seeded bug: the first job of that name will do.
ResolveByFirst(groups, name, service, cache) ==
    LET job  == ResolveJobName(groups[name], service)
        hits == IF job = service THEN FindByName(cache, service) ELSE {}
    IN Found(name, IF hits = {} THEN job ELSE cache.jobs[CHOOSE i \in hits : TRUE])

\* A job the templates do not give is looked up by its name; without a cache, or
\* when it is not listed, the service's name is the job.
ResolveByName(groups, name, service, cache) ==
    LET job  == ResolveJobName(groups[name], service)
        hits == IF job = service THEN FindByName(cache, service) ELSE {}
    IN IF hits = {} THEN Found(name, job)
       ELSE IF Cardinality(hits) = 1 THEN Found(name, cache.jobs[CHOOSE i \in hits : TRUE])
       ELSE Refused("JOB_AMBIGUOUS")

ResolveTarget(groups, flags, cache) ==
    LET given == Group(groups, flags.group) IN
    IF flags.job # NoJob THEN ResolveByJob(groups, flags)
    ELSE IF given.err # "none"
         THEN IF flags.group = "" /\ flags.service # <<>>
              THEN AutoResolveGroup(groups, flags.service, cache)
              ELSE given
    ELSE IF flags.service = <<>> THEN Refused("NO_TARGET")
    ELSE ResolveByName(groups, given.group, flags.service, cache)

-----------------------------------------------------------------------------
(* The job tree: a set of paths, closed under folders *)

Depth(path) == 1 + Cardinality({i \in DOMAIN path : path[i] = "/"})

\* The query reaches some levels of folders; what has no child in the answer, an
\* empty folder or one at the last level among them, is listed as a job.
WalkJobs(tree, levels) ==
    LET seen   == {n \in tree : Depth(n) <= levels}
        Leaf(n) == ~\E m \in seen : IsPrefix(n \o <<"/">>, m)
    IN SetToSeq({n \in seen : Leaf(n)})
===============================================================================
