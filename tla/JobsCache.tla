------------------------------ MODULE JobsCache ------------------------------
(***************************************************************************)
(* The jobs cache of one target, ~/.aidev-clis/cache/jcli/<target>/jobs.json*)
(* (internal/jcli/cache.go), and the jcli commands that meet in it: `jobs  *)
(* --sync` writes it in place, `jobs` shows it, and every command with a   *)
(* <service> may read it to find the job (cmd/jcli/jobs.go, resolve.go).   *)
(*                                                                         *)
(* A file is a sequence of cells: the head of the JSON, a job each, the    *)
(* tail.  A call that reads or writes takes one or more of them.           *)
(***************************************************************************)
EXTENDS JobRouting

CONSTANTS
    Letters,   \* of the names of services and jobs
    Clis,      \* the commands that run
    Trees,     \* the job trees Jenkins may have
    Levels,    \* folder levels that the query reaches
    Errands    \* what a set of commands is started with (see CacheInit)

\* A path of the file stands for a string, which no brace of the JSON is taken for.
ASSUME CacheAssumption ==
    /\ Levels \in Nat \ {0}
    /\ Letters \cap {"{", "}"} = {}
    /\ \A tree \in Trees : IsFiniteSet(tree) /\ tree \subseteq Seq(Letters)

\* What is configured and asked for is text, and there are so many groups of it.
ASSUME ErrandAssumption ==
    \A e \in Errands :
        /\ IsFiniteSet(DOMAIN e.groups)
        /\ \A n \in DOMAIN e.groups :
            LET g == e.groups[n] IN
            /\ g.template \in Seq(Letters \union {PH})
            /\ \A p \in DOMAIN g.templates : g.templates[p] \in Seq(Letters \union {PH})
        /\ \A c \in Clis : e.errand[c].job \in Seq(Letters)

VARIABLES
    groups,    \* the configured groups
    errand,    \* command -> its verb ("sync", "list", "target" or "none") and flags
    at,        \* command -> its location
    disk,      \* the file, <<>> and ~there if there is none
    there,
    buf,       \* command -> listing it fetched, or cells it has read
    result,    \* command -> [err, group, job] it ended with
    \* observed by the properties only
    heard,     \* jobs that Jenkins ever listed to a sync
    marred     \* did syncs overlap, or was one cut short, since the file was opened?

cachevars == <<groups, errand, at, disk, there, buf, result, heard, marred>>

Head_ == <<"{">>
Tail_ == <<"}">>
Encode(jobs) == <<Head_>> \o jobs \o <<Tail_>>

\* Unmarshal: nothing is missing and nothing follows.
Decodes(cells) ==
    /\ Len(cells) >= 2 /\ cells[1] = Head_ /\ cells[Len(cells)] = Tail_
    /\ \A i \in 2 .. Len(cells) - 1 : cells[i] \notin {Head_, Tail_}
Decoded(cells) == SubSeq(cells, 2, Len(cells) - 1)

Pending == [err |-> "pending", group |-> NoGroup, job |-> NoJob]

CacheInit ==
    /\ \E e \in Errands : groups = e.groups /\ errand = e.errand
    /\ at = [c \in Clis |-> "start"]
    /\ disk = <<>> /\ there = FALSE
    /\ buf = [c \in Clis |-> <<>>]
    /\ result = [c \in Clis |-> Pending]
    /\ heard = {} /\ marred = FALSE

CGoto(c, l)  == at' = [at EXCEPT ![c] = l]
Ended(c, r)  == CGoto(c, "over") /\ result' = [result EXCEPT ![c] = r]
Done(c)      == Ended(c, [err |-> "none", group |-> NoGroup, job |-> NoJob])

-----------------------------------------------------------------------------
(* jobs --sync: WalkJobs, then Save *)

Fetch(c) ==
    /\ at[c] = "start" /\ errand[c].verb = "sync"
    /\ \E tree \in Trees :
        /\ buf' = [buf EXCEPT ![c] = WalkJobs(tree, Levels)]
        /\ heard' = heard \union Range(buf'[c])
    /\ CGoto(c, "open")
    /\ UNCHANGED <<groups, errand, disk, there, result, marred>>

\* No credential, no answer, not a 200, no JSON; no directory, no file.
SyncFails(c) ==
    /\ at[c] \in {"start", "open"} /\ errand[c].verb = "sync"
    /\ Ended(c, Refused("failed"))
    /\ UNCHANGED <<groups, errand, disk, there, buf, heard, marred>>

Writers == {c \in Clis : at[c] = "write"}

\* Seeded bug: the file is opened without O_TRUNC.
OpenOver(c) ==
    /\ at[c] = "open"
    /\ there' = TRUE /\ UNCHANGED disk
    /\ marred' = (Writers # {})
    /\ CGoto(c, "write")
    /\ UNCHANGED <<groups, errand, buf, result, heard>>

\* os.WriteFile: opens and truncates,
Open(c) ==
    /\ at[c] = "open"
    /\ there' = TRUE /\ disk' = <<>>
    /\ marred' = (Writers # {})
    /\ CGoto(c, "write")
    /\ UNCHANGED <<groups, errand, buf, result, heard>>

\* The file with these cells written over its beginning.
Over(cells) == cells \o SubSeq(disk, Len(cells) + 1, Len(disk))

\* and writes from its own offset 0.
Write(c) ==
    /\ at[c] = "write"
    /\ disk' = Over(Encode(buf[c]))
    /\ Done(c)
    /\ UNCHANGED <<groups, errand, there, buf, heard, marred>>

\* A disk that is full takes a part.
WriteShort(c) ==
    /\ at[c] = "write"
    /\ \E n \in 0 .. Len(Encode(buf[c])) - 1 : disk' = Over(SubSeq(Encode(buf[c]), 1, n))
    /\ marred' = TRUE
    /\ Ended(c, Refused("failed"))
    /\ UNCHANGED <<groups, errand, there, buf, heard>>

\* A kill, which matters to others while the file is being written.
KillWriter(c) ==
    /\ at[c] = "write"
    /\ marred' = TRUE
    /\ Ended(c, Refused("failed"))
    /\ UNCHANGED <<groups, errand, disk, there, buf, heard>>

-----------------------------------------------------------------------------
(* LoadJobsCache, for `jobs` and for a <service> *)

Reads(c) == errand[c].verb = "list" \/ NeedsCache(groups, errand[c])

\* What the command makes of the cache.
Use(c, cache) ==
    IF errand[c].verb = "list"
    THEN IF cache.read THEN Done(c) ELSE Ended(c, Refused("CACHE"))
    ELSE Ended(c, ResolveTarget(groups, errand[c], cache))

\* The target or the credential is not there.
NoClient(c) ==
    /\ at[c] = "start" /\ errand[c].verb \in {"list", "target"}
    /\ Ended(c, Refused("failed"))
    /\ UNCHANGED <<groups, errand, disk, there, buf, heard, marred>>

\* Nothing needs the cache, or it cannot be read.
Decide(c) ==
    /\ at[c] = "start" /\ errand[c].verb \in {"list", "target"}
    /\ Use(c, NoCache)
    /\ UNCHANGED <<groups, errand, disk, there, buf, heard, marred>>

BeginRead(c) ==
    /\ at[c] = "start" /\ errand[c].verb \in {"list", "target"} /\ Reads(c) /\ there
    /\ CGoto(c, "read")
    /\ UNCHANGED <<groups, errand, disk, there, buf, result, heard, marred>>

\* os.ReadFile reads on from its offset until it reads nothing.
ReadSome(c) ==
    /\ at[c] = "read" /\ Len(buf[c]) < Len(disk)
    /\ \E n \in Len(buf[c]) + 1 .. Len(disk) :
        buf' = [buf EXCEPT ![c] = @ \o SubSeq(disk, Len(@) + 1, n)]
    /\ UNCHANGED <<groups, errand, at, disk, there, result, heard, marred>>

\* The end of the file.  Only `jobs` shows that it did not parse; the others go
\* on as if there was no cache.
ReadEnds(c) ==
    /\ at[c] = "read" /\ Len(buf[c]) >= Len(disk)
    /\ Use(c, IF Decodes(buf[c]) THEN Cache(Decoded(buf[c])) ELSE NoCache)
    /\ UNCHANGED <<groups, errand, disk, there, buf, heard, marred>>

CacheStep ==
    \E c \in Clis :
        \/ Fetch(c) \/ SyncFails(c) \/ Open(c) \/ Write(c) \/ WriteShort(c) \/ KillWriter(c)
        \/ NoClient(c) \/ Decide(c) \/ BeginRead(c) \/ ReadSome(c) \/ ReadEnds(c)
-----------------------------------------------------------------------------
(* Properties *)

\* Every service that could be meant by a job: its parts, and what is overridden.
Probes(g, job) == SubSeqs(job) \union DOMAIN g.overrides

\* Would this group make the job of some service, by an override or by the
\* template that has precedence for it?  A template that cannot be turned round
\* (bare, without a placeholder, with two) does not count, nor does the bare name: the
\* code does not look for these.
Makes(g, job) ==
    \E s \in Probes(g, job) :
        /\ ResolveJobName(g, s) = job
        /\ \/ s \in DOMAIN g.overrides
           \/ s # <<>> /\ \E t \in Templates(g) :
                /\ Cardinality({i \in DOMAIN t : t[i] = PH}) = 1 /\ Len(t) > 1
                /\ Subst(t, s) = job

\* The jobs of the cache that a command has read; none if it did not parse.
JobsRead(c) == IF Decodes(buf[c]) THEN Range(Decoded(buf[c])) ELSE {}

\* The jobs that may be meant by a service of this group, jobs being listed: what
\* its rules make of it or, if that is its own name, every listed job of the name.
JobsOf(g, service, listed) ==
    LET named == {j \in listed : LeafName(j) = service}
    IN IF ResolveJobName(g, service) # service \/ named = {}
       THEN {ResolveJobName(g, service)} ELSE named

\* The groups whose job for the service is listed; those that make a job.
Fits(service, listed) == {n \in DOMAIN groups : ResolveJobName(groups[n], service) \in listed}
Makers(job) == {n \in DOMAIN groups : Makes(groups[n], job)}

\* Is the group named, or the only one?
Given(f) == f.group # "" \/ Cardinality(DOMAIN groups) = 1

RoutedAs(f, r, listed) ==
    /\ r.err = "none" =>
         /\ Given(f) => r.group \in DOMAIN groups /\ f.group \in {"", r.group}
         /\ f.job # NoJob => r.job = f.job
         /\ f.job # NoJob /\ ~Given(f) =>
              r.group = IF Cardinality(Makers(f.job)) = 1
                        THEN CHOOSE n \in Makers(f.job) : TRUE ELSE NoGroup
         /\ f.job = NoJob /\ Given(f) => JobsOf(groups[r.group], f.service, listed) = {r.job}
         /\ f.job = NoJob /\ ~Given(f) =>
              /\ Fits(f.service, listed) = {r.group}
              /\ r.job = ResolveJobName(groups[r.group], f.service)
    /\ r.err = "GROUP_AMBIGUOUS" => \E m, n \in Fits(f.service, listed) : m # n
    /\ r.err = "SERVICE_UNKNOWN" => Fits(f.service, listed) = {}

\* docs/cli-jcli.md:76-96: the group is the one that --group names, or the only
\* one. Where there are several and none is named, a <service> gets the one group
\* whose job for it is listed, and is turned away where there are more or none; and
\* --job gets a group exactly when only one makes that job (for all Makes counts:
\* what the code does not turn round, config.go:189-196, may make it in other
\* groups). A <service> gets the job that its group's rules give, or the one listed
\* job of its name; never one of several.
JobIsRouted ==
    \A c \in Clis : errand[c].verb = "target" => RoutedAs(errand[c], result[c], JobsRead(c))

\* Whatever the order of syncs, kills and readers: the cache is whole unless
\* syncs overlapped or one was cut short since it was last opened, and a reader
\* that finds it whole has found jobs that Jenkins listed, and none beside them.
CacheTrue ==
    /\ there /\ ~marred /\ Writers = {} => Decodes(disk)
    /\ \A c \in Clis : at[c] \in {"read", "over"} /\ Decodes(buf[c]) =>
          Range(Decoded(buf[c])) \subseteq heard
===============================================================================
