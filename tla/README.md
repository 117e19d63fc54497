# A TLA+ model of aidev-clis

aidev-clis is a set of Go command-line tools that an agent or an engineer calls
one at a time, often several at once: `apicli` (HTTP with a stored session),
`dbcli` (guarded SQL and NoSQL), `logcli` (logs), `jcli` (Jenkins), `tcli`
(verification cases that call the other three) and `aidev` (configuration).
There is no daemon.  What makes the system hard is what the processes share
without talking to each other: the audit log, session files, configuration
archives and caches under `~/.aidev-clis`, and remote services that act on a
request whether or not its answer arrives.

The modules here model these parts, TLC checks them on small instances, and
TLAPS proves all but a few of their safety properties for any number of
processes, files, rows, builds and so on.

## Inventory

| Component | State it keeps | Operations | Interacts with | What is hard | What makes it correct |
|---|---|---|---|---|---|
| audit log (`internal/core/audit`) | one file of lines per day | Begin, Finish, locked append, prune | called by every command | concurrent appends, midnight, kills, full disk | append-only, nothing lost inside the retention, no silent path |
| config archive (`internal/aidev/configarchive`) | `.tar.gz` files, the config tree | backup, safety backup, restore | reads and writes every tool's config | kills half-way, edits meanwhile, two commands in one second | files are whole, a restore can be undone, no backup replaced |
| apicli call and session | one session file per app, actor and environment | call, login, logout | the application server | expiry at any moment, shared session file, a retried request | one login and one effect per call, a result that tells what happened |
| apicli request building | none | variables, URLs, forms, predicates | call | precedence | pure functions |
| tcli runner | variables and results of a run | run | starts apicli, dbcli and logcli as children | failures in any phase, waits, partial captures | green means verified, cleanup always runs |
| tcli schema, expressions, templates | none | parse, evaluate, validate | runner | operator precedence, types | pure functions |
| jcli build, deploy, cancel | none of its own; Jenkins' queue and builds | trigger, wait, steps, stop | Jenkins, other users, child processes | builds of others, unreadable answers, deadline | follows its own build, steps only after success |
| jcli routing and cache | jobs cache file | resolve a service or a job, sync, list | Jenkins, other commands through the file | templates read backwards, a file that others write in place meanwhile | a name leads to one job that Jenkins listed, or to an error |
| jcli log | offset of the console | show, follow | Jenkins | chunk borders, cut bodies, error pages | all the text, once, in order |
| dbcli run loop and SQL core | one connection | guard, execute, cancel, insert | database | cancel racing completion, driver panic | one envelope, guards before effects |
| database connections | ssh tunnel | dial, forward, close | ssh server | a handshake without deadline | closed in order, whatever fails |
| SQL adapters | none | use, backend id, kill | databases | a kill on a second connection | error classes |
| dataease adapter | a session file, shared by targets | load, query, login, save, retry | web services, other commands through the file | tokens that lapse or replace each other | tokens stay with their site, at most one retry |
| redis adapter | one connection and its id | command, kill, scan | redis | a goroutine that kills races with the return | nothing forbidden is sent, no cut without a warning, the kill is sent |
| mongo adapter | a cursor | parse, guard, execute | mongo | a hand-written parser before the guards, lost cursors | what is sent is what was meant and allowed, a part is no whole |
| logcli run loop and adapters | follow offsets | batch, stream, follow | files, children, SLS | rotation, partial lines, paging | every line once |
| core services | config, credentials | look-up, envelopes, child processes | every command | grandchild holding a pipe | errors keep their class |
| aidev inventory, installers | none | print, install | files | nothing concurrent | out of scope |

`PROJECT.json` lists the same components with the source files, and the hazards
of the code with the lines where they bite.

## Modules

**AuditTrail** is the abstract specification of the audit log: a function from
days to sequences of lines; a line is appended at the end of today's (or, by a
slow writer, an earlier day's) sequence, whole days expire.

**Audit** is `audit.go` and `flock_*.go`.  A process is one CLI invocation:
`Begin` (a started line when the command has side effects), `Dispatch` (the
work), `Finish`; each line goes through `HomeFails | OpenExisting | OpenCreates |
OpenFails`, `Flock`, `SeekEnd`, `WriteWhole | WriteTorn | WriteFails`, `Release`,
`ListDir`, `Remove`, one action per system call, because other processes run
between any two.  `files` maps a day to an inode and its cells, so that an
unlinked file that somebody still has open is not the file a newcomer creates.
`Kill` may come at any point and releases the lock, as the kernel does.  A cell
is a whole line, a torn one, or nothing yet.

**ConfigArchive** is `archive.go`: `StartBackup`, `Probe` (nextBackupPath),
`Collect`, `StatDest`, `ReadEntry` per file, `Publish` (rename); `StartRestore`
with its optional safety backup, then `CreateTemp`, `WriteTemp`, `RenameTemp` per
file; `Fail` wherever an error can return.  `UserEdit` changes files meanwhile.

**ApiSession** is `call.go`, `session.go`, `login.go` and the commands around
them: `Load`, the steps of the login flow, `CreateTemp`, `WriteTemp`,
`RenameTemp`, `Answered | Unanswered`, `Stale` and `Relogin`, `Classify`.  The
application server (which sessions it honours, when it forgets them) is external.
A predicate is what it makes of the answer (`Judged`).  With `--output-file` the
body is streamed and each of its fields is null to a predicate: `Unseens` says
which of expired_when and ok_when hold of that, as `!=` and `== null` do and `==`
a value does not.

**JenkinsDeploy** is `internal/jcli` with the build, deploy and cancel commands.
One action per HTTP request; the queue, the builds and other users are external.
An answer that does not decode is a transition of its own, because the code does
not look at HTTP statuses there.  A deploy step is `StepStarts`, what its program
does (`StepExits`, external, or `StepKilled` at the deadline), and `StepDone |
StepFails` once the pipe has come to its end: a program may leave heirs that hold
it, and no kill reaches these (`exec/local.go`).

**JobRouting** has operators only: from a service to its group and job
(overrides, the longest prefix, the catch-all) and back from a job to the group
that claims it, a template being a sequence of letters with a hole.  **JobsCache**
puts them to work: `jobs --sync` walks Jenkins' folders and writes the file cell
by cell in place, `jobs` and every command with a service read it cell by cell
meanwhile.  **ConsoleLog** is `jcli log`: the console is a sequence of line breaks
and pieces of text, a chunk is what is there when the request arrives, or less if
the body breaks off, or an error page.  **Jcli** composes the three: they meet in
Jenkins and in the cache file only, so that a behaviour runs one of them.

**TcliRun** is `runner.go`, `run.go` and `report.go`: a run over files, a case's
four phases, an action's attempts.  What a child replies is chosen freely.  The
reply is abstracted to the class of its exit code and the category the runner
derives from the error code (`Guessed`); `Call`, `Discover` start a child, which
may never return.

**DbRun** is one dbcli invocation with a SQL driver: `EarlyErr`, `Begin`, `Dial`
and `Handshake` (bastion), `GuardRefuses | GuardPasses`, `Connect` (the pinned
connection), `Use`, `Watch`, `Limited | TooLarge`, `Send`, `Answered |
Unanswered`, `RenderRow` of insert, `Emit`, then the deferred calls `Unwind`,
`Release`, `Untunnel`, `Finish` and `Conclude` (what is printed, the exit).  The
watcher goroutine (`Wake`, `DialKill`, `KillArrives`, `Quit`) and the server run
beside it; a panic can surface at every location of `InDriver`.  SQL text is
abstracted to what the guards tell apart (`Stmts`).

**DataeaseSession** is the dataease driver: several commands, each with its
`base_url`, on one session file.  `Load`, `Ask` with its outcomes `QueryRows |
QueryExpired | QueryFails`, `Login`, `WriteTemp`, `Rename`; the web services grant
tokens, honour some of them, and let them lapse at any moment.

**RedisRun** is the redis driver: `Reach`, then `Inform` for the small verbs,
`BeginScan`, `Scan`, `ScanEnds` for `tables`, and for a command `Deny`, `Identify |
Anonymous` (CLIENT ID), `Issue`, `CommandReturns | CommandFails`, `Stop`, `Join`,
`Shape`, beside the goroutine of doWithCancel (`KillerWakes`, `KillsConn |
KillFails`, `KillerQuits`).  The pool has two connections, since the command need
not go to the one whose id was asked.  An error is a timeout or remote whether or
not the deadline has passed: the client's own dial timeout is
`context.DeadlineExceeded` to `errors.Is` (`Errs`).

**MongoStatement** is the parser of the mongo driver as one recursive function
over tokens (a literal is a token, a value is its kind, its number and the keys
in it), **MongoRun** the driver: `Attach`, `ParseIt`, `Forbids | Admits`,
`RejectArgs | Request`, `Reply | ReplyFails`, and the cursor with `Fetch`,
`LoseCursor`, `Overflows`, `FetchEnds`.  The texts it may be given come with what
they mean, so that a property can ask whether the parser understood them.  White
space is left out of a text but where it tells: the method position does not
skip it, so that `db. getCollection(` is a token of its own.

**Dbcli** composes the four: DbRun's invocation with a SQL driver, or a set of
dataease commands, or one of redis or of mongo.

**LogCli** is one logcli invocation, in four modules.  *LogRun* is the invocation
(`run.go`, `stream.go`, `doctor.go`, `main.go`): early errors, `Dispatch`, what an
adapter may do with its output (`Put`, `Batch`, `Produced`, `Diagnosed`, `Refuse`,
`Panics`), `Finalize` and `Finish`.  *LogFile* is the local-file adapter: `TailOpen`,
`TailRead` (a chunk), `TailEmit` per file, then `Tick`, `Stat`, `PumpOpen`, `Pump`
per file and poll, because the program that writes the files appends, truncates
and rotates between any two of them; a file is a sequence of cells, a rotated
name leads to a new inode, and the reader keeps the one it has open.  *LogChild*
is `exec.Local` under docker, kubectl, ssh-file and ssh-docker: the program it
starts writes lines, exits well or badly and may leave an heir that holds the
pipe (ssh-file's `ls` names the files of its target and runs none).  *LogSls* is
the paging of search, trace and tail over the rows of the log service, with
incomplete scans, while rows come in, which shift the pages of a newest-first
search.  Rows come in the order of their seconds and can be found at once: that
rows indexed late may be missed is documented (`tail.go:17-24`).  Rows, lines and cells are numbered in the order
in which they were written, so that a property can say what is missing, repeated
or out of order.  *LogCli* composes them: each step is one of the invocation or
of its adapter and leaves the other adapters alone.

Each has an **MC** module with its constants' definitions and the symmetry, and
`.cfg` files.  Definitions marked "Seeded bug" are variants of the definition
after them that a plausible mistake in the code would give; no specification
uses them, they serve to test the properties.

## Runs

| Run | Question | Bounds |
|---|---|---|
| audit | is the log append-only and complete under interleaving, midnight, kill and error? | 2 processes with a started and a final line each, 2 days, no day kept but today, 4 inodes (one for each line) |
| audit_live | can a lock holder block the others for ever? | 2 processes, 1 day, 1 inode, fairness, no symmetry |
| config_archive | are files whole, restores reversible, temporaries removed? | 2 commands that start in different seconds, 2 files (1 credential), 2 versions, 1 edit, 2 backup names per second |
| config_overlap | can a backup be replaced? (yes, see Findings) | 2 commands in one second, no edits |
| api_session | one login, one effect, a truthful result, a sound file? | 2 commands, 3 sessions, 2 login steps, a login ends the earlier sessions, expiry told by status or in the body, sessions captured or in a cookie, with a login flow and without, body predicates that hold of an absent body and that do not, an output file for calls with side effects only |
| jcli | own build, own result, steps, cancel, an end after --timeout? the right job, a cache that is true, a console that is whole? | builds: 1 command of any kind against other users, 3 builds, 2 steps whose programs may hang and leave heirs. Jobs: letters a, b and /, every shape of one group (4 x 6 x 3 templates, maps and overrides) and many of two, with `--group` and without, 3 services, 4 jobs, 2 job trees of up to five jobs in 2 levels, up to 2 syncs beside 1 reader. Console: 5 cells, 1 body that breaks off. Fairness |
| jenkins_page | is a reported failure final? (no) | 1 build command, 1 build |
| tcli | is green earned, does cleanup run, do retries end? | 2 case files, 3 actions per case, 1 retry, fairness of the runner alone |
| dbcli | is the verdict true, the guard first, is there one result and an end? do tokens stay at home? are redis and mongo served truly? | SQL: every invocation, 2 rows. Dataease: 2 commands, 2 sites, 1 session file of every kind. Redis: every verb and class, 2 keys over 3 buckets, a cap of 3. Mongo: 256 statements of a grammar (nesting of depth 3, chains of 2) and 752 that are not, a cap of 2. Fairness |
| dbrun_timeout | has a reported timeout stopped its query? (no) | 1 row |
| log_cli | is what is shown true of its source, with one envelope and one audit line; do followers catch up and end? | every adapter and verb; 1 file with 3 writes or 2 files with 2, one of them a truncation or rotation, 1 transient failure, chunks of one cell; 2 lines of a child; 3 rows in 2 seconds, pages of 2, 2 tries, 1 incomplete page at any place, rows that arrive meanwhile; --tail 0 and 1; --output raw for children only; fairness |
| log_truncated | does a poll that sees a shrunken file start again? (no) | 1 file, 3 writes |

Two processes are enough for the hazards here: each is a race between one that
is half-way and one that does all or part of the same operation; the proofs
cover the audit log for any number.  Two or three builds, sessions, rows or
versions are the smallest number with an own one, a foreign one and one that
comes in between; a page that is full and one that is not; a line in two halves.
One command of jcli builds, because commands meet in Jenkins only, where each is
one of the other users; three meet in the cache file, the fewest with two writers
and a reader.  Three buckets with two keys make a SCAN with an empty page before,
between and after full ones; a cap of two documents is met, missed by one, and
exceeded.  Every bound is a constant that the guards name
(`MaxBuilds`, `MaxTokens`, `MaxEdits`, `MaxWrites`, ...).

Deadlock is not checked: commands end, and a model in which all have ended stops.

### What the runs show

- *Audit*: whatever the order of system calls of two processes, no line of today
  is lost or overwritten, also when one of them prunes with yesterday's cutoff or
  dies with the lock.
- *ConfigArchive*: a kill leaves each config file old or new, and the safety
  backup of a restore can undo it, edits meanwhile excepted.
- *ApiSession*: where the predicates are given the body they look at, the service
  carries out at most one request of a call, although a call may send it twice, and
  success is reported of one that was carried out.  Where they are not, and hold of
  an absent body, neither is so (see below), but never more than two are carried
  out.
- *JenkinsDeploy*: builds of others, lost and unreadable answers never make a
  command run its steps for a build that did not succeed, nor cancel a build newer
  than the one it looked up; all ends with `--timeout`, a step that hangs as well,
  unless an heir of its program keeps the pipe.
- *TcliRun*: a case is green only when all that it asks was run and held; cleanup
  is attempted in full after any failure; waits are bounded, so that a run ends or
  waits for one child for ever.
- *JobRouting, JobsCache*: the group is the one named, the only one, or the only one
  that fits (for a service: whose job is in the cache; for a job: that makes it by
  an override or a template that can be turned round), and otherwise the command is
  refused; the job is what that group's rules give, or the one listed job of that
  name.  A reader of a half-written cache finds an old job, a new one or none, and
  two syncs can leave a mixture only until the next one.
- *ConsoleLog*: whatever Jenkins answers, no text of the console is shown twice,
  and none before the offset is left out; the follow ends with the build.
- *DbRun*: exit 0 means that the server completed the statement; exit 2 that it
  never saw it; a write is on record before it is sent.
- *DataeaseSession*: a token goes to no other site than the one recorded with it,
  a statement is sent at most twice, and the second time with a newer session.
- *RedisRun*: a call that was told to stop has sent its CLIENT KILL before it
  returns and leaves no goroutine behind; a long reply and a long list of keys are
  not cut in silence.
- *MongoRun*: no sentence of the grammar is misread, no damaged one is taken for
  anything but the sentence it was (a `MinKey(` without its end is all that is let
  through); no statement gets past its guard; never more than the cap
  is asked for; what came before a cursor was lost is not given out.
- *LogCli*: of a file that only grows, `--tail` and `-f` show what `tail` would,
  however the polls fall; a child's output that was cut is never taken for a whole
  one; of SLS, every row of a tail's window is shown once, a search skips no row
  while others come in, and warns if its last page was incomplete.  A truncated or
  rotated file never makes a line appear twice.

### Findings

Four runs expect a violation.  Each shows where the code departs from a sentence
of its own documentation or comments; `PROJECT.json` quotes them.

- Two backups in the same second take the same name, and one replaces the other
  (config_overlap).
- An unreadable poll answer is a failed build (jenkins_page).
- dbcli reports the timeout and exits before its watcher has cancelled the query
  (dbrun_timeout).
- A log file that is truncated to nothing keeps its old offset (log_truncated).

Observed while modelling, in the models but not checked by a run of their own:

- *audit*: a short write leaves a line without newline, and the next invocation's
  line is glued to it.
- *apicli*: with `--output-file` the predicates see no body: every field of it is
  null, so that `body.code != 0` or `body.token == null` holds
  (`predicate.go:117-150`).  Such an expired_when repeats a request that was carried
  out, after a login (`call.go:57-75`, where docs/cli-apicli.md:219 says "session is
  dead"), and such an ok_when reports ok, with exit 0, of one that was refused
  (`call.go:78`, docs/cli-apicli.md:217).  `Unseens` and `Judged` model it, and
  the properties say what is left: at most two effects.  A retry that is stale again after the second login returns the data
  with `ok: false`, not SESSION_EXPIRED.  A login flow is taken for complete when
  its captures came out full (`login.go:61-68`): one that mixes steps with captures
  and steps that only set a cookie can still save a session that is dead, when one
  of the latter was turned down; the models have flows of one kind only.
- *exec.Local*: the deadline kills the program and not what it started, so that a
  process which keeps the pipe open keeps logcli, or a deploy step of jcli, past
  its `--timeout`, and tcli behind logcli (`exec/local.go:41-55`).  The models have
  such heirs, and the liveness properties except them: they show that nothing else
  has this effect.
- *jcli*: `--job` infers a group by the overrides and the templates that can be
  turned round (`config.go:186-199`).  A group that makes the same job by its bare
  name, a bare template or one with two placeholders is passed over, where
  docs/cli-jcli.md:91-92 and `config.go:139` say that inference "never picks a wrong
  group": of a group without template, whose service ab is the job ab, and one with
  `a${service}`, `--job ab` gets the second.  `JobIsRouted` says so of the others
  only (`Makes`).  A torn cache is treated as no cache, without a word; a
  folder that is empty, or on the last level walked, is listed as a job.  `log -f`
  shows an error page as if it were console and ends well; so does a body that
  breaks off and has no X-More-Data, with text missing; a chunk border inside a line
  makes two records of it, trailing blank lines are dropped; an error after records
  is a bare `{"error"}` (docs/OUTPUT-CONTRACT.md:50); an interrupt leaves no audit
  line.
- *tcli*: the category of a child's error is guessed from words in its code
  (`runner.go:377-388`).  One with none of them (DDL_REFUSED, MULTI_STATEMENT) is a
  remote failure and is retried until the wait is over, where docs/cli-tcli.md:178-179
  says that configuration errors stop at once; `ChildFails` takes any category for
  any error.  A child runs under a context that is never done: what it waits for without
  end (an heir, the ssh handshake of dbcli), tcli waits for.
- *dbcli*: exit non-zero with no error on stdout when output had begun
  (docs/OUTPUT-CONTRACT.md:104-106); without a dedicated connection a statement
  runs on the pool, where `--database` was not applied; the ssh handshake heeds
  neither the context nor a timeout; `doctor` calls the driver outside safeRun; a
  deadline met while scanning rows or in a catalog query is reported as remote;
  the comment in `cancel.go` that no cancel fires after stop does not hold for a
  watcher that has been woken; the LIMIT that is appended to a statement is swallowed
  by a `--` comment at its end (`autolimit.go:49`, docs/cli-dbcli.md:87).
- *dataease*: a query may be preceded by one login and followed by another, where
  `dataease.go:117-119` speaks of one; an SQL error whose text mentions a token is
  taken for an expired session; a session of another base_url is refused although a
  login would cure it; deadlines are remote errors.
- *redis*: the client library sends a command again when its reply is lost, so that
  a write may be done twice; CLIENT KILL may hit the idle connection whose id was
  asked while the command runs on another; `tables` warns of a cut at exactly 100
  keys and may list a key twice; `describe` gives size 0 when a later request fails.
- *mongo*: `MinKey(` without the parenthesis that closes it is taken for `MinKey`
  (`value.go:401-410`) and the statement is sent; the grammar has such texts, and
  `MongoServed` takes them for the statement they stand for.  `limit` is ignored by aggregate and deleteMany, and the default cap of
  find gives no warning; the search for JavaScript leaves out the arguments of
  chained calls; a collection whose name
  begins with getCollection cannot be named with a dot; insertMany that fails
  half-way tells only of the error; a deadline is a remote error, and the query is
  not killed at the server; `describe` does not ask whether the cursor of the indexes
  was lost.
- *logcli*: a search takes its warning from the last page alone (`search.go:31`), so
  that a complete one hides an incomplete one before it, where `aliyun_sls.go:198-200`
  wants a partial result told from a complete one; tail never tells of an incomplete
  scan; rows that come in during a `--reverse` search shift its pages, so that it
  shows rows twice; a deadline during a request to SLS is reported as remote, and a
  cancelled tail exits with an error where a cancelled local-file follow does not;
  the unfinished last line of a file becomes two records with `-f`; a file
  truncated while its last lines are read yields NUL bytes; a process whose reader
  goes away (SIGPIPE) or that is killed leaves no audit line, because Begin writes
  none for commands without side effects.

## Fairness

*Audit*: weak fairness on `Work(p)`, every step of a process but the wait for
the lock (system calls return); strong fairness on `Flock(p)`: the kernel serves
the waiters of flock in turn.  A process may be killed but need not be.

*JenkinsDeploy*: weak fairness on requests (the HTTP client has a timeout of
30 s, so a request ends with an answer or an error) and on the deadline (a
context timer).  The requests after the wait are only fair once the deadline
passed.  Of a deploy step, weak fairness on `Stepping`, what the command itself
does: it starts the program, kills it at the deadline, reads the pipe to its end
(`exec.CommandContext`).  Nothing is assumed of Jenkins, of a step's program or of
its heirs, and EveryCommandEnds is promised only to a command whose pipe no heir
holds for ever.  *ConsoleLog*: weak fairness on the reader's steps, which are
requests with the same timeout; it may be interrupted, and Jenkins may turn it
away.  Nothing is claimed of the commands around the cache, which do a fixed
number of reads and writes.

*TcliRun*: weak fairness on the runner's own steps (`Own`).  Nothing is assumed of a
child, neither of what it replies nor that it ever does: EveryRunEnds says that a
run ends or stays with one child for ever.

*DbRun*: weak fairness on the steps of the main goroutine that need nobody else
(`Runs`) and on `GivesUp`: a driver's call returns once the context is done, as
database/sql promises.  Nothing is assumed of the server, the watcher or the
bastion.  *DataeaseSession*: weak fairness on a command's steps, whose requests
have a timeout.  *RedisRun*: weak fairness on the driver's steps once it is
connected (the client's reads have a timeout) and on the goroutine, whose kill
has five seconds.  Nothing is claimed of mongo, where a wait ends with the context
or the server and with nothing else.

*LogCli*: weak fairness on the invocation, on file system calls (at most
`MaxFaults` of a follow fail for no lasting reason), on requests to SLS (client
timeout of 30 s) and on the scan of a child's pipe together with the kill; strong
fairness on `StopFollow`, since Go's select chooses among ready cases at random.
Nothing is assumed of the writer of a file, of a child, or of its heir.

## What is proved

`AuditProofs` proves, for any set of processes, any number of days, lines and
inodes allowed by `AuditAssumption`:

- `TypeCorrect`: type correctness;
- `TrailImplemented`: Audit implements AuditTrail: every step appends one line at
  the end, expires a day that is past the retention, moves the date, or changes
  nothing;
- `NothingLost`: no line of a day inside the retention disappears;
- `NothingSilent`: a side effect is never issued and an invocation never ends
  before its line was written or given up with a warning;
- `LinesPair`: in every file an invocation has at most one line of each phase, the
  started one first;
- `LinesStanding`: an acknowledged line of a retained day stands in its file, and
  the lines of an invocation stand in order (what the audit run checks).

The properties are not inductive alone.  `IInv` adds four facts to the types.
*Linked*: names lead to inodes that were created, no two names to the same one,
and inodes not yet created are empty.  *Holding*: a process that is appending has
a created inode open, still linked under its day unless that day has expired,
and past flock it is the holder of that inode.  *AtEnd*: the offset taken under
the lock still is the end of the file.  *Clock*: no process writes for a day to
come, and the list of prune holds expired names only.  AtEnd needs Holding
(nobody else writes), Holding needs Linked (the inode that is locked is the one
the name leads to) and Clock (prune unlinks no file of today).  Two auxiliary
invariants carry the last two theorems: *Progress*, which lines a process has
written or warned of at each location, and *Cast*, which lines are in the files
while their writer is at each location.

`DbcliProofs` proves of *DbRun*, for any number of rows:

- `TypeCorrect`; `VerdictTrue`: success only for a completed statement, in the
  database the caller named if the connection was pinned, a timeout only after the
  deadline; `GuardedFirst`: what is refused was never sent, a write is sent only
  as permitted and on record; `VerdictOnce`: one terminal audit line and at most
  one result, which agree with the exit code.

They speak of the end of a run, or of the server; `IInv` says what holds on the
way: which verb is where (*Route*), what the server can have got (*Sent*), where
an error can come from (*Blame*), that the database is chosen first (*Chosen*),
that a driver without an error had its answer (*Completed*), and what has been
audited (*Terminal*) and printed (*Printed*).  Each action has a lemma.

It proves of *DataeaseSession*, for any number of commands and sites on one session
file:

- `TokensAtHome`: a token is sent only to the site recorded with it (a session
  written by hand, without a site, may go anywhere);
- `RetriesFresh`: a statement is sent at most twice, the second time with another
  session than the first.

`DsInv` says how many logins and queries a command has behind it at each location
(*Phase*), what its temporary file and the shared file hold (*Written*,
*HomeFile*), where each token came from (*Homes*), and that no token of a command
is younger than its last login (*Aged*), which is why a second query never repeats
the first one's token.

Of *RedisRun* it proves `RedisCorrect` for any cap, keys and buckets (which leaves open
when a timeout is reported, see `Errs`): *Course* (what
is asked at each location was permitted), *Taken* (the reply that is shown is this
command's), *Shown* (SCAN has listed exactly the buckets behind its cursor) and
*Killed* (a goroutine that was not called off ends with its kill).

Of *MongoRun* it proves `MongoCorrect` for any cap and any set of texts, under one
assumption, *ParserRight*: a text that the parser accepts is taken for the statement
it was meant to be.  TLC finds that true of the grammar of `MCDbcli`, damaged texts
included, and that no sentence of it is refused (`SentencesAreRead`); that an
accepted text is a whole statement, which `MinKey(` contradicts, is not assumed; the prover cannot show it of all texts (induction
over data).  `MongoInv` is *Read* (what is carried
out is what the parser returned), *Guarded* (it passed the guards before it was
sent) and *Counted* (documents that came, against those asked for).

At the end it shows that a behaviour of dbcli is one of each driver
(`DriversImplemented`), so that what is proved of the drivers holds of the whole.

`TcliProofs` proves, for any number of case files, actions and retries:

- `TcliFailsCleanly`: after a failure no main action runs, and a cleanup action is
  never skipped for want of a value that was captured;
- `TcliVerdictEarned`: a case gets PASS only when all of its main actions ended well
  and all of its cleanup ran; a run exits 0 only with a report of at least one case
  and nothing but PASS;
- `TcliTypeCorrect`.

`TcliInv` is *Counted* (the case that runs is a file that was read and has no
verdict yet, so that no more verdicts are given than files), *Progress* (phases
behind the current one are complete unless something failed, phases ahead have
not begun; the first failure is recorded exactly if some main action did not end
well), *Acting* (an action that runs is due; a value once captured is still there)
and *Blank* (nothing of one case is left for the next).  Actions that end with a
result share one lemma, `ResultKeeps`.

`JcliProofs` proves of *JenkinsDeploy*, for any number of commands, builds, other users and deploy
steps:

- `StepsAfterSuccess`, `SuccessTrue` and `CancelSpares`, the three properties of
  builds, deploys and cancels in the jcli run, which checks them for one command;
- `JenkinsTypeCorrect`: the build that is polled is the one the queue item became;
- `JcliBuilds`: a behaviour of jcli is one of JenkinsDeploy, so that all of this
  holds of jcli.

`JenkinsInv` says of each command which build it has (*Queued*), that this build
succeeded once anything after the poll has happened (*Proven*), which steps have
run (*Stepped*), what is on record (*Recorded*) and which builds it may stop
(*Spared*).  Nothing in it relates two commands: what others do to a command's
build is only that builds are added and that running ones end (*Grown*), which
`OthersKeep` shows to be harmless once and for all.

It proves of *JobsCache*, for any number of commands, any groups and any job trees:

- `CacheStaysTrue`: the file is whole unless syncs overlapped or one was cut short,
  and a reader that finds it whole has found jobs that Jenkins listed;
- `JobRoutedRight`: the group of a command is the one named, the only one or the only
  one that fits, its job what that group's rules give or the one listed job of the
  name; refusals for want of a group are deserved; and `--job` finds the group
  exactly when one alone makes the job by what can be turned round.

`CacheInv` bounds what can be in the file and in what was read of it: braces and
jobs that were heard of (*CacheTyped*), so that what lies between two braces was
heard of, however the writes of two syncs fell upon each other; a sync about to
write holds a listing (*Listed*); and while nothing went wrong the writer is alone
and has an empty file before him (*Clean*).  The routing itself is a lemma about
operators, `TargetRight`.  Its hard case is `--job`, where the code turns templates
round (`ReverseTemplate`) and the property asks for every service a template could
have been filled with: `Turned` shows the two to agree, from what a template with
one hole gives place by place (`OneHole`, `Pieces`, `CutOut`, `PutIn`).

Of *ConsoleLog* it proves `ConsoleIsShown` (ConsoleTrue), for any console, chunks and
number of cuts:

- what is printed comes in order and nothing twice, a follow leaves out nothing before
  its offset, a log without follow prints a beginning of the console;
- a follow that ends well ends after the build and has read to the end of the console
  (`FollowShowsAll`), and one audit line says how the command ended.

*Printed* says of the records so far that they are unbroken pieces, each behind the
ones before, which together hold the cells below the offset; a chunk adds the
pieces of the cells it read (`LinesShow`, `ShowKeeps`), whether or not it breaks off in
the middle of a line, and a page of an error stands for no cell.  The property is
stated of the records one by one and of the set of cells in them, not of the
records joined, which keeps the proof free of folds.
`JcliTypeCorrect` is the type invariant of the whole.

`ApiSessionProofs` proves, for any number of commands, sessions and requests of a
login flow:

- `FileStaysSound`: the session file is absent or one whole session;
- `ActsAtMostOnce`: at most one login of a call, and at most one effect if
  expired_when is given the body it looks at or does not hold of an absent one,
  otherwise at most two;
- `TruthIsOnRecord`: what is reported is what happened, where the predicates are given
  the body they look at, and what had an effect is on record in any case;
- `ApiTypeCorrect`.

`ApiInv` says what each command has at each location: a session to send (*Provided*),
how often it has logged in (*LoggedIn*), what the service has done for it (*Acted*)
and what it has told (*Told*); and that the session file holds a session that was
granted already (*FileHeld*).  That a retry repeats nothing rests on one fact about the
other commands and the service: a session whose answer was "expired" is never
honoured again (*Grown*), because sessions that ended stay ended.

`ArchiveProofs` proves, for any number of commands, files and names:

- `FilesStayWhole`: no error and no kill leaves half a file in the tree, nor a
  command that returned a temporary one;
- `SafetyNetHolds` and `BackupsStay`: what a restore replaced can be restored from its
  safety backup, and no backup is replaced, *if commands that overlap started in
  different seconds* (`~Overlap`);
- `ArchiveTypeCorrect`.

The hypothesis is needed: config_overlap shows a backup replaced without it.  A name
that a command has found free stays free until it publishes there (*Free*), because
no other command of that second runs beside it (*Apart*).  What
the tree holds is in the body that was collected, unless somebody changed it since
(*Caught*), that body is what stays under the name (*Kept*), and so all that the
restore replaces (*Due*) and has replaced (*Past*) can be had back.

`LogProofs` proves of every adapter, with any files, output and rows:

- `VerdictHolds`: one closing envelope that fits the exit code, one audit line that
  fits both, however the invocation ends;
- `LogIsTruthful` (Truthful, in `LogFileProofs`): what is shown is true of the source it
  comes from, which is FileTrue, below, and the next two;
- `ProgramIsPassedOn` (ChildTrue): what is passed on of a program is its lines in
  order, and without an error all of them, of a program that ended well;
- `SlsShowsTheRows` (SlsTrue): a search shows at each place the row that belongs there
  and skips none while others arrive, incomplete pages apart, and without a warning
  its last page was complete; a tail shows each row of its windows once and in order,
  but for the seconds of incomplete pages;
- `LogTypeCorrect`.

`VerdictInv` relates how the adapter has used its output to what was printed and
recorded.  `ChildInv` counts lines written, read, collected and shown.  `SlsInv` says
which rows of which windows have been shown, page by page (*TailInv*, *SearchInv*);
that a window has its rows in order, without gaps and only one way of being so, is
shown of finite sets of numbers (`InOrder`).

`LogFileProofs` proves FileTrue, for any number of files, any lines, any chunk and tail:
of a file that was only appended to, what was shown is its last lines and then every
line that was finished up to the offset; of a file that was truncated or rotated, but
not while its last lines were read, no cell is shown twice or out of order.  The
proof has two halves.

- *Operators*: `ParseOn`, that cells may be cut into lines up to anywhere and on from
  there with what was left over, which is why the reader's chunks and polls do not
  matter; `ParseRises`, that cells which rise make lines whose cells ascend;
  `NotEmptyConcat`, that the empty lines left out of two pieces are those of the whole;
  `LastIs` and `TailIsPromised`, that the end of a file that was read backwards, chunk by
  chunk, has the last lines the whole file has.
- *FileInv*: the files are read in turn (*Turns*), nothing is shown of a file before
  its last lines (*Places*), what is read backwards is the end of the file as it was
  opened (*TailData*), a poll goes on from the offset or from the beginning (*Polled*),
  and the writer numbers the cells as he writes them, over all inodes (*Grows*).  Of each
  file it says that what was told of it, what is left over included, ascends and lies
  before all that is still to be read (*Sorted*): this is what a rotation between
  the look at a file and its opening, or a poll that starts again from the
  beginning, could break, and FileTrue alone does not exclude it.  Of a file
  that was only appended to it says what was shown and what is left over, cell
  by cell (*Exact*).

Each action of the reader and of the writer has a lemma that keeps FileInv;
`FileNext_Inv` puts them together, with `OwnPlace`: an invocation that reads files is at
no place of another adapter.

Where a fact about all lengths or all sets is needed (a window in order, the pieces
of a template joined, a file cut into lines), it is proved by the least counterexample
(`HasLeast`), which the library's induction theorems would otherwise give; for
sequences this gives `SeqInduct`: a set that contains `<<>>` and with every sequence
those that are longer by one contains all of them.  What recursive functions
there are (`Parse`, `NotEmpty`) are shown to exist in the same way (`CanParse`, `CanFlatten`).

The assumptions on constants are few and name what the code takes for granted:
distinct marks for what is absent (`ApiAssumption`, `ArchiveAssumption`), at least one
second, slot and file; positive page sizes and clocks (`SlsAssumption`); and that
paths and templates are text, which no brace of the JSON is taken for
(`CacheAssumption`, `ErrandAssumption`).

Every safety invariant that a passing run checks is so stated by a theorem.
Only model-checked: liveness (EveryInvocationEnds, CommandsEnd, EveryRunEnds,
InvocationsEnd, Responsive), which is out of the prover's reach; what the mongo
parser makes of a text (`ParserRight`, on which `MongoCorrect` rests: it would take an
induction over texts whose values nest, which `SeqInduct`, one cell after the
other, does not give); and the four runs that end in a violation, which are counterexamples of TLC
(config_overlap is also why `SafetyNetHolds` needs `~Overlap`).

## Not modelled

Wire formats, the text of messages, redaction and path validation; what
`logcli --fields` and `--output raw` do to a record; how values are converted and
long strings cut; the names of redis commands and mongo's literals; parameters and
step templates of jcli; the goroutines that copy through the ssh tunnel; the
installers.  The predicate, expression and template languages and the SQL guard
are pure functions that are planned below.

## Plan

1. *Done*: Audit with its abstract specification and proofs, ConfigArchive,
   ApiSession, TcliRun, LogCli; Jcli with JenkinsDeploy, JobRouting, JobsCache and
   ConsoleLog; Dbcli with DbRun, DataeaseSession, RedisRun and MongoRun; proofs of
   all of them but for what "Only model-checked" names.
2. **SqlGuard, Expr**: statement classification, auto-limit, assertion operators
   and the predicate language as functions over small token sequences, in the shape
   of MongoStatement.
3. The ssh tunnel; JenkinsDeploy composed with LogChild's program.
4. Abstract specifications: a session file as an atomic register (implemented by
   ApiSession's and DataeaseSession's save), a config tree whose files change one at
   a time (ConfigArchive), a deploy as trigger, outcome, steps (JenkinsDeploy), a
   followed file or console as the sequence of lines its writer finished (LogFile,
   ConsoleLog).
5. Proofs: the abstract specifications of 4; ParserRight, by induction over the length
   of a text, once for the values that nest and once for the statement around them.

New runs take the place of ones that say less: audit_live can be merged into
audit when its symmetry is given up, and the table of a pure function can be an
ASSUME of an existing MC module.
