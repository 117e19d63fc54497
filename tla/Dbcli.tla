--------------------------------- MODULE Dbcli ---------------------------------
(***************************************************************************)
(* dbcli as a whole: an invocation with a SQL driver (DbRun), with redis   *)
(* (RedisRun) or with mongo (MongoRun), or several with the dataease driver*)
(* that share a session file (DataeaseSession).  The drivers share nothing,*)
(* so that a behaviour runs one of them.                                   *)
(***************************************************************************)
EXTENDS DbRun, DataeaseSession, RedisRun, MongoRun

VARIABLE part   \* the driver that runs

dbclivars == <<part, vars, dsvars, redisvars, mongovars>>

\* A driver that does not run stands for an invocation that did not start.
NoSql == /\ call.verb = "doctor" /\ call.engine = "local"
         /\ ~call.write /\ ~call.database /\ ~call.raw
NoDataease ==
    /\ file = NoFile /\ \A u, v \in Users : target[u] = target[v] /\ target[u].cred
    /\ \A u \in Users : target[u].site = CHOOSE s \in Sites : TRUE

DbcliInit ==
    /\ part \in {"sql", "dataease", "redis", "mongo"}
    /\ Init /\ (part # "sql" => NoSql)
    /\ DsInit /\ (part # "dataease" => NoDataease)
    /\ RedisInit /\ (part # "redis" => ask.verb = "doctor")
    /\ MongoInit /\ (part # "mongo" => given.verb = "doctor")

Sql(A)      == part = "sql" /\ A /\ UNCHANGED <<part, dsvars, redisvars, mongovars>>
Dataease(A) == part = "dataease" /\ A /\ UNCHANGED <<part, vars, redisvars, mongovars>>
Redis(A)    == part = "redis" /\ A /\ UNCHANGED <<part, vars, dsvars, mongovars>>
Mongo(A)    == part = "mongo" /\ A /\ UNCHANGED <<part, vars, dsvars, redisvars>>

DbcliNext == Sql(Next) \/ Dataease(DsNext) \/ Redis(RedisNext) \/ Mongo(MongoNext)

\* See DbRun; every request to a web service has a timeout, and so has every
\* read of the redis client's once it is connected.
DbcliSpec ==
    /\ DbcliInit /\ [][DbcliNext]_dbclivars
    /\ WF_dbclivars(Sql(Runs)) /\ WF_dbclivars(Sql(GivesUp))
    /\ \A u \in Users : WF_dbclivars(Dataease(DsStep(u)))
    /\ WF_dbclivars(Redis(spot # "start" /\ Driver)) /\ WF_dbclivars(Redis(Killer))

-----------------------------------------------------------------------------
(* Properties *)

\* Every variable has its type (see the drivers).
DbcliTypeOK == TypeOK /\ DsTypeOK /\ RedisTypeOK /\ MongoTypeOK

\* What RedisRun and MongoRun promise of a call.
NosqlServed == RedisServed /\ MongoServed

\* An invocation that is told to ends (see DbRun), one with the dataease driver
\* ends by itself: it does not log in and ask for ever; and so does one with redis
\* that is connected: it does not wait for ever for its own goroutine.
InvocationsEnd ==
    /\ EndsWhenTold
    /\ \A u \in Users : where[u] # "start" ~> where[u] \in {"over", "killed"}
    /\ spot = "dispatch" ~> spot = "over"
===============================================================================
