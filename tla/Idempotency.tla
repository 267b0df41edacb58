---------------------------- MODULE Idempotency ----------------------------
(***************************************************************************)
(* middlewares/idempotency.ts over services/idempotency.service.ts: the    *)
(* requests that carry one Idempotency-Key for one endpoint.  Redis is the *)
(* first store and MongoDB its shadow.  One action per awaited call.       *)
(***************************************************************************)
EXTENDS Naturals

CONSTANTS
    Requests,     \* a request and its retries
    Nobody,
    MaxFaults     \* bound on failing calls, Redis outages and crashes

ASSUME IdempotencyAssumption == Nobody \notin Requests /\ MaxFaults \in Nat

VARIABLES
    redis,       \* the key in Redis
    mongo,       \* the IdempotencyRecord
    redisReady,  \* redisClient.status = 'ready'
    sound,       \* Redis has been ready and has answered from the start
    req,         \* where each request is
    ran,         \* requests whose handler ran, with success or not
    answer,      \* what each client was told
    late,        \* requests that came when the record was settled in Mongo
    faults

idempotencyVars == <<redis, mongo, redisReady, sound, req, ran, answer, late, faults>>

\* by: the request whose response is stored.
Record == [status: {"none", "processing", "completed", "failed"}, by: Requests \cup {Nobody}]

NoRecord == [status |-> "none", by |-> Nobody]
Processing == [status |-> "processing", by |-> Nobody]
Settled(rec) == rec.status \in {"completed", "failed"}

Answer == [kind: {"none", "response", "conflict", "error"}, by: Requests \cup {Nobody}]

PCs == {"idle", "get", "getMongo", "mark", "markMongo", "shadow", "handle",
        "saveRedis", "saveMongo", "done"}

IdempotencyInit ==
    /\ redis = NoRecord /\ mongo = NoRecord
    /\ redisReady \in BOOLEAN /\ sound = redisReady
    /\ req = [r \in Requests |-> "idle"]
    /\ ran = [r \in Requests |-> "no"]
    /\ answer = [r \in Requests |-> [kind |-> "none", by |-> Nobody]]
    /\ late = {} /\ faults = 0

Fault == faults < MaxFaults /\ faults' = faults + 1
At(r, pc) == req[r] = pc
Goto(r, pc) == req' = [req EXCEPT ![r] = pc]
Tell(r, kind, by) == answer' = [answer EXCEPT ![r] = [kind |-> kind, by |-> by]]
Reject(r, kind) == Goto(r, "done") /\ Tell(r, kind, Nobody)

-----------------------------------------------------------------------------
(* requireIdempotencyKey, up to the handler *)

\* A request with a well-formed key.
Submit(r) ==
    /\ At(r, "idle")
    /\ Goto(r, "get")
    /\ late' = IF Settled(mongo) THEN late \cup {r} ELSE late
    /\ UNCHANGED <<redis, mongo, redisReady, sound, ran, answer, faults>>

\* In flight: 409.  Otherwise the stored response is replayed.
Replay(r, rec) ==
    IF rec.status = "processing" THEN Reject(r, "conflict")
    ELSE Goto(r, "done") /\ Tell(r, "response", rec.by)

\* Mutant: Mongo is asked only when Redis is not there.
GetFromRedisOrElse(r) ==
    /\ At(r, "get")
    /\ IF redisReady /\ redis # NoRecord THEN Replay(r, redis)
       ELSE Goto(r, IF redisReady THEN "mark" ELSE "getMongo") /\ UNCHANGED answer
    /\ UNCHANGED <<redis, mongo, redisReady, sound, ran, late, faults>>

GetFromRedis(r) ==
    /\ At(r, "get")
    /\ IF redisReady /\ redis # NoRecord THEN Replay(r, redis)
       ELSE Goto(r, "getMongo") /\ UNCHANGED answer
    /\ UNCHANGED <<redis, mongo, redisReady, sound, ran, late, faults>>

GetFromMongo(r) ==
    /\ At(r, "getMongo")
    /\ IF mongo # NoRecord THEN Replay(r, mongo) ELSE Goto(r, "mark") /\ UNCHANGED answer
    /\ UNCHANGED <<redis, mongo, redisReady, sound, ran, late, faults>>

\* Mutant: SET without NX.
MarkInRedisAnyway(r) ==
    /\ At(r, "mark") /\ redisReady
    /\ redis' = Processing /\ Goto(r, "shadow") /\ UNCHANGED answer
    /\ UNCHANGED <<mongo, redisReady, sound, ran, late, faults>>

\* markProcessing: SET NX decides between racing requests.
MarkInRedis(r) ==
    /\ At(r, "mark") /\ redisReady
    /\ \/ redis = NoRecord /\ redis' = Processing /\ Goto(r, "shadow") /\ UNCHANGED answer
       \/ redis # NoRecord /\ Reject(r, "conflict") /\ UNCHANGED redis
    /\ UNCHANGED <<mongo, redisReady, sound, ran, late, faults>>

\* The shadow write: a duplicate key is logged.
ShadowInMongo(r) ==
    /\ At(r, "shadow")
    /\ mongo' = IF mongo = NoRecord THEN Processing ELSE mongo
    /\ Goto(r, "handle")
    /\ UNCHANGED <<redis, redisReady, sound, ran, answer, late, faults>>

\* Without Redis: an upsert that writes nothing when the record exists, and then
\* does not fail either.  Only two upserts at the very same time meet a duplicate key.
MarkInMongo(r) ==
    /\ At(r, "markMongo") \/ (At(r, "mark") /\ ~redisReady)
    /\ \/ mongo' = (IF mongo = NoRecord THEN Processing ELSE mongo) /\ Goto(r, "handle") /\ UNCHANGED answer
       \/ mongo = Processing /\ Reject(r, "conflict") /\ UNCHANGED mongo
    /\ UNCHANGED <<redis, redisReady, sound, ran, late, faults>>

-----------------------------------------------------------------------------
(* The handler, and the record of its response *)

\* The handler runs and answers by the wrapped res.json, which starts to store the
\* response and sends it without waiting.
Handle(r) ==
    /\ At(r, "handle")
    /\ \E outcome \in {"completed", "failed"} : ran' = [ran EXCEPT ![r] = outcome]
    /\ Goto(r, "saveRedis")
    /\ Tell(r, "response", r)
    /\ UNCHANGED <<redis, mongo, redisReady, sound, late, faults>>

Response(r) == [status |-> ran[r], by |-> r]

\* markCompleted, markFailed: SETEX if Redis is there, then an update without upsert.
SaveInRedis(r) ==
    /\ At(r, "saveRedis")
    /\ redis' = IF redisReady THEN Response(r) ELSE redis
    /\ Goto(r, "saveMongo")
    /\ UNCHANGED <<mongo, redisReady, sound, ran, answer, late, faults>>

SaveInMongo(r) ==
    /\ At(r, "saveMongo")
    /\ mongo' = IF mongo = NoRecord THEN mongo ELSE Response(r)
    /\ Goto(r, "done")
    /\ UNCHANGED <<redis, redisReady, sound, ran, answer, late, faults>>

-----------------------------------------------------------------------------
(* What can go wrong *)

\* A Redis call of request r throws: GET falls back to Mongo, SET NX may have been
\* applied and falls back as well, SETEX is given up.
RedisThrows(r) ==
    /\ redisReady /\ Fault
    /\ \/ At(r, "get") /\ Goto(r, "getMongo") /\ UNCHANGED redis
       \/ At(r, "mark") /\ Goto(r, "markMongo") /\ redis' \in {redis, IF redis = NoRecord THEN Processing ELSE redis}
       \/ At(r, "saveRedis") /\ Goto(r, "saveMongo") /\ UNCHANGED redis
    /\ sound' = FALSE
    /\ UNCHANGED <<mongo, redisReady, ran, answer, late>>

\* A Mongo call throws: the lookup and the upsert answer with an error, the shadow
\* write and the update are logged.
MongoThrows(r) ==
    /\ Fault
    /\ \/ req[r] \in {"getMongo", "markMongo"} /\ Reject(r, "error")
       \/ At(r, "mark") /\ ~redisReady /\ Reject(r, "error")
       \/ At(r, "shadow") /\ Goto(r, "handle") /\ UNCHANGED answer
       \/ At(r, "saveMongo") /\ Goto(r, "done") /\ UNCHANGED answer
    /\ UNCHANGED <<redis, mongo, redisReady, sound, ran, late>>

\* The process dies with its requests.
Crash ==
    /\ Fault
    /\ req' = [r \in Requests |-> IF req[r] = "idle" THEN "idle" ELSE "done"]
    /\ UNCHANGED <<redis, mongo, redisReady, sound, ran, answer, late>>

\* Redis goes, and comes back with its data or without it.
RedisGoes ==
    /\ redisReady /\ Fault
    /\ redisReady' = FALSE /\ sound' = FALSE
    /\ UNCHANGED <<redis, mongo, req, ran, answer, late>>

RedisReturns ==
    /\ ~redisReady
    /\ redisReady' = TRUE
    /\ redis' \in {redis, NoRecord}
    /\ UNCHANGED <<mongo, sound, req, ran, answer, late, faults>>

Serve(r) ==
    \/ GetFromRedis(r) \/ GetFromMongo(r) \/ MarkInRedis(r) \/ ShadowInMongo(r) \/ MarkInMongo(r)
    \/ Handle(r) \/ SaveInRedis(r) \/ SaveInMongo(r)

IdempotencyStep ==
    \/ \E r \in Requests : Submit(r) \/ Serve(r) \/ RedisThrows(r) \/ MongoThrows(r)
    \/ Crash \/ RedisGoes \/ RedisReturns

IdempotencySpec == IdempotencyInit /\ [][IdempotencyStep]_idempotencyVars

-----------------------------------------------------------------------------
\* Records, requests and answers keep their shape.
IdempotencyTypeOK ==
    /\ redis \in Record /\ mongo \in Record
    /\ redisReady \in BOOLEAN /\ sound \in BOOLEAN
    /\ req \in [Requests -> PCs]
    /\ ran \in [Requests -> {"no", "completed", "failed"}]
    /\ answer \in [Requests -> Answer]
    /\ late \subseteq Requests /\ faults \in Nat

\* While Redis works, the handler runs once for a key, however its requests
\* overlap and whatever Mongo does.
RunsOnce ==
    sound => \A r, q \in Requests : ran[r] # "no" /\ ran[q] # "no" => r = q

\* A response is one that a handler gave, never an empty one made up from a record
\* of a request in flight; and while Redis works all clients get the same.
AnswersAgree ==
    LET told == {r \in Requests : answer[r].kind = "response"}
    IN /\ \A r \in told : answer[r].by \in Requests /\ ran[answer[r].by] # "no"
       /\ sound => \A r, q \in told : answer[r].by = answer[q].by

\* "so the record survives a Redis flush": a retry that comes when the response is
\* on record in Mongo never runs the handler, whatever becomes of Redis.
SettledIsNotRerun == \A r \in late : ran[r] = "no"
=============================================================================
