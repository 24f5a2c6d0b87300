------------------------------- MODULE Service -------------------------------
(***************************************************************************)
(* One worker from start to stop (the lifespan of api/app.py), with its    *)
(* two questions to the feature backend: GET /ready, which asks            *)
(* ScoringService.ready, and scoring.  The backend is one of the three the *)
(* settings allow: "mock" needs no Redis; "redis" is the legacy adapter of *)
(* features/online/redis.py, modelled whole; "redis_v1" is the provider of *)
(* module Scoring, here one command with a usable or an unusable outcome.  *)
(*                                                                         *)
(* A request awaits its body, in the middleware and without a deadline,    *)
(* and then Redis, inside one; what it does before, between and after is   *)
(* atomic.  With "mock" it does not await Redis, so for it the step in its *)
(* place is one the program does not have; nothing can come there that it  *)
(* would notice.                                                           *)
(***************************************************************************)
EXTENDS Integers, FiniteSets

CONSTANTS
    Requests,         \* requests that may come
    MaxAge,           \* feature_max_age_seconds
    MaxNow,           \* bound on the clock
    Absent, Malformed \* no snapshot under the user's key, and one that does not validate

ASSUME ServiceAssumption ==
    /\ IsFiniteSet(Requests)
    /\ MaxAge \in Nat \ {0} /\ MaxNow \in Nat
    /\ Absent # Malformed /\ {Absent, Malformed} \cap Int = {}

VARIABLES
    backend, \* settings.feature_backend
    phase,   \* "starting", "serving", "draining", "stopped", "failed"
    client,  \* the Redis client: "none", "open", "closed"
    redis,   \* whether Redis answers
    model,   \* model.ready
    now,     \* the clock
    key,     \* the user's snapshot: as_of, Absent or Malformed
    expiry,  \* when Redis drops it
    req,     \* per request: what it asks, how far it is, how it went
    metrics, \* the service's counters
    past     \* history: what was seen true, or broken, while each request ran
vars == <<backend, phase, client, redis, model, now, key, expiry, req, metrics, past>>
world == <<backend, phase, client, redis, model, now, key, expiry>>

Counter == {"requests", "decisions", "feature_errors", "model_errors"}
NewRequest == [kind |-> "none", pc |-> "new", reply |-> Absent, status |-> 0]
Unseen == [redisUp |-> FALSE, modelUp |-> FALSE, fault |-> FALSE, age |-> 0]

Init ==
    /\ backend \in {"mock", "redis", "redis_v1"}
    /\ phase = "starting" /\ client = "none"
    /\ redis \in BOOLEAN /\ model = TRUE
    /\ now = 0 /\ key = Absent /\ expiry = 0
    /\ req = [r \in Requests |-> NewRequest]
    /\ metrics = [m \in Counter |-> 0]
    /\ past = [r \in Requests |-> Unseen]

\* What the server has taken and not ended: the body is being read, or it is in
\* the hands of the service.
Served(r) == req[r].pc \in {"waiting", "answered", "lost", "late", "local"}
InFlight(r) == req[r].pc = "body" \/ Served(r)
Bump(ms) == [m \in Counter |-> metrics[m] + IF m \in ms THEN 1 ELSE 0]

---------------------------------------------------------------------------
\* The lifespan up to its yield.  load_model may raise; the client connects
\* only when it is first used.
StartUp ==
    /\ phase = "starting"
    /\ \/ phase' = "failed" /\ UNCHANGED client
       \/ phase' = "serving" /\ client' = IF backend = "mock" THEN "none" ELSE "open"
    /\ UNCHANGED <<backend, redis, model, now, key, expiry, req, metrics, past>>

\* The server is told to stop: it takes no new requests, lets those in flight
\* end, however long their clients take, ...
Drain ==
    /\ phase = "serving"
    /\ phase' = "draining"
    /\ UNCHANGED <<backend, client, redis, model, now, key, expiry, req, metrics, past>>

\* mutant of ShutDown: the provider is not closed
ShutDownLeaving ==
    /\ phase = "draining" /\ \A r \in Requests : ~InFlight(r)
    /\ phase' = "stopped"
    /\ UNCHANGED <<backend, client, redis, model, now, key, expiry, req, metrics, past>>

\* ... and resumes the lifespan, which closes the provider.
ShutDown ==
    /\ phase = "draining" /\ \A r \in Requests : ~InFlight(r)
    /\ phase' = "stopped"
    /\ client' = IF backend = "mock" THEN client ELSE "closed"
    /\ UNCHANGED <<backend, redis, model, now, key, expiry, req, metrics, past>>

\* Something the backend needs is down.
Broken(up, ready) == ~ready \/ (backend # "mock" /\ ~up)

\* Redis and the model come and go.
Change ==
    /\ \/ redis' = ~redis /\ UNCHANGED model
       \/ model' = ~model /\ UNCHANGED redis
    /\ past' = [r \in Requests |->
                   IF ~Served(r) THEN past[r]
                   ELSE [redisUp |-> past[r].redisUp \/ redis',
                         modelUp |-> past[r].modelUp \/ model',
                         fault   |-> past[r].fault \/ Broken(redis', model'),
                         age     |-> past[r].age]]
    /\ UNCHANGED <<backend, phase, client, now, key, expiry, req, metrics>>

Tick ==
    /\ now < MaxNow
    /\ now' = now + 1
    /\ key' = IF key # Absent /\ expiry <= now' THEN Absent ELSE key
    /\ UNCHANGED <<backend, phase, client, redis, model, expiry, req, metrics, past>>

\* scripts/seed_features.py
Seed ==
    /\ redis
    /\ key' = now /\ expiry' = now + MaxAge
    /\ UNCHANGED <<backend, phase, client, redis, model, now, req, metrics, past>>

\* Any other client of Redis: a snapshot of any date, or none, kept for good.
ForeignWrite ==
    /\ redis
    /\ key' \in {Malformed, now - MaxAge - 1, now + 1}
    /\ expiry' = MaxNow + 1
    /\ UNCHANGED <<backend, phase, client, redis, model, now, req, metrics, past>>

---------------------------------------------------------------------------
\* A request gets this far, with this reply and this status.
Reach(r, pc, reply, status) ==
    req' = [req EXCEPT ![r] = [kind |-> req[r].kind, pc |-> pc, reply |-> reply, status |-> status]]

\* Only a worker that serves takes requests.  The middleware reads the body ...
Arrive(r) ==
    /\ phase = "serving" /\ req[r].pc = "new"
    /\ Reach(r, "body", Absent, 0)
    /\ UNCHANGED <<world, metrics, past>>

\* ... until the client leaves or has sent too much, ...
Leave(r) ==
    /\ req[r].pc = "body"
    /\ Reach(r, "done", Absent, 0)
    /\ UNCHANGED <<world, metrics, past>>

\* ... or it is in, and the route runs, also while the worker drains.
Begin(r, kind, to, status) ==
    /\ req[r].pc = "body"
    /\ req' = [req EXCEPT ![r] = [kind |-> kind, pc |-> to, reply |-> Absent, status |-> status]]
    /\ past' = [past EXCEPT ![r] = [redisUp |-> redis, modelUp |-> model,
                                    fault |-> Broken(redis, model), age |-> 0]]
    /\ UNCHANGED world

\* mutant of Await: "mock" asks Redis as well
AwaitAlways == "waiting"

Await == IF backend = "mock" THEN "local" ELSE "waiting"

\* ScoringService.ready up to its await: the flag is read first, and no ping
\* is sent when it is down.
Probe(r) ==
    /\ IF model THEN Begin(r, "probe", Await, 0) ELSE Begin(r, "probe", "done", 503)
    /\ UNCHANGED metrics

\* ScoringService.score up to its await.
Score(r) ==
    /\ Begin(r, "score", Await, 0)
    /\ metrics' = Bump({"requests"})

\* Redis executes the command, PING or GET.  What redis_v1 gets is whatever
\* its two snapshots amount to.
Answer(r) ==
    /\ redis /\ req[r].pc = "waiting"
    /\ \E reply \in (IF backend = "redis_v1" THEN {now, Malformed} ELSE {key}) :
          Reach(r, "answered", reply, 0)
    /\ UNCHANGED <<world, metrics, past>>

\* The connection is refused or breaks, whether or not Redis is up.
Lose(r) ==
    /\ req[r].pc \in {"waiting", "answered"}
    /\ Reach(r, "lost", Absent, 0)
    /\ past' = [past EXCEPT ![r].fault = TRUE]
    /\ UNCHANGED <<world, metrics>>

\* mutant of Deadline: it covers the reply and not the wait for it
DeadlineUnserved(r) ==
    /\ req[r].pc \in {"answered", "lost"}
    /\ Reach(r, "late", Absent, 0)
    /\ past' = [past EXCEPT ![r].fault = TRUE]
    /\ UNCHANGED <<world, metrics>>

\* asyncio.timeout; the socket timeout has the same length and effect.
Deadline(r) ==
    /\ req[r].pc \in {"waiting", "answered", "lost"}
    /\ Reach(r, "late", Absent, 0)
    /\ past' = [past EXCEPT ![r].fault = TRUE]
    /\ UNCHANGED <<world, metrics>>

\* mutant of End: a refusal has no handler
EndUnhandled(r, status) == Reach(r, "done", Absent, IF status = 200 THEN 200 ELSE 500)

End(r, status) == Reach(r, "done", Absent, status)

\* mutant of ProbeEnds: exceptions of the ping do not count
ProbeEndsOptimist(r) ==
    /\ req[r].kind = "probe" /\ req[r].pc \in {"answered", "lost", "late", "local"}
    /\ End(r, 200)
    /\ UNCHANGED <<world, metrics, past>>

\* ready() returns: any exception, the deadline included, is "not ready".
ProbeEnds(r) ==
    /\ req[r].kind = "probe" /\ req[r].pc \in {"answered", "lost", "late", "local"}
    /\ End(r, IF req[r].pc \in {"answered", "local"} THEN 200 ELSE 503)
    /\ UNCHANGED <<world, metrics, past>>

\* mutant of Usable: no lower bound on the age
UsableFuture(r) ==
    \/ req[r].pc = "local"
    \/ req[r].pc = "answered" /\ req[r].reply \notin {Absent, Malformed}
         /\ (backend = "redis" => now - req[r].reply <= MaxAge)

\* RedisFeatureProvider.get_features after its GET: there, valid, and neither
\* stale nor future-dated.  MockFeatureProvider always has features.
Usable(r) ==
    \/ req[r].pc = "local"
    \/ req[r].pc = "answered" /\ req[r].reply \notin {Absent, Malformed}
         /\ (backend = "redis" => now - req[r].reply \in 0 .. MaxAge)

\* mutant of FeaturesRefused: a refusal by the adapter is not counted
FeaturesRefusedUncounted(r) ==
    /\ req[r].kind = "score" /\ req[r].pc \in {"answered", "lost", "late", "local"}
    /\ ~Usable(r)
    /\ End(r, 503)
    /\ UNCHANGED <<world, metrics, past>>

FeaturesRefused(r) ==
    /\ req[r].kind = "score" /\ req[r].pc \in {"answered", "lost", "late", "local"}
    /\ ~Usable(r)
    /\ End(r, 503)
    /\ metrics' = Bump({"feature_errors"})
    /\ UNCHANGED <<world, past>>

\* The model is not ready, raises, or answers out of its contract.
ModelRefused(r) ==
    /\ req[r].kind = "score" /\ Usable(r)
    /\ End(r, 503)
    /\ metrics' = Bump({"model_errors"})
    /\ past' = [past EXCEPT ![r].fault = TRUE]
    /\ UNCHANGED world

Decided(r) ==
    /\ req[r].kind = "score" /\ Usable(r) /\ model
    /\ End(r, 200)
    /\ metrics' = Bump({"decisions"})
    /\ past' = [past EXCEPT ![r].age = IF req[r].pc = "local" THEN 0 ELSE now - req[r].reply]
    /\ UNCHANGED world

Resume(r) == ProbeEnds(r) \/ FeaturesRefused(r) \/ ModelRefused(r) \/ Decided(r)

Next ==
    \/ StartUp \/ Drain \/ ShutDown \/ Change \/ Tick \/ Seed \/ ForeignWrite
    \/ \E r \in Requests :
          Arrive(r) \/ Leave(r) \/ Probe(r) \/ Score(r) \/ Answer(r) \/ Lose(r) \/ Deadline(r) \/ Resume(r)

\* The event loop runs timers and ready tasks; the server finishes its
\* shutdown once no request is left, for which it has no timeout.  Nothing is
\* asked of Redis, the model or the clients.
Fairness ==
    /\ WF_vars(ShutDown)
    /\ \A r \in Requests : WF_vars(Deadline(r)) /\ WF_vars(Resume(r))

Spec == Init /\ [][Next]_vars /\ Fairness

---------------------------------------------------------------------------
TypeOK ==
    /\ backend \in {"mock", "redis", "redis_v1"}
    /\ phase \in {"starting", "serving", "draining", "stopped", "failed"}
    /\ client \in {"none", "open", "closed"}
    /\ redis \in BOOLEAN /\ model \in BOOLEAN
    /\ now \in Nat /\ expiry \in Nat /\ key \in Int \cup {Absent, Malformed}
    /\ req \in [Requests ->
                  [kind   : {"none", "probe", "score"},
                   pc     : {"new", "body", "waiting", "answered", "lost", "late", "local", "done"},
                   reply  : Int \cup {Absent, Malformed},
                   status : {0, 200, 503}]]
    /\ metrics \in [Counter -> Nat]
    /\ past \in [Requests ->
                   [redisUp : BOOLEAN, modelUp : BOOLEAN, fault : BOOLEAN, age : Int]]

Answered(r, status) == req[r].pc = "done" /\ req[r].status = status

\* "Redis down in redis mode: ready=503; score=503", and "Model not ready:
\* ready reflects flag; score=503" (docs/architecture/system-design.md): no
\* probe and no score succeeds if Redis, where it is used, or the model was
\* down for as long as the request ran.
OutageIsReported ==
    \A r \in Requests : Answered(r, 200) =>
        /\ past[r].modelUp
        /\ backend # "mock" => past[r].redisUp

\* "Redis down in mock mode: no effect": a request under "mock" is refused only
\* for the model, and whatever the backend a probe is refused only if Redis or
\* the model was down, its connection broke, or the deadline passed, while it ran.
NoNeedlessRefusal ==
    \A r \in Requests : Answered(r, 503) =>
        /\ req[r].kind = "probe" => past[r].fault
        /\ req[r].kind = "score" /\ backend = "mock" => past[r].fault

\* The legacy adapter decides on no snapshot that is stale or future-dated at
\* that moment, however long its reply was under way and whoever wrote it.
LegacyFresh ==
    \A r \in Requests :
        backend = "redis" /\ req[r].kind = "score" /\ Answered(r, 200)
            => past[r].age \in 0 .. MaxAge

\* A worker that stops leaves no request open and no client unclosed.
CleanStop ==
    phase \in {"stopped", "failed"} =>
        client # "open" /\ \A r \in Requests : ~InFlight(r)

\* Whatever the backend, score() keeps the contract that Scoring is shown to
\* keep for redis_v1.
Status ==
    [r \in Requests |->
        IF req[r].kind # "score" THEN "new"
        ELSE IF req[r].pc # "done" THEN "open"
        ELSE IF req[r].status = 200 THEN "decision" ELSE "unavailable"]
Tally ==
    [k \in {"decision", "unavailable", "open"} |->
        CASE k = "open"     -> metrics["requests"]
          [] k = "decision" -> metrics["decisions"]
          [] OTHER          -> metrics["feature_errors"] + metrics["model_errors"]]
Contract == INSTANCE ScoringContract WITH status <- Status, tally <- Tally
EveryBackendKeepsContract == Contract!Spec

\* A worker told to stop does stop, though Redis may stall for ever: a request
\* is bounded by its deadline once its body is in.  Only clients can keep it,
\* for the body is awaited without a timeout and so is the last request; with
\* none that stalls there for ever the stop completes.
ShutdownCompletes ==
    (\A r \in Requests : []<>(req[r].pc # "body"))
        => (phase = "draining" ~> phase = "stopped")
=============================================================================
