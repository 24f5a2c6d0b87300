----------------------------- MODULE ServiceProofs -----------------------------
(***************************************************************************)
(* Proofs about Service, for any finite set of requests, any maximum age   *)
(* and any clock: what a probe and a scoring request may report while      *)
(* Redis and the model come and go, and how a worker stops.                *)
(***************************************************************************)
EXTENDS Service, TLAPS

\* The records of TypeOK.
RequestType ==
    [kind : {"none", "probe", "score"},
     pc : {"new", "body", "waiting", "answered", "lost", "late", "local", "done"},
     reply : Int \cup {Absent, Malformed}, status : {0, 200, 503}]
PastType == [redisUp : BOOLEAN, modelUp : BOOLEAN, fault : BOOLEAN, age : Int]

\* The worker: who is there to close, and when requests may be under way.
Worker ==
    /\ phase \in {"starting", "failed"} => client = "none" /\ \A r \in Requests : ~InFlight(r)
    /\ phase = "stopped" => client # "open" /\ \A r \in Requests : ~InFlight(r)
    /\ backend = "mock" => client = "none"

\* A request under way: what it waits for, and what has been seen of the
\* things that are up, or broken, at this moment.
UnderWay(r) ==
    /\ req[r].kind \in {"probe", "score"}
    /\ req[r].pc = "local" <=> backend = "mock"
    /\ redis => past[r].redisUp
    /\ model => past[r].modelUp
    /\ Broken(redis, model) => past[r].fault
    /\ req[r].kind = "probe" => past[r].modelUp
    /\ req[r].pc = "answered" => past[r].redisUp
    /\ req[r].pc \in {"lost", "late"} => past[r].fault

\* A request that has not reached its route has not said what it asks.
Untouched == \A r \in Requests : req[r].pc \in {"new", "body"} => req[r].kind = "none"

\* The inductive invariant, the safety properties included.
SInv ==
    /\ TypeOK
    /\ Worker
    /\ \A r \in Requests : Served(r) => UnderWay(r)
    /\ Untouched
    /\ OutageIsReported
    /\ NoNeedlessRefusal
    /\ LegacyFresh

\* What one request does, and what happens around the requests.
RequestStep(r) ==
    Arrive(r) \/ Leave(r) \/ Probe(r) \/ Score(r) \/ Answer(r) \/ Lose(r) \/ Deadline(r) \/ Resume(r)
WorldStep == StartUp \/ Drain \/ ShutDown \/ Change \/ Tick \/ Seed \/ ForeignWrite

---------------------------------------------------------------------------
\* A record of what was seen.
LEMMA PastRecord ==
    ASSUME NEW a \in BOOLEAN, NEW b \in BOOLEAN, NEW c \in BOOLEAN, NEW n \in Int
    PROVE  [redisUp |-> a, modelUp |-> b, fault |-> c, age |-> n] \in PastType
BY DEF PastType

\* Something is broken, or not.
LEMMA BrokenType ==
    ASSUME NEW a, NEW b
    PROVE  Broken(a, b) \in BOOLEAN
BY Zenon DEF Broken

\* The history of a request while Redis or the model changes.
LEMMA ChangedPast ==
    ASSUME TypeOK, Change, NEW r \in Requests
    PROVE  /\ past'[r] \in PastType
           /\ ~Served(r) => past'[r] = past[r]
           /\ Served(r) =>
                /\ past'[r].redisUp <=> past[r].redisUp \/ redis'
                /\ past'[r].modelUp <=> past[r].modelUp \/ model'
                /\ past'[r].fault <=> past[r].fault \/ Broken(redis', model')
                /\ past'[r].age = past[r].age
<1> DEFINE a == past[r].redisUp \/ redis'
           b == past[r].modelUp \/ model'
           c == past[r].fault \/ Broken(redis', model')
<1>1. past[r] \in PastType
  BY DEF TypeOK, PastType
<1>2. past'[r] = IF ~Served(r) THEN past[r]
                 ELSE [redisUp |-> a, modelUp |-> b, fault |-> c, age |-> past[r].age]
  BY DEF Change
<1>3. a \in BOOLEAN /\ b \in BOOLEAN /\ c \in BOOLEAN
  BY Zenon
<1>4. past[r].age \in Int
  BY <1>1 DEF PastType
<1> HIDE DEF a, b, c
<1>5. [redisUp |-> a, modelUp |-> b, fault |-> c, age |-> past[r].age] \in PastType
  BY <1>3, <1>4, PastRecord
<1>6. CASE ~Served(r)
  BY <1>1, <1>2, <1>6
<1>7. CASE Served(r)
  <2>1. /\ past'[r].redisUp = a /\ past'[r].modelUp = b /\ past'[r].fault = c
        /\ past'[r].age = past[r].age
    BY <1>2, <1>7
  <2> QED BY <1>2, <1>5, <1>7, <2>1 DEF a, b, c
<1> QED BY <1>6, <1>7

\* The history a request begins with.
LEMMA NewPast ==
    ASSUME TypeOK, NEW r \in Requests, NEW kind, NEW to, NEW status, Begin(r, kind, to, status)
    PROVE  /\ past' \in [Requests -> PastType]
           /\ past'[r].redisUp <=> redis
           /\ past'[r].modelUp <=> model
           /\ past'[r].fault <=> Broken(redis, model)
<1> DEFINE c == Broken(redis, model)
<1>1. redis \in BOOLEAN /\ model \in BOOLEAN /\ c \in BOOLEAN
  BY BrokenType DEF TypeOK
<1>2. past' = [past EXCEPT ![r] = [redisUp |-> redis, modelUp |-> model, fault |-> c, age |-> 0]]
  BY DEF Begin
<1>3. past \in [Requests -> PastType]
  BY DEF TypeOK, PastType
<1> HIDE DEF c
<1>4. [redisUp |-> redis, modelUp |-> model, fault |-> c, age |-> 0] \in PastType
  BY <1>1, PastRecord
<1>5. past' \in [Requests -> PastType]
  BY <1>2, <1>3, <1>4
<1>6. past'[r].redisUp = redis /\ past'[r].modelUp = model /\ past'[r].fault = c
  BY <1>2, <1>3
<1> QED BY <1>5, <1>6 DEF c

\* A request that begins to wait is properly under way.
LEMMA Begun ==
    ASSUME TypeOK, Worker, NEW r \in Requests, NEW kind \in {"probe", "score"}, Begin(r, kind, Await, 0),
           kind = "probe" => model
    PROVE  UnderWay(r)' /\ Served(r)' /\ phase \in {"serving", "draining"}
<1>1. past'[r].redisUp <=> redis
  BY NewPast
<1>2. past'[r].modelUp <=> model
  BY NewPast
<1>3. past'[r].fault <=> Broken(redis, model)
  BY NewPast
<1>4. redis' = redis /\ model' = model /\ backend' = backend
  BY DEF Begin, world
<1>8. phase \in {"serving", "draining"}
  BY DEF Begin, Worker, InFlight, TypeOK
<1>5. Broken(redis, model)' <=> Broken(redis, model)
  BY <1>4, Zenon DEF Broken
<1>6. /\ req'[r].kind = kind /\ req'[r].pc = Await
      /\ Await \in {"waiting", "local"} /\ (Await = "local" <=> backend = "mock")
  BY DEF Begin, Await, TypeOK
<1>7. req'[r].pc \notin {"answered", "lost", "late"} /\ Served(r)'
  BY <1>6 DEF Served
<1> QED BY <1>1, <1>2, <1>3, <1>4, <1>5, <1>6, <1>7, <1>8 DEF UnderWay

\* A fault noted in the history of a request.
LEMMA FaultPast ==
    ASSUME TypeOK, NEW r \in Requests, past' = [past EXCEPT ![r].fault = TRUE]
    PROVE  /\ past' \in [Requests -> PastType]
           /\ past'[r].fault
           /\ past'[r].redisUp = past[r].redisUp /\ past'[r].modelUp = past[r].modelUp
<1>1. past \in [Requests -> PastType]
  BY DEF TypeOK, PastType
<1>2. [past[r] EXCEPT !.fault = TRUE] \in PastType
  BY <1>1 DEF PastType
<1>3. past' = [past EXCEPT ![r] = [past[r] EXCEPT !.fault = TRUE]]
  OBVIOUS
<1>4. past'[r] = [past[r] EXCEPT !.fault = TRUE]
  BY <1>1, <1>3
<1>5. past' \in [Requests -> PastType]
  BY <1>1, <1>2, <1>3
<1>6. past'[r].fault = TRUE
  BY <1>1, <1>4 DEF PastType
<1> QED BY <1>1, <1>4, <1>5, <1>6 DEF PastType

\* No request has begun.
LEMMA ServiceInitially == Init => SInv
<1> SUFFICES ASSUME Init PROVE SInv
  OBVIOUS
<1>1. TypeOK
  <2>1. Unseen \in PastType
    <3>1. FALSE \in BOOLEAN /\ 0 \in Int
      OBVIOUS
    <3> QED BY <3>1, PastRecord, Zenon DEF Unseen
  <2>2. NewRequest \in RequestType
    BY DEF NewRequest, RequestType
  <2>3. metrics \in [Counter -> Nat]
    BY DEF Init
  <2> QED BY <2>1, <2>2, <2>3, ServiceAssumption DEF Init, TypeOK, RequestType, PastType
<1>2. \A r \in Requests : req[r].pc = "new" /\ req[r].kind = "none"
  BY DEF Init, NewRequest
<1> QED BY <1>1, <1>2 DEF Init, SInv, Worker, InFlight, Served, Untouched, OutageIsReported, NoNeedlessRefusal,
                          LegacyFresh, Answered

LEMMA BumpType ==
    ASSUME TypeOK, NEW ms
    PROVE  Bump(ms) \in [Counter -> Nat]
BY DEF TypeOK, Bump

\* What happens around the requests keeps the types.
LEMMA WorldTypes == TypeOK /\ WorldStep => TypeOK'
<1> SUFFICES ASSUME TypeOK, WorldStep PROVE TypeOK'
  OBVIOUS
<1> USE ServiceAssumption DEF TypeOK
<1>1. CASE StartUp
  BY <1>1 DEF StartUp
<1>2. CASE Drain
  BY <1>2 DEF Drain
<1>3. CASE ShutDown
  BY <1>3 DEF ShutDown
<1>4. CASE Change
  <2>1. \A r \in Requests : past'[r] \in PastType
    BY <1>4, ChangedPast
  <2>2. past' = [r \in Requests |-> past'[r]]
    BY <1>4 DEF Change
  <2>3. past' \in [Requests -> PastType]
    BY <2>1, <2>2
  <2>4. /\ backend' = backend /\ phase' = phase /\ client' = client /\ now' = now
        /\ key' = key /\ expiry' = expiry /\ req' = req /\ metrics' = metrics
    BY <1>4 DEF Change
  <2>5. redis' \in BOOLEAN /\ model' \in BOOLEAN
    BY <1>4 DEF Change
  <2> QED BY <2>3, <2>4, <2>5 DEF PastType
<1>5. CASE Tick
  BY <1>5 DEF Tick
<1>6. CASE Seed
  BY <1>6 DEF Seed
<1>7. CASE ForeignWrite
  BY <1>7 DEF ForeignWrite
<1> QED BY <1>1, <1>2, <1>3, <1>4, <1>5, <1>6, <1>7 DEF WorldStep

\* Begin and End leave a request of its type.
LEMMA RequestTypes ==
    ASSUME SInv, NEW r \in Requests, RequestStep(r)
    PROVE  TypeOK'
<1> USE ServiceAssumption, BumpType DEF SInv, TypeOK, world
<1>1. CASE Probe(r)
  <2>1. PICK to \in {"waiting", "local", "done"}, st \in {0, 503} : Begin(r, "probe", to, st)
    BY <1>1 DEF Probe, Await
  <2>2. past' \in [Requests -> PastType]
    BY <2>1, NewPast
  <2> QED BY <1>1, <2>1, <2>2 DEF Probe, Begin, PastType
<1>2. CASE Score(r)
  <2>1. PICK to \in {"waiting", "local"} : Begin(r, "score", to, 0)
    BY <1>2 DEF Score, Await
  <2>2. past' \in [Requests -> PastType]
    BY <2>1, NewPast
  <2> QED BY <1>2, <2>1, <2>2 DEF Score, Begin, PastType
<1>3. CASE Answer(r) \/ Arrive(r) \/ Leave(r)
  BY <1>3 DEF Answer, Arrive, Leave, Reach
<1>4. CASE Lose(r)
  <2>1. past' \in [Requests -> PastType]
    BY <1>4, FaultPast DEF Lose
  <2> QED BY <1>4, <2>1 DEF Lose, Reach, PastType
<1>5. CASE Deadline(r)
  <2>1. past' \in [Requests -> PastType]
    BY <1>5, FaultPast DEF Deadline
  <2> QED BY <1>5, <2>1 DEF Deadline, Reach, PastType
<1>6. CASE ProbeEnds(r)
  BY <1>6 DEF ProbeEnds, End, Reach
<1>7. CASE FeaturesRefused(r)
  BY <1>7 DEF FeaturesRefused, End, Reach
<1>8. CASE ModelRefused(r)
  <2>1. past' \in [Requests -> PastType]
    BY <1>8, FaultPast DEF ModelRefused
  <2> QED BY <1>8, <2>1 DEF ModelRefused, End, Reach, PastType
<1>9. CASE Decided(r)
  <2>1. req[r].pc # "local" => now - req[r].reply \in Int
    BY <1>9 DEF Decided, Usable
  <2> QED BY <1>9, <2>1 DEF Decided, End, Reach
<1> QED BY <1>1, <1>2, <1>3, <1>4, <1>5, <1>6, <1>7, <1>8, <1>9 DEF RequestStep, Resume

---------------------------------------------------------------------------
\* The world goes on while requests wait: what it does is noted in their past.
LEMMA WorldKeeps == SInv /\ WorldStep => SInv'
<1> SUFFICES ASSUME SInv, WorldStep PROVE SInv'
  OBVIOUS
<1>0. TypeOK'
  BY WorldTypes DEF SInv
<1> USE ServiceAssumption
    DEF SInv, Worker, Untouched, OutageIsReported, NoNeedlessRefusal, LegacyFresh, Answered
<1>1. ASSUME UNCHANGED <<backend, redis, model, req, past>>
      PROVE  /\ \A r \in Requests : InFlight(r)' = InFlight(r) /\ Served(r)' = Served(r)
             /\ \A r \in Requests : Served(r)' => UnderWay(r)'
             /\ Untouched' /\ OutageIsReported' /\ NoNeedlessRefusal' /\ LegacyFresh'
  BY <1>1 DEF InFlight, Served, UnderWay, Broken
<1>2. CASE UNCHANGED <<backend, redis, model, req, past, phase, client>>
  BY <1>0, <1>1, <1>2
<1>3. CASE StartUp
  BY <1>0, <1>1, <1>3 DEF StartUp, TypeOK
<1>4. CASE Drain
  BY <1>0, <1>1, <1>4 DEF Drain
<1>5. CASE ShutDown
  BY <1>0, <1>1, <1>5 DEF ShutDown
<1>6. CASE Change
  <2>1. UNCHANGED <<backend, phase, client, req>>
    BY <1>6 DEF Change
  <2>2. \A r \in Requests : InFlight(r)' = InFlight(r) /\ Served(r)' = Served(r)
    BY <2>1 DEF InFlight, Served
  <2>3. ASSUME NEW r \in Requests, Served(r) PROVE UnderWay(r)'
    <3>1. /\ past'[r].redisUp <=> past[r].redisUp \/ redis'
          /\ past'[r].modelUp <=> past[r].modelUp \/ model'
          /\ past'[r].fault <=> past[r].fault \/ Broken(redis', model')
      BY <1>6, <2>3, ChangedPast
    <3>2. UnderWay(r)
      BY <2>3
    <3> QED BY <2>1, <3>1, <3>2, Zenon DEF UnderWay, Broken
  <2>4. ASSUME NEW r \in Requests, req[r].pc = "done" PROVE past'[r] = past[r]
    BY <1>6, <2>4, ChangedPast DEF Served
  <2>5. Worker'
    BY <2>1, <2>2
  <2>6. Untouched' /\ OutageIsReported' /\ NoNeedlessRefusal' /\ LegacyFresh'
    BY <2>1, <2>4
  <2> QED BY <1>0, <2>2, <2>3, <2>5, <2>6
<1>7. CASE Tick \/ Seed \/ ForeignWrite
  BY <1>2, <1>7 DEF Tick, Seed, ForeignWrite
<1> QED BY <1>3, <1>4, <1>5, <1>6, <1>7 DEF WorldStep

\* A request's step leaves the others' records alone, and the world.
LEMMA OthersKeep ==
    ASSUME SInv, NEW r \in Requests, RequestStep(r)
    PROVE  /\ UNCHANGED world
           /\ req'[r].pc \in {"new", "body"} => req'[r].kind = "none"
           /\ \A q \in Requests : q # r => req'[q] = req[q] /\ past'[q] = past[q]
<1> USE DEF SInv, TypeOK, Untouched, world
<1> QED
  BY DEF RequestStep, Resume, Arrive, Leave, Probe, Score, Begin, Answer, Lose, Deadline, ProbeEnds,
         FeaturesRefused, ModelRefused, Decided, End, Reach, Await

\* What one step does to the request that takes it.
LEMMA OwnStep ==
    ASSUME SInv, NEW r \in Requests, RequestStep(r)
    PROVE  /\ InFlight(r)' => phase \in {"serving", "draining"}
           /\ Served(r)' => UnderWay(r)'
           /\ Answered(r, 200)' =>
                 /\ past'[r].modelUp
                 /\ backend # "mock" => past'[r].redisUp
                 /\ backend = "redis" /\ req'[r].kind = "score" => past'[r].age \in 0 .. MaxAge
           /\ Answered(r, 503)' =>
                 /\ req'[r].kind = "probe" => past'[r].fault
                 /\ req'[r].kind = "score" /\ backend = "mock" => past'[r].fault
<1> USE ServiceAssumption DEF SInv, Worker, TypeOK, InFlight, Served, Answered, world
<1>1. CASE Probe(r)
  <2>1. CASE model
    <3>1. Begin(r, "probe", Await, 0)
      BY <1>1, <2>1 DEF Probe
    <3>2. UnderWay(r)' /\ Served(r)' /\ phase \in {"serving", "draining"}
      BY <2>1, <3>1, Begun
    <3> QED BY <3>2
  <2>2. CASE ~model
    <3>1. Begin(r, "probe", "done", 503)
      BY <1>1, <2>2 DEF Probe
    <3>2. past'[r].fault
      BY <2>2, <3>1, NewPast DEF Broken
    <3> QED BY <3>1, <3>2 DEF Begin
  <2> QED BY <2>1, <2>2
<1>2. CASE Score(r)
  <2>1. Begin(r, "score", Await, 0)
    BY <1>2 DEF Score
  <2>2. UnderWay(r)' /\ Served(r)' /\ phase \in {"serving", "draining"}
    BY <2>1, Begun
  <2> QED BY <2>2
<1>3. CASE Answer(r)
  BY <1>3 DEF Answer, Reach, UnderWay, Broken
<1>4. CASE Lose(r)
  BY <1>4 DEF Lose, Reach, UnderWay, Broken
<1>10. CASE Arrive(r) \/ Leave(r)
  BY <1>10 DEF Arrive, Leave, Reach
<1>5. CASE Deadline(r)
  BY <1>5 DEF Deadline, Reach, UnderWay
<1>6. CASE ProbeEnds(r)
  BY <1>6 DEF ProbeEnds, End, Reach, UnderWay
<1>7. CASE FeaturesRefused(r)
  BY <1>7 DEF FeaturesRefused, End, Reach, UnderWay, Usable
<1>8. CASE ModelRefused(r)
  BY <1>8 DEF ModelRefused, End, Reach, UnderWay, Usable
<1>9. CASE Decided(r)
  <2> DEFINE age == IF req[r].pc = "local" THEN 0 ELSE now - req[r].reply
  <2>1. UnderWay(r) /\ model /\ Usable(r) /\ req[r].kind = "score"
    BY <1>9 DEF Decided, Usable
  <2>2. req'[r].pc = "done" /\ req'[r].status = 200 /\ req'[r].kind = "score"
    BY <1>9 DEF Decided, End, Reach
  <2>3. backend = "redis" => age \in 0 .. MaxAge
    BY <2>1 DEF Usable
  <2> HIDE DEF age
  <2>4. /\ past'[r].age = age
        /\ past'[r].modelUp = past[r].modelUp /\ past'[r].redisUp = past[r].redisUp
    BY <1>9 DEF Decided, age
  <2>5. past[r].modelUp /\ (backend # "mock" => past[r].redisUp)
    BY <2>1 DEF UnderWay, Usable
  <2> QED BY <2>2, <2>3, <2>4, <2>5
<1> QED BY <1>1, <1>2, <1>3, <1>4, <1>5, <1>6, <1>7, <1>8, <1>9, <1>10 DEF RequestStep, Resume

LEMMA RequestKeeps ==
    ASSUME SInv, NEW r \in Requests, RequestStep(r)
    PROVE  SInv'
<1>1. TypeOK'
  BY RequestTypes
<1>2. UNCHANGED <<backend, phase, client, redis, model, now>>
  BY OthersKeep DEF world
<1>3. \A q \in Requests : q # r => req'[q] = req[q] /\ past'[q] = past[q]
  BY OthersKeep
<1>4. Worker'
  BY <1>2, <1>3, OwnStep DEF SInv, Worker, InFlight, Served
<1>5. \A q \in Requests : Served(q)' => UnderWay(q)'
  <2> TAKE q \in Requests
  <2>1. CASE q = r
    BY <2>1, OwnStep
  <2>2. CASE q # r
    BY <1>2, <1>3, <2>2 DEF SInv, Served, UnderWay, Broken
  <2> QED BY <2>1, <2>2
<1>6. Untouched' /\ OutageIsReported' /\ NoNeedlessRefusal' /\ LegacyFresh'
  BY <1>2, <1>3, OthersKeep, OwnStep
     DEF SInv, Untouched, OutageIsReported, NoNeedlessRefusal, LegacyFresh, Answered
<1> QED BY <1>1, <1>4, <1>5, <1>6 DEF SInv

\* The inductive invariant of the worker.
THEOREM ServiceInvariant == Spec => []SInv
<1>1. SInv /\ [Next]_vars => SInv'
  <2> SUFFICES ASSUME SInv, [Next]_vars PROVE SInv'
    OBVIOUS
  <2>1. CASE WorldStep
    BY <2>1, WorldKeeps
  <2>2. ASSUME NEW r \in Requests, RequestStep(r) PROVE SInv'
    BY <2>2, RequestKeeps
  <2>3. CASE UNCHANGED vars
    <3>1. UNCHANGED <<backend, phase, client, redis, model, now, key, expiry, req, metrics, past>>
      BY <2>3 DEF vars
    <3>2. TypeOK' /\ Worker' /\ \A r \in Requests : Served(r)' => UnderWay(r)'
      BY <3>1 DEF SInv, TypeOK, Worker, InFlight, Served, UnderWay, Broken
    <3>3. Untouched' /\ OutageIsReported' /\ NoNeedlessRefusal' /\ LegacyFresh'
      BY <3>1 DEF SInv, Untouched, OutageIsReported, NoNeedlessRefusal, LegacyFresh, Answered
    <3> QED BY <3>2, <3>3 DEF SInv
  <2> QED BY <2>1, <2>2, <2>3 DEF Next, WorldStep, RequestStep
<1> QED BY ServiceInitially, <1>1, PTL DEF Spec

\* The types of the worker, its requests and its counters.
THEOREM ServiceTypes == Spec => []TypeOK
<1>1. SInv => TypeOK
  BY DEF SInv
<1> QED BY <1>1, ServiceInvariant, PTL

\* No probe and no score succeeds while what it needs is down throughout.
THEOREM OutagesAreReported == Spec => []OutageIsReported
<1>1. SInv => OutageIsReported
  BY DEF SInv
<1> QED BY <1>1, ServiceInvariant, PTL

\* No probe fails, and no score under "mock" does, for no reason.
THEOREM RefusalsHaveReasons == Spec => []NoNeedlessRefusal
<1>1. SInv => NoNeedlessRefusal
  BY DEF SInv
<1> QED BY <1>1, ServiceInvariant, PTL

\* The legacy adapter's decisions rest on fresh snapshots.
THEOREM LegacyDecisionsAreFresh == Spec => []LegacyFresh
<1>1. SInv => LegacyFresh
  BY DEF SInv
<1> QED BY <1>1, ServiceInvariant, PTL

\* A worker that has stopped, or never started, leaves nothing open.
THEOREM StopsAreClean == Spec => []CleanStop
<1>1. SInv => CleanStop
  BY DEF SInv, Worker, CleanStop
<1> QED BY <1>1, ServiceInvariant, PTL

---------------------------------------------------------------------------
LEMMA Bumped ==
    ASSUME NEW m \in Counter, NEW ms
    PROVE  Bump(ms)[m] = metrics[m] + IF m \in ms THEN 1 ELSE 0
BY DEF Bump

\* A step that adds k to its tally and moves r to that outcome closes a call.
LEMMA CloseBy ==
    ASSUME NEW r \in Requests, NEW k \in Contract!Outcome,
           Status[r] = "open",
           \A q \in Requests : Status'[q] = IF q = r THEN k ELSE Status[q],
           \A j \in {"open", "decision", "unavailable"} :
               Tally'[j] = IF j = k THEN Tally[j] + 1 ELSE Tally[j]
    PROVE  Contract!Close(r, k)
<1>1. /\ Status = [q \in Requests |-> Status[q]] /\ Status' = [q \in Requests |-> Status'[q]]
      /\ Tally = [j \in {"decision", "unavailable", "open"} |-> Tally[j]]
      /\ Tally' = [j \in {"decision", "unavailable", "open"} |-> Tally'[j]]
  BY DEF Status, Tally
<1> QED BY <1>1 DEF Contract!Close, Contract!Outcome

LEMMA ContractStep ==
    ASSUME SInv, NEW r \in Requests, RequestStep(r)
    PROVE  Contract!Next \/ UNCHANGED Contract!contractVars
<1>0. \A q \in Requests : q # r => Status'[q] = Status[q]
  BY OthersKeep DEF Status
<1>00. metrics \in [Counter -> Nat] /\ TypeOK
  BY DEF SInv, TypeOK
<1> USE DEF Contract!contractVars, Contract!Outcome
<1>1. ASSUME Status'[r] = Status[r], UNCHANGED metrics PROVE UNCHANGED Contract!contractVars
  <2>1. Status' = Status
    BY <1>0, <1>1 DEF Status
  <2>2. Tally' = Tally
    BY <1>1 DEF Tally
  <2> QED BY <2>1, <2>2
<1>2. CASE Probe(r)
  <2>1. Status[r] = "new"
    BY <1>2 DEF Probe, Begin, Status, SInv, Untouched
  <2>2. Status'[r] = "new" /\ UNCHANGED metrics
    BY <1>2, <1>00 DEF Probe, Begin, Status, TypeOK
  <2> QED BY <1>1, <2>1, <2>2
<1>3. CASE Score(r)
  <2>1. Status[r] = "new"
    BY <1>3 DEF Score, Begin, Status, SInv, Untouched
  <2>2. Status'[r] = "open"
    BY <1>3, <1>00 DEF Score, Begin, Status, TypeOK, Await
  <2>3. \A j \in {"open", "decision", "unavailable"} :
           Tally'[j] = IF j = "open" THEN Tally[j] + 1 ELSE Tally[j]
    BY <1>3, <1>00, Bumped DEF Score, Tally, Counter
  <2>4. /\ Status = [q \in Requests |-> Status[q]] /\ Status' = [q \in Requests |-> Status'[q]]
        /\ Tally = [j \in {"decision", "unavailable", "open"} |-> Tally[j]]
        /\ Tally' = [j \in {"decision", "unavailable", "open"} |-> Tally'[j]]
    BY DEF Status, Tally
  <2>5. Contract!Accept(r)
    BY <1>0, <2>1, <2>2, <2>3, <2>4 DEF Contract!Accept
  <2> QED BY <2>5 DEF Contract!Next
<1>4. CASE Answer(r) \/ Lose(r) \/ Deadline(r) \/ Arrive(r) \/ Leave(r)
  <2>1. Status'[r] = Status[r] /\ UNCHANGED metrics
    BY <1>4, <1>00 DEF Answer, Lose, Deadline, Arrive, Leave, Reach, Status, TypeOK,
                       SInv, Untouched
  <2> QED BY <1>1, <2>1
<1>5. CASE ProbeEnds(r)
  <2>1. Status'[r] = Status[r] /\ UNCHANGED metrics
    BY <1>5, <1>00 DEF ProbeEnds, End, Reach, Status, TypeOK
  <2> QED BY <1>1, <2>1
<1>6. CASE FeaturesRefused(r) \/ ModelRefused(r)
  <2>1. Status[r] = "open"
    BY <1>6 DEF FeaturesRefused, ModelRefused, Usable, Status
  <2>2. Status'[r] = "unavailable"
    BY <1>6, <1>00 DEF FeaturesRefused, ModelRefused, End, Reach, Status, TypeOK
  <2>3. PICK ms \in {{"feature_errors"}, {"model_errors"}} : metrics' = Bump(ms)
    BY <1>6 DEF FeaturesRefused, ModelRefused
  <2>4. \A j \in {"open", "decision", "unavailable"} :
           Tally'[j] = IF j = "unavailable" THEN Tally[j] + 1 ELSE Tally[j]
    BY <2>3, <1>00, Bumped DEF Tally, Counter
  <2>5. Contract!Close(r, "unavailable")
    BY <1>0, <2>1, <2>2, <2>4, CloseBy
  <2> QED BY <2>5 DEF Contract!Next
<1>7. CASE Decided(r)
  <2>1. Status[r] = "open"
    BY <1>7 DEF Decided, Usable, Status
  <2>2. Status'[r] = "decision"
    BY <1>7, <1>00 DEF Decided, End, Reach, Status, TypeOK
  <2>3. \A j \in {"open", "decision", "unavailable"} :
           Tally'[j] = IF j = "decision" THEN Tally[j] + 1 ELSE Tally[j]
    BY <1>7, <1>00, Bumped DEF Decided, Tally, Counter
  <2>4. Contract!Close(r, "decision")
    BY <1>0, <2>1, <2>2, <2>3, CloseBy
  <2> QED BY <2>4 DEF Contract!Next
<1> QED BY <1>2, <1>3, <1>4, <1>5, <1>6, <1>7 DEF RequestStep, Resume

\* Whichever backend is selected, score() implements the safety part of its
\* contract; that every call ends is checked by TLC.
THEOREM BackendsKeepContract ==
    Spec => Contract!Init /\ [][Contract!Next]_(Contract!contractVars)
<1>1. Init => Contract!Init
  BY DEF Init, NewRequest, Contract!Init, Contract!Outcome, Status, Tally, Counter
<1>2. SInv /\ [Next]_vars => [Contract!Next]_(Contract!contractVars)
  <2> SUFFICES ASSUME SInv, [Next]_vars PROVE [Contract!Next]_(Contract!contractVars)
    OBVIOUS
  <2>1. ASSUME UNCHANGED <<req, metrics>> PROVE UNCHANGED Contract!contractVars
    BY <2>1 DEF Contract!contractVars, Status, Tally
  <2>2. CASE WorldStep
    BY <2>1, <2>2 DEF WorldStep, StartUp, Drain, ShutDown, Change, Tick, Seed, ForeignWrite
  <2>3. ASSUME NEW r \in Requests, RequestStep(r) PROVE [Contract!Next]_(Contract!contractVars)
    BY <2>3, ContractStep
  <2>4. CASE UNCHANGED vars
    BY <2>1, <2>4 DEF vars
  <2> QED BY <2>2, <2>3, <2>4 DEF Next, WorldStep, RequestStep
<1> QED BY <1>1, <1>2, ServiceInvariant, PTL DEF Spec
=============================================================================
