--------------------------- MODULE ScoringProofs ---------------------------
(***************************************************************************)
(* Proofs about Scoring, for any number of calls, entities and jobs, any   *)
(* TTL and maximum age, any clock and any foreign payloads.                *)
(***************************************************************************)
EXTENDS Scoring, FiniteSetTheorems, TLAPS

---------------------------------------------------------------------------
\* What a job writes is a well-formed snapshot.
LEMMA SnapshotOfType ==
    ASSUME NEW k \in Key, NEW c \in Nat
    PROVE  SnapshotOf(k, c) \in Payload
BY DEF SnapshotOf, Payload, Key, Ids, Side

\* A call asks about keys that exist.
LEMMA KeyOfType ==
    ASSUME NEW r \in Requests, NEW s \in Side
    PROVE  KeyOf(r, s) \in Key
BY FetchAssumption DEF KeyOf, Key, Side

\* Every verdict but "ok" is one of the provider's three counters.
LEMMA VerdictType ==
    ASSUME NEW r \in Requests
    PROVE  FetchVerdict(r) \in FetchCounter \cup {"ok"}
BY DEF FetchVerdict, SideVerdict, Verdict, FetchCounter

\* Whatever the thresholds, a decision is one of the three.
LEMMA DecideType == ASSUME NEW x PROVE Decide(x) \in Decision
BY DEF Decide, Decision

\* Bump keeps the counters natural numbers.
LEMMA BumpType ==
    ASSUME metrics \in [MetricName -> Nat], NEW names, Bump(names)
    PROVE  metrics' \in [MetricName -> Nat]
BY DEF Bump

---------------------------------------------------------------------------
\* Redis, the clock and the jobs keep the keyspace well-formed.
LEMMA StoreType == StoreTypeOK /\ [StoreStep]_storeVars => StoreTypeOK'
<1> SUFFICES ASSUME StoreTypeOK, [StoreStep]_storeVars PROVE StoreTypeOK'
  OBVIOUS
<1> USE StoreAssumption DEF StoreTypeOK, Reply
<1>1. CASE Tick
  BY <1>1 DEF Tick
<1>2. ASSUME NEW b \in Jobs, NEW k \in Key, BackfillSet(b, k) PROVE StoreTypeOK'
  <2>1. SnapshotOf(k, Cutoff[b]) \in Payload
    BY SnapshotOfType
  <2>2. now + TTL \in Nat
    OBVIOUS
  <2> QED BY <1>2, <2>1, <2>2 DEF BackfillSet
<1>3. ASSUME NEW b \in Jobs, BackfillFail(b) PROVE StoreTypeOK'
  BY <1>3 DEF BackfillFail
<1>4. ASSUME NEW k \in Key, NEW p \in ForeignPayloads, ForeignWrite(k, p)
      PROVE  StoreTypeOK'
  BY <1>4 DEF ForeignWrite, Never
<1>5. CASE UNCHANGED storeVars
  BY <1>5 DEF storeVars
<1> QED BY <1>1, <1>2, <1>3, <1>4, <1>5 DEF StoreStep

\* One step of a GET keeps the fetch state well-formed.
LEMMA GetStepType ==
    ASSUME StoreTypeOK, FetchTypeOK, NEW r \in Requests, NEW s \in Side, GetStep(r, s)
    PROVE  FetchTypeOK'
<1> USE DEF FetchTypeOK, GetState
<1>1. CASE Serve(r, s)
  <2>1. store[KeyOf(r, s)] \in Reply
    BY KeyOfType DEF StoreTypeOK
  <2> QED BY <1>1, <2>1 DEF Serve
<1>2. CASE Deliver(r, s)
  BY <1>2 DEF Deliver
<1>3. CASE Fail(r, s)
  BY <1>3 DEF Fail
<1> QED BY <1>1, <1>2, <1>3 DEF GetStep

\* as_of of two parsed snapshots is one of their stamps, and the smaller.
LEMMA AsOfType ==
    ASSUME FetchTypeOK, NEW r \in Requests, \A s \in Side : raw[r][s] \in Payload
    PROVE  /\ AsOf(r) \in Nat
           /\ \A s \in Side : AsOf(r) <= raw[r][s].stamp
           /\ \E s \in Side : AsOf(r) = raw[r][s].stamp
<1>1. /\ raw[r]["customer"].stamp \in Nat
      /\ raw[r]["merchant"].stamp \in Nat
  BY DEF Payload, Side
<1> QED BY <1>1 DEF AsOf, Side

\* What "ok" has established about both replies.
LEMMA FetchOk ==
    ASSUME TypeOK, NEW r \in Requests, GatherDone(r), FetchVerdict(r) = "ok", NEW s \in Side
    PROVE  LET p == raw[r][s]
           IN  /\ get[r][s] = "done"
               /\ p \in Payload /\ p.valid
               /\ p.entity = Txn[r][s] /\ s \in p.features
               /\ p.stamp <= now /\ now <= p.stamp + MaxAge
<1> DEFINE p == raw[r][s]
<1>1. /\ ~GatherFailed(r)
      /\ SideVerdict(r, s) = "ok"
  BY DEF FetchVerdict, Side, SideVerdict, Verdict
<1>2. get[r][s] = "done"
  BY <1>1 DEF GatherDone
<1>3. /\ p # NoSnapshot /\ p.valid /\ p.entity = Txn[r][s]
      /\ Fresh(p) /\ s \in p.features
  BY <1>1 DEF SideVerdict, Verdict
<1>4. p \in Payload
  BY <1>3 DEF TypeOK, FetchTypeOK, Reply
<1>5. p.stamp \in Nat /\ now \in Nat /\ MaxAge \in Nat
  BY <1>4, FetchAssumption, StoreAssumption DEF TypeOK, StoreTypeOK, Payload
<1>6. p.stamp <= now /\ now <= p.stamp + MaxAge
  BY <1>3, <1>5 DEF Fresh, Age
<1> QED BY <1>2, <1>3, <1>4, <1>6

---------------------------------------------------------------------------
\* The service's steps leave the keyspace alone and keep its own state
\* well-formed.
LEMMA ServiceType ==
    ASSUME TypeOK, NEW r \in Requests, Score(r) \/ DeadlineFires(r) \/ Resume(r)
    PROVE  TypeOK'
<1> USE DEF TypeOK
<1>0. UNCHANGED storeVars => StoreTypeOK'
  BY DEF storeVars, StoreTypeOK
<1>1. CASE Score(r)
  <2>1. FetchTypeOK'
    BY <1>1 DEF Score, SendGets, FetchTypeOK, GetState
  <2>2. metrics' \in [MetricName -> Nat]
    BY <1>1, BumpType DEF Score
  <2> QED BY <1>0, <1>1, <2>1, <2>2 DEF Score, Phase
<1>2. CASE DeadlineFires(r)
  <2>1. FetchTypeOK'
    BY <1>2 DEF DeadlineFires, CancelGets, FetchTypeOK, GetState
  <2> QED BY <1>0, <1>2, <2>1 DEF DeadlineFires, Phase
<1>3. CASE Resume(r)
  <2>1. UNCHANGED fetchVars => FetchTypeOK'
    BY DEF fetchVars, FetchTypeOK
  <2>2. CASE TimedOut(r)
    BY <1>0, <2>1, <2>2, BumpType DEF TimedOut, Phase, EndPhase
  <2>3. CASE FeaturesRefused(r)
    BY <1>0, <2>1, <2>3, BumpType DEF FeaturesRefused, Phase, EndPhase
  <2>4. ASSUME NEW m \in ModelAnswers, ModelRefused(r, m) PROVE TypeOK'
    BY <1>0, <2>1, <2>4, BumpType DEF ModelRefused, Phase, EndPhase
  <2>5. ASSUME NEW m \in ModelAnswers, Decided(r, m) PROVE TypeOK'
    <3> DEFINE new == [decision |-> Decide(m.score), risk_score |-> m.score,
                       reasons |-> Reasons(r), as_of |-> AsOf(r), at |-> now]
    <3>1. \A s \in Side : raw[r][s] \in Payload
      BY <2>5, FetchOk DEF Decided, FeaturesReady
    <3>2. AsOf(r) \in Nat /\ now \in Nat
      BY <3>1, AsOfType DEF StoreTypeOK
    <3>3. new \in Result
      BY <2>5, <3>2, DecideType DEF Decided, ValidPrediction, Result, Reasons
    <3>4. metrics' \in [MetricName -> Nat]
      BY <2>5, BumpType DEF Decided
    <3>5. /\ phase' \in [Requests -> Phase]
          /\ result' \in [Requests -> Result \cup {NoResult}]
      BY <2>5, <3>3 DEF Decided, Phase, EndPhase
    <3> QED BY <1>0, <2>1, <2>5, <3>4, <3>5 DEF Decided
  <2> QED BY <1>3, <2>2, <2>3, <2>4, <2>5 DEF Resume
<1> QED BY <1>1, <1>2, <1>3

\* Before the first call, whatever the jobs have to do.
LEMMA TypeInit == Init => TypeOK
<1> SUFFICES ASSUME Init PROVE TypeOK
  OBVIOUS
<1>1. StoreTypeOK
  BY StoreAssumption DEF Init, StoreInit, StoreTypeOK, Reply, SnapshotsBefore
<1>2. FetchTypeOK
  BY DEF Init, FetchInit, FetchTypeOK, GetState, Reply
<1> QED BY <1>1, <1>2 DEF Init, TypeOK, Phase

\* Every step keeps the types.
LEMMA TypeStep == TypeOK /\ [Next]_vars => TypeOK'
<1> SUFFICES ASSUME TypeOK, [Next]_vars PROVE TypeOK'
  OBVIOUS
<1>1. ASSUME NEW r \in Requests, Score(r) \/ DeadlineFires(r) \/ Resume(r)
      PROVE  TypeOK'
  BY <1>1, ServiceType
<1>2. ASSUME NEW r \in Requests, NEW s \in Side, FetchStep(r, s) PROVE TypeOK'
  <2>1. FetchTypeOK'
    <3>1. CASE GetStep(r, s)
      BY <3>1, GetStepType DEF TypeOK
    <3>2. CASE CancelSurvivor(r, s)
      BY <3>2 DEF CancelSurvivor, TypeOK, FetchTypeOK, GetState
    <3> QED BY <1>2, <3>1, <3>2 DEF FetchStep
  <2> QED BY <1>2, <2>1 DEF FetchStep, TypeOK, storeVars, StoreTypeOK
<1>3. CASE WorldStep
  BY <1>3, StoreType DEF WorldStep, TypeOK, fetchVars, FetchTypeOK
<1>4. CASE UNCHANGED vars
  BY <1>4 DEF vars, TypeOK, StoreTypeOK, FetchTypeOK
<1> QED BY <1>1, <1>2, <1>3, <1>4 DEF Next

\* Every variable keeps its type, in every behaviour of the service.
THEOREM TypeCorrect == Spec => []TypeOK
BY TypeInit, TypeStep, PTL DEF Spec

---------------------------------------------------------------------------
\* What a step of one call, of a GET or of the world leaves alone.  A reply
\* that has been read is never replaced, and a failure never undone.
LEMMA ReplyStable ==
    ASSUME TypeOK, NEW r \in Requests, NEW s \in Side, get[r][s] \in {"done", "failed"},
           NEW q \in Requests, NEW t \in Side, FetchStep(q, t)
    PROVE  get'[r][s] = get[r][s] /\ raw'[r][s] = raw[r][s]
BY DEF TypeOK, FetchTypeOK, FetchStep, GetStep, CancelSurvivor, Serve, Deliver, Fail, InFlight

\* FreshDecisions survives every step.
LEMMA FreshStep ==
    ASSUME TypeOK, FreshDecisions, [Next]_vars
    PROVE  FreshDecisions'
<1> DEFINE Sound(r) ==
      LET at == result[r].at
      IN  /\ \A s \in Side :
               LET p == raw[r][s]
               IN  /\ get[r][s] = "done"
                   /\ p \in Payload /\ p.valid
                   /\ p.entity = Txn[r][s] /\ s \in p.features
                   /\ p.stamp <= at /\ at <= p.stamp + MaxAge
                   /\ result[r].as_of <= p.stamp
          /\ \E s \in Side : result[r].as_of = raw[r][s].stamp
<1> SUFFICES ASSUME NEW q \in Requests, phase'[q] = "scored" PROVE Sound(q)'
  BY DEF FreshDecisions
<1>0. ASSUME phase[q] = "scored", result'[q] = result[q],
             \A s \in Side : get'[q][s] = get[q][s] /\ raw'[q][s] = raw[q][s]
      PROVE  Sound(q)'
  <2>1. Sound(q)
    BY <1>0 DEF FreshDecisions
  <2> QED BY <1>0, <2>1
<1> HIDE DEF Sound
<1>1. ASSUME NEW r \in Requests, Score(r) PROVE Sound(q)'
  BY <1>0, <1>1 DEF Score, SendGets, TypeOK, FetchTypeOK
<1>2. ASSUME NEW r \in Requests, DeadlineFires(r) PROVE Sound(q)'
  BY <1>0, <1>2 DEF DeadlineFires, CancelGets, TypeOK, FetchTypeOK
<1>3. ASSUME NEW r \in Requests, TimedOut(r) PROVE Sound(q)'
  BY <1>0, <1>3 DEF TimedOut, fetchVars, TypeOK
<1>4. ASSUME NEW r \in Requests, FeaturesRefused(r) PROVE Sound(q)'
  BY <1>0, <1>4 DEF FeaturesRefused, fetchVars, TypeOK
<1>5. ASSUME NEW r \in Requests, NEW m \in ModelAnswers, ModelRefused(r, m)
      PROVE  Sound(q)'
  BY <1>0, <1>5 DEF ModelRefused, fetchVars, TypeOK
<1>6. ASSUME NEW r \in Requests, NEW m \in ModelAnswers, Decided(r, m)
      PROVE  Sound(q)'
  <2>1. CASE q # r
    BY <1>0, <1>6, <2>1 DEF Decided, fetchVars, TypeOK
  <2>2. CASE q = r
    <3>1. result'[r].at = now /\ result'[r].as_of = AsOf(r)
      BY <1>6 DEF Decided, TypeOK
    <3>2. \A s \in Side :
            LET p == raw[r][s]
            IN  /\ get[r][s] = "done"
                /\ p \in Payload /\ p.valid
                /\ p.entity = Txn[r][s] /\ s \in p.features
                /\ p.stamp <= now /\ now <= p.stamp + MaxAge
      BY <1>6, FetchOk DEF Decided, FeaturesReady
    <3>3. /\ \A s \in Side : AsOf(r) <= raw[r][s].stamp
          /\ \E s \in Side : AsOf(r) = raw[r][s].stamp
      BY <3>2, AsOfType DEF TypeOK
    <3>4. get' = get /\ raw' = raw
      BY <1>6 DEF Decided, fetchVars
    <3> QED BY <2>2, <3>1, <3>2, <3>3, <3>4 DEF Sound
  <2> QED BY <2>1, <2>2
<1>7. ASSUME NEW r \in Requests, NEW s \in Side, FetchStep(r, s) PROVE Sound(q)'
  <2>1. phase[q] = "scored" /\ result' = result
    BY <1>7 DEF FetchStep
  <2>2. \A t \in Side : get[q][t] = "done"
    BY <2>1 DEF FreshDecisions
  <2>3. \A t \in Side : get'[q][t] = get[q][t] /\ raw'[q][t] = raw[q][t]
    BY <1>7, <2>2, ReplyStable
  <2> QED BY <1>0, <2>1, <2>3
<1>8. CASE WorldStep
  BY <1>0, <1>8 DEF WorldStep, fetchVars
<1>9. CASE UNCHANGED vars
  BY <1>0, <1>9 DEF vars
<1> QED BY <1>1, <1>2, <1>3, <1>4, <1>5, <1>6, <1>7, <1>8, <1>9 DEF Next, Resume

\* OrphanHasFailedSibling survives every step.
LEMMA OrphanStep ==
    ASSUME TypeOK, OrphanHasFailedSibling, [Next]_vars
    PROVE  OrphanHasFailedSibling'
<1> SUFFICES ASSUME NEW q \in Requests, NEW u \in Side,
                    InFlight(q, u)', phase'[q] # "fetching"
             PROVE  GatherFailed(q)'
  BY DEF OrphanHasFailedSibling
<1> USE DEF TypeOK, FetchTypeOK, InFlight, GatherFailed
<1>0. ASSUME phase[q] # "fetching", get'[q] = get[q] PROVE GatherFailed(q)'
  BY <1>0 DEF OrphanHasFailedSibling
<1>1. ASSUME NEW r \in Requests, Score(r) PROVE GatherFailed(q)'
  BY <1>0, <1>1 DEF Score, SendGets
<1>2. ASSUME NEW r \in Requests, DeadlineFires(r) PROVE GatherFailed(q)'
  <2>1. CASE q # r
    BY <1>0, <1>2, <2>1 DEF DeadlineFires, CancelGets
  <2>2. CASE q = r
    <3>1. InFlight(r, u) /\ GatherDone(r)
      BY <1>2, <2>2 DEF DeadlineFires, CancelGets
    <3>2. PICK s \in Side : get[r][s] = "failed"
      BY <3>1 DEF GatherDone
    <3> QED BY <1>2, <2>2, <3>2 DEF DeadlineFires, CancelGets
  <2> QED BY <2>1, <2>2
<1>3. ASSUME NEW r \in Requests, TimedOut(r) PROVE GatherFailed(q)'
  BY <1>0, <1>3 DEF TimedOut, fetchVars
<1>4. ASSUME NEW r \in Requests, FeaturesReady(r), UNCHANGED fetchVars,
             phase' = [phase EXCEPT ![r] = phase'[r]]
      PROVE  GatherFailed(q)'
  <2>1. CASE q # r
    BY <1>0, <1>4, <2>1 DEF fetchVars
  <2>2. CASE q = r
    BY <1>4, <2>2 DEF FeaturesReady, GatherDone, fetchVars
  <2> QED BY <2>1, <2>2
<1>5. ASSUME NEW r \in Requests, FeaturesRefused(r) PROVE GatherFailed(q)'
  BY <1>4, <1>5 DEF FeaturesRefused
<1>6. ASSUME NEW r \in Requests, NEW m \in ModelAnswers, ModelRefused(r, m)
      PROVE  GatherFailed(q)'
  BY <1>4, <1>6 DEF ModelRefused
<1>7. ASSUME NEW r \in Requests, NEW m \in ModelAnswers, Decided(r, m)
      PROVE  GatherFailed(q)'
  BY <1>4, <1>7 DEF Decided
<1>8. ASSUME NEW r \in Requests, NEW s \in Side, FetchStep(r, s)
      PROVE  GatherFailed(q)'
  <2>1. phase[q] # "fetching"
    BY <1>8 DEF FetchStep
  <2>2. InFlight(q, u)
    <3>1. CASE GetStep(r, s)
      BY <3>1 DEF GetStep, Serve, Deliver, Fail
    <3>2. CASE CancelSurvivor(r, s)
      BY <3>2 DEF CancelSurvivor
    <3> QED BY <1>8, <3>1, <3>2 DEF FetchStep
  <2>3. PICK t \in Side : get[q][t] = "failed"
    BY <2>1, <2>2 DEF OrphanHasFailedSibling
  <2>4. get'[q][t] = "failed"
    BY <1>8, <2>3, ReplyStable
  <2> QED BY <2>4
<1>9. CASE WorldStep
  BY <1>0, <1>9 DEF WorldStep, fetchVars
<1>10. CASE UNCHANGED vars
  BY <1>0, <1>10 DEF vars
<1> QED BY <1>1, <1>2, <1>3, <1>5, <1>6, <1>7, <1>8, <1>9, <1>10 DEF Next, Resume

---------------------------------------------------------------------------
\* The inductive invariant.
IInv == TypeOK /\ FreshDecisions /\ OrphanHasFailedSibling

\* Through every step of calls, GETs, Redis and jobs: what is scored was fresh, and
\* only failed siblings leave orphans (ScoringService.score, get_features).
THEOREM Inductive == Spec => []IInv
<1>1. Init => IInv
  BY TypeInit DEF Init, FetchInit, IInv, FreshDecisions, OrphanHasFailedSibling, InFlight
<1>2. IInv /\ [Next]_vars => IInv'
  BY TypeStep, FreshStep, OrphanStep DEF IInv
<1> QED BY <1>1, <1>2, PTL DEF Spec

\* No interleaving of calls, replies, writers, expiry and deadlines makes
\* score() decide on evidence that is missing, malformed, somebody else's,
\* stale or future-dated.
THEOREM DecisionsAreFresh == Spec => []FreshDecisions
BY Inductive, PTL DEF IInv

\* The only GETs that outlive their call are survivors of a failed gather.
THEOREM OrphansAreSurvivors == Spec => []OrphanHasFailedSibling
BY Inductive, PTL DEF IInv

\* Every verdict is the policy's, on the score that was recorded with it.
DecidedByPolicy ==
    \A r \in Requests : phase[r] = "scored" =>
        /\ result[r].risk_score \in 0 .. Scale
        /\ result[r].decision = Decide(result[r].risk_score)

\* Only a call that decides is given a verdict, and by the policy.
LEMMA PolicyStep ==
    ASSUME TypeOK, DecidedByPolicy, [Next]_vars
    PROVE  DecidedByPolicy'
<1> USE DEF TypeOK, DecidedByPolicy
<1>1. ASSUME NEW r \in Requests, Score(r) PROVE DecidedByPolicy'
  BY <1>1 DEF Score
<1>2. ASSUME NEW r \in Requests, DeadlineFires(r) PROVE DecidedByPolicy'
  BY <1>2 DEF DeadlineFires
<1>3. ASSUME NEW r \in Requests, TimedOut(r) PROVE DecidedByPolicy'
  BY <1>3 DEF TimedOut
<1>4. ASSUME NEW r \in Requests, FeaturesRefused(r) PROVE DecidedByPolicy'
  BY <1>4 DEF FeaturesRefused
<1>5. ASSUME NEW r \in Requests, NEW m \in ModelAnswers, ModelRefused(r, m)
      PROVE  DecidedByPolicy'
  BY <1>5 DEF ModelRefused
<1>6. ASSUME NEW r \in Requests, NEW m \in ModelAnswers, Decided(r, m)
      PROVE  DecidedByPolicy'
  <2>1. /\ result'[r].risk_score = m.score
        /\ result'[r].decision = Decide(m.score)
        /\ m.score \in 0 .. Scale
    BY <1>6 DEF Decided, ValidPrediction
  <2>2. \A q \in Requests \ {r} : result'[q] = result[q] /\ phase'[q] = phase[q]
    BY <1>6 DEF Decided
  <2> QED BY <2>1, <2>2
<1>7. ASSUME NEW r \in Requests, NEW s \in Side, FetchStep(r, s) PROVE DecidedByPolicy'
  BY <1>7 DEF FetchStep
<1>8. CASE WorldStep
  BY <1>8 DEF WorldStep
<1>9. CASE UNCHANGED vars
  BY <1>9 DEF vars
<1> QED BY <1>1, <1>2, <1>3, <1>4, <1>5, <1>6, <1>7, <1>8, <1>9 DEF Next, Resume

\* For every legal pair of thresholds a higher score is never treated more
\* leniently, in whatever calls the two scores turned up.
THEOREM HigherScoresAreNeverMilder == Spec => []DecisionsMonotone
<1>1. Init => DecidedByPolicy
  BY DEF Init, DecidedByPolicy
<1>2. DecidedByPolicy => DecisionsMonotone
  BY ScoringAssumption DEF DecidedByPolicy, DecisionsMonotone, Decide, Severity
<1> QED BY <1>1, <1>2, PolicyStep, TypeCorrect, PTL DEF Spec

\* A call that has ended stays as it ended, and is counted no more.
THEOREM OutcomesAreFinal == Spec => OutcomeFinal
<1> DEFINE Final ==
      /\ \A r \in Requests : Ended(r) => phase'[r] = phase[r] /\ result'[r] = result[r]
      /\ metrics' # metrics => \E r \in Requests : phase'[r] # phase[r]
<1>1. TypeOK /\ [Next]_vars => [Final]_vars
  <2> SUFFICES ASSUME TypeOK, Next PROVE Final
    OBVIOUS
  <2> USE DEF TypeOK, Ended, EndPhase
  <2>1. ASSUME NEW r \in Requests, Score(r) PROVE Final
    BY <2>1 DEF Score
  <2>2. ASSUME NEW r \in Requests, DeadlineFires(r) PROVE Final
    BY <2>2 DEF DeadlineFires
  <2>3. ASSUME NEW r \in Requests, TimedOut(r) PROVE Final
    BY <2>3 DEF TimedOut
  <2>4. ASSUME NEW r \in Requests, FeaturesRefused(r) PROVE Final
    BY <2>4 DEF FeaturesRefused, FeaturesReady
  <2>5. ASSUME NEW r \in Requests, NEW m \in ModelAnswers, ModelRefused(r, m) PROVE Final
    BY <2>5 DEF ModelRefused, FeaturesReady
  <2>6. ASSUME NEW r \in Requests, NEW m \in ModelAnswers, Decided(r, m) PROVE Final
    BY <2>6 DEF Decided, FeaturesReady
  <2>7. ASSUME NEW r \in Requests, NEW s \in Side, FetchStep(r, s) PROVE Final
    BY <2>7 DEF FetchStep
  <2>8. CASE WorldStep
    BY <2>8 DEF WorldStep
  <2>9. CASE UNCHANGED vars
    BY <2>9 DEF vars
  <2> QED BY <2>1, <2>2, <2>3, <2>4, <2>5, <2>6, <2>7, <2>8, <2>9 DEF Next, Resume
<1> QED BY <1>1, TypeCorrect, PTL DEF Spec, OutcomeFinal

---------------------------------------------------------------------------
\* A call that leaves the phases outside P for one in P is one more in P.
LEMMA CountJoin ==
    ASSUME TypeOK, NEW r \in Requests, NEW p, phase' = [phase EXCEPT ![r] = p],
           NEW P, phase[r] \notin P, p \in P
    PROVE  Count(P)' = Count(P) + 1
<1> DEFINE S == {q \in Requests : phase[q] \in P}
<1>1. IsFiniteSet(S)
  BY FetchAssumption, FS_Subset
<1>2. {q \in Requests : phase'[q] \in P} = S \cup {r}
  BY DEF TypeOK
<1>3. Cardinality(S \cup {r}) = Cardinality(S) + 1
  BY <1>1, FS_AddElement
<1> QED BY <1>2, <1>3 DEF Count

\* A call that moves within P, or outside it, leaves its size as it was.
LEMMA CountSame ==
    ASSUME TypeOK, NEW r \in Requests, NEW p, phase' = [phase EXCEPT ![r] = p],
           NEW P, phase[r] \in P <=> p \in P
    PROVE  Count(P)' = Count(P)
<1>1. {q \in Requests : phase'[q] \in P} = {q \in Requests : phase[q] \in P}
  BY DEF TypeOK
<1> QED BY <1>1 DEF Count

\* The calls scored with decision d.
ScoredAs(d) == {r \in Requests : phase[r] = "scored" /\ result[r].decision = d}

\* A call that is not scored adds to no verdict.
LEMMA ScoredSame ==
    ASSUME TypeOK, NEW r \in Requests, NEW p, phase' = [phase EXCEPT ![r] = p],
           phase[r] # "scored", p # "scored", result' = result, NEW d
    PROVE  Cardinality(ScoredAs(d))' = Cardinality(ScoredAs(d))
<1>1. ScoredAs(d)' = ScoredAs(d)
  BY DEF TypeOK, ScoredAs
<1> QED BY <1>1

\* A call that is scored adds to its own verdict.
LEMMA ScoredJoin ==
    ASSUME TypeOK, NEW r \in Requests, NEW m \in ModelAnswers, Decided(r, m), NEW d
    PROVE  Cardinality(ScoredAs(d))' =
             IF d = Decide(m.score) THEN Cardinality(ScoredAs(d)) + 1
                                    ELSE Cardinality(ScoredAs(d))
<1>1. IsFiniteSet(ScoredAs(d)) /\ r \notin ScoredAs(d)
  BY FetchAssumption, FS_Subset DEF ScoredAs, Decided, FeaturesReady
<1>2. ScoredAs(d)' = IF d = Decide(m.score) THEN ScoredAs(d) \cup {r} ELSE ScoredAs(d)
  BY DEF ScoredAs, Decided, FeaturesReady, TypeOK
<1>3. Cardinality(ScoredAs(d) \cup {r}) = Cardinality(ScoredAs(d)) + 1
  BY <1>1, FS_AddElement
<1> QED BY <1>2, <1>3

\* The counters after a Bump.
LEMMA BumpCounts ==
    ASSUME NEW names, Bump(names), NEW n \in MetricName
    PROVE  metrics'[n] = IF n \in names THEN metrics[n] + 1 ELSE metrics[n]
BY DEF Bump

---------------------------------------------------------------------------
\* The two accounting invariants go through the same steps.
Counted == Accounting /\ FetchAccounting

\* Nothing is counted unless a call moves.
LEMMA CountedUnchanged ==
    ASSUME Counted, UNCHANGED <<phase, result, metrics>>
    PROVE  Counted'
BY DEF Counted, Accounting, FetchAccounting, Count

\* A call that ends unscored is counted under its phase, its cause and its
\* durations, provided it bumps the counters that go with that phase.
LEMMA CountedEnd ==
    ASSUME TypeOK, Counted, NEW r \in Requests,
           phase[r] \in {"fetching", "expired"},
           NEW p \in EndPhase \ {"scored"}, phase' = [phase EXCEPT ![r] = p],
           result' = result,
           NEW cause \in SUBSET FetchCounter, Bump(cause \cup Durations \cup
             (IF p = "model_unavailable" THEN {"model_errors"} ELSE {"feature_errors"})),
           IF p = "feature_unavailable" THEN \E n \in FetchCounter : cause = {n}
                                        ELSE cause = {}
    PROVE  Counted'
<1> DEFINE names == cause \cup Durations \cup
             (IF p = "model_unavailable" THEN {"model_errors"} ELSE {"feature_errors"})
<1>1. \A n \in MetricName : metrics'[n] = IF n \in names THEN metrics[n] + 1 ELSE metrics[n]
  BY BumpCounts
<1>2. \A P : (phase[r] \in P <=> p \in P) => Count(P)' = Count(P)
  BY CountSame
<1>3. \A P : phase[r] \notin P /\ p \in P => Count(P)' = Count(P) + 1
  BY CountJoin
<1>4. \A d \in Decision : Cardinality(ScoredAs(d))' = Cardinality(ScoredAs(d))
  BY ScoredSame DEF EndPhase
<1>5. Count(Phase \ {"idle"})' = Count(Phase \ {"idle"})
  BY <1>2 DEF Phase, EndPhase
<1>6. Count(EndPhase)' = Count(EndPhase) + 1
  BY <1>3 DEF EndPhase
<1>7. Count({"feature_unavailable", "timed_out"})' =
        IF p = "model_unavailable" THEN Count({"feature_unavailable", "timed_out"})
                                   ELSE Count({"feature_unavailable", "timed_out"}) + 1
  BY <1>2, <1>3 DEF EndPhase
<1>8. Count({"model_unavailable"})' =
        IF p = "model_unavailable" THEN Count({"model_unavailable"}) + 1
                                   ELSE Count({"model_unavailable"})
  BY <1>2, <1>3 DEF EndPhase
<1>9. Count({"feature_unavailable"})' =
        IF p = "feature_unavailable" THEN Count({"feature_unavailable"}) + 1
                                     ELSE Count({"feature_unavailable"})
  BY <1>2, <1>3 DEF EndPhase
<1> USE DEF Counted, MetricName, FetchCounter, Decision, Durations
<1>10. Accounting'
  BY <1>1, <1>4, <1>5, <1>6, <1>7, <1>8 DEF Accounting, ScoredAs
<1>11. FetchAccounting'
  <2>1. metrics \in [MetricName -> Nat]
    BY DEF TypeOK
  <2>2. CASE p = "feature_unavailable"
    <3>1. PICK n \in FetchCounter : cause = {n}
      BY <2>2
    <3> QED BY <1>1, <1>9, <2>1, <2>2, <3>1 DEF FetchAccounting
  <2>3. CASE p # "feature_unavailable"
    BY <1>1, <1>9, <2>1, <2>3 DEF FetchAccounting
  <2> QED BY <2>2, <2>3
<1> QED BY <1>10, <1>11

\* A call that ends scored.
LEMMA CountedDecision ==
    ASSUME TypeOK, Counted, NEW r \in Requests, NEW m \in ModelAnswers, Decided(r, m)
    PROVE  Counted'
<1> DEFINE names == {Decide(m.score)} \cup Durations
<1>1. \A n \in MetricName : metrics'[n] = IF n \in names THEN metrics[n] + 1 ELSE metrics[n]
  BY BumpCounts DEF Decided
<1>2. phase[r] = "fetching" /\ phase' = [phase EXCEPT ![r] = "scored"]
  BY DEF Decided, FeaturesReady
<1>3. \A P : (phase[r] \in P <=> "scored" \in P) => Count(P)' = Count(P)
  BY <1>2, CountSame
<1>4. Count(EndPhase)' = Count(EndPhase) + 1
  BY <1>2, CountJoin DEF EndPhase
<1>5. /\ Count(Phase \ {"idle"})' = Count(Phase \ {"idle"})
      /\ Count({"feature_unavailable", "timed_out"})' = Count({"feature_unavailable", "timed_out"})
      /\ Count({"model_unavailable"})' = Count({"model_unavailable"})
      /\ Count({"feature_unavailable"})' = Count({"feature_unavailable"})
  BY <1>2, <1>3 DEF Phase, EndPhase
<1>6. \A d \in Decision : Cardinality(ScoredAs(d))' =
             IF d = Decide(m.score) THEN Cardinality(ScoredAs(d)) + 1
                                    ELSE Cardinality(ScoredAs(d))
  BY ScoredJoin
<1>7. Decide(m.score) \in Decision
  BY DecideType
<1> USE DEF Counted, MetricName, FetchCounter, Decision, Durations
<1>8. Accounting'
  BY <1>1, <1>4, <1>5, <1>6, <1>7 DEF Accounting, ScoredAs
<1>9. FetchAccounting'
  BY <1>1, <1>5, <1>7 DEF FetchAccounting
<1> QED BY <1>8, <1>9

\* Action by action: which call moves, and what it bumps.
LEMMA CountedStep == TypeOK /\ Counted /\ [Next]_vars => Counted'
<1> SUFFICES ASSUME TypeOK, Counted, [Next]_vars PROVE Counted'
  OBVIOUS
<1>1. ASSUME NEW r \in Requests, Score(r) PROVE Counted'
  <2>1. \A n \in MetricName :
          metrics'[n] = IF n = "scoring_requests" THEN metrics[n] + 1 ELSE metrics[n]
    BY <1>1, BumpCounts DEF Score
  <2>2. phase[r] = "idle" /\ phase' = [phase EXCEPT ![r] = "fetching"] /\ result' = result
    BY <1>1 DEF Score
  <2>10. \A P : phase[r] \notin P /\ "fetching" \in P => Count(P)' = Count(P) + 1
    BY <2>2, CountJoin
  <2>11. \A P : (phase[r] \in P <=> "fetching" \in P) => Count(P)' = Count(P)
    BY <2>2, CountSame
  <2>3. Count(Phase \ {"idle"})' = Count(Phase \ {"idle"}) + 1
    BY <2>2, <2>10 DEF Phase
  <2>4. /\ Count(EndPhase)' = Count(EndPhase)
        /\ Count({"feature_unavailable", "timed_out"})' = Count({"feature_unavailable", "timed_out"})
        /\ Count({"model_unavailable"})' = Count({"model_unavailable"})
        /\ Count({"feature_unavailable"})' = Count({"feature_unavailable"})
    BY <2>2, <2>11 DEF EndPhase
  <2>5. \A d \in Decision : Cardinality(ScoredAs(d))' = Cardinality(ScoredAs(d))
    BY <2>2, ScoredSame
  <2> QED BY <2>1, <2>3, <2>4, <2>5
       DEF Counted, Accounting, FetchAccounting, ScoredAs, MetricName, FetchCounter, Decision
<1>2. ASSUME NEW r \in Requests, DeadlineFires(r) PROVE Counted'
  <2>1. phase[r] = "fetching" /\ phase' = [phase EXCEPT ![r] = "expired"]
        /\ result' = result /\ metrics' = metrics
    BY <1>2 DEF DeadlineFires
  <2>11. \A P : (phase[r] \in P <=> "expired" \in P) => Count(P)' = Count(P)
    BY <2>1, CountSame
  <2>2. /\ Count(Phase \ {"idle"})' = Count(Phase \ {"idle"})
        /\ Count(EndPhase)' = Count(EndPhase)
        /\ Count({"feature_unavailable", "timed_out"})' = Count({"feature_unavailable", "timed_out"})
        /\ Count({"model_unavailable"})' = Count({"model_unavailable"})
        /\ Count({"feature_unavailable"})' = Count({"feature_unavailable"})
    BY <2>1, <2>11 DEF EndPhase, Phase
  <2>3. \A d \in Decision : Cardinality(ScoredAs(d))' = Cardinality(ScoredAs(d))
    BY <2>1, ScoredSame
  <2> QED BY <2>1, <2>2, <2>3 DEF Counted, Accounting, FetchAccounting, ScoredAs
<1>3. ASSUME NEW r \in Requests, TimedOut(r) PROVE Counted'
  <2>1. {"feature_errors"} \cup Durations = {} \cup Durations \cup {"feature_errors"}
    OBVIOUS
  <2>2. Bump({} \cup Durations \cup {"feature_errors"})
    BY <1>3, <2>1 DEF TimedOut
  <2>3. /\ phase[r] \in {"fetching", "expired"} /\ result' = result
        /\ phase' = [phase EXCEPT ![r] = "timed_out"]
    BY <1>3 DEF TimedOut
  <2>4. "timed_out" \in EndPhase \ {"scored"} /\ {} \in SUBSET FetchCounter
    BY DEF EndPhase
  <2> QED BY <2>2, <2>3, <2>4, CountedEnd
<1>4. ASSUME NEW r \in Requests, FeaturesRefused(r) PROVE Counted'
  <2> DEFINE cause == {FetchVerdict(r)}
  <2>1. cause \in SUBSET FetchCounter /\ \E n \in FetchCounter : cause = {n}
    BY <1>4, VerdictType DEF FeaturesRefused
  <2>2. {FetchVerdict(r), "feature_errors"} \cup Durations = cause \cup Durations \cup {"feature_errors"}
    OBVIOUS
  <2>3. Bump(cause \cup Durations \cup {"feature_errors"})
    BY <1>4, <2>2 DEF FeaturesRefused
  <2> QED BY <1>4, <2>1, <2>3, CountedEnd DEF FeaturesRefused, FeaturesReady, EndPhase
<1>5. ASSUME NEW r \in Requests, NEW m \in ModelAnswers, ModelRefused(r, m) PROVE Counted'
  <2>1. {"model_errors"} \cup Durations = {} \cup Durations \cup {"model_errors"}
    OBVIOUS
  <2>2. Bump({} \cup Durations \cup {"model_errors"})
    BY <1>5, <2>1 DEF ModelRefused
  <2>3. /\ phase[r] \in {"fetching", "expired"} /\ result' = result
        /\ phase' = [phase EXCEPT ![r] = "model_unavailable"]
    BY <1>5 DEF ModelRefused, FeaturesReady
  <2>4. "model_unavailable" \in EndPhase \ {"scored"} /\ {} \in SUBSET FetchCounter
    BY DEF EndPhase
  <2> QED BY <2>2, <2>3, <2>4, CountedEnd
<1>6. ASSUME NEW r \in Requests, NEW m \in ModelAnswers, Decided(r, m) PROVE Counted'
  BY <1>6, CountedDecision
<1>7. ASSUME NEW r \in Requests, NEW s \in Side, FetchStep(r, s) PROVE Counted'
  BY <1>7, CountedUnchanged DEF FetchStep
<1>8. CASE WorldStep
  BY <1>8, CountedUnchanged DEF WorldStep
<1>9. CASE UNCHANGED vars
  BY <1>9, CountedUnchanged DEF vars
<1> QED BY <1>1, <1>2, <1>3, <1>4, <1>5, <1>6, <1>7, <1>8, <1>9 DEF Next, Resume

\* No call, nothing counted.
LEMMA CountedInit == Init => Counted
<1> SUFFICES ASSUME Init PROVE Counted
  OBVIOUS
<1>1. \A P : "idle" \notin P => {r \in Requests : phase[r] \in P} = {}
  BY DEF Init
<1>2. \A P : "idle" \notin P => Count(P) = 0
  BY <1>1, FS_EmptySet DEF Count
<1>3. \A d \in Decision : ScoredAs(d) = {}
  BY DEF Init, ScoredAs
<1>4. \A d \in Decision : Cardinality(ScoredAs(d)) = 0
  BY <1>3, FS_EmptySet
<1> QED BY <1>2, <1>4 DEF Init, Counted, Accounting, FetchAccounting, ScoredAs,
                          EndPhase, MetricName, FetchCounter, Decision

\* Between any two steps of any calls, the counters on /metrics are the
\* calls that came to each end, and each refused fetch has one cause.
THEOREM CountersCountCalls == Spec => [](Accounting /\ FetchAccounting)
<1>1. Spec => []Counted
  BY CountedInit, CountedStep, TypeCorrect, PTL DEF Spec
<1> QED BY <1>1, PTL DEF Counted

\* A call the provider refused is counted under one cause, for good.
THEOREM RefusalsHaveOneCause == Spec => []FetchAccounting
BY CountersCountCalls, PTL

---------------------------------------------------------------------------
\* A step that moves one call and its counter is the contract's Close.
LEMMA CloseBy ==
    ASSUME NEW r \in Requests, NEW k \in Contract!Outcome,
           Status(r) = "open",
           \A q \in Requests : Status(q)' = IF q = r THEN k ELSE Status(q),
           \A j \in {"open", "decision", "unavailable"} :
               Tally(j)' = IF j = k THEN Tally(j) + 1 ELSE Tally(j)
    PROVE  Contract!Close(r, k)
BY DEF Contract!Close, Contract!Outcome

\* Under the refinement mapping a call moves as its phase does, alone.
LEMMA StatusMoves ==
    ASSUME TypeOK, NEW r \in Requests, NEW p, phase' = [phase EXCEPT ![r] = p],
           NEW q \in Requests
    PROVE  /\ q # r => Status(q)' = Status(q)
           /\ p = "fetching" => Status(r)' = "open"
           /\ p = "expired" => Status(r)' = "open"
           /\ p = "scored" => Status(r)' = "decision"
           /\ p \in EndPhase \ {"scored"} => Status(r)' = "unavailable"
<1>1. phase'[r] = p /\ (q # r => phase'[q] = phase[q])
  BY DEF TypeOK
<1> QED BY <1>1 DEF Status, EndPhase

\* The abstract counters follow a call that ends.
LEMMA ContractClose ==
    ASSUME TypeOK, NEW r \in Requests, Resume(r)
    PROVE  \E k \in Contract!Outcome : Contract!Close(r, k)
<1> USE DEF MetricName, FetchCounter, Decision
<1>0. metrics \in [MetricName -> Nat]
  BY DEF TypeOK
<1>1. CASE TimedOut(r)
  <2>1. \A n \in MetricName : metrics'[n] =
          IF n \in {"feature_errors"} \cup Durations THEN metrics[n] + 1 ELSE metrics[n]
    BY <1>1, BumpCounts DEF TimedOut
  <2>2. \A j \in {"open", "decision", "unavailable"} :
          Tally(j)' = IF j = "unavailable" THEN Tally(j) + 1 ELSE Tally(j)
    BY <1>0, <2>1 DEF Tally, Durations
  <2>3. Contract!Close(r, "unavailable")
    BY <1>1, <2>2, CloseBy, StatusMoves DEF TimedOut, Status, EndPhase, Contract!Outcome
  <2> QED BY <2>3 DEF Contract!Outcome
<1>2. CASE FeaturesRefused(r)
  <2>1. FetchVerdict(r) \in FetchCounter
    BY <1>2, VerdictType DEF FeaturesRefused
  <2>2. \A n \in MetricName : metrics'[n] =
          IF n \in {FetchVerdict(r), "feature_errors"} \cup Durations
          THEN metrics[n] + 1 ELSE metrics[n]
    BY <1>2, BumpCounts DEF FeaturesRefused
  <2>3. \A j \in {"open", "decision", "unavailable"} :
          Tally(j)' = IF j = "unavailable" THEN Tally(j) + 1 ELSE Tally(j)
    BY <1>0, <2>1, <2>2 DEF Tally, Durations
  <2>4. Contract!Close(r, "unavailable")
    BY <1>2, <2>3, CloseBy, StatusMoves
       DEF FeaturesRefused, FeaturesReady, Status, EndPhase, Contract!Outcome
  <2> QED BY <2>4 DEF Contract!Outcome
<1>3. ASSUME NEW m \in ModelAnswers, ModelRefused(r, m)
      PROVE  \E k \in Contract!Outcome : Contract!Close(r, k)
  <2>1. \A n \in MetricName : metrics'[n] =
          IF n \in {"model_errors"} \cup Durations THEN metrics[n] + 1 ELSE metrics[n]
    BY <1>3, BumpCounts DEF ModelRefused
  <2>2. \A j \in {"open", "decision", "unavailable"} :
          Tally(j)' = IF j = "unavailable" THEN Tally(j) + 1 ELSE Tally(j)
    BY <1>0, <2>1 DEF Tally, Durations
  <2>10. phase[r] = "fetching" /\ phase' = [phase EXCEPT ![r] = "model_unavailable"]
    BY <1>3 DEF ModelRefused, FeaturesReady
  <2>11. Status(r) = "open"
    BY <2>10 DEF Status
  <2>12. \A q \in Requests : Status(q)' = IF q = r THEN "unavailable" ELSE Status(q)
    <3>1. "model_unavailable" \in EndPhase \ {"scored"}
      BY DEF EndPhase
    <3> QED BY <2>10, <3>1, StatusMoves
  <2>3. Contract!Close(r, "unavailable")
    BY <2>2, <2>11, <2>12, CloseBy DEF Contract!Outcome
  <2> QED BY <2>3 DEF Contract!Outcome
<1>4. ASSUME NEW m \in ModelAnswers, Decided(r, m)
      PROVE  \E k \in Contract!Outcome : Contract!Close(r, k)
  <2>1. \A n \in MetricName : metrics'[n] =
          IF n \in {Decide(m.score)} \cup Durations THEN metrics[n] + 1 ELSE metrics[n]
    BY <1>4, BumpCounts DEF Decided
  <2>2. Decide(m.score) \in Decision
    BY DecideType
  <2>3. \A j \in {"open", "decision", "unavailable"} :
          Tally(j)' = IF j = "decision" THEN Tally(j) + 1 ELSE Tally(j)
    BY <1>0, <2>1, <2>2 DEF Tally, Durations
  <2>10. phase[r] = "fetching" /\ phase' = [phase EXCEPT ![r] = "scored"]
    BY <1>4 DEF Decided, FeaturesReady
  <2>11. Status(r) = "open"
    BY <2>10 DEF Status
  <2>12. \A q \in Requests : Status(q)' = IF q = r THEN "decision" ELSE Status(q)
    BY <2>10, StatusMoves DEF EndPhase
  <2>4. Contract!Close(r, "decision")
    BY <2>3, <2>11, <2>12, CloseBy DEF Contract!Outcome
  <2> QED BY <2>4 DEF Contract!Outcome
<1> QED BY <1>1, <1>2, <1>3, <1>4 DEF Resume

\* score() implements the safety part of its contract; that every call ends
\* is checked by TLC.
THEOREM ContractSafety == Spec => Contract!Init /\ [][Contract!Next]_(Contract!contractVars)
<1>1. Init => Contract!Init
  BY DEF Init, Contract!Init, Contract!Outcome, MetricName, Decision, Status, Tally
<1>2. TypeOK /\ [Next]_vars => [Contract!Next]_(Contract!contractVars)
  <2> SUFFICES ASSUME TypeOK, [Next]_vars PROVE [Contract!Next]_(Contract!contractVars)
    OBVIOUS
  <2>0. ASSUME UNCHANGED <<phase, metrics>> PROVE UNCHANGED Contract!contractVars
    BY <2>0 DEF Contract!contractVars, Status, Tally
  <2>1. ASSUME NEW r \in Requests, Score(r) PROVE Contract!Next
    <3>1. \A n \in MetricName : metrics'[n] =
            IF n \in {"scoring_requests"} THEN metrics[n] + 1 ELSE metrics[n]
      BY <2>1, BumpCounts DEF Score
    <3>2. Contract!Accept(r)
      <4>1. metrics \in [MetricName -> Nat]
        BY DEF TypeOK
      <4>2. \A k \in {"open", "decision", "unavailable"} :
              Tally(k)' = IF k = "open" THEN Tally(k) + 1 ELSE Tally(k)
        BY <3>1, <4>1 DEF Tally, MetricName, Decision
      <4>3. \A q \in Requests : Status(q)' = IF q = r THEN "open" ELSE Status(q)
        BY <2>1, StatusMoves DEF Score
      <4>4. Status(r) = "new"
        BY <2>1 DEF Score, Status
      <4> QED BY <4>2, <4>3, <4>4 DEF Contract!Accept
    <3> QED BY <3>2 DEF Contract!Next
  <2>2. ASSUME NEW r \in Requests, DeadlineFires(r) PROVE UNCHANGED Contract!contractVars
    <3>1. \A q \in Requests : Status(q)' = Status(q)
      BY <2>2, StatusMoves DEF DeadlineFires, Status
    <3>2. \A k : Tally(k)' = Tally(k)
      BY <2>2 DEF DeadlineFires, Tally
    <3> QED BY <3>1, <3>2 DEF Contract!contractVars
  <2>3. ASSUME NEW r \in Requests, Resume(r) PROVE Contract!Next
    BY <2>3, ContractClose DEF Contract!Next
  <2>4. ASSUME NEW r \in Requests, NEW s \in Side, FetchStep(r, s)
        PROVE  UNCHANGED Contract!contractVars
    BY <2>0, <2>4 DEF FetchStep
  <2>5. CASE WorldStep
    BY <2>0, <2>5 DEF WorldStep
  <2>6. CASE UNCHANGED vars
    BY <2>0, <2>6 DEF vars
  <2> QED BY <2>1, <2>2, <2>3, <2>4, <2>5, <2>6 DEF Next
<1> QED BY <1>1, <1>2, TypeCorrect, PTL DEF Spec
=============================================================================
