------------------------------ MODULE Scoring ------------------------------
(***************************************************************************)
(* ScoringService.score: concurrent calls on one event loop, each fetching *)
(* its features under a deadline and turning them into a decision.         *)
(*                                                                         *)
(* The loop runs one piece of Python at a time and the call awaits in one  *)
(* place only, the gather inside asyncio.timeout.  A call is therefore     *)
(* three atomic steps at most: up to the await (Score), the timer callback *)
(* (DeadlineFires), and everything after the await (Resume).  Redis, the   *)
(* replies and the other writers move between them.                        *)
(***************************************************************************)
EXTENDS FeatureFetch

CONSTANTS
    Scale,           \* a risk score of 1.0, in the unit of the thresholds
    ReviewThreshold,
    BlockThreshold,
    ModelVersion,    \* model.version
    ModelAnswers,    \* what the model may do when it is asked
    CountryMismatch  \* transactions whose country differs from the IP's

\* ThresholdDecisionPolicy.__post_init__ rejects any other thresholds.
ASSUME ScoringAssumption ==
    /\ Scale \in Nat
    /\ ReviewThreshold \in Nat
    /\ BlockThreshold \in Nat
    /\ ReviewThreshold < BlockThreshold
    /\ BlockThreshold <= Scale
    /\ \A m \in ModelAnswers : {"ready", "raises", "score", "version"} = DOMAIN m
    /\ CountryMismatch \subseteq Requests

VARIABLES
    phase,  \* where the call stands
    result, \* the FraudScore of a scored call, and the moment it was made
    metrics \* the counters and histogram counts of monitoring/metrics.py
vars == <<now, store, expiry, todo, get, raw, phase, result, metrics>>

EndPhase == {"scored", "feature_unavailable", "timed_out", "model_unavailable"}
Phase    == {"idle", "fetching", "expired"} \cup EndPhase
Decision == {"approve", "review", "block"}
FetchCounter == {"feature_fetch_errors", "feature_missing", "feature_snapshot_stale"}
MetricName == {"scoring_requests", "feature_errors", "model_errors",
               "scoring_duration", "feature_fetch_duration"}
                 \cup Decision \cup FetchCounter

NoResult == [decision |-> "none", risk_score |-> 0, reasons |-> {}, as_of |-> 0, at |-> 0]
Result   == [decision : Decision, risk_score : 0 .. Scale,
             reasons : SUBSET {"COUNTRY_MISMATCH"}, as_of : Nat, at : Nat]

Ended(r) == phase[r] \in EndPhase

TypeOK ==
    /\ StoreTypeOK
    /\ FetchTypeOK
    /\ phase \in [Requests -> Phase]
    /\ result \in [Requests -> Result \cup {NoResult}]
    /\ metrics \in [MetricName -> Nat]

Init ==
    /\ StoreInit
    /\ FetchInit
    /\ phase = [r \in Requests |-> "idle"]
    /\ result = [r \in Requests |-> NoResult]
    /\ metrics = [n \in MetricName |-> 0]

Bump(names) ==
    metrics' = [n \in MetricName |-> IF n \in names THEN metrics[n] + 1 ELSE metrics[n]]

---------------------------------------------------------------------------
\* BasicRuleEngine.evaluate
Reasons(r) == IF r \in CountryMismatch THEN {"COUNTRY_MISMATCH"} ELSE {}

\* mutant of ValidPrediction
ValidPredictionAnyScore(m) == m.ready /\ ~m.raises /\ m.version = ModelVersion

\* The answer is used only from a ready model that returned, with a finite
\* score in [0, 1] and the version that is loaded.
ValidPrediction(m) ==
    /\ m.ready
    /\ ~m.raises
    /\ m.score \in 0 .. Scale
    /\ m.version = ModelVersion

\* mutant of Decide
DecideSwapped(x) ==
    IF x >= BlockThreshold THEN "review" ELSE IF x >= ReviewThreshold THEN "block" ELSE "approve"

\* ThresholdDecisionPolicy.decide; its own check of the score has been made
\* by ValidPrediction.
Decide(x) ==
    IF x >= BlockThreshold       THEN "block"
    ELSE IF x >= ReviewThreshold THEN "review"
    ELSE                              "approve"

\* Leaving score() and get_features() runs both finally clauses.
Durations == {"scoring_duration", "feature_fetch_duration"}

---------------------------------------------------------------------------
\* A call comes in: the timer is armed and both GETs leave.
Score(r) ==
    /\ phase[r] = "idle"
    /\ phase' = [phase EXCEPT ![r] = "fetching"]
    /\ SendGets(r)
    /\ Bump({"scoring_requests"})
    /\ UNCHANGED <<storeVars, result>>

\* mutants of DeadlineFires
DeadlineFiresLate(r) ==
    /\ phase[r] # "idle"
    /\ phase' = [phase EXCEPT ![r] = "expired"]
    /\ CancelGets(r)
    /\ UNCHANGED <<storeVars, result, metrics>>

DeadlineFiresUnserved(r) ==
    /\ phase[r] = "fetching"
    /\ \A s \in Side : get[r][s] = "sent"
    /\ phase' = [phase EXCEPT ![r] = "expired"]
    /\ CancelGets(r)
    /\ UNCHANGED <<storeVars, result, metrics>>

\* asyncio.timeout cancels the task.  That beats a gather which is over but
\* whose result the task has not yet been resumed with.  It fires once.
DeadlineFires(r) ==
    /\ phase[r] = "fetching"
    /\ \A s \in Side : get[r][s] # "cancelled"
    /\ phase' = [phase EXCEPT ![r] = "expired"]
    /\ CancelGets(r)
    /\ UNCHANGED <<storeVars, result, metrics>>

\* mutant of TimedOut
TimedOutNoFinally(r) ==
    /\ phase[r] = "expired"
    /\ phase' = [phase EXCEPT ![r] = "timed_out"]
    /\ Bump({"feature_errors"})
    /\ UNCHANGED <<storeVars, fetchVars, result>>

\* CancelledError is no Exception: the provider counts nothing; the timeout
\* turns it into the TimeoutError that score() catches.
TimedOut(r) ==
    /\ phase[r] = "expired"
    /\ phase' = [phase EXCEPT ![r] = "timed_out"]
    /\ Bump({"feature_errors"} \cup Durations)
    /\ UNCHANGED <<storeVars, fetchVars, result>>

FeaturesReady(r) == phase[r] = "fetching" /\ GatherDone(r)

\* mutant of FeaturesRefused
FeaturesRefusedPerSide(r) ==
    /\ FeaturesReady(r)
    /\ FetchVerdict(r) # "ok"
    /\ phase' = [phase EXCEPT ![r] = "feature_unavailable"]
    /\ Bump({SideVerdict(r, s) : s \in Side} \cup {"feature_errors"} \cup Durations)
    /\ UNCHANGED <<storeVars, fetchVars, result>>

\* _parse or the gather raised; score() counts it and raises FeatureUnavailable.
FeaturesRefused(r) ==
    /\ FeaturesReady(r)
    /\ FetchVerdict(r) # "ok"
    /\ phase' = [phase EXCEPT ![r] = "feature_unavailable"]
    /\ Bump({FetchVerdict(r), "feature_errors"} \cup Durations)
    /\ UNCHANGED <<storeVars, fetchVars, result>>

\* The model is not ready, raises or answers out of contract.
ModelRefused(r, m) ==
    /\ FeaturesReady(r)
    /\ FetchVerdict(r) = "ok"
    /\ ~ValidPrediction(m)
    /\ phase' = [phase EXCEPT ![r] = "model_unavailable"]
    /\ Bump({"model_errors"} \cup Durations)
    /\ UNCHANGED <<storeVars, fetchVars, result>>

Decided(r, m) ==
    /\ FeaturesReady(r)
    /\ FetchVerdict(r) = "ok"
    /\ ValidPrediction(m)
    /\ phase' = [phase EXCEPT ![r] = "scored"]
    /\ result' = [result EXCEPT ![r] =
                     [decision |-> Decide(m.score), risk_score |-> m.score,
                      reasons |-> Reasons(r), as_of |-> AsOf(r), at |-> now]]
    /\ Bump({Decide(m.score)} \cup Durations)
    /\ UNCHANGED <<storeVars, fetchVars>>

Resume(r) ==
    \/ TimedOut(r)
    \/ FeaturesRefused(r)
    \/ \E m \in ModelAnswers : ModelRefused(r, m) \/ Decided(r, m)

FetchStep(r, s) ==
    /\ GetStep(r, s) \/ (phase[r] = "fetching" /\ CancelSurvivor(r, s))
    /\ UNCHANGED <<storeVars, phase, result, metrics>>

WorldStep == StoreStep /\ UNCHANGED <<fetchVars, phase, result, metrics>>

\* Every call has been made and answered, and nothing is on its way.
Quiescent ==
    /\ \A r \in Requests : Ended(r) /\ \A s \in Side : ~InFlight(r, s)
    /\ \A b \in Jobs : todo[b] = {}
    /\ now = MaxNow

Next ==
    \/ \E r \in Requests : Score(r) \/ DeadlineFires(r) \/ Resume(r)
    \/ \E r \in Requests, s \in Side : FetchStep(r, s)
    \/ WorldStep
    \/ Quiescent /\ UNCHANGED vars

\* The event loop runs its timers and its ready tasks.  Nothing is assumed
\* of Redis, of the network, or of callers and jobs.
Fairness == \A r \in Requests : WF_vars(DeadlineFires(r)) /\ WF_vars(Resume(r))

Spec == Init /\ [][Next]_vars /\ Fairness

---------------------------------------------------------------------------
\* A call is scored only on replies that both arrived, parsed, named the
\* transaction's own customer and merchant, and were fresh and complete at
\* the moment of the decision, however long they were under way and whatever
\* was written to Redis meanwhile; as_of is the age of the older one.
FreshDecisions ==
    \A r \in Requests : phase[r] = "scored" =>
        LET at == result[r].at
        IN  /\ \A s \in Side :
                 LET p == raw[r][s]
                 IN  /\ get[r][s] = "done"
                     /\ p \in Payload /\ p.valid
                     /\ p.entity = Txn[r][s] /\ s \in p.features
                     /\ p.stamp <= at /\ at <= p.stamp + MaxAge
                     /\ result[r].as_of <= p.stamp
            /\ \E s \in Side : result[r].as_of = raw[r][s].stamp

\* A GET that is still running when nobody waits for it any more can only be
\* the survivor of a gather whose other GET failed: a timeout cancels both,
\* and a call with two replies has nothing left in flight.
OrphanHasFailedSibling ==
    \A r \in Requests, s \in Side :
        InFlight(r, s) /\ phase[r] # "fetching" => GatherFailed(r)

\* A stricter verdict never goes with a lower score, whichever of two
\* calls came first and whatever the rules said about them.
Severity(d) == CASE d = "approve" -> 0 [] d = "review" -> 1 [] d = "block" -> 2

DecisionsMonotone ==
    \A q, r \in Requests :
        /\ phase[q] = "scored"
        /\ phase[r] = "scored"
        /\ result[q].risk_score <= result[r].risk_score
        => Severity(result[q].decision) <= Severity(result[r].decision)

\* The counters are the calls: in every state, between any two steps of any
\* calls, each one counts the calls that came to that end and no other.
Count(P) == Cardinality({r \in Requests : phase[r] \in P})

Accounting ==
    /\ metrics["scoring_requests"] = Count(Phase \ {"idle"})
    /\ metrics["scoring_duration"] = Count(EndPhase)
    /\ metrics["feature_fetch_duration"] = Count(EndPhase)
    /\ metrics["feature_errors"] = Count({"feature_unavailable", "timed_out"})
    /\ metrics["model_errors"] = Count({"model_unavailable"})
    /\ \A d \in Decision : metrics[d] =
         Cardinality({r \in Requests : phase[r] = "scored" /\ result[r].decision = d})

\* A call the provider refused is counted under one cause and no more: not
\* once per GET, and not again when the other GET fails after the fact.
FetchAccounting ==
    metrics["feature_fetch_errors"] + metrics["feature_missing"]
      + metrics["feature_snapshot_stale"] = Count({"feature_unavailable"})

\* Nothing that happens after a call has ended (a late reply, a failing
\* orphan, an expired timer) changes its outcome or counts it again.
OutcomeFinal ==
    [][/\ \A r \in Requests : Ended(r) => phase'[r] = phase[r] /\ result'[r] = result[r]
       /\ metrics' # metrics => \E r \in Requests : phase'[r] # phase[r]]_vars

---------------------------------------------------------------------------
\* The contract's view of a call, and of the counters.
Status(r) ==
    CASE phase[r] = "idle"                     -> "new"
      [] phase[r] \in {"fetching", "expired"}  -> "open"
      [] phase[r] = "scored"                   -> "decision"
      [] OTHER                                 -> "unavailable"

Tally(k) ==
    CASE k = "open"        -> metrics["scoring_requests"]
      [] k = "decision"    -> metrics["approve"] + metrics["review"] + metrics["block"]
      [] k = "unavailable" -> metrics["feature_errors"] + metrics["model_errors"]

Contract == INSTANCE ScoringContract WITH
    status <- [r \in Requests |-> Status(r)],
    tally  <- [k \in {"open", "decision", "unavailable"} |-> Tally(k)]

\* score() implements what it promises: each call moves one counter of the
\* contract when it ends, for good, and every call does end, though Redis may
\* never answer.
ImplementsContract == Contract!Spec
=============================================================================
