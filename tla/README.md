# FraudGuard: specification, model checking and proofs

TLA+ modules for the FraudGuard scoring service and the commands around it
(`src/src/fraudguard`, `src/scripts`), the TLC configurations that check them on
small instances, and TLAPS proofs that hold for every value of the constants.
Paths below are relative to `src/src/fraudguard` unless they start with `src/`.

Run inside this directory: `tlc -config MCScoringForeign.cfg MCScoring.tla`
checks a model, `tlapm ScoringProofs.tla` a proof module.

## The system

FraudGuard answers one question over HTTP: approve, review or block this
transaction. One process, one event loop, one model in memory, and Redis for
the history features of the customer and the merchant. Beside it are offline
commands that get data, prepare it, split it by time, train a baseline and fill
Redis, and a simulator.

    client -> RequestMiddleware -> FastAPI route -> ScoringService.score / ready
                (api/middleware)    (api/routes)      |        \
                                                features       model, rules, policy
                                                   |
                       mock | RedisFeatureProvider | ProductionRedisFeatureProvider
                                one GET            |      two GETs
                                                 Redis  <- backfill_redis <- history
    upstream -> download -> raw -> prepare -> interim -> split -> processed
                                     processed -> train_baseline -> candidate, MLflow

| component | state | operations | hard behaviour | what makes it correct |
|---|---|---|---|---|
| scoring service `services/scoring_service.py` | counters; per call: where it stands | `score`, `ready` | the deadline races the replies; calls share the counters | each call ends once, under one count; never on bad features |
| online features `features/online/production_redis.py` | two GETs per call | `get_features`, `_parse`, `ready`, `close` | a GET survives its gather; replies age; Redis changes between the two GETs | only valid, own, complete, fresh snapshots are used |
| legacy and mock features `features/online/redis.py`, `mock.py` | one GET per call, or none | `get_features`, `ready`, `close` | snapshot dated in the future, or aging under way | fresh, or refused |
| snapshots and backfill `features/online/backfill.py` | Redis keys with a TTL; the pipeline | `snapshots_before`, `backfill_redis` | not a transaction, may break off, jobs overlap | a snapshot is the history before its cutoff |
| policy, rules, model `decision/`, `rules/`, `models/` | none | `decide`, `evaluate`, `predict` | threshold boundaries; a model out of contract | verdicts follow scores; fail closed |
| metrics `monitoring/metrics.py` | counters, histograms | `inc`, `observe` | updated in pieces by concurrent tasks | the counters are the calls |
| middleware `api/middleware.py` | per request: body, `consumed`, `response_started`, `status` | `__call__`, `replay`, `observed_send`, `error` | chunked bodies, disconnects, failures behind a started response | one response, bounded body, one count |
| route and handlers `api/routes/scoring.py`, `api/app.py` | app.state | `score_transaction`, handlers | service and HTTP counters move apart | 200 only for decisions, 503 for unavailable, refused is never scored |
| lifespan and readiness `api/app.py`, `api/routes/health.py` | client, model, phase | `lifespan`, `GET /ready` | Redis and the model come and go; stop while requests wait, or clients stall | outages are reported, refusals have reasons, a stop is clean, and completes if the clients do |
| offline features `features/offline/historical.py` | accumulators | `build_point_in_time_features` | no look-ahead; ties | a row sees its past only; training and serving agree |
| handbook data `data/adapters/`, `src/scripts/data/` | raw directory | download, `load_handbook_rows` | moving upstream, torn files, rows that do not convert | whole days, no file dropped |
| data `data/` | interim and processed files with manifests | prepare, split | killed between or inside writes, run again | a finished split is whole, strict, described by its manifests |
| evaluation and gate `training/evaluation.py`, `quality_gate.py` | threshold, reports | `select_threshold`, `evaluate`, `compare_to_baseline` | ties at the cut, no score within the limit, a rate that is nan | the threshold in use does what the report credits it with |
| training `training/pipeline.py` | candidate file, tracking run | `train_baseline` | reads files being replaced; two runs share a path; the tracker fails half-way | a finished run is complete and shows its own model |
| simulator `simulation/` | sequence number, rows, file | `generate`, the command | smallest configurations, raised calls, killed writes | unique ids, scenario shapes |
| feature benchmark, event recorder, persistence, settings, logging | none of interest | | | |

`PROJECT.json` has every component with its status, every hazard at its line
with the properties that cover it, and the source lines of every definition.

## The modules

| module | what it models | role |
|---|---|---|
| `OnlineStore` | Redis keys, TTL, backfill jobs, other writers | base layer |
| `FeatureFetch` | the two GETs of a call and the verdict on the replies | extends `OnlineStore` |
| `Scoring` | `ScoringService.score` on concurrent calls, with `redis_v1` | extends `FeatureFetch` |
| `ScoringContract` | what `score` promises its callers | abstract specification |
| `Service` | one worker from start to stop, `ready` and `score` on any of the three backends | implements `ScoringContract` |
| `RequestMiddleware` | `__call__` per connection, around any application | abstract for the endpoint |
| `ScoringApi` | the scoring route | composes `RequestMiddleware` with `ScoringContract`, implements the former |
| `PointInTime` | the offline and the online replay of one history, and serving later than the cutoff | by itself |
| `RawData` | download and reading of the daily files | by itself |
| `Dataset` | prepare, split and the reads of training | by itself |
| `Threshold` | threshold selection, evaluation, gate | by itself |
| `Training` | candidate file and tracking runs | by itself |
| `Simulator` | `generate` and the command that writes its file | by itself |
| `MC*` | values of the constants for TLC | |
| `*Proofs` | theorems about the module named; `ScoringApiProofs` also about `RequestMiddleware`, `BaselineProofs` about `Threshold` and `Training` | |

### Store, fetch and scoring

*State.* `store`/`expiry` are the Redis keys; `todo` what each backfill still
has to SET; `get`/`raw` the GETs and their replies; `phase`/`result`/`metrics`
the calls, their scores and the Prometheus counters; `now` the clock, in the
unit of the maximum age.

*Atomicity.* `score` awaits in one place, the gather inside `asyncio.timeout`.
So a call is at most three atomic steps: `Score` up to the await,
`DeadlineFires` for the timer callback, and one of `TimedOut`,
`FeaturesRefused`, `ModelRefused`, `Decided` for all that follows the await,
the two `finally` clauses included. Everything else moves between them: `Serve`
is the instant at which Redis reads the key, `Deliver` the reply's arrival,
`Fail` a lost connection or a socket timeout.

*gather.* It ends with its first failure and leaves the other GET running; its
cancellation cancels both, unless it is already over. The deadline may fire
when the replies are in and the task has not been resumed; then it wins. It
may also fire when a GET has failed and the gather has not taken note; then the
other GET is cancelled (`CancelSurvivor`) and the failure wins.

*Data.* A snapshot is what `_parse` can tell apart: does it validate, whose is
it, when was it computed, for which side is it complete. Scores are integers up
to `Scale`. A model may give any answer of `ModelAnswers`: the `FraudModel`
port allows all of them, the mock only one.

*Contract.* `ScoringContract` has a status per call and a tally per outcome.
`Scoring!Status` and `Scoring!Tally` are the refinement mapping: a decision is
any of the three verdict counters, unavailable is `feature_errors` plus
`model_errors`.

### The worker

`Service` puts `score` and `ready` between the lifespan's start and stop. Redis
answers or not, the model's flag goes up and down, and the legacy snapshot is
seeded, overwritten by others, ages and expires; all of it at any moment of a
request. `past` is a history variable: was Redis up at some moment of the
request, was the model, was something broken. It is what the failure table of
`src/docs/architecture/system-design.md` is about. The legacy adapter is modelled
whole; what `redis_v1` gets is any outcome of `FeatureFetch`.

A request arrives, has its body read by the middleware, and then runs its route
(`Arrive`, `Leave`, `Probe`, `Score`). The read has no timeout, and `uvicorn.run`
sets no limit on a stop, so a worker that drains takes no new requests, lets
those it has go on, bodies included, and closes its client when the last has
ended. `ShutdownCompletes` has therefore a condition: no client stays in its body
for ever.

### Middleware and API

`RequestMiddleware` follows a request through the length check, the body loop,
the application and the `finally` clause. `wire` is what has left for the client.
The application is anything that reads the body, starts one response, returns
or raises. The route refuses a body with 422, or with 400 where FastAPI cannot
decode it. `ScoringApi` replaces that application by the scoring route and
`score` by its contract, so the composition needs none of the state of
`Scoring`. That the route really is such an application, one that always
ends included, is the property `ImplementsMiddleware`: all that is shown of
`MiddlewareSpec` then holds of the endpoint.

### Two replays of one history

`PointInTime` runs the offline loop row by row, then the online loop with a
cutoff that is `lag` before the target's event time, over every history of the
instance. The reference is `Aggregate`, a fold over a set of rows that knows
nothing of loops.

### Data and training

`RawData` has each daily file as absent, torn, or the upstream revision it was
fetched from; the download and the reader run against each other and against
upstream. A download may begin at any day (`--start-date`), so a directory may
hold ranges with a gap between them; the reader takes whatever files it finds,
and what is claimed is that it drops none of those. One file is read in one
step: an overwrite empties the file first, so a read that overlaps one sees the
old file, the new one, or a torn one. `Dataset` has each file as absent, torn or holding rows. A command
validates first, then opens (which empties) and closes its files in order;
`Crash` may come anywhere. A training run reads the parts in turn. `settled` and
`quiet` are history variables: data/processed is the work of one finished
split, and it was so while the training run read.

`Threshold` takes any labels and scores and any order `argsort` may give to
ties; rates are fractions, and a zero denominator is numpy's nan, which no
comparison holds of. The baseline comes first; each other model is then gated
against it, under its own name. `Training` follows the run after fitting: the dump to the
path its model type shares with other runs, the five log calls, the upload that
reads the path again, and a failure anywhere. `alone` records that no other
run of the type has opened the file since the dump began.

`Simulator` builds each call's rows one by one for every scenario; a row that
cannot be built (no such index, an exhausted `next`) ends the call before it has
a number, one that `TransactionRequest` refuses (the currency, an id that a long
seed makes too long) after. Amounts are
in dimes, a random one at either end of its range.

## What is checked

| run | instance | shows |
|---|---|---|
| `scoring_foreign` | 1 call, 1 job, 3 kinds of foreign value, 9 model answers | a call is scored on fresh data only; orphans; one cause per refusal; outcomes final |
| `scoring_contract` | 2 calls on one pair of keys, 1 job | counters are the calls, verdicts monotone, `score` implements `ScoringContract`, with liveness |
| `scoring_api` | 2 connections, limit 2, chunks 0 to 3 | one response, bounded body, one count; service and HTTP counters agree; refused is not scored; the endpoint implements the middleware, with liveness |
| `service` | 1 request, 3 backends, maximum age 2, clock to 4 | outages reported, refusals have reasons, legacy freshness, clean stop, the contract on every backend, and a stop completes unless a client stalls |
| `point_in_time` | every history of 3 rows over 3 instants, lag 0 or 1 | no look-ahead; a snapshot is the history before it; parity but for the age |
| `raw_data` | 3 days, any ranges of them, 2 revisions, one unsound file | interim data has whole days, those of exactly the files listed |
| `dataset` | 2 good and 2 bad inputs, 2 pairs of boundaries | finished splits are whole and strict; readable parts are usable; no leak beside no rewrite |
| `threshold` | every labelling, scoring and order of ties of 3 rows, 2 models | a clean cut is optimal; the reported recall is reached; the gate means something |
| `training` | 2 runs of one type, 1 of the other | a finished run is complete; undisturbed, it shows its own model |
| `simulator` | 3 accepted sizes, one refused currency, calls of 1, 4 and 6, two calls | ids, scenario shapes, the file, which sizes raise |
| `training_leak` | as `dataset` | **violated**: training on parts of two splits |
| `threshold_limit` | as `threshold` | **violated**: a threshold outside its limit |

*Bounds.* Two calls and one job are enough for every pair of a call with
another call, with its own orphan and with a writer; the counters are sums over
calls. Several jobs are covered by the theorems only, which are for any set of
them. In `scoring_foreign` the clock lets a snapshot be future-dated, fresh,
exactly at the maximum age and too old. In `service` one request is enough
since requests share nothing but the counters, the phase and the world around
them, and the theorems cover any number; the clock lets a snapshot be seeded,
reach its maximum age and expire while a request waits. `MaxBytes` is small so
that a single chunk, two chunks and a zero-length chunk meet the limit from both
sides. Three rows give a predecessor of the same customer, one of another and
a tie. Three days let a download break off in the first, a middle and the last
file, and two downloads leave a gap. Both pairs of boundaries split the first
good input, so that a row is in one part or another by the split; the first pair
splits the second input too, of which the second pair leaves a part empty.
Three rows and three scores give a tie on either side of the cut, across it,
and none, and a limit of one half cuts before, between and after two legitimate
rows. Three training runs are a pair that shares a path and one that does not.
The simulator's sizes are the smallest that is accepted, one between and the
smallest at which no scenario raises; a size below is there to be refused. Six
rows go twice through the three members of a ring.

*Deadlock* is checked in every run but three; `Quiescent`, `Replayed`,
`Finished` and `AllOver` name the states where those models may stop. Not in
`scoring_api` (all requests are over and no more come), `service` (a worker that
has stopped stays so, and the clock is bounded) and `simulator` (the bound on
the calls).

*Fairness.* `Scoring`, `Service`: only the timer and ready tasks, which the event
loop runs, and the server's own shutdown once no request is left; nothing of
Redis, the network, the model, callers, clients in their bodies, jobs. `RequestMiddleware` and `ScoringApi`: the application and
the `finally` clause; clients may stall for ever, and a request whose body
never completes is not claimed to end. `ScoringContract` promises what `Scoring`
and `Service` deliver: an accepted call ends. The other modules state safety
only: their commands may be killed at any point.

## What the violations mean

1. `NoLeak`: a split that runs again with other boundaries replaces one file after
   the other, and may be killed between two; training reads the parts unchecked.
   In the run the second split has replaced the train part only, and a row that is
   new in it is still in the first split's validation part: the model is
   fitted and then evaluated on that row.
   `NoLeakWhenQuiet` says when it cannot happen, and is proved.
2. `ThresholdWithinLimit`: `select_threshold` counts rows, `evaluate` flags
   scores. Rows that tie with the last one within the limit are flagged too,
   and when the top row alone exceeds the limit its score is returned all the
   same. `CleanCutIsOptimal` says that nothing else goes wrong.

Other limits of the code that the passing properties state exactly:

- A fetch ended by the deadline is in `feature_errors` and under no cause;
  `FetchAccounting` counts causes for the provider's own refusals only.
- A backfill with an older cutoff overwrites a newer one: nothing orders the
  jobs. `FreshDecisions` holds all the same.
- Transactions of one event time are ordered by id offline and all cut off
  online, and the elapsed time is served as it was at the cutoff:
  `ParityUpToTheAge` has parity where nothing happened since the cutoff, short
  by the age of the snapshot.
- Overlapping training runs of one type may upload each other's model;
  `FinishedRunIsCoherent` and `WholeUnlessDisturbed` are about a run that no
  other disturbs.
- `--source-revision` of the download script is printed and not used: the files
  come from the main branch, and one directory may mix revisions. `WholeDays`
  speaks of one revision per day.
- Three customers and three merchants are accepted though five scenarios index
  up to the fifth: `FiveSuffice`. It is about sizes: a currency or a seed that
  `TransactionRequest` refuses raises at any size.
- A client that stalls in its body is waited for without a limit, by its request
  and by a stop of the worker: `ShutdownCompletes` excludes it.
- Two downloads may leave a gap between their days, which preparation does not
  notice: `EveryFileListed` is about the files that are there.

## What is proved

Each argument is an inductive invariant: it holds initially, every action keeps
it, and the properties follow. It is needed because none of the properties is
inductive by itself: each speaks of a request's end, and the steps before the
end must be known to have prepared it.

*Scoring*, for any finite set of calls, any customers, merchants, jobs, cutoffs,
TTL, clock bound, foreign values, thresholds with review < block <= 1, and model
answers:

- `TypeCorrect`; `Inductive`: `IInv`, the conjunction of `TypeOK` with
  `FreshDecisions` and `OrphanHasFailedSibling`. Freshness needs the types (a
  reply is a snapshot or nothing) and that a GET which is done never changes:
  `Serve` moves `raw` only from "sent". The orphan property needs that leaving
  "fetching" needs a gather that is over, or a cancellation that empties it.
  `DecisionsAreFresh`, `OrphansAreSurvivors` follow.
- `HigherScoresAreNeverMilder`: `DecisionsMonotone`, through `DecidedByPolicy`
  (every verdict is `Decide` of the recorded score) and the order of the
  thresholds. `OutcomesAreFinal`: `OutcomeFinal` as an action property.
- `CountersCountCalls`, `RefusalsHaveOneCause`: `Accounting` and
  `FetchAccounting`. The lemmas `CountJoin` and `CountSame` say how the
  cardinality of a set of calls changes when one call enters it or none does;
  each action then moves one call and bumps the counters of the sets it enters.
- `ContractSafety`: initial states and steps of `Scoring` are those of
  `ScoringContract` under the mapping, or stutter.

*Service*, for any finite set of requests, any maximum age and clock bound, and
each backend: `ServiceInvariant` (`SInv`: what `past` must hold while a request
is in flight, given how far it is and whether Redis and the model are up; which
client is open in which phase) gives `ServiceTypes`, `OutagesAreReported`,
`RefusalsHaveReasons`, `LegacyDecisionsAreFresh`, `StopsAreClean`;
`BackendsKeepContract` is the refinement's initial states and steps.

*Middleware and endpoint*, for any finite set of connections, limit, chunks,
declarations and statuses: `MiddlewareInvariant` (`MInv`: what `pc` says of
`wire`, `started`, `status` and `body`, and the count of finished requests per
status) gives `MiddlewareTypes`, `AnsweredOnce`, `BodiesAreBounded`,
`RequestsAreCounted`. `EndpointIsMiddleware` maps every step of the endpoint to
one of the middleware's or to a stutter; `EndpointKeepsPromises` is what then
holds of the scoring route. `ApiInvariant` (`AInv`) adds to `MInv`
what a connection's answer says of its call and that the tally is the calls;
`RefusedAreNotScored` and `CountersDoAgree` follow, the latter by splitting the
calls of each end into those whose clients were told and those under way.

*Data*, for any inputs, boundaries and any number of commands, kills and
training runs: `DatasetInvariant` (`DInv`): the running command is idle,
preparing, or splitting into a strict partition `p` with its first `k` writes in
place; a settled directory is strict; an undisturbed run has read what is
there. `DatasetTypes`, `CompletedSplitsPartition`, `PartsAreUsable` and
`QuietRunsDoNotLeak` follow.

*Two replays*, for any finite set of transactions with any contents, any target
and any age (`PointInTimeProofs`): `ReplaysAreExact` (`PInv`: the rows a loop has
passed are a start of the order by time and id; its accumulators are, for every
customer and merchant, the `Aggregate` of those rows; each offline row passed is
described by the rows before it; the online loop is not past its cutoff). The
reference is a fold over a set and the code a running update, so the step needs
`AggregateAdds`: adding a row that is later than all others is one `Updated`.
`RowsKnowOnlyThePast`, `SnapshotsHoldThePast` and `OnlineAgreesWithOffline`
follow; the last because without activity since the cutoff the rows before the
cutoff are the rows before the target.

*Threshold and gate*, for any finite set of rows, labels, scores, orders of ties,
models, grades and limit (`BaselineProofs`): `ThresholdsAreSelected`
(`ThresholdInv`: what is selected, evaluated and gated so far is what the data
give). The rest is about the data: a threshold flags a prefix of the listing
(`FlaggedIsPrefix`), the prefix that was selected, if no tie crosses the cut
(`SelectedFlags`); every threshold within the limit flags part of it
(`LimitBoundsFlagged`), and flagging more never lowers the recall
(`RecallMonotone`, by cardinalities). `CleanCutsAreOptimal`, `ReportsAreReached`
and `GatesFindNoLess` follow, the last through `NotLessTransitive`, since "not
below" is not transitive where a rate is nan: it needs that the recall of the
threshold in use is never nan.

*Training*, for any runs and types (`BaselineProofs`): `TrainingInvariant`
(`TrainingInv`: how far the tracking run is at each point, and that an
undisturbed candidate stays its run's own) gives `TrainingTypes`,
`FinishedRunsAreCoherent`, `CandidateIsWhole`.

*Raw data*, for any number of days and revisions and any unsound files:
`InterimIsWhole` (`RInv`: midway through a reading the days converted and those
still listed are together the files that were found, converted before listed;
one revision per day; whole as long as no row was an error) gives `DaysAreWhole`
and, as an action property, `NoFileIsDropped`.

*Simulator*, for any accepted configurations and any number of calls:
`SimulatorInvariant` (`SInv`: a row's time is its place, its id above all those
issued before) gives `IdsDoNotRepeat`, `FiveAreEnough`, `FilesAreOneCall`.
`ScenariosKeepShape` adds `Shaped` (the row at each index is the one the scenario
has there) and then goes scenario by scenario: that a ring's members meet needs
the remainders by three and by two of six successive indices, that a normal
customer buys where they usually do needs a smallest merchant of the category.

*Induction.* A claim about all subsets of a finite set, such as that
`SumFunctionOnSet` does not depend on the order it takes its elements in, is
proved by its smallest counterexample: `SmallestSubset` gets it from the
library's well-founded order of the subsets of a finite set. So sums, maxima,
the first row, the last valid cut and the first day need no induction theorem
over formulas, and no assumption.

Assumptions are the named `ASSUME`s of the modules, evaluated by TLC in the
runs. Every invariant that a passing run checks is proved, and `OutcomeFinal`,
`CompletedSplit` and `EveryFileListed` as action properties. Only model-checked is liveness, which the
prover does not reach: `ShutdownCompletes`, and of `ImplementsContract`,
`ImplementsMiddleware` and `EveryBackendKeepsContract` the part about fairness.
Their initial states and steps are `ContractSafety`, `EndpointIsMiddleware` and
`BackendsKeepContract`.

## Not modelled

- Cancellation of a call by its caller, and retries inside the Redis client: a
  GET sent again is a GET served later.
- Thread- or process-level concurrency of the API: one loop per process, and
  processes share only Redis, whose writers are in the model.
- Floating point: scores, amounts and ages are integers; averages and
  deviations are functions of exact sums here and of rounded ones in the code.
- What fitting computes: any scoring of the rows. The average precision of
  scikit-learn is any value.
- Two data commands at once; damage to a file after it was written; rows that
  are the same in every field (a file is a set of rows, so that a duplicate id is
  two rows that differ elsewhere); calls of the simulator for more than 2491
  transactions, past which card testing loses its shape, and a start so late
  that its event times leave the calendar.
- Request ids, logs, CORS, label cardinality of the HTTP metrics, `/health` and
  `/metrics`, which read and change nothing.
- The feature benchmark (`src/scripts/features/benchmark_redis.py`): a developer's
  script that times the provider already modelled.
- Event envelopes and the memory publisher (`streaming/`): nothing publishes
  yet, and the recorder is one bounded deque.
- Settings, logging, domain types and schemas: validation without state. The
  limits that matter are assumptions on constants.
- Persistence: connection settings and a schema that no code uses yet.

## Plan

Done: store, fetch, scoring, contract; middleware, endpoint; worker; replays;
raw data, data files, thresholds, training; simulator; proofs about all of them.

Left, in order:

1. Proofs that join components: that a training run's parts are, through
   `Dataset`, rows `RawData` let through.
2. `Service` with the two GETs of `redis_v1` in place of one command, and two
   workers on one Redis.
3. The event recorder, once something publishes.
