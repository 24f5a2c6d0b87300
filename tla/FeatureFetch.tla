---------------------------- MODULE FeatureFetch ----------------------------
(***************************************************************************)
(* ProductionRedisFeatureProvider: the two concurrent GETs of one scoring  *)
(* call and the verdict on their replies.                                  *)
(*                                                                         *)
(* A GET is a task of its own under asyncio.gather:                        *)
(*                                                                         *)
(*   idle -> sent -> served -> done            the reply has been read     *)
(*             \-------\-----> failed          connection lost, timed out  *)
(*             \-------\-----> cancelled       by the caller's deadline    *)
(*                                                                         *)
(* gather ends with its first failure and does not stop the other GET,     *)
(* which then runs on with nobody waiting for it.                          *)
(***************************************************************************)
EXTENDS OnlineStore

CONSTANTS
    Requests, \* calls of ScoringService.score
    Txn,      \* the ids each transaction asks about, per side
    MaxAge    \* feature_max_age_seconds

ASSUME FetchAssumption ==
    /\ IsFiniteSet(Requests)
    /\ Txn \in [Requests -> [customer : Customers, merchant : Merchants]]
    /\ MaxAge \in Nat \ {0}

VARIABLES
    get, \* the state of each GET of each call
    raw  \* the value Redis answered it with
fetchVars == <<get, raw>>

GetState == {"idle", "sent", "served", "done", "failed", "cancelled"}

FetchTypeOK ==
    /\ get \in [Requests -> [Side -> GetState]]
    /\ raw \in [Requests -> [Side -> Reply]]

FetchInit ==
    /\ get = [r \in Requests |-> [s \in Side |-> "idle"]]
    /\ raw = [r \in Requests |-> [s \in Side |-> NoSnapshot]]

---------------------------------------------------------------------------
KeyOf(r, s) == <<s, Txn[r][s]>>

InFlight(r, s)  == get[r][s] \in {"sent", "served"}
GatherFailed(r) == \E s \in Side : get[r][s] = "failed"
GatherDone(r)   == GatherFailed(r) \/ \A s \in Side : get[r][s] = "done"

\* gather starts both GETs.
SendGets(r) ==
    /\ get' = [get EXCEPT ![r] = [s \in Side |-> "sent"]]
    /\ UNCHANGED raw

\* Redis executes the GET: this instant decides which value is read.
Serve(r, s) ==
    /\ get[r][s] = "sent"
    /\ get' = [get EXCEPT ![r][s] = "served"]
    /\ raw' = [raw EXCEPT ![r][s] = store[KeyOf(r, s)]]

\* The reply reaches the process.
Deliver(r, s) ==
    /\ get[r][s] = "served"
    /\ get' = [get EXCEPT ![r][s] = "done"]
    /\ UNCHANGED raw

\* The connection fails, or a socket timeout ends the GET.  (A GET the client
\* library issues again reads later: it is a GET that was served later.)
Fail(r, s) ==
    /\ InFlight(r, s)
    /\ get' = [get EXCEPT ![r][s] = "failed"]
    /\ UNCHANGED raw

CancelNothing(r) == UNCHANGED fetchVars \* mutant of CancelGets

\* Cancelling the awaiting task cancels the GETs only through a gather that
\* is still pending.
CancelGets(r) ==
    /\ get' = [get EXCEPT ![r] = [s \in Side |->
                  IF ~GatherDone(r) /\ InFlight(r, s) THEN "cancelled" ELSE @[s]]]
    /\ UNCHANGED raw

\* The deadline finds a gather that has not taken note yet of its failed GET: it
\* cancels the other one, and the awaiting task gets the failure all the same.
CancelSurvivor(r, s) ==
    /\ GatherFailed(r) /\ InFlight(r, s)
    /\ get' = [get EXCEPT ![r][s] = "cancelled"]
    /\ UNCHANGED raw

GetStep(r, s) == Serve(r, s) \/ Deliver(r, s) \/ Fail(r, s)

---------------------------------------------------------------------------
\* age is measured when the reply is parsed, and may not be negative.
Age(p)   == now - p.stamp
FreshIgnoringFutureDates(p) == Age(p) <= MaxAge \* mutant of Fresh
Fresh(p) == Age(p) \in 0 .. MaxAge

\* _parse: "ok", or the counter of the first check that rejects the reply.
Verdict(p, s, id) ==
    IF p = NoSnapshot              THEN "feature_missing"
    ELSE IF ~p.valid               THEN "feature_fetch_errors"
    ELSE IF p.entity # id          THEN "feature_fetch_errors"
    ELSE IF ~Fresh(p)              THEN "feature_snapshot_stale"
    ELSE IF s \notin p.features    THEN "feature_missing"
    ELSE                                "ok"

SideVerdict(r, s) == Verdict(raw[r][s], s, Txn[r][s])

\* get_features once gather is over: the customer is parsed first and a
\* rejected customer leaves the merchant unread.
FetchVerdict(r) ==
    IF GatherFailed(r)                         THEN "feature_fetch_errors"
    ELSE IF SideVerdict(r, "customer") # "ok"  THEN SideVerdict(r, "customer")
    ELSE                                            SideVerdict(r, "merchant")

\* as_of of the merged snapshot is the older of the two.
AsOf(r) ==
    IF raw[r]["customer"].stamp <= raw[r]["merchant"].stamp
    THEN raw[r]["customer"].stamp
    ELSE raw[r]["merchant"].stamp
=============================================================================
