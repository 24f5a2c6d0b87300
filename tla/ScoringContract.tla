-------------------------- MODULE ScoringContract --------------------------
(***************************************************************************)
(* What ScoringService.score promises its callers, with Redis, the GETs,   *)
(* the deadline and the model left out: a call that is accepted ends, once *)
(* and for good, with a decision or with a controlled "unavailable"; and   *)
(* the counters on /metrics are exactly the calls that came to each end.   *)
(***************************************************************************)
EXTENDS Naturals

CONSTANT Requests

VARIABLES
    status, \* how far each call has come
    tally   \* the counters, per kind of outcome
contractVars == <<status, tally>>

Outcome == {"decision", "unavailable"}

Init ==
    /\ status = [r \in Requests |-> "new"]
    /\ tally = [k \in Outcome \cup {"open"} |-> 0]

Accept(r) ==
    /\ status[r] = "new"
    /\ status' = [status EXCEPT ![r] = "open"]
    /\ tally' = [tally EXCEPT !["open"] = @ + 1]

Close(r, k) ==
    /\ status[r] = "open"
    /\ status' = [status EXCEPT ![r] = k]
    /\ tally' = [tally EXCEPT ![k] = @ + 1]

Next == \E r \in Requests : Accept(r) \/ \E k \in Outcome : Close(r, k)

Fairness == \A r \in Requests : WF_contractVars(\E k \in Outcome : Close(r, k))

Spec == Init /\ [][Next]_contractVars /\ Fairness
=============================================================================
