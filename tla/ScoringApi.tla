------------------------------ MODULE ScoringApi ------------------------------
(***************************************************************************)
(* POST /api/v1/transactions/score end to end: the middleware around the   *)
(* route of api/routes/scoring.py, the exception handlers of api/app.py,   *)
(* and ScoringService.score through its contract.                          *)
(*                                                                         *)
(* A connection makes at most one call of score().  Its body has been read *)
(* and measured by then; an invalid transaction is 422, or 400 when the    *)
(* body is no text that FastAPI can decode, and is never scored; a         *)
(* decision is 200; FeatureUnavailable and ModelUnavailable are 503.       *)
(***************************************************************************)
EXTENDS RequestMiddleware

\* The statuses of the route and of the exception handlers.
ASSUME ApiAssumption == {200, 400, 422, 503} \subseteq AppStatus

VARIABLES
    call, \* the call of score(), as its contract sees it
    tally \* the service's own counters, as its contract sees them
apiVars == <<pc, body, consumed, started, status, wire, http_requests, call, tally>>

Service == INSTANCE ScoringContract WITH Requests <- Connections, status <- call

ApiInit == MiddlewareInit /\ Service!Init

\* Everything the middleware does by itself.
Outside(c) == (ClientStep(c) \/ Finally(c)) /\ UNCHANGED <<call, tally>>

\* FastAPI reads the body before it validates it.
ReadTransaction(c) == AppReads(c) /\ UNCHANGED <<call, tally>>

\* mutant of RefuseTransaction: the score is validated like the transaction
RefuseTransactionOrScore(c) ==
    /\ consumed[c]
    /\ call[c] # "open"
    /\ \E code \in {400, 422} : AppStarts(c, code)
    /\ UNCHANGED <<call, tally>>

\* RequestValidationError becomes 422, and FastAPI's own HTTPException for a body it
\* cannot decode stays 400, before score() is called.
RefuseTransaction(c) ==
    /\ consumed[c]
    /\ call[c] = "new"
    /\ \E code \in {400, 422} : AppStarts(c, code)
    /\ UNCHANGED <<call, tally>>

\* The route awaits service.score(...).
CallService(c) ==
    /\ pc[c] = "app"
    /\ consumed[c]
    /\ ~started[c]
    /\ Service!Accept(c)
    /\ UNCHANGED mwVars

ServiceEnds(c) ==
    /\ \E k \in Service!Outcome : Service!Close(c, k)
    /\ UNCHANGED mwVars

\* mutant of StatusOf: no handler for ServingUnavailable's subclasses
StatusOfUnhandled(k) == IF k = "decision" THEN 200 ELSE 500

\* 200 is the route's; 503 is the handler's for both unavailable errors.
StatusOf(k) == IF k = "decision" THEN 200 ELSE 503

\* mutant of Respond
RespondWithDecision(c) ==
    /\ call[c] = "decision"
    /\ AppStarts(c, StatusOf(call[c]))
    /\ UNCHANGED <<call, tally>>

\* The route returns the score, or the handler for ServingUnavailable runs.
Respond(c) ==
    /\ call[c] \in Service!Outcome
    /\ AppStarts(c, StatusOf(call[c]))
    /\ UNCHANGED <<call, tally>>

Leave(c) == AppReturns(c) /\ UNCHANGED <<call, tally>>

\* What no handler takes: before the call a dependency fails, behind the start
\* of the response the client's connection does.  The handlers' and the
\* route's own results are checked values, and building them cannot fail.
Fails(c) ==
    /\ started[c] \/ call[c] = "new"
    /\ AppRaises(c)
    /\ UNCHANGED <<call, tally>>

Inside(c) ==
    \/ ReadTransaction(c)
    \/ RefuseTransaction(c)
    \/ CallService(c)
    \/ ServiceEnds(c)
    \/ Respond(c)
    \/ Leave(c)
    \/ Fails(c)

ApiNext == \E c \in Connections : Outside(c) \/ Inside(c)

\* The event loop runs the application and the middleware, and score()
\* always ends; clients may stall.
ApiFairness ==
    \A c \in Connections :
        WF_apiVars(Inside(c)) /\ WF_apiVars(Finally(c) /\ UNCHANGED <<call, tally>>)

ApiSpec == ApiInit /\ [][ApiNext]_apiVars /\ ApiFairness

---------------------------------------------------------------------------
\* The two sets of counters agree at every moment: what the service has
\* decided, or given up, is what the clients were told, or are about to be.
UnderWay(k) == Cardinality({c \in Connections : call[c] = k /\ pc[c] # "done"})

CountersAgree ==
    /\ tally["decision"]    = http_requests[200] + UnderWay("decision")
    /\ tally["unavailable"] = http_requests[503] + UnderWay("unavailable")

\* A request that was refused (413, 400, 422) or abandoned was never scored,
\* and one that is over leaves no call behind it.
RefusedNotScored ==
    \A c \in Connections : pc[c] = "done" =>
        IF Answer(c) \in {200, 503} THEN call[c] \in Service!Outcome ELSE call[c] = "new"

\* The middleware holds of any application that behaves as AppStep says, and
\* the route does: it only ever starts one response, of a known status, never
\* returns without one, and never keeps its caller waiting for ever, so that a
\* request whose body is in is always answered.  What is proved of
\* MiddlewareSpec therefore holds of the endpoint.
ImplementsMiddleware == MiddlewareSpec
=============================================================================
