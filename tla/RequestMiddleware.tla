-------------------------- MODULE RequestMiddleware --------------------------
(***************************************************************************)
(* api/middleware.py: what happens to an HTTP request before, around and   *)
(* after the application.                                                  *)
(*                                                                         *)
(*   new -> reading -> app ------> closing -> done                         *)
(*     \------\---------------------^   ^                                  *)
(*                      app -> raising -/                                  *)
(*                                                                         *)
(* The body is read chunk by chunk and measured before the application     *)
(* runs, then replayed to it as one message.  observed_send notes the      *)
(* status of the response that starts; the finally clause counts the       *)
(* request under that status.  Connections are separate tasks and share    *)
(* the counters.  Sizes are in units of the client's smallest chunk.       *)
(***************************************************************************)
EXTENDS Naturals, Sequences, FiniteSets

CONSTANTS
    Connections,
    MaxBytes,    \* max_request_bytes
    ChunkSizes,  \* the chunks a client may send
    Declarations, \* what Content-Length may say, NoLength if it is absent
    NoLength,
    BadLength,   \* no integer, or a negative one
    AppStatus    \* the statuses the application answers with

ASSUME MiddlewareAssumption ==
    /\ IsFiniteSet(Connections)
    /\ MaxBytes \in Nat
    /\ ChunkSizes \subseteq Nat
    /\ Declarations \subseteq Nat \cup {NoLength, BadLength}
    /\ NoLength \notin Nat /\ BadLength \notin Nat
    /\ AppStatus \subseteq Nat

VARIABLES
    pc,       \* where __call__ stands, per connection
    body,     \* bytes buffered
    consumed, \* has replay() handed the body over
    started,  \* response_started
    status,   \* the local variable status
    wire,     \* the response starts that left for the client
    http_requests \* the counter, per status
mwVars == <<pc, body, consumed, started, status, wire, http_requests>>

Status == {400, 413, 500} \cup AppStatus
PC     == {"new", "reading", "app", "closing", "raising", "done"}

\* The variables' types.
MiddlewareTypeOK ==
    /\ pc \in [Connections -> PC]
    /\ body \in [Connections -> Nat]
    /\ consumed \in [Connections -> BOOLEAN]
    /\ started \in [Connections -> BOOLEAN]
    /\ status \in [Connections -> Status]
    /\ wire \in [Connections -> Seq(Status)]
    /\ http_requests \in [Status -> Nat]

MiddlewareInit ==
    /\ pc = [c \in Connections |-> "new"]
    /\ body = [c \in Connections |-> 0]
    /\ consumed = [c \in Connections |-> FALSE]
    /\ started = [c \in Connections |-> FALSE]
    /\ status = [c \in Connections |-> 500]
    /\ wire = [c \in Connections |-> <<>>]
    /\ http_requests = [s \in Status |-> 0]

---------------------------------------------------------------------------
Go(c, to) == pc' = [pc EXCEPT ![c] = to]

\* observed_send of http.response.start.
SendStart(c, code) ==
    /\ started' = [started EXCEPT ![c] = TRUE]
    /\ status' = [status EXCEPT ![c] = code]
    /\ wire' = [wire EXCEPT ![c] = Append(@, code)]

\* error(): a complete response of the middleware's own.
Error(c, code) == SendStart(c, code) /\ Go(c, "closing")

\* mutant of BeginRefused: a status outside the contract
BeginRefusedOther(c) ==
    /\ pc[c] = "new"
    /\ \E d \in Declarations :
         \/ d = BadLength /\ Error(c, 400)
         \/ d \in Nat /\ d > MaxBytes /\ Error(c, 431)
    /\ UNCHANGED <<body, consumed, http_requests>>

\* Content-Length, if there is one, is judged before anything is read.
BeginRefused(c) ==
    /\ pc[c] = "new"
    /\ \E d \in Declarations :
         \/ d = BadLength /\ Error(c, 400)
         \/ d \in Nat /\ d > MaxBytes /\ Error(c, 413)
    /\ UNCHANGED <<body, consumed, http_requests>>

BeginReading(c) ==
    /\ pc[c] = "new"
    /\ \E d \in Declarations : d = NoLength \/ (d \in Nat /\ d <= MaxBytes)
    /\ Go(c, "reading")
    /\ UNCHANGED <<body, consumed, started, status, wire, http_requests>>

\* mutant of Receive: the chunk is measured, not the body
ReceiveUnbounded(c, n, more) ==
    /\ pc[c] = "reading"
    /\ body' = [body EXCEPT ![c] = @ + n]
    /\ IF n > MaxBytes THEN Error(c, 413)
       ELSE Go(c, IF more THEN "reading" ELSE "app") /\ UNCHANGED <<started, status, wire>>
    /\ UNCHANGED <<consumed, http_requests>>

\* The next message is a chunk.  It is buffered first and measured then.
Receive(c, n, more) ==
    /\ pc[c] = "reading"
    /\ body' = [body EXCEPT ![c] = @ + n]
    /\ IF body'[c] > MaxBytes THEN Error(c, 413)
       ELSE Go(c, IF more THEN "reading" ELSE "app") /\ UNCHANGED <<started, status, wire>>
    /\ UNCHANGED <<consumed, http_requests>>

\* The client goes away in the middle of its body: return, unanswered.
Disconnect(c) ==
    /\ pc[c] = "reading"
    /\ Go(c, "closing")
    /\ UNCHANGED <<body, consumed, started, status, wire, http_requests>>

---------------------------------------------------------------------------
\* The application asks replay() for the body.  Asking again waits for the
\* server's next message, which can only be the client's disconnect.
AppReads(c) ==
    /\ pc[c] = "app"
    /\ ~consumed[c]
    /\ consumed' = [consumed EXCEPT ![c] = TRUE]
    /\ UNCHANGED <<pc, body, started, status, wire, http_requests>>

\* The application starts its response, once.
AppStarts(c, code) ==
    /\ pc[c] = "app"
    /\ ~started[c]
    /\ SendStart(c, code)
    /\ UNCHANGED <<pc, body, consumed, http_requests>>

\* The application is through.
AppReturns(c) ==
    /\ pc[c] = "app"
    /\ started[c]
    /\ Go(c, "closing")
    /\ UNCHANGED <<body, consumed, started, status, wire, http_requests>>

\* mutant of AppRaises
AppRaisesTwice(c) ==
    /\ pc[c] = "app"
    /\ Error(c, 500)
    /\ UNCHANGED <<body, consumed, http_requests>>

\* An exception nobody handled.  Once a response has started there is no
\* saying 500 any more, and the exception goes on to the server.
AppRaises(c) ==
    /\ pc[c] = "app"
    /\ IF started[c] THEN Go(c, "raising") /\ UNCHANGED <<started, status, wire>>
                     ELSE Error(c, 500)
    /\ UNCHANGED <<body, consumed, http_requests>>

\* mutant of Finally: an exception behind a response is not counted
FinallyOnReturn(c) ==
    /\ pc[c] \in {"closing", "raising"}
    /\ Go(c, "done")
    /\ http_requests' = IF pc[c] = "closing" THEN [http_requests EXCEPT ![status[c]] = @ + 1]
                        ELSE http_requests
    /\ UNCHANGED <<body, consumed, started, status, wire>>

\* The finally clause runs on every way out.
Finally(c) ==
    /\ pc[c] \in {"closing", "raising"}
    /\ Go(c, "done")
    /\ http_requests' = [http_requests EXCEPT ![status[c]] = @ + 1]
    /\ UNCHANGED <<body, consumed, started, status, wire>>

---------------------------------------------------------------------------
\* What the client does, and the middleware's reaction to it.
ClientStep(c) ==
    \/ BeginRefused(c)
    \/ BeginReading(c)
    \/ \E n \in ChunkSizes, more \in BOOLEAN : Receive(c, n, more)
    \/ Disconnect(c)

AppStep(c) ==
    \/ AppReads(c)
    \/ \E code \in AppStatus : AppStarts(c, code)
    \/ AppReturns(c)
    \/ AppRaises(c)

MiddlewareNext == \E c \in Connections : ClientStep(c) \/ AppStep(c) \/ Finally(c)

\* The application runs (ScoringService.score always ends) and so does the
\* middleware; clients may stall for ever.
MiddlewareFairness ==
    \A c \in Connections : WF_mwVars(AppStep(c)) /\ WF_mwVars(Finally(c))

MiddlewareSpec == MiddlewareInit /\ [][MiddlewareNext]_mwVars /\ MiddlewareFairness

---------------------------------------------------------------------------
\* No request is answered twice, whenever the application fails: error()
\* never starts a second response behind one that is under way.
OneResponse == \A c \in Connections : Len(wire[c]) <= 1

\* The application only ever sees a body within the limit, whatever
\* Content-Length promised and however the body was cut into chunks; a body
\* that outgrows the limit is answered 413 and not read on.
BoundedBody ==
    \A c \in Connections :
        /\ pc[c] = "app" => body[c] <= MaxBytes
        /\ body[c] > MaxBytes => wire[c] = <<413>>

\* http_requests_total counts each request once, when it is over, under the
\* status its client was sent, and under 500 if it was sent none: after an
\* early refusal, a disconnect, an answer, or an exception behind an answer.
Answer(c) == IF wire[c] = <<>> THEN 500 ELSE Head(wire[c])

RequestsCounted ==
    \A s \in Status :
        http_requests[s] = Cardinality({c \in Connections : pc[c] = "done" /\ Answer(c) = s})
=============================================================================
