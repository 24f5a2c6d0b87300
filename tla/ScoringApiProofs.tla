---------------------------- MODULE ScoringApiProofs ----------------------------
(***************************************************************************)
(* Proofs about RequestMiddleware and about ScoringApi, for any finite set *)
(* of connections, any limit, chunk sizes and declared lengths.  First the *)
(* middleware, around any application; then the scoring route, which is    *)
(* such an application, so that what was shown holds of it, and whose two  *)
(* sets of counters agree.                                                 *)
(***************************************************************************)
EXTENDS ScoringApi, FiniteSetTheorems, TLAPS

\* Where a connection stands says what it has been sent, and how much of its
\* body is held.
Shape(c) ==
    /\ pc[c] \in {"new", "reading"} => wire[c] = <<>>
    /\ started[c] <=> wire[c] # <<>>
    /\ Len(wire[c]) <= 1
    /\ status[c] = Answer(c)
    /\ pc[c] \in {"new", "reading", "app"} => body[c] <= MaxBytes
    /\ body[c] > MaxBytes => wire[c] = <<413>>

\* The inductive invariant of the middleware.
MInv ==
    /\ MiddlewareTypeOK
    /\ \A c \in Connections : Shape(c)
    /\ RequestsCounted

Moves(c) == ClientStep(c) \/ AppStep(c) \/ Finally(c)

---------------------------------------------------------------------------
\* No connection has been read.
LEMMA MiddlewareInitially == MiddlewareInit => MInv
<1> SUFFICES ASSUME MiddlewareInit PROVE MInv
  OBVIOUS
<1> USE DEF MiddlewareInit
<1>1. MiddlewareTypeOK
  BY DEF MiddlewareTypeOK, PC, Status
<1>2. \A c \in Connections : Shape(c)
  BY MiddlewareAssumption DEF Shape, Answer
<1>3. RequestsCounted
  <2>1. \A s \in Status : {c \in Connections : pc[c] = "done" /\ Answer(c) = s} = {}
    OBVIOUS
  <2> QED BY <2>1, FS_EmptySet DEF RequestsCounted
<1> QED BY <1>1, <1>2, <1>3 DEF MInv

\* Sending a response start from a connection that has sent none.
LEMMA StartShape ==
    ASSUME MInv, NEW c \in Connections, NEW code \in Status, SendStart(c, code), wire[c] = <<>>
    PROVE  /\ started'[c] /\ status'[c] = code /\ wire'[c] = <<code>>
           /\ \A d \in Connections \ {c} :
                started'[d] = started[d] /\ status'[d] = status[d] /\ wire'[d] = wire[d]
           /\ started' \in [Connections -> BOOLEAN]
           /\ status' \in [Connections -> Status]
           /\ wire' \in [Connections -> Seq(Status)]
BY DEF MInv, MiddlewareTypeOK, SendStart

\* Nothing changes for a connection another one's step leaves alone.
LEMMA OtherShape ==
    ASSUME NEW d \in Connections, Shape(d), pc'[d] = pc[d], body'[d] = body[d],
           started'[d] = started[d], status'[d] = status[d], wire'[d] = wire[d]
    PROVE  Shape(d)'
BY DEF Shape, Answer

\* A step that starts the only response of a connection and moves it to a
\* state it may be in with a response, with the body it has.
LEMMA StartStep ==
    ASSUME MInv, NEW c \in Connections, NEW code \in Status, SendStart(c, code),
           wire[c] = <<>>,
           pc' \in [Connections -> PC], \A d \in Connections \ {c} : pc'[d] = pc[d],
           pc'[c] \notin {"new", "reading"},
           body' \in [Connections -> Nat], \A d \in Connections \ {c} : body'[d] = body[d],
           body'[c] > MaxBytes => code = 413 /\ pc'[c] # "app",
           consumed' \in [Connections -> BOOLEAN], UNCHANGED http_requests
    PROVE  MiddlewareTypeOK' /\ \A d \in Connections : Shape(d)'
<1>1. MiddlewareTypeOK'
  BY StartShape DEF MInv, MiddlewareTypeOK
<1>2. Shape(c)'
  <2>1. started'[c] /\ status'[c] = code /\ wire'[c] = <<code>>
    BY StartShape
  <2>2. Len(<<code>>) = 1 /\ Head(<<code>>) = code /\ <<code>> # <<>>
    OBVIOUS
  <2>3. body'[c] \in Nat /\ MaxBytes \in Nat
    BY MiddlewareAssumption
  <2> QED BY <2>1, <2>2, <2>3 DEF Shape, Answer
<1>3. ASSUME NEW d \in Connections \ {c} PROVE Shape(d)'
  BY <1>3, StartShape, OtherShape DEF MInv
<1> QED BY <1>1, <1>2, <1>3

\* Every step keeps the types and the shape.
LEMMA ShapeStep ==
    ASSUME MInv, NEW c \in Connections, Moves(c)
    PROVE  MiddlewareTypeOK' /\ \A d \in Connections : Shape(d)'
<1> DEFINE Facts(p, b) ==
             /\ pc' \in [Connections -> PC] /\ pc'[c] = p
             /\ \A d \in Connections \ {c} : pc'[d] = pc[d]
             /\ body' \in [Connections -> Nat] /\ body'[c] = b
             /\ \A d \in Connections \ {c} : body'[d] = body[d]
             /\ consumed' \in [Connections -> BOOLEAN] /\ UNCHANGED http_requests
<1>0. 413 \in Status /\ 400 \in Status /\ 500 \in Status /\ AppStatus \subseteq Status
  BY DEF Status
<1>1. CASE BeginRefused(c)
  <2>1. PICK code \in {400, 413} : Error(c, code)
    BY <1>1 DEF BeginRefused
  <2>2. /\ wire[c] = <<>> /\ body[c] \in Nat /\ body[c] <= MaxBytes
        /\ Facts("closing", body[c])
    BY <1>1, <2>1 DEF BeginRefused, Error, Go, MInv, MiddlewareTypeOK, Shape, PC
  <2>3. SendStart(c, code)
    BY <2>1 DEF Error
  <2> QED BY <1>0, <2>2, <2>3, StartStep, MiddlewareAssumption
<1>2. CASE BeginReading(c)
  BY <1>2 DEF MInv, MiddlewareTypeOK, Shape, Answer, PC, Go, BeginReading
<1>3. ASSUME NEW n \in ChunkSizes, NEW more \in BOOLEAN, Receive(c, n, more)
      PROVE  MiddlewareTypeOK' /\ \A d \in Connections : Shape(d)'
  <2>10. /\ pc[c] = "reading" /\ wire[c] = <<>> /\ n \in Nat /\ body[c] \in Nat
         /\ body' = [body EXCEPT ![c] = body[c] + n] /\ UNCHANGED <<consumed, http_requests>>
    BY <1>3, MiddlewareAssumption DEF Receive, MInv, MiddlewareTypeOK, Shape
  <2>11. PICK p \in {"closing", "reading", "app"} : pc' = [pc EXCEPT ![c] = p]
    BY <1>3 DEF Receive, Error, Go
  <2>1. /\ wire[c] = <<>> /\ body[c] + n \in Nat
        /\ Facts(pc'[c], body[c] + n)
    BY <2>10, <2>11 DEF MInv, MiddlewareTypeOK, PC
  <2>2. CASE body'[c] > MaxBytes
    <3>1. SendStart(c, 413) /\ pc'[c] = "closing"
      BY <1>3, <2>2 DEF Receive, Error, Go, MInv, MiddlewareTypeOK
    <3> QED BY <1>0, <2>1, <3>1, StartStep
  <2>3. CASE ~(body'[c] > MaxBytes)
    <3>1. /\ UNCHANGED <<started, status, wire>>
          /\ pc[c] = "reading" /\ pc'[c] \in {"reading", "app"}
      BY <1>3, <2>3 DEF Receive, Go, MInv, MiddlewareTypeOK
    <3>2. MiddlewareTypeOK'
      BY <2>1, <3>1 DEF MInv, MiddlewareTypeOK
    <3>3. Shape(c)'
      BY <2>1, <2>3, <3>1, MiddlewareAssumption DEF MInv, Shape, Answer
    <3>4. ASSUME NEW d \in Connections \ {c} PROVE Shape(d)'
      BY <2>1, <3>1, <3>4, OtherShape DEF MInv
    <3> QED BY <3>2, <3>3, <3>4
  <2> QED BY <2>2, <2>3
<1>4. CASE Disconnect(c)
  BY <1>4 DEF MInv, MiddlewareTypeOK, Shape, Answer, PC, Go, Disconnect
<1>5. CASE AppReads(c)
  BY <1>5 DEF MInv, MiddlewareTypeOK, Shape, Answer, PC, Go, AppReads
<1>6. ASSUME NEW code \in AppStatus, AppStarts(c, code)
      PROVE  MiddlewareTypeOK' /\ \A d \in Connections : Shape(d)'
  <2>1. /\ pc[c] = "app" /\ SendStart(c, code) /\ ~started[c]
        /\ UNCHANGED <<pc, body, consumed, http_requests>>
    BY <1>6 DEF AppStarts
  <2>2. wire[c] = <<>> /\ body[c] \in Nat /\ body[c] <= MaxBytes
    BY <2>1 DEF MInv, MiddlewareTypeOK, Shape
  <2>3. Facts("app", body[c])
    BY <2>1 DEF MInv, MiddlewareTypeOK, PC
  <2>4. ~(body'[c] > MaxBytes) /\ code \in Status
    BY <1>0, <2>1, <2>2, MiddlewareAssumption
  <2> QED BY <2>1, <2>2, <2>3, <2>4, StartStep
<1>7. CASE AppReturns(c)
  BY <1>7 DEF MInv, MiddlewareTypeOK, Shape, Answer, PC, Go, AppReturns
<1>8. CASE AppRaises(c)
  <2>1. CASE started[c]
    <3>1. /\ pc[c] = "app" /\ pc' = [pc EXCEPT ![c] = "raising"]
          /\ UNCHANGED <<body, consumed, started, status, wire, http_requests>>
      BY <1>8, <2>1 DEF AppRaises, Go
    <3> QED BY <3>1 DEF MInv, MiddlewareTypeOK, Shape, Answer, PC
  <2>2. CASE ~started[c]
    <3>1. /\ pc[c] = "app" /\ SendStart(c, 500) /\ pc' = [pc EXCEPT ![c] = "closing"]
          /\ UNCHANGED <<body, consumed, http_requests>>
      BY <1>8, <2>2 DEF AppRaises, Error, Go
    <3>2. wire[c] = <<>> /\ body[c] \in Nat /\ body[c] <= MaxBytes
      BY <2>2, <3>1 DEF MInv, MiddlewareTypeOK, Shape
    <3>3. Facts("closing", body[c])
      BY <3>1 DEF MInv, MiddlewareTypeOK, PC
    <3>4. ~(body'[c] > MaxBytes)
      BY <3>1, <3>2, MiddlewareAssumption
    <3> QED BY <1>0, <3>1, <3>2, <3>3, <3>4, StartStep
  <2> QED BY <2>1, <2>2
<1>9. CASE Finally(c)
  BY <1>9 DEF MInv, MiddlewareTypeOK, Shape, Answer, PC, Go, Finally
<1> QED BY <1>1, <1>2, <1>3, <1>4, <1>5, <1>6, <1>7, <1>8, <1>9
        DEF Moves, ClientStep, AppStep

\* The counters follow: a connection is counted in the step that makes it
\* done, under the status it was answered with.
LEMMA CountStep ==
    ASSUME MInv, NEW c \in Connections, Moves(c)
    PROVE  RequestsCounted'
<1> DEFINE Over(s) == {d \in Connections : pc[d] = "done" /\ Answer(d) = s}
<1>1. CASE Finally(c)
  <2>1. /\ pc[c] # "done" /\ pc' = [pc EXCEPT ![c] = "done"] /\ wire' = wire
        /\ http_requests' = [http_requests EXCEPT ![status[c]] = @ + 1]
    BY <1>1 DEF Finally, Go
  <2>2. status[c] = Answer(c) /\ status[c] \in Status
    BY DEF MInv, MiddlewareTypeOK, Shape
  <2>3. ASSUME NEW s \in Status PROVE http_requests'[s] = Cardinality(Over(s)')
    <3>1. Over(s)' = IF s = status[c] THEN Over(s) \cup {c} ELSE Over(s)
      BY <2>1, <2>2 DEF MInv, MiddlewareTypeOK, Answer
    <3>2. IsFiniteSet(Over(s)) /\ c \notin Over(s)
      BY <2>1, MiddlewareAssumption, FS_Subset
    <3>3. Cardinality(Over(s) \cup {c}) = Cardinality(Over(s)) + 1
      BY <3>2, FS_AddElement
    <3>4. http_requests[s] = Cardinality(Over(s))
      BY DEF MInv, RequestsCounted
    <3>5. http_requests'[s] = IF s = status[c] THEN http_requests[s] + 1 ELSE http_requests[s]
      BY <2>1 DEF MInv, MiddlewareTypeOK
    <3> QED BY <3>1, <3>3, <3>4, <3>5
  <2> QED BY <2>3 DEF RequestsCounted
<1>2. CASE ClientStep(c) \/ AppStep(c)
  <2>1. pc[c] # "done" /\ pc'[c] # "done"
    BY <1>2 DEF ClientStep, AppStep, BeginRefused, BeginReading, Receive, Disconnect,
                AppReads, AppStarts, AppReturns, AppRaises, Error, Go, MInv, MiddlewareTypeOK
  <2>2. \A d \in Connections \ {c} : pc'[d] = pc[d] /\ wire'[d] = wire[d]
    BY <1>2 DEF ClientStep, AppStep, BeginRefused, BeginReading, Receive, Disconnect,
                AppReads, AppStarts, AppReturns, AppRaises, Error, SendStart, Go, MInv,
                MiddlewareTypeOK
  <2>3. http_requests' = http_requests
    BY <1>2 DEF ClientStep, AppStep, BeginRefused, BeginReading, Receive, Disconnect,
                AppReads, AppStarts, AppReturns, AppRaises
  <2>4. \A s \in Status : Over(s)' = Over(s)
    BY <2>1, <2>2 DEF Answer
  <2> QED BY <2>3, <2>4 DEF MInv, RequestsCounted
<1> QED BY <1>1, <1>2 DEF Moves

\* What the middleware promises, in every interleaving of the connections.
THEOREM MiddlewareInvariant == MiddlewareSpec => []MInv
<1>1. MInv /\ [MiddlewareNext]_mwVars => MInv'
  <2> SUFFICES ASSUME MInv, [MiddlewareNext]_mwVars PROVE MInv'
    OBVIOUS
  <2>1. ASSUME NEW c \in Connections, Moves(c) PROVE MInv'
    BY <2>1, ShapeStep, CountStep DEF MInv
  <2>2. CASE UNCHANGED mwVars
    BY <2>2 DEF mwVars, MInv, MiddlewareTypeOK, Shape, Answer, RequestsCounted
  <2> QED BY <2>1, <2>2 DEF MiddlewareNext, Moves
<1> QED BY <1>1, MiddlewareInitially, PTL DEF MiddlewareSpec

\* The middleware's variables keep their types: a request is counted under a
\* status the contract names.
THEOREM MiddlewareTypes == MiddlewareSpec => []MiddlewareTypeOK
<1>1. MInv => MiddlewareTypeOK
  BY DEF MInv
<1> QED BY <1>1, MiddlewareInvariant, PTL

\* No request is answered twice.
THEOREM AnsweredOnce == MiddlewareSpec => []OneResponse
<1>1. MInv => OneResponse
  BY DEF MInv, Shape, OneResponse
<1> QED BY <1>1, MiddlewareInvariant, PTL

\* The application never runs on a body beyond the limit.
THEOREM BodiesAreBounded == MiddlewareSpec => []BoundedBody
<1>1. MInv => BoundedBody
  BY DEF MInv, Shape, BoundedBody
<1> QED BY <1>1, MiddlewareInvariant, PTL

\* http_requests_total is exactly the requests that are over, by answer.
THEOREM RequestsAreCounted == MiddlewareSpec => []RequestsCounted
<1>1. MInv => RequestsCounted
  BY DEF MInv
<1> QED BY <1>1, MiddlewareInvariant, PTL

---------------------------------------------------------------------------
\* Where the call of a connection stands, against what its client was sent.
Stage(c) ==
    /\ pc[c] \in {"new", "reading"} => call[c] = "new"
    /\ call[c] = "open" => pc[c] = "app" /\ ~started[c]
    /\ call[c] \in Service!Outcome /\ pc[c] # "app" => started[c]
    /\ call[c] \in Service!Outcome /\ started[c] => Answer(c) = StatusOf(call[c])
    /\ call[c] = "new" => Answer(c) \notin {200, 503}

\* The calls and the service's counters.
CallTypes ==
    /\ call \in [Connections -> {"new", "open", "decision", "unavailable"}]
    /\ tally \in [{"open", "decision", "unavailable"} -> Nat]

\* The service's counters are the calls that came to each end.
Calls(k) == {c \in Connections : call[c] = k}
Tallied == \A k \in Service!Outcome : tally[k] = Cardinality(Calls(k))

\* The inductive invariant of the endpoint.
AInv ==
    /\ MInv
    /\ CallTypes
    /\ \A c \in Connections : Stage(c)
    /\ Tallied

---------------------------------------------------------------------------
\* A step of the endpoint is one of the middleware's, or none.
LEMMA StepMaps ==
    ASSUME NEW c \in Connections, Outside(c) \/ Inside(c)
    PROVE  Moves(c) \/ UNCHANGED mwVars
<1>1. CASE Outside(c)
  BY <1>1 DEF Outside, Moves
<1>2. CASE RefuseTransaction(c)
  BY <1>2, ApiAssumption DEF RefuseTransaction, Moves, AppStep
<1>3. CASE Respond(c)
  <2>1. StatusOf(call[c]) \in AppStatus
    BY ApiAssumption DEF StatusOf
  <2> QED BY <1>3, <2>1 DEF Respond, Moves, AppStep
<1>4. CASE ReadTransaction(c) \/ Leave(c) \/ Fails(c)
  BY <1>4 DEF ReadTransaction, Leave, Fails, Moves, AppStep
<1>5. CASE CallService(c) \/ ServiceEnds(c)
  BY <1>5 DEF CallService, ServiceEnds
<1> QED BY <1>1, <1>2, <1>3, <1>4, <1>5 DEF Inside

\* The route is an application the middleware was specified for.
THEOREM EndpointIsMiddleware == ApiSpec => MiddlewareInit /\ [][MiddlewareNext]_mwVars
<1>1. ApiInit => MiddlewareInit
  BY DEF ApiInit
<1>2. [ApiNext]_apiVars => [MiddlewareNext]_mwVars
  BY StepMaps DEF ApiNext, apiVars, mwVars, MiddlewareNext, Moves
<1> QED BY <1>1, <1>2, PTL DEF ApiSpec

---------------------------------------------------------------------------
\* No call has been made.
LEMMA ApiInitially == ApiInit => AInv
<1> SUFFICES ASSUME ApiInit PROVE AInv
  OBVIOUS
<1> USE DEF ApiInit, Service!Init, Service!Outcome
<1>1. MInv
  BY MiddlewareInitially
<1>2. CallTypes
  BY DEF CallTypes
<1>3. ASSUME NEW c \in Connections PROVE Stage(c)
  BY DEF Stage, Answer, MiddlewareInit
<1>4. \A k \in Service!Outcome : Calls(k) = {}
  BY DEF Calls
<1>5. Tallied
  BY <1>4, FS_EmptySet DEF Tallied
<1> QED BY <1>1, <1>2, <1>3, <1>5 DEF AInv

\* The response of a connection starts.
Starts(c) == pc[c] = "app" /\ ~started[c] /\ started'[c]

\* What it says is how its call ended, or that there was none.
Fits(c) ==
    IF call[c] \in Service!Outcome THEN wire'[c] = <<StatusOf(call[c])>>
    ELSE call[c] = "new" /\ wire'[c] \in {<<400>>, <<422>>, <<500>>}

\* What the middleware, or the route without the service, does to one
\* connection: the call stays, and the answer fits it.
LEMMA QuietStage ==
    ASSUME AInv, NEW c \in Connections, Moves(c), call' = call, tally' = tally,
           Starts(c) => Fits(c)
    PROVE  \A d \in Connections : Stage(d)'
<1>0. MInv' /\ MiddlewareTypeOK'
  BY ShapeStep, CountStep DEF AInv, MInv
<1> USE DEF AInv, MInv, MiddlewareTypeOK, Service!Outcome, Starts, Fits
<1>1. ASSUME NEW d \in Connections \ {c} PROVE Stage(d)'
  <2>1. pc'[d] = pc[d] /\ started'[d] = started[d] /\ wire'[d] = wire[d] /\ call'[d] = call[d]
    BY DEF Moves, ClientStep, AppStep, Finally, BeginRefused, BeginReading, Receive, Disconnect,
           AppReads, AppStarts, AppReturns, AppRaises, Error, SendStart, Go
  <2> QED BY <2>1 DEF Stage, Answer
<1>2. Stage(c)'
  <2>1. Stage(c) /\ Shape(c) /\ Shape(c)' /\ call'[c] = call[c]
    BY <1>0
  <2>2. CASE ClientStep(c)
    <3>1. pc[c] \in {"new", "reading"} /\ call[c] = "new" /\ wire[c] = <<>>
      BY <2>1, <2>2 DEF ClientStep, BeginRefused, BeginReading, Receive, Disconnect, Stage, Shape
    <3>2. wire'[c] \in {<<>>, <<400>>, <<413>>}
      BY <2>2, <3>1
         DEF ClientStep, BeginRefused, BeginReading, Receive, Disconnect, Error, SendStart
    <3> QED BY <2>1, <3>1, <3>2 DEF Stage, Answer
  <2>3. CASE AppStep(c)
    <3>1. pc[c] = "app" /\ pc'[c] \notin {"new", "reading"}
      BY <2>3 DEF AppStep, AppReads, AppStarts, AppReturns, AppRaises, Error, Go
    <3>2. CASE started[c]
      <4>1. started'[c] /\ wire'[c] = wire[c]
        BY <2>3, <3>2 DEF AppStep, AppReads, AppStarts, AppReturns, AppRaises
      <4> QED BY <2>1, <3>1, <3>2, <4>1 DEF Stage, Answer
    <3>3. CASE ~started[c] /\ ~started'[c]
      <4>1. pc'[c] = "app" /\ wire'[c] = wire[c]
        BY <2>3, <3>1, <3>3
           DEF AppStep, AppReads, AppStarts, AppReturns, AppRaises, Error, SendStart
      <4> QED BY <2>1, <3>1, <3>3, <4>1 DEF Stage, Answer
    <3>4. CASE ~started[c] /\ started'[c]
      <4>1. CASE call[c] \in Service!Outcome
        <5>1. wire'[c] = <<StatusOf(call[c])>> /\ call'[c] = call[c]
          BY <2>1, <3>1, <3>4, <4>1
        <5>2. wire'[c] # <<>> /\ Head(wire'[c]) = StatusOf(call[c])
          <6>1. \A x : <<x>> # <<>> /\ Head(<<x>>) = x
            OBVIOUS
          <6> QED BY <5>1, <6>1
        <5>3. Answer(c)' = StatusOf(call[c])
          BY <5>2 DEF Answer
        <5> QED BY <2>1, <3>1, <3>4, <4>1, <5>1, <5>2, <5>3 DEF Stage
      <4>2. CASE call[c] \notin Service!Outcome
        BY <2>1, <3>1, <3>4, <4>2 DEF Stage, Answer
      <4> QED BY <4>1, <4>2
    <3>5. started[c] \in BOOLEAN /\ started'[c] \in BOOLEAN
      BY <1>0
    <3> QED BY <3>2, <3>3, <3>4, <3>5
  <2>4. CASE Finally(c)
    <3>1. /\ pc[c] \in {"closing", "raising"} /\ pc'[c] = "done"
          /\ started'[c] = started[c] /\ wire'[c] = wire[c]
      BY <2>4 DEF Finally, Go
    <3> QED BY <2>1, <3>1 DEF Stage, Answer
  <2> QED BY <2>2, <2>3, <2>4 DEF Moves
<1> QED BY <1>1, <1>2

\* The call of one connection moves and the middleware does not.
LEMMA CallStage ==
    ASSUME AInv, NEW c \in Connections, CallService(c) \/ ServiceEnds(c)
    PROVE  CallTypes' /\ (\A d \in Connections : Stage(d)') /\ Tallied'
<1> USE DEF AInv, MInv, MiddlewareTypeOK, CallTypes, Service!Outcome
<1>1. UNCHANGED <<pc, started, wire>>
  BY DEF CallService, ServiceEnds, mwVars
<1>2. CASE CallService(c)
  <2>1. call[c] = "new" /\ call' = [call EXCEPT ![c] = "open"]
        /\ tally' = [tally EXCEPT !["open"] = @ + 1] /\ pc[c] = "app" /\ ~started[c]
    BY <1>2 DEF CallService, Service!Accept
  <2>2. \A k \in Service!Outcome : Calls(k)' = Calls(k) /\ tally'[k] = tally[k]
    BY <2>1 DEF Calls
  <2>3. \A d \in Connections : Stage(d)'
    BY <1>1, <2>1 DEF Stage, Answer
  <2> QED BY <2>1, <2>2, <2>3 DEF Tallied
<1>3. CASE ServiceEnds(c)
  <2>1. PICK k \in Service!Outcome : Service!Close(c, k)
    BY <1>3 DEF ServiceEnds
  <2>2. call[c] = "open" /\ call' = [call EXCEPT ![c] = k]
        /\ tally' = [tally EXCEPT ![k] = @ + 1] /\ pc[c] = "app" /\ ~started[c]
    BY <2>1 DEF Service!Close, Stage
  <2>3. \A d \in Connections : Stage(d)'
    BY <1>1, <2>2 DEF Stage, Answer
  <2>4. ASSUME NEW j \in Service!Outcome PROVE tally'[j] = Cardinality(Calls(j)')
    <3>1. Calls(j)' = IF j = k THEN Calls(j) \cup {c} ELSE Calls(j)
      BY <2>2 DEF Calls
    <3>2. IsFiniteSet(Calls(j)) /\ c \notin Calls(j)
      BY <2>2, MiddlewareAssumption, FS_Subset DEF Calls
    <3>3. Cardinality(Calls(j) \cup {c}) = Cardinality(Calls(j)) + 1
      BY <3>2, FS_AddElement
    <3>4. tally'[j] = IF j = k THEN tally[j] + 1 ELSE tally[j]
      BY <2>2
    <3>5. tally[j] = Cardinality(Calls(j))
      BY DEF Tallied
    <3> QED BY <3>1, <3>3, <3>4, <3>5
  <2> QED BY <2>2, <2>3, <2>4 DEF Tallied
<1> QED BY <1>2, <1>3

\* The inductive invariant of the endpoint.
THEOREM ApiInvariant == ApiSpec => []AInv
<1>1. AInv /\ [ApiNext]_apiVars => AInv'
  <2> SUFFICES ASSUME AInv, [ApiNext]_apiVars PROVE AInv'
    OBVIOUS
  <2>1. ASSUME NEW c \in Connections, Outside(c) \/ Inside(c) PROVE AInv'
    <3>1. CASE CallService(c) \/ ServiceEnds(c)
      <4>1. UNCHANGED mwVars
        BY <3>1 DEF CallService, ServiceEnds
      <4>2. MInv'
        BY <4>1 DEF AInv, mwVars, MInv, MiddlewareTypeOK, Shape, Answer, RequestsCounted
      <4> QED BY <3>1, <4>2, CallStage DEF AInv
    <3>2. CASE ~(CallService(c) \/ ServiceEnds(c))
      <4>1. Moves(c)
        <5>1. StatusOf(call[c]) \in AppStatus
          BY ApiAssumption DEF StatusOf
        <5> QED BY <2>1, <3>2, <5>1, ApiAssumption
                DEF Outside, Inside, ReadTransaction, RefuseTransaction, Respond, Leave, Fails,
                    Moves, AppStep
      <4>2. UNCHANGED <<call, tally>>
        BY <2>1, <3>2
           DEF Outside, Inside, ReadTransaction, RefuseTransaction, Respond, Leave, Fails
      <4>3. MInv'
        BY <4>1, ShapeStep, CountStep DEF AInv, MInv
      <4>4. Starts(c) => Fits(c)
        <5> SUFFICES ASSUME Starts(c) PROVE Fits(c)
          OBVIOUS
        <5> USE DEF Starts, Fits
        <5>1. wire[c] = <<>> /\ wire \in [Connections -> Seq(Status)]
          BY DEF AInv, MInv, MiddlewareTypeOK, Shape
        <5>2. ASSUME NEW code, SendStart(c, code) PROVE wire'[c] = <<code>>
          BY <5>1, <5>2 DEF SendStart
        <5>3. CASE Outside(c) \/ ReadTransaction(c) \/ Leave(c)
          BY <5>3 DEF Outside, ClientStep, BeginRefused, BeginReading, Receive, Disconnect,
                      Finally, ReadTransaction, AppReads, Leave, AppReturns
        <5>4. CASE RefuseTransaction(c)
          BY <5>2, <5>4 DEF RefuseTransaction, AppStarts, Service!Outcome
        <5>5. CASE Respond(c)
          BY <5>2, <5>5 DEF Respond, AppStarts
        <5>6. CASE Fails(c)
          <6>1. call[c] = "new" /\ SendStart(c, 500)
            BY <5>6 DEF Fails, AppRaises, Error
          <6> QED BY <5>2, <6>1 DEF Service!Outcome
        <5> QED BY <2>1, <3>2, <5>3, <5>4, <5>5, <5>6 DEF Inside
      <4>5. \A d \in Connections : Stage(d)'
        BY <4>1, <4>2, <4>4, QuietStage
      <4>6. CallTypes' /\ Tallied'
        BY <4>2 DEF AInv, CallTypes, Tallied, Calls
      <4> QED BY <4>3, <4>5, <4>6 DEF AInv
    <3> QED BY <3>1, <3>2
  <2>2. CASE UNCHANGED apiVars
    BY <2>2 DEF apiVars, AInv, MInv, MiddlewareTypeOK, Shape, Answer, RequestsCounted, CallTypes,
                Stage, Tallied, Calls
  <2> QED BY <2>1, <2>2 DEF ApiNext
<1> QED BY <1>1, ApiInitially, PTL DEF ApiSpec

\* What the middleware promises around any application holds of the scoring
\* route: one response, a bounded body, one count (score_transaction behind
\* RequestMiddleware).
THEOREM EndpointKeepsPromises ==
    ApiSpec => [](MiddlewareTypeOK /\ OneResponse /\ BoundedBody /\ RequestsCounted)
<1>1. MInv => MiddlewareTypeOK /\ OneResponse /\ BoundedBody /\ RequestsCounted
  BY DEF MInv, Shape, OneResponse, BoundedBody
<1> QED BY <1>1, ApiInvariant, PTL DEF AInv

\* A refused request was never scored, and no call outlives its request.
THEOREM RefusedAreNotScored == ApiSpec => []RefusedNotScored
<1>1. AInv => RefusedNotScored
  BY DEF AInv, MInv, Shape, CallTypes, Stage, StatusOf, RefusedNotScored, Service!Outcome
<1> QED BY <1>1, ApiInvariant, PTL

\* The calls that came to an end k, by those whose clients have been told.
LEMMA CountsMatch ==
    ASSUME AInv, NEW k \in Service!Outcome
    PROVE  tally[k] = http_requests[StatusOf(k)] + UnderWay(k)
<1> DEFINE Told == {c \in Connections : pc[c] = "done" /\ Answer(c) = StatusOf(k)}
           Open == {c \in Connections : call[c] = k /\ pc[c] # "done"}
<1>1. StatusOf(k) \in Status
  BY ApiAssumption DEF StatusOf, Status
<1>2. http_requests[StatusOf(k)] = Cardinality(Told)
  BY <1>1 DEF AInv, MInv, RequestsCounted
<1>3. UnderWay(k) = Cardinality(Open)
  BY DEF UnderWay
<1>4. tally[k] = Cardinality(Calls(k))
  BY DEF AInv, Tallied
<1>5. \A c \in Connections : pc[c] = "done" => (Answer(c) = StatusOf(k) <=> call[c] = k)
  BY DEF AInv, CallTypes, Stage, StatusOf, Service!Outcome
<1>6. Calls(k) = Told \cup Open /\ Told \cap Open = {}
  BY <1>5 DEF Calls
<1>7. IsFiniteSet(Told) /\ IsFiniteSet(Open)
  BY MiddlewareAssumption, FS_Subset
<1>8. Cardinality(Told \cup Open) = Cardinality(Told) + Cardinality(Open)
                                      - Cardinality(Told \cap Open)
  BY <1>7, FS_Union
<1>9. Cardinality(Told) \in Nat /\ Cardinality(Open) \in Nat
  BY <1>7, FS_CardinalityType
<1> HIDE DEF Told, Open
<1>10. Cardinality(Told \cap Open) = 0
  BY <1>6, FS_EmptySet
<1> QED BY <1>2, <1>3, <1>4, <1>6, <1>8, <1>9, <1>10

\* What the service counted is what the clients were told, or are about to be.
THEOREM CountersDoAgree == ApiSpec => []CountersAgree
<1>1. AInv => CountersAgree
  <2> SUFFICES ASSUME AInv PROVE CountersAgree
    OBVIOUS
  <2>1. "decision" \in Service!Outcome /\ "unavailable" \in Service!Outcome
    BY DEF Service!Outcome
  <2>2. StatusOf("decision") = 200 /\ StatusOf("unavailable") = 503
    BY DEF StatusOf
  <2> QED BY <2>1, <2>2, CountsMatch DEF CountersAgree
<1> QED BY <1>1, ApiInvariant, PTL
================================================================================
