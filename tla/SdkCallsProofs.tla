---------------------------- MODULE SdkCallsProofs ----------------------------
(***************************************************************************)
(* Proofs about SdkCalls, for any calls, schemas, endpoints, setups,       *)
(* configurations and requests.                                            *)
(***************************************************************************)
EXTENDS SdkCalls, FiniteSetTheorems, TLAPS

-----------------------------------------------------------------------------
(***************************************************************************)
(* The service behind the middleware.                                      *)
(***************************************************************************)

Answers == {"none", "handler", "altered", "rejected", "aborted", "unread"}

Stages == {"free", "received", "handler", "rejecting", "replied", "done"}
InputsSeen == Inputs \cup {CHOOSE q \in Inputs : TRUE}
Served == [at : Stages, input : InputsSeen, answer : Answers, handled : BOOLEAN]

ServedTyped == exchange \in [Exchanges -> Served]

Strict == config.request /\ config.mode = "strict" /\ ~config.async /\ Plain
Lenient == config.mode \in {"warn", "shadow"} /\ Plain
Undisturbed == \A x \in Exchanges : ~Races(x)
Untouched == \A x \in Exchanges : ~Mutates(x)

\* Before its handler a request has no answer.
Early(r) == r.at \in {"free", "received", "handler"} => r.answer = "none" /\ ~r.handled

\* What an invalid request never reaches in strict mode: the handler, and what follows it.
StrictAllows(r) ==
    r.at \in {"handler", "replied"} \/ r.handled => r.input.excluded \/ r.input.verdict = "valid"

\* In the other modes no verdict is an answer, and none is on its way.
LenientAllows(r) ==
    /\ r.at # "rejecting"
    /\ r.answer # "rejected"
    /\ r.answer = "unread" => ~r.input.readable
    /\ r.answer = "altered" => config.adapter = "nethttp" /\ r.input.handler = "special"

\* There nothing comes between a request and its handler, unless a data race ends the process.
Calm == ~crashed /\ \A x \in Exchanges : exchange[x].answer = "aborted" => exchange[x].handled

ServedInv ==
    /\ ServedTyped
    /\ \A x \in Exchanges : Early(exchange[x])
    /\ Strict => \A x \in Exchanges : StrictAllows(exchange[x])
    /\ Lenient => \A x \in Exchanges : LenientAllows(exchange[x])
    /\ Lenient /\ Undisturbed => Calm

\* The service begins with no request in it.
LEMMA ServedInit == MiddlewareInit => ServedInv
<1> SUFFICES ASSUME MiddlewareInit PROVE ServedInv
  OBVIOUS
<1>1. \A x \in Exchanges :
        exchange[x].at = "free" /\ exchange[x].answer = "none" /\ exchange[x].handled = FALSE
  BY DEF MiddlewareInit, Unused
<1>2. ServedTyped
  BY DEF MiddlewareInit, ServedTyped, Served, Stages, Answers, InputsSeen, Unused
<1>3. Calm
  BY <1>1 DEF MiddlewareInit, Calm
<1> QED
  BY <1>1, <1>2, <1>3 DEF ServedInv, Early, StrictAllows, LenientAllows

\* A failed request passes in the lenient modes, and never in strict mode.
LEMMA FailureByMode ==
  ASSUME Plain, NEW writer \in BOOLEAN
  PROVE  LET failure == HandleRequestValidationFailure(config, writer)
         IN  /\ config.mode = "strict" => ~failure.continues
             /\ Lenient => failure.continues /\ ~failure.panics
BY DEF Plain, Lenient, HandleRequestValidationFailure

\* A request once begun is the same until its end, and so is what disturbs it.
LEMMA Disturbed ==
  ASSUME UNCHANGED config,
         \A y \in Exchanges : exchange[y].at # "free" =>
             exchange'[y].at # "free" /\ exchange'[y].input = exchange[y].input
  PROVE  \A y \in Exchanges : (Mutates(y) => Mutates(y)') /\ (Races(y) => Races(y)')
BY DEF Mutates, Races

\* Only the request that moves needs to be looked at.
LEMMA ServedKept ==
  ASSUME ServedInv, NEW x \in Exchanges, NEW r \in Served, UNCHANGED <<config, crashed>>,
         exchange' = [exchange EXCEPT ![x] = r], r.at # "free", Early(r),
         exchange[x].at # "free" => r.input = exchange[x].input,
         Strict => StrictAllows(r),
         Lenient => LenientAllows(r),
         Lenient /\ r.answer = "aborted" /\ Undisturbed => r.handled
  PROVE  ServedInv'
<1>1. /\ exchange'[x] = r /\ exchange' \in [Exchanges -> Served]
      /\ \A y \in Exchanges \ {x} : exchange'[y] = exchange[y]
  BY DEF ServedInv, ServedTyped
<1>2. (Strict' => Strict) /\ (Lenient' => Lenient)
  BY DEF Strict, Lenient, Plain
<1>3. Undisturbed' => Undisturbed
  <2>1. \A y \in Exchanges : exchange[y].at # "free" =>
             exchange'[y].at # "free" /\ exchange'[y].input = exchange[y].input
    BY <1>1
  <2> QED
    BY <2>1, Disturbed DEF Undisturbed
<1>4. ServedTyped'
  BY <1>1 DEF ServedTyped
<1>5. \A y \in Exchanges : Early(exchange[y])'
  BY <1>1 DEF ServedInv, Early
<1>6. Strict' => \A y \in Exchanges : StrictAllows(exchange[y])'
  BY <1>1, <1>2 DEF ServedInv, StrictAllows
<1>7. Lenient' => \A y \in Exchanges : LenientAllows(exchange[y])'
  BY <1>1, <1>2 DEF ServedInv, LenientAllows
<1>8. Lenient' /\ Undisturbed' => Calm'
  BY <1>1, <1>2, <1>3 DEF ServedInv, Calm
<1> QED
  BY <1>4, <1>5, <1>6, <1>7, <1>8 DEF ServedInv

\* A new request is the service's own affair.
LEMMA ReceiveServed ==
  ASSUME ServedInv, NEW x \in Exchanges, NEW q \in Inputs, Receive(x, q)
  PROVE  ServedInv'
<1> DEFINE next == IF ~ShouldValidatePath(q) THEN "handler" ELSE IF q.readable THEN "received" ELSE "done"
           answer == IF ShouldValidatePath(q) /\ ~q.readable THEN "unread" ELSE exchange[x].answer
           r == [exchange[x] EXCEPT !.at = next, !.answer = answer, !.input = q]
<1>1. /\ exchange' = [exchange EXCEPT ![x] = r]
      /\ UNCHANGED <<config, crashed>>
      /\ exchange[x].at = "free"
  BY DEF Receive, Alive, ServedInv, ServedTyped
<1>2. /\ exchange[x] \in Served /\ q \in InputsSeen
      /\ exchange[x].answer = "none" /\ ~exchange[x].handled
  BY <1>1 DEF ServedInv, ServedTyped, InputsSeen, Early
<1>3. \/ next = "handler" /\ answer = "none" /\ q.excluded
      \/ next = "received" /\ answer = "none"
      \/ next = "done" /\ answer = "unread" /\ ~q.readable
  BY <1>2 DEF ShouldValidatePath
<1> HIDE DEF next, answer
<1>4. r \in Served
  BY <1>2, <1>3 DEF Served, Stages, Answers
<1>5. r.at = next /\ r.answer = answer /\ r.input = q /\ ~r.handled
  BY <1>2 DEF Served
<1>6. Early(r) /\ StrictAllows(r) /\ LenientAllows(r)
  BY <1>3, <1>5 DEF Early, StrictAllows, LenientAllows
<1> HIDE DEF r
<1> QED
  BY <1>1, <1>3, <1>4, <1>5, <1>6, ServedKept

\* Each step of the service preserves the invariant.
LEMMA ServeServed ==
  ASSUME ServedInv, NEW x \in Exchanges, ServeStep(x)
  PROVE  ServedInv'
<1>0. /\ exchange \in [Exchanges -> Served] /\ exchange[x] \in Served
      /\ Early(exchange[x])
      /\ Strict => StrictAllows(exchange[x])
      /\ Lenient => LenientAllows(exchange[x])
  BY DEF ServedInv, ServedTyped
<1>1. CASE SkipRequest(x) \/ RequestPasses(x) \/ SpawnRequestCheck(x)
  <2> DEFINE r == [exchange[x] EXCEPT !.at = "handler"]
  <2>1. /\ exchange[x].at = "received" /\ UNCHANGED <<config, crashed>>
        /\ exchange' = [exchange EXCEPT ![x] = r]
    BY <1>0, <1>1 DEF SkipRequest, RequestPasses, SpawnRequestCheck, Moves, Alive
  <2>2. /\ r \in Served /\ r.at = "handler" /\ r.answer = "none" /\ ~r.handled
        /\ r.input = exchange[x].input
    BY <1>0, <2>1 DEF Served, Stages, Early
  <2>3. Strict => exchange[x].input.verdict = "valid"
    BY <1>1 DEF SkipRequest, RequestPasses, SpawnRequestCheck, Strict, ShouldValidateAsync,
                ValidateRequest, NewProducer
  <2>4. Early(r) /\ (Strict => StrictAllows(r)) /\ LenientAllows(r)
    BY <2>2, <2>3 DEF Early, StrictAllows, LenientAllows
  <2> HIDE DEF r
  <2> QED
    BY <2>1, <2>2, <2>4, ServedKept
<1>2. CASE RequestFails(x)
  <2> DEFINE failure == HandleRequestValidationFailure(config, config.adapter = "nethttp")
  <2>1. UNCHANGED <<config, crashed>> /\ exchange[x].at = "received"
    BY <1>2 DEF RequestFails, Alive
  <2>2. \/ failure.panics /\ Ends(x, "aborted")
        \/ failure.continues /\ Moves(x, "handler")
        \/ /\ ~failure.panics /\ ~failure.continues
           /\ exchange' = [exchange EXCEPT ![x].at = "rejecting", ![x].answer = "rejected"]
    BY <1>2 DEF RequestFails
  <2>3. /\ Strict => ~failure.continues
        /\ Lenient => failure.continues /\ ~failure.panics
    <3>1. (config.adapter = "nethttp") \in BOOLEAN
      OBVIOUS
    <3> QED
      BY <3>1, FailureByMode DEF Lenient, Strict
  <2> HIDE DEF failure
  <2>4. exchange[x].answer = "none" /\ ~exchange[x].handled
    BY <1>0, <2>1 DEF Early
  <2>5. PICK r \in Served :
          /\ exchange' = [exchange EXCEPT ![x] = r]
          /\ r.input = exchange[x].input /\ ~r.handled
          /\ \/ r.at = "done" /\ r.answer = "aborted" /\ ~Lenient
             \/ r.at = "handler" /\ r.answer = "none" /\ ~Strict
             \/ r.at = "rejecting" /\ r.answer = "rejected" /\ ~Lenient
    <3>1. CASE failure.panics /\ Ends(x, "aborted")
      <4> DEFINE r == [exchange[x] EXCEPT !.at = "done", !.answer = "aborted"]
      <4>1. r \in Served /\ r.input = exchange[x].input /\ ~r.handled /\ r.at = "done" /\ r.answer = "aborted"
        BY <1>0, <2>4 DEF Served, Stages, Answers
      <4>2. exchange' = [exchange EXCEPT ![x] = r]
        BY <1>0, <3>1 DEF Ends
      <4> QED
        BY <2>3, <3>1, <4>1, <4>2
    <3>2. CASE failure.continues /\ Moves(x, "handler")
      <4> DEFINE r == [exchange[x] EXCEPT !.at = "handler"]
      <4>1. r \in Served /\ r.input = exchange[x].input /\ ~r.handled /\ r.at = "handler" /\ r.answer = "none"
        BY <1>0, <2>4 DEF Served, Stages, Answers
      <4>2. exchange' = [exchange EXCEPT ![x] = r]
        BY <1>0, <3>2 DEF Moves
      <4> QED
        BY <2>3, <3>2, <4>1, <4>2
    <3>3. CASE /\ ~failure.panics /\ ~failure.continues
               /\ exchange' = [exchange EXCEPT ![x].at = "rejecting", ![x].answer = "rejected"]
      <4> DEFINE r == [exchange[x] EXCEPT !.at = "rejecting", !.answer = "rejected"]
      <4>1. r \in Served /\ r.input = exchange[x].input /\ ~r.handled /\ r.at = "rejecting" /\ r.answer = "rejected"
        BY <1>0, <2>4 DEF Served, Stages, Answers
      <4>2. exchange' = [exchange EXCEPT ![x] = r]
        BY <1>0, <3>3
      <4> QED
        BY <2>3, <3>3, <4>1, <4>2
    <3> QED
      BY <2>2, <3>1, <3>2, <3>3
  <2>6. /\ Early(r) /\ (Strict => StrictAllows(r)) /\ (Lenient => LenientAllows(r))
        /\ r.at # "free" /\ ~(Lenient /\ r.answer = "aborted")
    BY <2>5 DEF Early, StrictAllows, LenientAllows
  <2> QED
    BY <2>1, <2>5, <2>6, ServedKept
<1>3. CASE RecordRejection(x) \/ CheckResponse(x) \/ SpawnResponseCheck(x)
  <2> DEFINE r == [exchange[x] EXCEPT !.at = "done"]
  <2>1. /\ exchange[x].at \in {"rejecting", "replied"} /\ UNCHANGED <<config, crashed>>
        /\ exchange' = [exchange EXCEPT ![x] = r]
    BY <1>0, <1>3 DEF RecordRejection, CheckResponse, SpawnResponseCheck, Moves, Alive
  <2>2. /\ r \in Served /\ r.at = "done" /\ r.answer = exchange[x].answer
        /\ r.handled = exchange[x].handled /\ r.input = exchange[x].input
    BY <1>0 DEF Served, Stages
  <2>3. Early(r) /\ (Strict => StrictAllows(r)) /\ (Lenient => LenientAllows(r))
    BY <1>0, <2>2 DEF Early, StrictAllows, LenientAllows
  <2>4. Lenient /\ Undisturbed /\ r.answer = "aborted" => r.handled
    BY <2>2 DEF ServedInv, Calm
  <2> HIDE DEF r
  <2> QED
    BY <2>1, <2>2, <2>3, <2>4, ServedKept
<1>4. CASE Handle(x)
  <2> DEFINE q == exchange[x].input
             alters == config.adapter = "nethttp" /\ q.handler = "special" /\ ShouldValidatePath(q)
             answer == IF alters THEN "altered" ELSE "handler"
             next == IF ShouldValidatePath(q) THEN "replied" ELSE "done"
             r == [exchange[x] EXCEPT !.answer = answer, !.handled = TRUE, !.at = next]
  <2>1. /\ exchange[x].at = "handler" /\ UNCHANGED <<config, crashed>>
        /\ exchange' = [exchange EXCEPT ![x] = r]
    BY <1>0, <1>4 DEF Handle, Alive
  <2>2. /\ next \in {"replied", "done"} /\ answer \in {"handler", "altered"}
        /\ answer = "altered" => config.adapter = "nethttp" /\ q.handler = "special"
    OBVIOUS
  <2> HIDE DEF next, answer
  <2>3. /\ r \in Served /\ r.at = next /\ r.answer = answer /\ r.handled
        /\ r.input = exchange[x].input
    BY <1>0, <2>2 DEF Served, Stages, Answers
  <2>4. Early(r) /\ (Strict => StrictAllows(r)) /\ LenientAllows(r)
    BY <1>0, <2>1, <2>2, <2>3 DEF Early, StrictAllows, LenientAllows
  <2> HIDE DEF r
  <2> QED
    BY <2>1, <2>2, <2>3, <2>4, ServedKept
<1>5. CASE HandlerPanics(x)
  <2> DEFINE r == [exchange[x] EXCEPT !.at = "done", !.answer = "aborted", !.handled = TRUE]
  <2>1. /\ exchange[x].at = "handler" /\ UNCHANGED <<config, crashed>>
        /\ exchange' = [exchange EXCEPT ![x] = r]
    BY <1>0, <1>5 DEF HandlerPanics, Alive
  <2>2. /\ r \in Served /\ r.at = "done" /\ r.answer = "aborted" /\ r.handled
        /\ r.input = exchange[x].input
    BY <1>0 DEF Served, Stages, Answers
  <2>3. Early(r) /\ (Strict => StrictAllows(r)) /\ LenientAllows(r)
    BY <1>0, <2>1, <2>2 DEF Early, StrictAllows, LenientAllows
  <2> HIDE DEF r
  <2> QED
    BY <2>1, <2>2, <2>3, ServedKept
<1>6. CASE RunRequestCheck(x)
  <2>1. UNCHANGED <<config, exchange>>
    BY <1>6 DEF RunRequestCheck
  <2>2. crashed' => HandleRequestValidationFailure(config, FALSE).panics \/ Races(x)
    BY <1>6 DEF RunRequestCheck
  <2>3. Lenient /\ Undisturbed => ~crashed'
    BY <2>2, FailureByMode DEF Lenient, Undisturbed
  <2> QED
    BY <2>1, <2>3 DEF ServedInv, ServedTyped, Early, StrictAllows, LenientAllows, Calm, Strict,
                      Lenient, Plain, Undisturbed, Races, Mutates
<1>7. CASE RunResponseCheck(x)
  BY <1>7 DEF RunResponseCheck, ServedInv, ServedTyped, Early, StrictAllows, LenientAllows, Calm,
              Strict, Lenient, Plain, Undisturbed, Races, Mutates
<1> QED
  BY <1>1, <1>2, <1>3, <1>4, <1>5, <1>6, <1>7 DEF ServeStep

\* A restart loses the requests under way; it takes a crash.
LEMMA RestartServed ==
  ASSUME ServedInv, Restart
  PROVE  ServedInv'
<1> DEFINE lost(x) == [exchange[x] EXCEPT !.at = "done", !.answer = IF @ = "none" THEN "aborted" ELSE @]
<1>1. /\ crashed /\ UNCHANGED config
      /\ exchange' = [x \in Exchanges |->
            IF exchange[x].at \in {"free", "done"} THEN exchange[x] ELSE lost(x)]
  BY DEF Restart
<1>2. \A x \in Exchanges : exchange[x] \in Served
  BY DEF ServedInv, ServedTyped
<1>3. \A x \in Exchanges :
        /\ lost(x) \in Served /\ lost(x).at = "done" /\ lost(x).input = exchange[x].input
        /\ lost(x).handled = exchange[x].handled
        /\ lost(x).answer \in {"aborted", exchange[x].answer}
  BY <1>2 DEF Served, Stages, Answers
<1> HIDE DEF lost
<1>4. \A x \in Exchanges :
        /\ exchange'[x] = IF exchange[x].at \in {"free", "done"} THEN exchange[x] ELSE lost(x)
        /\ exchange'[x] \in Served
  BY <1>1, <1>2, <1>3
<1>5. ServedTyped'
  BY <1>1, <1>4 DEF ServedTyped
<1>6. \A x \in Exchanges : Early(exchange[x])'
  BY <1>3, <1>4 DEF ServedInv, Early
<1>7. Strict' => \A x \in Exchanges : StrictAllows(exchange[x])'
  BY <1>1, <1>3, <1>4 DEF ServedInv, StrictAllows, Strict, Plain
<1>8. Lenient' => \A x \in Exchanges : LenientAllows(exchange[x])'
  BY <1>1, <1>3, <1>4 DEF ServedInv, LenientAllows, Lenient, Plain
<1>9. ~(Lenient' /\ Undisturbed')
  <2>1. ~(Lenient /\ Undisturbed)
    BY <1>1 DEF ServedInv, Calm
  <2>2. \A x \in Exchanges : exchange[x].at # "free" =>
             exchange'[x].at # "free" /\ exchange'[x].input = exchange[x].input
    BY <1>3, <1>4
  <2> QED
    BY <1>1, <2>1, <2>2, Disturbed DEF Undisturbed, Lenient, Plain
<1> QED
  BY <1>5, <1>6, <1>7, <1>8, <1>9 DEF ServedInv

-----------------------------------------------------------------------------
(***************************************************************************)
(* The session: types.                                                     *)
(***************************************************************************)

Responses == [by : Calls, schema : Schemas, number : Nat]
CallStages == {"new", "lookup", "generate", "store", "respond", "record", "sent", "answered", "done"}
CallRecord ==
    [at : CallStages, host : Schemas \cup {None}, endpoint : Endpoints \cup {None},
     response : Responses \cup {None}, verdict : {"none", "valid", "invalid"},
     result : {"none", "ok", "error"}, before : SUBSET Calls, gone : SUBSET Calls]

SessionTyped ==
    /\ published \in [Schemas -> Seq(Labels)]
    /\ latest \in [Schemas -> Nat]
    /\ session \in [schema : Schemas \cup {None}, version : Labels \cup {None}]
    /\ bound.since \in Nat
    /\ call \in [Calls -> CallRecord]
    /\ cache \in [Endpoints -> Responses \cup {None}]
    /\ wiped \in SUBSET Calls

\* Where a call is, and what that says of it.
CallControl(c) ==
    /\ call[c].at # "new" => call[c].host \in Schemas /\ call[c].endpoint \in Endpoints
    /\ call[c].at \in {"lookup", "generate", "store", "respond"} => setup.transport = "mock"
    /\ call[c].at \in {"sent", "answered"} => setup.transport = "real"
    /\ call[c].at \in {"answered", "store"} => call[c].response \in Responses
    /\ call[c].result = "ok" => call[c].at = "done"

SessionInv == SessionTyped /\ \A c \in Calls : CallControl(c)

\* The calls are typed as long as the one that moves is.
LEMMA OneCall ==
  ASSUME SessionInv, NEW c \in Calls, NEW r \in CallRecord,
         call' = [call EXCEPT ![c] = r], UNCHANGED <<setup, published, latest, session, bound, wiped>>,
         cache' \in [Endpoints -> Responses \cup {None}], CallControl(c)'
  PROVE  SessionInv'
<1>1. SessionTyped'
  BY DEF SessionInv, SessionTyped
<1>2. ASSUME NEW d \in Calls, d # c PROVE CallControl(d)'
  BY <1>2 DEF SessionInv, SessionTyped, CallControl
<1> QED
  BY <1>1, <1>2 DEF SessionInv

\* A call that was not made is typed.
LEMMA FreshCall == Fresh \in CallRecord
BY DEF Fresh, CallRecord, CallStages

\* The session begins with nothing called.
LEMMA SessionInitInv == SessionInit => SessionInv
<1> SUFFICES ASSUME SessionInit PROVE SessionInv
  OBVIOUS
<1>1. SessionTyped
  BY FreshCall DEF SessionInit, SessionTyped, Binding, BoundTo
<1>2. \A c \in Calls : CallControl(c)
  BY DEF SessionInit, CallControl, Fresh
<1> QED
  BY <1>1, <1>2 DEF SessionInv

\* The numbers of what the server has registered.
LEMMA Numbers ==
  ASSUME SessionTyped, NEW s \in Schemas
  PROVE  /\ published[s] \in Seq(Labels) /\ DOMAIN published[s] = 1 .. Len(published[s])
         /\ DOMAIN published[s] \subseteq Nat
         /\ \A n \in DOMAIN published[s] : published[s][n] \in Labels
BY DEF SessionTyped

\* A registration is the last, and the others stay.
LEMMA Registering ==
  ASSUME SessionTyped, NEW s \in Schemas, NEW v \in Labels, Registers(s, v)
  PROVE  /\ UNCHANGED <<setup, reverted>>
         /\ published' \in [Schemas -> Seq(Labels)] /\ latest' \in [Schemas -> Nat]
         /\ latest'[s] = Len(published[s]) + 1 /\ Len(published'[s]) = latest'[s]
         /\ \A n \in DOMAIN published[s] : published'[s][n] = published[s][n]
         /\ \A t \in Schemas \ {s} : published'[t] = published[t] /\ latest'[t] = latest[t]
<1>1. published[s] \in Seq(Labels)
  BY DEF SessionTyped
<1>2. /\ Append(published[s], v) \in Seq(Labels)
      /\ Len(Append(published[s], v)) = Len(published[s]) + 1
      /\ \A n \in DOMAIN published[s] : Append(published[s], v)[n] = published[s][n]
  BY <1>1
<1>3. /\ published' = [published EXCEPT ![s] = Append(published[s], v)]
      /\ latest' = [latest EXCEPT ![s] = Len(published'[s])]
      /\ UNCHANGED <<setup, reverted>>
  BY DEF Registers
<1> HIDE DEF Registers
<1>4. published'[s] = Append(published[s], v) /\ published' \in [Schemas -> Seq(Labels)]
  BY <1>2, <1>3 DEF SessionTyped
<1>5. Len(published'[s]) \in Nat
  BY <1>1, <1>2, <1>4
<1> QED
  BY <1>2, <1>3, <1>4, <1>5 DEF SessionTyped

\* The steps of a call, and those of the test between calls, apart from the service.
CallMoves(c) ==
    \/ \E host \in Schemas, e \in Endpoints : Mock(c, host, e) \/ Send(c, host, e)
    \/ LookUp(c) \/ Generate(c) \/ Store(c) \/ Respond(c) \/ Record(c)
    \/ TransportFails(c)
    \/ \E r \in Responses : TransportAnswers(c, r)
    \/ \E accepted \in BOOLEAN : ValidateReal(c, accepted)

SessionStep == TestStep \/ \E c \in Calls : CallMoves(c)

\* Every step is one of the session, or leaves it as it is.
LEMMA StepsOfSession ==
  ASSUME SessionInv, [Next]_vars
  PROVE  SessionStep \/ UNCHANGED sessionVars
<1>1. CASE UNCHANGED vars
  BY <1>1 DEF vars
<1>2. CASE Test
  BY <1>2 DEF Test, SessionStep
<1>3. CASE ServiceRestarts
  BY <1>3 DEF ServiceRestarts
<1>4. ASSUME NEW c \in Calls, NEW host \in Schemas, NEW e \in Endpoints, NEW q \in Inputs,
             RoundTrip(c, host, e, q)
      PROVE  SessionStep
  BY <1>4 DEF RoundTrip, SessionStep, CallMoves
<1>5. ASSUME NEW c \in Calls, Serve(c) PROVE UNCHANGED sessionVars
  BY <1>5 DEF Serve
<1>6. ASSUME NEW c \in Calls, AnswerReturns(c) PROVE SessionStep
  <2>1. PICK n \in {0} \cup DOMAIN published[call[c].host] :
          TransportAnswers(c, Response(c, call[c].host, n))
    BY <1>6 DEF AnswerReturns
  <2>2. call[c].host \in Schemas
    BY <2>1 DEF TransportAnswers, At, SessionInv, CallControl
  <2>3. n \in Nat
    BY <2>2, Numbers DEF SessionInv
  <2>4. Response(c, call[c].host, n) \in Responses
    BY <2>2, <2>3 DEF Response, Responses
  <2> QED
    BY <2>1, <2>4 DEF SessionStep, CallMoves
<1>7. ASSUME NEW c \in Calls, ConnectionBreaks(c) PROVE SessionStep
  BY <1>7 DEF ConnectionBreaks, SessionStep, CallMoves
<1>8. ASSUME NEW c \in Calls, ValidateAnswer(c) PROVE SessionStep
  <2>1. (exchange[c].input.verdict = "valid") \in BOOLEAN
    OBVIOUS
  <2> QED
    BY <1>8, <2>1 DEF ValidateAnswer, SessionStep, CallMoves
<1>9. ASSUME NEW c \in Calls, MockCall(c) PROVE SessionStep
  BY <1>9 DEF MockCall, CallStep, SessionStep, CallMoves
<1> QED
  BY <1>1, <1>2, <1>3, <1>4, <1>5, <1>6, <1>7, <1>8, <1>9 DEF Next

\* What is generated is a response of this call's own.
LEMMA GeneratedTyped ==
  ASSUME SessionTyped, NEW c \in Calls, NEW response \in GenerateResponse(c)
  PROVE  response \in Responses /\ response.by = c
<1>1. session.schema \in Schemas
  BY DEF SessionTyped, GenerateResponse
<1>2. PICK n \in DOMAIN published[session.schema] : response = Response(c, session.schema, n)
  BY DEF GenerateResponse
<1> QED
  BY <1>1, <1>2, Numbers DEF Response, Responses

\* The record of a call that moved.
LEMMA MovedCall ==
  ASSUME SessionInv, NEW c \in Calls, NEW at \in CallStages, Goes(c, at)
  PROVE  /\ call' = [call EXCEPT ![c] = [call[c] EXCEPT !.at = at]]
         /\ [call[c] EXCEPT !.at = at] \in CallRecord
<1>1. call \in [Calls -> CallRecord] /\ call[c] \in CallRecord
  BY DEF SessionInv, SessionTyped
<1>2. [call[c] EXCEPT !.at = at] \in CallRecord
  BY <1>1 DEF CallRecord
<1> QED
  BY <1>1, <1>2 DEF Goes

\* The record of a call that fails.
LEMMA FailedCall ==
  ASSUME SessionInv, NEW c \in Calls, Fails(c)
  PROVE  /\ call' = [call EXCEPT ![c] = [call[c] EXCEPT !.at = "done", !.result = "error"]]
         /\ [call[c] EXCEPT !.at = "done", !.result = "error"] \in CallRecord
<1>1. call \in [Calls -> CallRecord] /\ call[c] \in CallRecord
  BY DEF SessionInv, SessionTyped
<1>2. [call[c] EXCEPT !.at = "done", !.result = "error"] \in CallRecord
  BY <1>1 DEF CallRecord, CallStages
<1> QED
  BY <1>1, <1>2 DEF Fails

\* A step of a call preserves the types.
LEMMA CallMovesInv ==
  ASSUME SessionInv, NEW c \in Calls, CallMoves(c)
  PROVE  SessionInv'
<1>0. call \in [Calls -> CallRecord] /\ call[c] \in CallRecord /\ CallControl(c)
  BY DEF SessionInv, SessionTyped
<1>k. UNCHANGED cache => cache' \in [Endpoints -> Responses \cup {None}]
  BY DEF SessionInv, SessionTyped
<1>1. ASSUME NEW host \in Schemas, NEW e \in Endpoints, Mock(c, host, e) \/ Send(c, host, e)
      PROVE  SessionInv'
  <2>1. PICK at \in {"lookup", "sent"} :
          /\ call' = [call EXCEPT ![c] = [Fresh EXCEPT !.at = at, !.host = host, !.endpoint = e]]
          /\ at = "lookup" => setup.transport = "mock"
          /\ at = "sent" => setup.transport = "real"
    BY <1>1 DEF Mock, Send
  <2>2. UNCHANGED <<setup, published, latest, session, bound, wiped, cache>>
    BY <1>1 DEF Mock, Send, serverVars, testVars
  <2>3. [Fresh EXCEPT !.at = at, !.host = host, !.endpoint = e] \in CallRecord
    BY DEF Fresh, CallRecord, CallStages
  <2>4. CallControl(c)'
    BY <1>0, <2>1, <2>2 DEF CallControl, Fresh
  <2> QED
    BY <1>k, <2>1, <2>2, <2>3, <2>4, OneCall
<1>2. CASE LookUp(c)
  <2> DEFINE hit == setup.cached /\ cache[call[c].endpoint] /= None
             r == [call[c] EXCEPT !.at = IF hit THEN "respond" ELSE "generate",
                                  !.response = IF hit THEN cache[call[c].endpoint] ELSE None,
                                  !.before = Returned(call[c].endpoint), !.gone = wiped]
  <2>1. call' = [call EXCEPT ![c] = r] /\ call[c].at = "lookup"
        /\ UNCHANGED <<setup, published, latest, session, bound, wiped, cache>>
    BY <1>2, <1>0 DEF LookUp, At, serverVars, testVars
  <2>2. /\ call[c].endpoint \in Endpoints
        /\ call[c].host \in Schemas
        /\ setup.transport = "mock"
        /\ call[c].result # "ok"
    BY <2>1, <1>0 DEF CallControl
  <2>3. cache[call[c].endpoint] \in Responses \cup {None} /\ wiped \in SUBSET Calls
    BY <2>2 DEF SessionInv, SessionTyped
  <2>4. Returned(call[c].endpoint) \in SUBSET Calls
    BY DEF Returned
  <2>5. r \in CallRecord
    BY <1>0, <2>3, <2>4 DEF CallRecord, CallStages
  <2>6. CallControl(c)'
    BY <1>0, <2>1, <2>2 DEF CallControl, CallRecord
  <2> QED
    BY <1>k, <2>1, <2>5, <2>6, OneCall
<1>3. CASE Generate(c)
  <2>1. call[c].at = "generate" /\ UNCHANGED <<setup, published, latest, session, bound, wiped, cache>>
    BY <1>3 DEF Generate, At, serverVars, testVars
  <2>2. CASE Fails(c)
    <3> DEFINE r == [call[c] EXCEPT !.at = "done", !.result = "error"]
    <3>1. call' = [call EXCEPT ![c] = r] /\ r \in CallRecord
      BY <2>2, FailedCall
    <3>2. CallControl(c)'
      BY <1>0, <2>1, <3>1 DEF CallControl, CallRecord
    <3> QED
      BY <1>k, <2>1, <3>1, <3>2, OneCall
  <2>3. CASE ~Fails(c)
    <3>0. PICK response \in GenerateResponse(c) :
            call' = [call EXCEPT ![c].at = "store", ![c].response = response]
      BY <1>3, <2>3 DEF Generate
    <3> DEFINE r == [call[c] EXCEPT !.at = "store", !.response = response]
    <3>1. call' = [call EXCEPT ![c] = r]
      BY <1>0, <3>0
    <3>2. response \in Responses
      BY GeneratedTyped DEF SessionInv
    <3>3. r \in CallRecord
      BY <1>0, <3>2 DEF CallRecord, CallStages
    <3>4. CallControl(c)'
      BY <1>0, <2>1, <3>1, <3>2 DEF CallControl, CallRecord
    <3> QED
      BY <1>k, <2>1, <3>1, <3>3, <3>4, OneCall
  <2> QED
    BY <2>2, <2>3
<1>4. CASE Store(c)
  <2>1. /\ call[c].at = "store" /\ Goes(c, "respond")
        /\ UNCHANGED <<setup, published, latest, session, bound, wiped>>
    BY <1>4 DEF Store, At, serverVars, testVars
  <2>2. cache' \in [Endpoints -> Responses \cup {None}]
    BY <1>4, <1>0 DEF Store, SessionInv, SessionTyped, CallRecord
  <2>3. "respond" \in CallStages
    BY DEF CallStages
  <2> DEFINE r == [call[c] EXCEPT !.at = "respond"]
  <2>4. call' = [call EXCEPT ![c] = r] /\ r \in CallRecord
    BY <2>1, <2>3, MovedCall
  <2>5. CallControl(c)'
    BY <1>0, <2>1, <2>4 DEF CallControl, CallRecord
  <2> QED
    BY <2>1, <2>2, <2>4, <2>5, OneCall
<1>5. CASE Respond(c)
  <2>1. call[c].at = "respond" /\ UNCHANGED <<setup, published, latest, session, bound, wiped, cache>>
    BY <1>5 DEF Respond, At, serverVars, testVars
  <2>2. CASE Fails(c)
    <3> DEFINE r == [call[c] EXCEPT !.at = "done", !.result = "error"]
    <3>1. call' = [call EXCEPT ![c] = r] /\ r \in CallRecord
      BY <2>2, FailedCall
    <3>2. CallControl(c)'
      BY <1>0, <2>1, <3>1 DEF CallControl, CallRecord
    <3> QED
      BY <1>k, <2>1, <3>1, <3>2, OneCall
  <2>3. CASE ~Fails(c)
    <3> DEFINE r == [call[c] EXCEPT !.at = "record", !.verdict = "valid"]
    <3>1. call' = [call EXCEPT ![c] = r]
      BY <1>5, <2>3, <1>0 DEF Respond
    <3>2. r \in CallRecord
      BY <1>0 DEF CallRecord, CallStages
    <3>3. CallControl(c)'
      BY <1>0, <2>1, <3>1 DEF CallControl, CallRecord
    <3> QED
      BY <1>k, <2>1, <3>1, <3>2, <3>3, OneCall
  <2> QED
    BY <2>2, <2>3
<1>6. CASE Record(c)
  <2> DEFINE result == IF call[c].verdict = "invalid" /\ setup.onFailure = "fail" THEN "error" ELSE "ok"
             r == [call[c] EXCEPT !.at = "done", !.result = result]
  <2>1. /\ call[c].at = "record" /\ call' = [call EXCEPT ![c] = r]
        /\ UNCHANGED <<setup, published, latest, session, bound, wiped, cache>>
    BY <1>6, <1>0 DEF Record, At, serverVars, testVars
  <2>2. r \in CallRecord
    BY <1>0 DEF CallRecord, CallStages
  <2>3. CallControl(c)'
    BY <1>0, <2>1 DEF CallControl, CallRecord
  <2> QED
    BY <1>k, <2>1, <2>2, <2>3, OneCall
<1>7. CASE TransportFails(c)
  <2>1. call[c].at = "sent" /\ UNCHANGED <<setup, published, latest, session, bound, wiped, cache>> /\ Fails(c)
    BY <1>7 DEF TransportFails, At, serverVars, testVars
  <2> DEFINE r == [call[c] EXCEPT !.at = "done", !.result = "error"]
  <2>2. call' = [call EXCEPT ![c] = r] /\ r \in CallRecord
    BY <2>1, FailedCall
  <2>3. CallControl(c)'
    BY <1>0, <2>1, <2>2 DEF CallControl, CallRecord
  <2> QED
    BY <1>k, <2>1, <2>2, <2>3, OneCall
<1>8. ASSUME NEW response \in Responses, TransportAnswers(c, response) PROVE SessionInv'
  <2> DEFINE r == [call[c] EXCEPT !.at = "answered", !.response = response]
  <2>1. /\ call[c].at = "sent" /\ call' = [call EXCEPT ![c] = r]
        /\ UNCHANGED <<setup, published, latest, session, bound, wiped, cache>>
    BY <1>8, <1>0 DEF TransportAnswers, At, serverVars, testVars
  <2>2. r \in CallRecord
    BY <1>0 DEF CallRecord, CallStages
  <2>3. CallControl(c)'
    BY <1>0, <2>1 DEF CallControl, CallRecord
  <2> QED
    BY <1>k, <2>1, <2>2, <2>3, OneCall
<1>9. ASSUME NEW accepted \in BOOLEAN, ValidateReal(c, accepted) PROVE SessionInv'
  <2>1. PICK v \in {"none", "valid", "invalid"} :
          call' = [call EXCEPT ![c] = [call[c] EXCEPT !.at = "record", !.verdict = v]]
    BY <1>9, <1>0 DEF ValidateReal, Validate
  <2>2. call[c].at = "answered" /\ UNCHANGED <<setup, published, latest, session, bound, wiped, cache>>
    BY <1>9 DEF ValidateReal, At, serverVars, testVars
  <2>3. [call[c] EXCEPT !.at = "record", !.verdict = v] \in CallRecord
    BY <1>0 DEF CallRecord, CallStages
  <2>4. CallControl(c)'
    BY <1>0, <2>1, <2>2 DEF CallControl, CallRecord
  <2> QED
    BY <1>k, <2>1, <2>2, <2>3, <2>4, OneCall
<1> QED
  BY <1>1, <1>2, <1>3, <1>4, <1>5, <1>6, <1>7, <1>8, <1>9 DEF CallMoves

\* A step of the test between calls, or of the server, preserves the types.
LEMMA TestStepInv ==
  ASSUME SessionInv, TestStep
  PROVE  SessionInv'
<1>1. ASSUME NEW s \in Schemas, RegisterSchema(s) \/ OthersRegister(s) PROVE SessionInv'
  <2>1. PICK v \in Labels : Registers(s, v)
    BY <1>1 DEF RegisterSchema, OthersRegister
  <2>2. /\ UNCHANGED <<call, cache, wiped>>
        /\ \/ session' = Binding(s, None) /\ bound' = BoundTo(s, None, Len(published'[s]))
           \/ UNCHANGED <<session, bound>>
    BY <1>1 DEF RegisterSchema, OthersRegister, testVars
  <2>3. /\ UNCHANGED setup /\ published' \in [Schemas -> Seq(Labels)]
        /\ latest' \in [Schemas -> Nat] /\ Len(published'[s]) \in Nat
    BY <2>1, Registering DEF SessionInv, SessionTyped
  <2> QED
    BY <2>2, <2>3 DEF SessionInv, SessionTyped, CallControl, Binding, BoundTo
<1>r. ASSUME NEW s \in Schemas, LatestReverts(s) PROVE SessionInv'
  <2>1. PICK n \in DOMAIN published[s] : latest' = [latest EXCEPT ![s] = n]
    BY <1>r DEF LatestReverts
  <2>2. latest' \in [Schemas -> Nat]
    BY <2>1, Numbers DEF SessionInv, SessionTyped
  <2>3. UNCHANGED <<setup, published, session, bound, call, cache, wiped>>
    BY <1>r DEF LatestReverts, testVars
  <2> QED
    BY <2>2, <2>3 DEF SessionInv, SessionTyped, CallControl
<1>2. ASSUME NEW s \in Schemas, NEW v, UseSchema(s, v) PROVE SessionInv'
  <2>1. PICK n \in Lookups(s, v) \ {0} :
          session' = Binding(s, published[s][n]) /\ bound' = BoundTo(s, published[s][n], 0)
    BY <1>2 DEF UseSchema
  <2>2. published[s][n] \in Labels
    BY <2>1, Numbers DEF Lookups, SessionInv
  <2>3. UNCHANGED <<setup, published, latest, call, cache, wiped>>
    BY <1>2 DEF UseSchema, serverVars
  <2> QED
    BY <2>1, <2>2, <2>3 DEF SessionInv, SessionTyped, CallControl, Binding, BoundTo
<1>3. CASE ClearCache
  BY <1>3 DEF ClearCache, serverVars, testVars, SessionInv, SessionTyped, CallControl
<1>4. CASE ClearInteractions
  BY <1>4 DEF ClearInteractions, serverVars, testVars, SessionInv, SessionTyped, CallControl
<1>5. ASSUME NEW given, RegisterConsumerFromInteractions(given) PROVE SessionInv'
  BY <1>5 DEF RegisterConsumerFromInteractions, serverVars, SessionInv, SessionTyped, CallControl
<1> QED
  BY <1>1, <1>r, <1>2, <1>3, <1>4, <1>5 DEF TestStep

\* The types hold of every state of the composition.
LEMMA SessionNextInv ==
  ASSUME SessionInv, [Next]_vars
  PROVE  SessionInv'
<1>1. CASE UNCHANGED sessionVars
  BY <1>1 DEF sessionVars, serverVars, testVars, SessionInv, SessionTyped, CallControl
<1> QED
  BY <1>1, StepsOfSession, TestStepInv, CallMovesInv DEF SessionStep

-----------------------------------------------------------------------------
(***************************************************************************)
(* The verdicts.                                                           *)
(***************************************************************************)

\* The validator's fields say what the test was told; and it follows an unversioned key that
\* was last written by the test's own registration or a later one, if the server did not go
\* back.
BindingKept ==
    /\ bound.schema = session.schema /\ bound.version = session.version
    /\ session.schema \in Schemas => bound.since <= Len(published[session.schema])
    /\ session.schema \in Schemas /\ session.version = None =>
         bound.since <= latest[session.schema] \/ session.schema \in reverted

\* What a verdict says of a response: it is of the schema, and of a registration that the
\* binding allows.
AboutBinding(response, b) ==
    /\ response.schema = b.schema /\ b.schema \in Schemas
    /\ response.number \in DOMAIN published[b.schema]
    /\ IF b.version = None THEN response.number >= b.since \/ b.schema \in reverted
       ELSE published[b.schema][response.number] = b.version

\* A verdict that is not yet captured is about the binding, which cannot change meanwhile.
VerdictsPending ==
    setup.transport = "real" =>
        \A c \in Calls :
            call[c].at = "record" /\ call[c].verdict = "valid" /\ call[c].response.number > 0
              => AboutBinding(call[c].response, bound)

VerdictsCaptured ==
    setup.transport = "real" =>
        \A i \in captured :
            i.verdict = "valid" /\ i.response.number > 0 => AboutBinding(i.response, i.bound)

VerdictInv == SessionInv /\ BindingKept /\ VerdictsPending /\ VerdictsCaptured

\* Nothing is captured at first.
LEMMA VerdictInit == SessionInit => VerdictInv
<1> SUFFICES ASSUME SessionInit PROVE VerdictInv
  OBVIOUS
<1>1. BindingKept
  BY DEF SessionInit, BindingKept, Binding, BoundTo
<1>2. VerdictsPending
  BY DEF SessionInit, VerdictsPending, Fresh
<1>3. VerdictsCaptured
  BY DEF SessionInit, VerdictsCaptured
<1> QED
  BY <1>1, <1>2, <1>3, SessionInitInv DEF VerdictInv

\* What the server accepts of a documented response is about the binding.
LEMMA AcceptedIsBound ==
  ASSUME VerdictInv, NEW c \in Calls, NEW accepted, call[c].response \in Responses,
         call[c].response.number > 0, session.schema # None, "valid" \in Validate(c, accepted)
  PROVE  AboutBinding(call[c].response, bound)
<1> DEFINE response == call[c].response
<1>1. PICK n \in Lookups(session.schema, session.version) :
        n > 0 /\ response = Response(response.by, session.schema, n)
  BY DEF Validate, Responses
<1>2. session.schema \in Schemas
  BY DEF VerdictInv, SessionInv, SessionTyped
<1>3. n \in DOMAIN published[session.schema] /\ n \in Nat
  BY <1>1, <1>2, Numbers DEF Lookups, VerdictInv, SessionInv
<1>4. response.schema = session.schema /\ response.number = n
  BY <1>1 DEF Response
<1>5. IF session.version = None THEN n = latest[session.schema]
      ELSE published[session.schema][n] = session.version
  BY <1>1, <1>3 DEF Lookups
<1> HIDE DEF response
<1> QED
  BY <1>2, <1>3, <1>4, <1>5 DEF VerdictInv, BindingKept, AboutBinding, response

\* What was registered stays, so that what a verdict says goes on being so.
Grows ==
    /\ \A s \in Schemas :
         /\ DOMAIN published[s] \subseteq DOMAIN published'[s]
         /\ \A n \in DOMAIN published[s] : published'[s][n] = published[s][n]
    /\ reverted \subseteq reverted'

LEMMA AboutGrows ==
  ASSUME Grows, NEW response, NEW b, AboutBinding(response, b)
  PROVE  AboutBinding(response, b)'
BY DEF Grows, AboutBinding

\* A step of a call: it is judged under the binding, and captured with it.
LEMMA CallMovesVerdict ==
  ASSUME VerdictInv, NEW c \in Calls, CallMoves(c)
  PROVE  VerdictInv'
<1>0. SessionInv /\ SessionInv' /\ call \in [Calls -> CallRecord] /\ call[c] \in CallRecord /\ CallControl(c)
  BY CallMovesInv DEF VerdictInv, SessionInv, SessionTyped
<1>1. UNCHANGED <<setup, published, latest, reverted, session, bound>>
  BY DEF CallMoves, Mock, Send, LookUp, Generate, Store, Respond, Record, TransportFails,
         TransportAnswers, ValidateReal, serverVars, testVars
<1>2. BindingKept'
  BY <1>1 DEF VerdictInv, BindingKept
<1>3. CASE Record(c)
  <2>1. /\ captured' = captured \cup {Interaction(c)} /\ call[c].at = "record"
        /\ call'[c].at = "done" /\ \A d \in Calls : d # c => call'[d] = call[d]
    BY <1>3, <1>0 DEF Record, addInteraction, At, CallRecord
  <2>2. VerdictsPending'
    BY <1>1, <2>1 DEF VerdictInv, VerdictsPending, AboutBinding
  <2>3. VerdictsCaptured'
    BY <1>1, <2>1 DEF VerdictInv, VerdictsPending, VerdictsCaptured, Interaction, AboutBinding
  <2> QED
    BY <1>0, <1>2, <2>2, <2>3 DEF VerdictInv
<1>4. CASE ~Record(c)
  <2>1. UNCHANGED captured
    BY <1>4 DEF CallMoves, Mock, Send, LookUp, Generate, Store, Respond, TransportFails,
           TransportAnswers, ValidateReal
  <2>2. VerdictsCaptured'
    BY <1>1, <2>1 DEF VerdictInv, VerdictsCaptured, AboutBinding
  <2>3. \A d \in Calls : d # c => call'[d] = call[d]
    BY <1>4, <1>0 DEF CallMoves, Mock, Send, LookUp, Generate, Store, Respond, TransportFails,
           TransportAnswers, ValidateReal, Fails, Goes
  <2>4. /\ setup.transport = "real" /\ call'[c].at = "record" /\ call'[c].verdict = "valid"
        /\ call'[c].response.number > 0
        => AboutBinding(call'[c].response, bound)
    <3> SUFFICES ASSUME setup.transport = "real", call'[c].at = "record",
                        call'[c].verdict = "valid", call'[c].response.number > 0
                 PROVE  AboutBinding(call'[c].response, bound)
      OBVIOUS
    <3>a. ~LookUp(c) /\ ~Generate(c) /\ ~Store(c) /\ ~Respond(c)
      BY <1>0 DEF LookUp, Generate, Store, Respond, At, CallControl
    <3>b. ASSUME TransportFails(c) PROVE FALSE
      <4>1. call' = [call EXCEPT ![c] = [call[c] EXCEPT !.at = "done", !.result = "error"]]
        BY <1>0, <3>b, FailedCall DEF TransportFails
      <4>2. call'[c].at = "done"
        BY <1>0, <4>1 DEF CallRecord
      <4> QED
        BY <4>2
    <3>c. ASSUME NEW r \in Responses, TransportAnswers(c, r) PROVE FALSE
      <4>1. call' = [call EXCEPT ![c] = [call[c] EXCEPT !.at = "answered", !.response = r]]
        BY <1>0, <3>c DEF TransportAnswers
      <4>2. call'[c].at = "answered"
        BY <1>0, <4>1 DEF CallRecord
      <4> QED
        BY <4>2
    <3>d. ASSUME NEW host \in Schemas, NEW e \in Endpoints, Mock(c, host, e) \/ Send(c, host, e)
          PROVE  FALSE
      <4>1. PICK at \in {"lookup", "sent"} :
              call' = [call EXCEPT ![c] = [Fresh EXCEPT !.at = at, !.host = host, !.endpoint = e]]
        BY <3>d DEF Mock, Send
      <4>2. call'[c].at = at
        BY <1>0, <4>1 DEF Fresh
      <4> QED
        BY <4>2
    <3>1. PICK accepted \in BOOLEAN : ValidateReal(c, accepted)
      BY <1>4, <3>a, <3>b, <3>c, <3>d DEF CallMoves
    <3>2. /\ call'[c].response = call[c].response
          /\ session.schema # None
          /\ "valid" \in Validate(c, accepted)
      BY <1>0, <3>1 DEF ValidateReal, CallRecord
    <3>3. call[c].response \in Responses
      BY <1>0, <3>1 DEF ValidateReal, At, CallControl
    <3> QED
      BY <3>2, <3>3, AcceptedIsBound
  <2>5. VerdictsPending'
    BY <1>1, <2>3, <2>4 DEF VerdictInv, VerdictsPending, AboutBinding
  <2> QED
    BY <1>0, <1>2, <2>2, <2>5 DEF VerdictInv
<1> QED
  BY <1>3, <1>4

\* A step of the test or the server: the binding changes only when no verdict is pending.
LEMMA TestStepVerdict ==
  ASSUME VerdictInv, TestStep
  PROVE  VerdictInv'
<1>0. SessionInv /\ SessionInv' /\ SessionTyped
  BY TestStepInv DEF VerdictInv, SessionInv
<1>1. Quiet /\ UNCHANGED <<setup, call>> => VerdictsPending'
  BY DEF Quiet, VerdictsPending
<1>2. ASSUME Grows, UNCHANGED setup, captured' \subseteq captured PROVE VerdictsCaptured'
  BY <1>2, AboutGrows DEF VerdictInv, VerdictsCaptured
<1>3. ASSUME Grows, UNCHANGED <<setup, call, bound>> PROVE VerdictsPending'
  BY <1>3, AboutGrows DEF VerdictInv, VerdictsPending
<1>4. ASSUME NEW s \in Schemas, NEW v \in Labels, Registers(s, v) PROVE Grows
  <2>1. /\ reverted' = reverted /\ published' \in [Schemas -> Seq(Labels)]
        /\ Len(published'[s]) = Len(published[s]) + 1
        /\ \A n \in DOMAIN published[s] : published'[s][n] = published[s][n]
        /\ \A t \in Schemas \ {s} : published'[t] = published[t]
    BY <1>0, <1>4, Registering
  <2>2. published[s] \in Seq(Labels) /\ published'[s] \in Seq(Labels)
    BY <1>0, <2>1 DEF SessionTyped
  <2>3. DOMAIN published[s] = 1 .. Len(published[s]) /\ DOMAIN published'[s] = 1 .. Len(published'[s])
    BY <2>2
  <2>4. Len(published[s]) \in Nat
    BY <2>2
  <2>5. DOMAIN published[s] \subseteq DOMAIN published'[s]
    BY <2>1, <2>3, <2>4
  <2> QED
    BY <2>1, <2>5 DEF Grows
<1>5. ASSUME NEW s \in Schemas, RegisterSchema(s) PROVE VerdictInv'
  <2>1. PICK v \in Labels : Registers(s, v)
    BY <1>5 DEF RegisterSchema
  <2>2. /\ Quiet /\ UNCHANGED <<call, captured>>
        /\ session' = Binding(s, None) /\ bound' = BoundTo(s, None, Len(published'[s]))
    BY <1>5 DEF RegisterSchema
  <2>3. UNCHANGED setup /\ latest'[s] = Len(published'[s]) /\ latest'[s] \in Nat
    BY <1>0, <2>1, Registering
  <2>4. BindingKept'
    BY <2>2, <2>3 DEF BindingKept, Binding, BoundTo
  <2> QED
    BY <1>0, <1>1, <1>2, <1>4, <2>1, <2>2, <2>3, <2>4 DEF VerdictInv
<1>6. ASSUME NEW s \in Schemas, OthersRegister(s) PROVE VerdictInv'
  <2>1. PICK v \in Labels : Registers(s, v)
    BY <1>6 DEF OthersRegister
  <2>2. UNCHANGED <<session, bound, call, captured>>
    BY <1>6 DEF OthersRegister, testVars
  <2>3. /\ UNCHANGED <<setup, reverted>> /\ latest'[s] = Len(published[s]) + 1
        /\ \A t \in Schemas \ {s} : latest'[t] = latest[t]
    BY <1>0, <2>1, Registering
  <2>l. /\ Len(published[s]) \in Nat /\ Len(published'[s]) = Len(published[s]) + 1
        /\ \A t \in Schemas \ {s} : published'[t] = published[t]
        /\ bound.since \in Nat
    <3>1. published[s] \in Seq(Labels) /\ bound.since \in Nat
      BY <1>0 DEF SessionTyped
    <3> QED
      BY <1>0, <2>1, <2>3, <3>1, Registering
  <2>4. BindingKept'
    <3>1. CASE session.schema = s
      BY <2>2, <2>3, <2>l, <3>1 DEF VerdictInv, BindingKept
    <3>2. CASE session.schema # s
      BY <2>2, <2>3, <2>l, <3>2 DEF VerdictInv, BindingKept
    <3> QED
      BY <3>1, <3>2
  <2> QED
    BY <1>0, <1>2, <1>3, <1>4, <2>1, <2>2, <2>3, <2>4 DEF VerdictInv
<1>7. ASSUME NEW s \in Schemas, LatestReverts(s) PROVE VerdictInv'
  <2>1. /\ UNCHANGED <<setup, published, session, bound, call, captured>>
        /\ reverted' = reverted \cup {s}
        /\ \A t \in Schemas \ {s} : latest'[t] = latest[t]
    BY <1>0, <1>7 DEF LatestReverts, testVars, SessionTyped
  <2>2. Grows
    BY <2>1 DEF Grows
  <2>3. BindingKept'
    BY <2>1 DEF VerdictInv, BindingKept
  <2> QED
    BY <1>0, <1>2, <1>3, <2>1, <2>2, <2>3 DEF VerdictInv
<1>8. ASSUME NEW s \in Schemas, NEW v, UseSchema(s, v) PROVE VerdictInv'
  <2>1. PICK n \in Lookups(s, v) \ {0} :
          session' = Binding(s, published[s][n]) /\ bound' = BoundTo(s, published[s][n], 0)
    BY <1>8 DEF UseSchema
  <2>2. Quiet /\ UNCHANGED <<setup, published, latest, reverted, call, captured>>
    BY <1>8 DEF UseSchema, serverVars
  <2>3. published[s][n] # None /\ Len(published[s]) \in Nat
    <3>1. published[s] \in Seq(Labels)
      BY <1>0, Numbers
    <3>2. published[s][n] \in Labels
      BY <1>0, <2>1, Numbers DEF Lookups
    <3> QED
      BY <3>1, <3>2, SessionAssumption
  <2>4. BindingKept'
    BY <2>1, <2>2, <2>3 DEF BindingKept, Binding, BoundTo
  <2>5. Grows
    BY <2>2 DEF Grows
  <2> QED
    BY <1>0, <1>1, <1>2, <2>2, <2>4, <2>5 DEF VerdictInv
<1>9. ASSUME UNCHANGED <<setup, published, latest, reverted, session, bound, call>>,
             captured' \subseteq captured
      PROVE  VerdictInv'
  <2>1. Grows
    BY <1>9 DEF Grows
  <2>2. BindingKept'
    BY <1>9 DEF VerdictInv, BindingKept
  <2> QED
    BY <1>0, <1>2, <1>3, <1>9, <2>1, <2>2 DEF VerdictInv
<1>10. ClearCache \/ ClearInteractions => VerdictInv'
  BY <1>9 DEF ClearCache, ClearInteractions, serverVars, testVars
<1>11. ASSUME NEW given, RegisterConsumerFromInteractions(given) PROVE VerdictInv'
  BY <1>9, <1>11 DEF RegisterConsumerFromInteractions, serverVars
<1> QED
  BY <1>5, <1>6, <1>7, <1>8, <1>10, <1>11 DEF TestStep

\* What was captured as valid from a service by the validating transport is of the schema,
\* and of the version, that the test was told it is bound to, whoever registers what
\* meanwhile; without a version, of no registration before the test's own unless the server
\* went back to one.
THEOREM VerdictsBound == Spec => []VerdictsKeepTheBinding
<1>1. Init => VerdictInv
  BY VerdictInit DEF Init
<1>2. VerdictInv /\ [Next]_vars => VerdictInv'
  <2> SUFFICES ASSUME VerdictInv, [Next]_vars PROVE VerdictInv'
    OBVIOUS
  <2>1. SessionInv
    BY DEF VerdictInv
  <2>2. CASE UNCHANGED sessionVars
    <3>1. UNCHANGED <<setup, published, latest, reverted, session, bound, call, captured>>
      BY <2>2 DEF sessionVars, serverVars, testVars
    <3>2. SessionInv'
      BY <2>1, SessionNextInv
    <3> QED
      BY <3>1, <3>2
      DEF VerdictInv, BindingKept, VerdictsPending, AboutBinding, VerdictsCaptured
  <2> QED
    BY <2>1, <2>2, StepsOfSession, TestStepVerdict, CallMovesVerdict DEF SessionStep
<1>3. VerdictInv => VerdictsKeepTheBinding
  BY DEF VerdictInv, VerdictsCaptured, VerdictsKeepTheBinding, AboutBinding
<1> QED
  BY <1>1, <1>2, <1>3, PTL DEF Spec

-----------------------------------------------------------------------------
(***************************************************************************)
(* The modes of the service, whatever its clients do.                      *)
(***************************************************************************)

\* A deployment's mode means what it says for every request of every test.
THEOREM ModesHold == Spec => []ModesAreKept
<1>1. Init => ServedInv
  BY ServedInit DEF Init
<1>2. ServedInv /\ [Next]_vars => ServedInv'
  <2> SUFFICES ASSUME ServedInv, [Next]_vars PROVE ServedInv'
    OBVIOUS
  <2>1. ASSUME NEW c \in Calls, NEW host, NEW e, NEW q \in Inputs, RoundTrip(c, host, e, q)
        PROVE  ServedInv'
    BY <2>1, CallsAreExchanges, ReceiveServed DEF RoundTrip
  <2>2. ASSUME NEW c \in Calls, Serve(c) PROVE ServedInv'
    BY <2>2, CallsAreExchanges, ServeServed DEF Serve
  <2>3. CASE ServiceRestarts
    BY <2>3, RestartServed DEF ServiceRestarts
  <2>4. CASE UNCHANGED middlewareVars
    BY <2>4 DEF middlewareVars, ServedInv, ServedTyped, Early, StrictAllows, LenientAllows, Calm,
               Strict, Lenient, Plain, Undisturbed, Races, Mutates
  <2> QED
    BY <2>1, <2>2, <2>3, <2>4
    DEF Next, vars, Test, AnswerReturns, ConnectionBreaks, ValidateAnswer, MockCall
<1>3. ServedInv => ModesAreKept
  <2> SUFFICES ASSUME ServedInv PROVE ModesAreKept
    OBVIOUS
  <2>1. StrictGuardsHandler
    BY DEF ServedInv, StrictAllows, Strict, StrictGuardsHandler
  <2>2. OnlyStrictInterferes
    BY DEF ServedInv, LenientAllows, Calm, Undisturbed, Lenient, OnlyStrictInterferes
  <2> QED
    BY <2>1, <2>2 DEF ModesAreKept
<1> QED
  BY <1>1, <1>2, <1>3, PTL DEF Spec

-----------------------------------------------------------------------------
(***************************************************************************)
(* What the middleware counts.                                             *)
(***************************************************************************)

CheckState == {"none", "running"}

CountsTyped ==
    /\ metrics \in [request : Nat, response : Nat, rejected : Nat]
    /\ checks \in [Exchanges -> [request : CheckState, response : CheckState]]

\* The check of the request has been made, and failed.
RequestCounted(x) ==
    /\ exchange[x].at \in {"handler", "replied", "done"} /\ ~exchange[x].input.excluded
    /\ exchange[x].answer # "unread"
    /\ config.request /\ ~ValidateRequest(config, exchange[x].input)
    /\ checks[x].request # "running"

\* The same of its response.
ResponseCounted(x) ==
    /\ exchange[x].at = "done" /\ ~exchange[x].input.excluded
    /\ config.response /\ exchange[x].answer \in {"handler", "altered"}
    /\ ~ValidateResponse(config, exchange[x].input)
    /\ checks[x].response # "running"

\* Its rejection was recorded.
RejectionCounted(x) ==
    exchange[x].at = "done" /\ ~exchange[x].input.excluded /\ exchange[x].answer = "rejected"

\* A counter that has counted S, which has been finite from the start.
Counts(counter, S) == IsFiniteSet(S) /\ counter = Cardinality(S)

Shadow == config.mode = "shadow" /\ Plain /\ Untouched

\* A check belongs to a request that is past it, and a response to a request that is watched.
ShadowAt(x) ==
    /\ checks[x].request = "running" =>
         /\ exchange[x].at \in {"handler", "replied", "done"} /\ exchange[x].answer # "unread"
         /\ ~exchange[x].input.excluded /\ config.request
    /\ checks[x].response = "running" =>
         /\ exchange[x].at = "done" /\ exchange[x].answer \in {"handler", "altered"}
         /\ ~exchange[x].input.excluded /\ config.response
    /\ exchange[x].at = "received" => ~exchange[x].input.excluded
    /\ exchange[x].at = "replied" =>
         exchange[x].answer \in {"handler", "altered"} /\ ~exchange[x].input.excluded

ShadowCounts ==
    Shadow =>
        /\ Counts(metrics.request, {x \in Exchanges : RequestCounted(x)})
        /\ Counts(metrics.response, {x \in Exchanges : ResponseCounted(x)})
        /\ \A x \in Exchanges : ShadowAt(x)

Prompt == ~config.async /\ Plain /\ Untouched

\* Where the middleware rejects before it answers, a rejection is on its way to be counted
\* or has been.
PromptAt(x) ==
    /\ checks[x].request = "running" => config.mode = "shadow"
    /\ exchange[x].at \in {"received", "rejecting"} => ~exchange[x].input.excluded
    /\ exchange[x].at = "rejecting" => exchange[x].answer = "rejected"
    /\ exchange[x].answer = "rejected" => exchange[x].at \in {"rejecting", "done"}

\* No goroutine rejects, so none panics and no restart resets the counter.
RejectionCounts ==
    Prompt =>
        /\ Counts(metrics.rejected, {x \in Exchanges : RejectionCounted(x)})
        /\ ~crashed
        /\ \A x \in Exchanges : PromptAt(x)

CountInv == CountsTyped /\ ShadowCounts /\ RejectionCounts

\* What one step does to a counter and to whether it has counted x.
Once(before, after, was, is) ==
    \/ after = before /\ (is <=> was)
    \/ after = before + 1 /\ is /\ ~was

\* A counter goes on counting a set that gains the one element it was stepped for.
LEMMA Recount ==
  ASSUME NEW S, NEW T, NEW x, NEW n, NEW m,
         T \ {x} = S \ {x}, Counts(n, S), Once(n, m, x \in S, x \in T)
  PROVE  Counts(m, T)
<1>1. CASE m = n /\ (x \in T <=> x \in S)
  <2>1. T = S
    BY <1>1
  <2> QED
    BY <1>1, <2>1
<1>2. CASE m = n + 1 /\ x \in T /\ x \notin S
  <2>1. T = S \cup {x}
    BY <1>2
  <2>2. IsFiniteSet(T) /\ Cardinality(T) = Cardinality(S) + 1
    BY <1>2, <2>1, FS_AddElement DEF Counts
  <2> QED
    BY <1>2, <2>2 DEF Counts
<1> QED
  BY <1>1, <1>2 DEF Once

\* A step of request x that leaves the others alone.
Only(x) ==
    /\ UNCHANGED config
    /\ Mutates(x) => Mutates(x)'
    /\ \A y \in Exchanges \ {x} : exchange'[y] = exchange[y] /\ checks'[y] = checks[y]

\* In shadow mode only x needs to be looked at.
LEMMA ShadowKept ==
  ASSUME ShadowCounts, NEW x \in Exchanges, Only(x),
         Shadow => /\ Once(metrics.request, metrics'.request, RequestCounted(x), RequestCounted(x)')
                   /\ Once(metrics.response, metrics'.response, ResponseCounted(x), ResponseCounted(x)')
                   /\ ShadowAt(x)'
  PROVE  ShadowCounts'
<1> SUFFICES ASSUME Shadow' PROVE /\ Counts(metrics.request, {y \in Exchanges : RequestCounted(y)})'
                                  /\ Counts(metrics.response, {y \in Exchanges : ResponseCounted(y)})'
                                  /\ \A y \in Exchanges : ShadowAt(y)'
  BY DEF ShadowCounts
<1>1. Shadow
  BY DEF Only, Shadow, Plain, Untouched, Mutates
<1>2. \A y \in Exchanges \ {x} :
        /\ RequestCounted(y)' <=> RequestCounted(y)
        /\ ResponseCounted(y)' <=> ResponseCounted(y)
        /\ ShadowAt(y)' <=> ShadowAt(y)
  BY DEF Only, RequestCounted, ResponseCounted, ShadowAt
<1>3. Counts(metrics.request, {y \in Exchanges : RequestCounted(y)})'
  <2> DEFINE S == {y \in Exchanges : RequestCounted(y)}
             T == {y \in Exchanges : RequestCounted(y)'}
  <2>1. T \ {x} = S \ {x} /\ (x \in S <=> RequestCounted(x)) /\ (x \in T <=> RequestCounted(x)')
    BY <1>2
  <2>2. Counts(metrics.request, S)
    BY <1>1 DEF ShadowCounts
  <2>3. Once(metrics.request, metrics'.request, x \in S, x \in T)
    BY <1>1, <2>1 DEF Once
  <2> HIDE DEF S, T
  <2>4. Counts(metrics'.request, T)
    BY <2>1, <2>2, <2>3, Recount
  <2> QED
    BY <2>4 DEF T, Counts
<1>4. Counts(metrics.response, {y \in Exchanges : ResponseCounted(y)})'
  <2> DEFINE S == {y \in Exchanges : ResponseCounted(y)}
             T == {y \in Exchanges : ResponseCounted(y)'}
  <2>1. T \ {x} = S \ {x} /\ (x \in S <=> ResponseCounted(x)) /\ (x \in T <=> ResponseCounted(x)')
    BY <1>2
  <2>2. Counts(metrics.response, S)
    BY <1>1 DEF ShadowCounts
  <2>3. Once(metrics.response, metrics'.response, x \in S, x \in T)
    BY <1>1, <2>1 DEF Once
  <2> HIDE DEF S, T
  <2>4. Counts(metrics'.response, T)
    BY <2>1, <2>2, <2>3, Recount
  <2> QED
    BY <2>4 DEF T, Counts
<1>5. \A y \in Exchanges : ShadowAt(y)'
  BY <1>1, <1>2 DEF ShadowCounts
<1> QED
  BY <1>3, <1>4, <1>5

\* The same of rejections.
LEMMA PromptKept ==
  ASSUME RejectionCounts, NEW x \in Exchanges, Only(x),
         Prompt => /\ Once(metrics.rejected, metrics'.rejected, RejectionCounted(x), RejectionCounted(x)')
                   /\ ~crashed'
                   /\ PromptAt(x)'
  PROVE  RejectionCounts'
<1> SUFFICES ASSUME Prompt' PROVE /\ Counts(metrics.rejected, {y \in Exchanges : RejectionCounted(y)})'
                                  /\ ~crashed'
                                  /\ \A y \in Exchanges : PromptAt(y)'
  BY DEF RejectionCounts
<1>1. Prompt
  BY DEF Only, Prompt, Plain, Untouched, Mutates
<1>2. \A y \in Exchanges \ {x} :
        /\ RejectionCounted(y)' <=> RejectionCounted(y)
        /\ PromptAt(y)' <=> PromptAt(y)
  BY DEF Only, RejectionCounted, PromptAt
<1>3. Counts(metrics.rejected, {y \in Exchanges : RejectionCounted(y)})'
  <2> DEFINE S == {y \in Exchanges : RejectionCounted(y)}
             T == {y \in Exchanges : RejectionCounted(y)'}
  <2>1. T \ {x} = S \ {x} /\ (x \in S <=> RejectionCounted(x)) /\ (x \in T <=> RejectionCounted(x)')
    BY <1>2
  <2>2. Counts(metrics.rejected, S)
    BY <1>1 DEF RejectionCounts
  <2>3. Once(metrics.rejected, metrics'.rejected, x \in S, x \in T)
    BY <1>1, <2>1 DEF Once
  <2> HIDE DEF S, T
  <2>4. Counts(metrics'.rejected, T)
    BY <2>1, <2>2, <2>3, Recount
  <2> QED
    BY <2>4 DEF T, Counts
<1>4. \A y \in Exchanges : PromptAt(y)'
  BY <1>1, <1>2 DEF RejectionCounts
<1> QED
  BY <1>1, <1>3, <1>4

\* Counting is adding one to the counter that is named.
LEMMA CountedRequest ==
  ASSUME CountsTyped, NEW counts, metrics' = Counted("request", counts)
  PROVE  /\ metrics' \in [request : Nat, response : Nat, rejected : Nat]
         /\ metrics'.request = IF counts THEN metrics.request + 1 ELSE metrics.request
         /\ metrics'.response = metrics.response
         /\ metrics'.rejected = metrics.rejected
BY DEF CountsTyped, Counted

LEMMA CountedResponse ==
  ASSUME CountsTyped, NEW counts, metrics' = Counted("response", counts)
  PROVE  /\ metrics' \in [request : Nat, response : Nat, rejected : Nat]
         /\ metrics'.response = IF counts THEN metrics.response + 1 ELSE metrics.response
         /\ metrics'.request = metrics.request
         /\ metrics'.rejected = metrics.rejected
BY DEF CountsTyped, Counted

\* The steps of a request before its handler.
LEMMA BeforeHandler ==
  ASSUME ServedInv, CountInv, NEW x \in Exchanges,
         SkipRequest(x) \/ RequestPasses(x) \/ RequestFails(x) \/ RecordRejection(x)
           \/ SpawnRequestCheck(x)
  PROVE  CountInv'
<1> USE DEF CountInv, CountsTyped, Alive, Moves, Ends
<1>1. exchange[x] \in Served /\ exchange \in [Exchanges -> Served]
  BY DEF ServedInv, ServedTyped
<1>2. CASE SkipRequest(x)
  <2>1. /\ ~config.request /\ UNCHANGED <<config, checks, metrics, crashed>>
        /\ exchange' = [exchange EXCEPT ![x].at = "handler"] /\ exchange[x].at = "received"
    BY <1>2 DEF SkipRequest
  <2>2. Only(x)
    BY <1>1, <2>1 DEF Only, Mutates, Served
  <2>3. exchange'[x] = [exchange[x] EXCEPT !.at = "handler"]
    BY <1>1, <2>1
  <2>4. ShadowCounts'
    <3>1. Shadow => /\ ~RequestCounted(x) /\ ~RequestCounted(x)'
                    /\ ~ResponseCounted(x) /\ ~ResponseCounted(x)'
                    /\ ShadowAt(x)'
      BY <1>1, <2>1, <2>3
      DEF Served, RequestCounted, ResponseCounted, ShadowCounts, ShadowAt
    <3> QED
      BY <2>1, <2>2, <3>1, ShadowKept DEF Once
  <2>5. RejectionCounts'
    <3>1. Prompt => ~RejectionCounted(x) /\ ~RejectionCounted(x)' /\ ~crashed' /\ PromptAt(x)'
      BY <1>1, <2>1, <2>3 DEF Served, RejectionCounted, RejectionCounts, PromptAt
    <3> QED
      BY <2>1, <2>2, <3>1, PromptKept DEF Once
  <2> QED
    BY <2>1, <2>4, <2>5
<1>3. CASE RequestPasses(x)
  <2>1. /\ ~ShouldValidateAsync(config) /\ UNCHANGED <<config, checks, metrics, crashed>>
        /\ exchange' = [exchange EXCEPT ![x].at = "handler"] /\ exchange[x].at = "received"
    BY <1>3 DEF RequestPasses
  <2>2. Only(x)
    BY <1>1, <2>1 DEF Only, Mutates, Served
  <2>3. exchange'[x] = [exchange[x] EXCEPT !.at = "handler"]
    BY <1>1, <2>1
  <2>4. ShadowCounts'
    <3>1. ~Shadow
      BY <2>1 DEF Shadow, ShouldValidateAsync
    <3> QED
      BY <2>2, <3>1, ShadowKept
  <2>5. RejectionCounts'
    <3>1. Prompt => ~RejectionCounted(x) /\ ~RejectionCounted(x)' /\ ~crashed' /\ PromptAt(x)'
      BY <1>1, <2>1, <2>3 DEF Served, RejectionCounted, RejectionCounts, PromptAt
    <3> QED
      BY <2>1, <2>2, <3>1, PromptKept DEF Once
  <2> QED
    BY <2>1, <2>4, <2>5
<1>4. CASE RequestFails(x)
  <2> DEFINE failure == HandleRequestValidationFailure(config, config.adapter = "nethttp")
  <2>1. /\ ~ShouldValidateAsync(config) /\ UNCHANGED <<config, checks, crashed>>
        /\ exchange[x].at = "received"
        /\ \/ exchange' = [exchange EXCEPT ![x].at = "done", ![x].answer = "aborted"]
           \/ exchange' = [exchange EXCEPT ![x].at = "handler"]
           \/ exchange' = [exchange EXCEPT ![x].at = "rejecting", ![x].answer = "rejected"]
        /\ metrics' = Counted("request", failure.counted)
    BY <1>4 DEF RequestFails
  <2> HIDE DEF failure
  <2>2. Only(x)
    BY <1>1, <2>1 DEF Only, Mutates, Served
  <2>3. \/ exchange'[x] = [exchange[x] EXCEPT !.at = "done", !.answer = "aborted"]
        \/ exchange'[x] = [exchange[x] EXCEPT !.at = "handler"]
        \/ exchange'[x] = [exchange[x] EXCEPT !.at = "rejecting", !.answer = "rejected"]
    BY <1>1, <2>1
  <2>4. /\ metrics' \in [request : Nat, response : Nat, rejected : Nat]
        /\ metrics'.rejected = metrics.rejected
    BY <2>1, CountedRequest
  <2>5. ShadowCounts'
    <3>1. ~Shadow
      BY <2>1 DEF Shadow, ShouldValidateAsync
    <3> QED
      BY <2>2, <3>1, ShadowKept
  <2>6. RejectionCounts'
    <3>1. Prompt => ~RejectionCounted(x) /\ ~RejectionCounted(x)' /\ ~crashed' /\ PromptAt(x)'
      BY <1>1, <2>1, <2>3 DEF Served, RejectionCounted, RejectionCounts, PromptAt
    <3> QED
      BY <2>2, <2>4, <3>1, PromptKept DEF Once
  <2> QED
    BY <2>1, <2>4, <2>5, <2>6
<1>5. CASE RecordRejection(x)
  <2>1. /\ UNCHANGED <<config, checks, crashed>> /\ exchange[x].at = "rejecting"
        /\ exchange' = [exchange EXCEPT ![x].at = "done"]
        /\ metrics' = [metrics EXCEPT !.rejected = @ + 1]
    BY <1>5 DEF RecordRejection
  <2>2. Only(x)
    BY <1>1, <2>1 DEF Only, Mutates, Served
  <2>3. exchange'[x] = [exchange[x] EXCEPT !.at = "done"]
    BY <1>1, <2>1
  <2>4. /\ metrics' \in [request : Nat, response : Nat, rejected : Nat]
        /\ metrics'.rejected = metrics.rejected + 1
    BY <2>1
  <2>5. ShadowCounts'
    <3>1. ~Shadow
      BY <2>1 DEF Shadow, ServedInv, LenientAllows, Lenient
    <3> QED
      BY <2>2, <3>1, ShadowKept
  <2>6. RejectionCounts'
    <3>1. Prompt => ~RejectionCounted(x) /\ RejectionCounted(x)' /\ ~crashed' /\ PromptAt(x)'
      BY <1>1, <2>1, <2>3 DEF Served, RejectionCounted, RejectionCounts, PromptAt
    <3> QED
      BY <2>2, <2>4, <3>1, PromptKept DEF Once
  <2> QED
    BY <2>1, <2>4, <2>5, <2>6
<1>6. CASE SpawnRequestCheck(x)
  <2>1. /\ config.request /\ ShouldValidateAsync(config) /\ UNCHANGED <<config, metrics, crashed>>
        /\ exchange' = [exchange EXCEPT ![x].at = "handler"] /\ exchange[x].at = "received"
        /\ checks' = [checks EXCEPT ![x].request = "running"]
        /\ exchange[x].answer = "none"
    BY <1>6 DEF SpawnRequestCheck, ServedInv, Early
  <2>2. Only(x)
    BY <1>1, <2>1 DEF Only, Mutates, Served
  <2>3. /\ exchange'[x] = [exchange[x] EXCEPT !.at = "handler"]
        /\ checks'[x] = [checks[x] EXCEPT !.request = "running"]
    BY <1>1, <2>1
  <2>4. CountsTyped'
    BY <2>1 DEF CheckState
  <2>5. ShadowCounts'
    <3>1. Shadow => /\ ~RequestCounted(x) /\ ~RequestCounted(x)'
                    /\ ~ResponseCounted(x) /\ ~ResponseCounted(x)'
                    /\ ShadowAt(x)'
      BY <1>1, <2>1, <2>3 DEF Served, RequestCounted, ResponseCounted, ShadowCounts, ShadowAt
    <3> QED
      BY <2>1, <2>2, <3>1, ShadowKept DEF Once
  <2>6. RejectionCounts'
    <3>1. Prompt => ~RejectionCounted(x) /\ ~RejectionCounted(x)' /\ ~crashed' /\ PromptAt(x)'
      BY <1>1, <2>1, <2>3
      DEF Served, RejectionCounted, RejectionCounts, PromptAt, Prompt, ShouldValidateAsync
    <3> QED
      BY <2>1, <2>2, <3>1, PromptKept DEF Once
  <2> QED
    BY <2>4, <2>5, <2>6
<1> QED
  BY <1>2, <1>3, <1>4, <1>5, <1>6

\* The handler, and the check of its response.
LEMMA FromHandler ==
  ASSUME ServedInv, CountInv, NEW x \in Exchanges,
         Handle(x) \/ HandlerPanics(x) \/ CheckResponse(x) \/ SpawnResponseCheck(x)
  PROVE  CountInv'
<1> USE DEF CountInv, CountsTyped, Alive, Moves
<1>1. exchange[x] \in Served /\ exchange \in [Exchanges -> Served]
  BY DEF ServedInv, ServedTyped
<1>2. CASE Handle(x)
  <2> DEFINE q == exchange[x].input
             next == IF ShouldValidatePath(q) THEN "replied" ELSE "done"
             answer == IF /\ config.adapter = "nethttp" /\ q.handler = "special"
                          /\ ShouldValidatePath(q)
                       THEN "altered" ELSE "handler"
  <2>1. /\ UNCHANGED <<config, checks, metrics, crashed>> /\ exchange[x].at = "handler"
        /\ exchange' = [exchange EXCEPT ![x].answer = answer, ![x].handled = TRUE, ![x].at = next]
    BY <1>2 DEF Handle
  <2>2. /\ next \in {"replied", "done"} /\ (next = "replied" <=> ~exchange[x].input.excluded)
        /\ answer \in {"handler", "altered"} /\ exchange[x].answer = "none"
    BY <2>1 DEF ShouldValidatePath, ServedInv, Early
  <2> HIDE DEF next, answer
  <2>3. Only(x)
    BY <1>1, <2>1 DEF Only, Mutates, Served
  <2>4. exchange'[x] = [exchange[x] EXCEPT !.answer = answer, !.handled = TRUE, !.at = next]
    BY <1>1, <2>1
  <2>5. /\ exchange'[x].at = next /\ exchange'[x].answer = answer
        /\ exchange'[x].input = exchange[x].input
    BY <1>1, <2>4 DEF Served
  <2>6. ShadowCounts'
    <3>1. Shadow => /\ RequestCounted(x)' <=> RequestCounted(x)
                    /\ ~ResponseCounted(x) /\ ~ResponseCounted(x)'
                    /\ ShadowAt(x)'
      BY <2>1, <2>2, <2>5 DEF RequestCounted, ResponseCounted, ShadowCounts, ShadowAt
    <3> QED
      BY <2>1, <2>3, <3>1, ShadowKept DEF Once
  <2>7. RejectionCounts'
    <3>1. Prompt => ~RejectionCounted(x) /\ ~RejectionCounted(x)' /\ ~crashed' /\ PromptAt(x)'
      BY <2>1, <2>2, <2>5 DEF RejectionCounted, RejectionCounts, PromptAt
    <3> QED
      BY <2>1, <2>3, <3>1, PromptKept DEF Once
  <2> QED
    BY <2>1, <2>6, <2>7
<1>3. CASE HandlerPanics(x)
  <2>1. /\ UNCHANGED <<config, checks, metrics, crashed>> /\ exchange[x].at = "handler"
        /\ exchange' = [exchange EXCEPT ![x].at = "done", ![x].answer = "aborted", ![x].handled = TRUE]
        /\ exchange[x].answer = "none"
    BY <1>3 DEF HandlerPanics, ServedInv, Early
  <2>2. Only(x)
    BY <1>1, <2>1 DEF Only, Mutates, Served
  <2>3. exchange'[x] = [exchange[x] EXCEPT !.at = "done", !.answer = "aborted", !.handled = TRUE]
    BY <1>1, <2>1
  <2>4. /\ exchange'[x].at = "done" /\ exchange'[x].answer = "aborted"
        /\ exchange'[x].input = exchange[x].input
    BY <1>1, <2>3 DEF Served
  <2>5. ShadowCounts'
    <3>1. Shadow => /\ RequestCounted(x)' <=> RequestCounted(x)
                    /\ ~ResponseCounted(x) /\ ~ResponseCounted(x)'
                    /\ ShadowAt(x)'
      BY <2>1, <2>4 DEF RequestCounted, ResponseCounted, ShadowCounts, ShadowAt
    <3> QED
      BY <2>1, <2>2, <3>1, ShadowKept DEF Once
  <2>6. RejectionCounts'
    <3>1. Prompt => ~RejectionCounted(x) /\ ~RejectionCounted(x)' /\ ~crashed' /\ PromptAt(x)'
      BY <2>1, <2>4 DEF RejectionCounted, RejectionCounts, PromptAt
    <3> QED
      BY <2>1, <2>2, <3>1, PromptKept DEF Once
  <2> QED
    BY <2>1, <2>5, <2>6
<1>4. CASE CheckResponse(x)
  <2>0. PICK valid \in ResponseVerdicts(x) :
          metrics' = Counted("response", /\ config.response /\ ~valid
                                         /\ HandleResponseValidationFailure(config))
    BY <1>4 DEF CheckResponse
  <2> DEFINE fails == /\ config.response /\ ~valid
                      /\ HandleResponseValidationFailure(config)
  <2>1. /\ UNCHANGED <<config, checks, crashed>> /\ exchange[x].at = "replied"
        /\ exchange' = [exchange EXCEPT ![x].at = "done"]
        /\ ~(config.response /\ ShouldValidateAsync(config))
        /\ metrics' = Counted("response", fails)
    BY <1>4, <2>0 DEF CheckResponse
  <2>2. Only(x)
    BY <1>1, <2>1 DEF Only, Mutates, Served
  <2>3. /\ exchange'[x].at = "done" /\ exchange'[x].answer = exchange[x].answer
        /\ exchange'[x].input = exchange[x].input
    BY <1>1, <2>1 DEF Served
  <2>4. Shadow => ~config.response /\ ~fails
    BY <2>1 DEF Shadow, ShouldValidateAsync
  <2> HIDE DEF fails
  <2>5. /\ metrics' \in [request : Nat, response : Nat, rejected : Nat]
        /\ metrics'.rejected = metrics.rejected
        /\ Shadow => metrics'.request = metrics.request /\ metrics'.response = metrics.response
    BY <2>1, <2>4, CountedResponse
  <2>6. ShadowCounts'
    <3>1. Shadow => /\ RequestCounted(x)' <=> RequestCounted(x)
                    /\ ~ResponseCounted(x) /\ ~ResponseCounted(x)'
                    /\ ShadowAt(x)'
      BY <2>1, <2>3, <2>4 DEF RequestCounted, ResponseCounted, ShadowCounts, ShadowAt
    <3> QED
      BY <2>2, <2>5, <3>1, ShadowKept DEF Once
  <2>7. RejectionCounts'
    <3>1. Prompt => ~RejectionCounted(x) /\ ~RejectionCounted(x)' /\ ~crashed' /\ PromptAt(x)'
      BY <2>1, <2>3 DEF RejectionCounted, RejectionCounts, PromptAt
    <3> QED
      BY <2>2, <2>5, <3>1, PromptKept DEF Once
  <2> QED
    BY <2>1, <2>5, <2>6, <2>7
<1>5. CASE SpawnResponseCheck(x)
  <2>1. /\ UNCHANGED <<config, metrics, crashed>> /\ exchange[x].at = "replied"
        /\ config.response
        /\ exchange' = [exchange EXCEPT ![x].at = "done"]
        /\ checks' = [checks EXCEPT ![x].response = "running"]
    BY <1>5 DEF SpawnResponseCheck
  <2>2. Only(x)
    BY <1>1, <2>1 DEF Only, Mutates, Served
  <2>3. /\ exchange'[x].at = "done" /\ exchange'[x].answer = exchange[x].answer
        /\ exchange'[x].input = exchange[x].input
        /\ checks'[x].request = checks[x].request /\ checks'[x].response = "running"
    BY <1>1, <2>1 DEF Served
  <2>4. CountsTyped'
    BY <2>1 DEF CheckState
  <2>5. ShadowCounts'
    <3>1. Shadow => /\ RequestCounted(x)' <=> RequestCounted(x)
                    /\ ~ResponseCounted(x) /\ ~ResponseCounted(x)'
                    /\ ShadowAt(x)'
      BY <2>1, <2>3 DEF RequestCounted, ResponseCounted, ShadowCounts, ShadowAt
    <3> QED
      BY <2>1, <2>2, <3>1, ShadowKept DEF Once
  <2>6. RejectionCounts'
    <3>1. Prompt => ~RejectionCounted(x) /\ ~RejectionCounted(x)' /\ ~crashed' /\ PromptAt(x)'
      BY <2>1, <2>3 DEF RejectionCounted, RejectionCounts, PromptAt
    <3> QED
      BY <2>1, <2>2, <3>1, PromptKept DEF Once
  <2> QED
    BY <2>4, <2>5, <2>6
<1> QED
  BY <1>2, <1>3, <1>4, <1>5

\* The goroutines count what they find failed, where the mode counts.
LEMMA Goroutines ==
  ASSUME ServedInv, CountInv, NEW x \in Exchanges, RunRequestCheck(x) \/ RunResponseCheck(x)
  PROVE  CountInv'
<1> USE DEF CountInv, CountsTyped
<1>1. CASE RunRequestCheck(x)
  <2> DEFINE fails == ~ValidateRequest(config, exchange[x].input)
             failure == HandleRequestValidationFailure(config, FALSE)
  <2>0. PICK counts : /\ metrics' = Counted("request", counts)
                      /\ Untouched => (counts <=> fails /\ failure.counted)
                                      /\ crashed' = (fails /\ failure.panics)
    <3>1. CASE \E valid \in RequestVerdicts(x) :
                 /\ crashed' = (~valid /\ failure.panics)
                 /\ metrics' = Counted("request", ~valid /\ failure.counted)
      <4>1. PICK valid \in RequestVerdicts(x) :
                 /\ crashed' = (~valid /\ failure.panics)
                 /\ metrics' = Counted("request", ~valid /\ failure.counted)
        BY <3>1
      <4>2. Untouched => valid = ValidateRequest(config, exchange[x].input)
        BY DEF Untouched, Races, RequestVerdicts
      <4> HIDE DEF failure
      <4> QED
        BY <4>1, <4>2
    <3>2. CASE Races(x) /\ crashed' = TRUE /\ UNCHANGED metrics
      <4>1. metrics' = Counted("request", FALSE) /\ ~Untouched
        BY <3>2 DEF Counted, Untouched, Races
      <4> QED
        BY <4>1
    <3> QED
      BY <1>1, <3>1, <3>2 DEF RunRequestCheck
  <2>1. /\ UNCHANGED <<config, exchange>> /\ checks[x].request = "running"
        /\ checks' = [checks EXCEPT ![x].request = "none"]
    BY <1>1 DEF RunRequestCheck
  <2>2. Shadow => (counts <=> fails) /\ ~failure.panics
    BY <2>0 DEF Shadow, Plain, HandleRequestValidationFailure
  <2>3. Prompt => Shadow
    BY <2>1 DEF RejectionCounts, PromptAt, Prompt, Shadow
  <2>4. /\ metrics' \in [request : Nat, response : Nat, rejected : Nat]
        /\ metrics'.request = IF counts THEN metrics.request + 1 ELSE metrics.request
        /\ metrics'.response = metrics.response
        /\ metrics'.rejected = metrics.rejected
    BY <2>0, CountedRequest
  <2>5. Shadow => ~crashed'
    BY <2>0, <2>2 DEF Shadow
  <2>6. Shadow => metrics'.request = IF fails THEN metrics.request + 1 ELSE metrics.request
    BY <2>2, <2>4
  <2> HIDE DEF failure
  <2>7. Only(x)
    BY <2>1 DEF Only, Mutates, Served
  <2>8. checks'[x].request = "none" /\ checks'[x].response = checks[x].response
    BY <2>1
  <2>9. CountsTyped'
    BY <2>1, <2>4 DEF CheckState
  <2>10. ShadowCounts'
    <3>1. Shadow => /\ ~RequestCounted(x) /\ (RequestCounted(x)' <=> fails)
                    /\ ResponseCounted(x)' <=> ResponseCounted(x)
                    /\ ShadowAt(x)'
      BY <2>1, <2>8 DEF RequestCounted, ResponseCounted, ShadowCounts, ShadowAt
    <3> HIDE DEF fails
    <3> QED
      BY <2>4, <2>6, <2>7, <3>1, ShadowKept DEF Once
  <2>11. RejectionCounts'
    <3>1. Prompt => (RejectionCounted(x)' <=> RejectionCounted(x)) /\ ~crashed' /\ PromptAt(x)'
      BY <2>1, <2>3, <2>5, <2>8 DEF RejectionCounted, RejectionCounts, PromptAt
    <3> QED
      BY <2>4, <2>7, <3>1, PromptKept DEF Once
  <2> QED
    BY <2>9, <2>10, <2>11
<1>2. CASE RunResponseCheck(x)
  <2> DEFINE fails == ~ValidateResponse(config, exchange[x].input)
  <2>0. PICK valid \in ResponseVerdicts(x) :
          metrics' = Counted("response", ~valid /\ HandleResponseValidationFailure(config))
    BY <1>2 DEF RunResponseCheck
  <2> DEFINE counts == ~valid /\ HandleResponseValidationFailure(config)
  <2>1. /\ UNCHANGED <<config, exchange, crashed>> /\ checks[x].response = "running"
        /\ checks' = [checks EXCEPT ![x].response = "none"]
        /\ metrics' = Counted("response", counts)
    BY <1>2, <2>0 DEF RunResponseCheck
  <2>v. Shadow => valid = ValidateResponse(config, exchange[x].input)
    BY DEF Shadow, Untouched, ResponseVerdicts
  <2>2. Shadow => (counts <=> fails)
    BY <2>v DEF Shadow, Plain, HandleResponseValidationFailure
  <2>3. /\ metrics' \in [request : Nat, response : Nat, rejected : Nat]
        /\ metrics'.response = IF counts THEN metrics.response + 1 ELSE metrics.response
        /\ metrics'.request = metrics.request
        /\ metrics'.rejected = metrics.rejected
    <3> HIDE DEF counts
    <3> QED
      BY <2>1, CountedResponse
  <2>4. Shadow => metrics'.response = IF fails THEN metrics.response + 1 ELSE metrics.response
    BY <2>2, <2>3
  <2> HIDE DEF counts
  <2>5. Only(x)
    BY <2>1 DEF Only, Mutates, Served
  <2>6. checks'[x].response = "none" /\ checks'[x].request = checks[x].request
    BY <2>1
  <2>7. CountsTyped'
    BY <2>1, <2>3 DEF CheckState
  <2>8. ShadowCounts'
    <3>1. Shadow => /\ ~ResponseCounted(x) /\ (ResponseCounted(x)' <=> fails)
                    /\ RequestCounted(x)' <=> RequestCounted(x)
                    /\ ShadowAt(x)'
      BY <2>1, <2>6 DEF RequestCounted, ResponseCounted, ShadowCounts, ShadowAt
    <3> HIDE DEF fails
    <3> QED
      BY <2>3, <2>4, <2>5, <3>1, ShadowKept DEF Once
  <2>9. RejectionCounts'
    <3>1. Prompt => (RejectionCounted(x)' <=> RejectionCounted(x)) /\ ~crashed' /\ PromptAt(x)'
      BY <2>1, <2>6 DEF RejectionCounted, RejectionCounts, PromptAt
    <3> QED
      BY <2>3, <2>5, <3>1, PromptKept DEF Once
  <2> QED
    BY <2>7, <2>8, <2>9
<1> QED
  BY <1>1, <1>2

\* A request that arrives is not counted for anything yet.
LEMMA ReceiveCounts ==
  ASSUME ServedInv, CountInv, NEW x \in Exchanges, NEW q \in Inputs, Receive(x, q)
  PROVE  CountInv'
<1> USE DEF CountInv, CountsTyped
<1> DEFINE next == IF ~ShouldValidatePath(q) THEN "handler" ELSE IF q.readable THEN "received" ELSE "done"
           answer == IF ShouldValidatePath(q) /\ ~q.readable THEN "unread" ELSE exchange[x].answer
<1>1. exchange[x] \in Served /\ exchange \in [Exchanges -> Served]
  BY DEF ServedInv, ServedTyped
<1>2. /\ exchange' = [exchange EXCEPT ![x].at = next, ![x].answer = answer, ![x].input = q]
      /\ UNCHANGED <<config, checks, metrics, crashed>>
      /\ exchange[x].at = "free" /\ exchange[x].answer = "none"
  BY <1>1 DEF Receive, Alive, ServedInv, Early
<1>3. \/ next = "handler" /\ answer = "none" /\ q.excluded
      \/ next = "received" /\ answer = "none" /\ ~q.excluded
      \/ next = "done" /\ answer = "unread"
  BY <1>2 DEF ShouldValidatePath
<1> HIDE DEF next, answer
<1>4. Only(x)
  BY <1>1, <1>2 DEF Only, Mutates, Served
<1>5. /\ exchange'[x].at = next /\ exchange'[x].input = q
      /\ exchange'[x].answer = answer
  BY <1>1, <1>2 DEF Served
<1>6. ShadowCounts'
  <2>1. Shadow => /\ ~RequestCounted(x) /\ ~RequestCounted(x)'
                  /\ ~ResponseCounted(x) /\ ~ResponseCounted(x)'
                  /\ ShadowAt(x)'
    BY <1>2, <1>3, <1>5 DEF RequestCounted, ResponseCounted, ShadowCounts, ShadowAt
  <2> QED
    BY <1>2, <1>4, <2>1, ShadowKept DEF Once
<1>7. RejectionCounts'
  <2>1. Prompt => ~RejectionCounted(x) /\ ~RejectionCounted(x)' /\ ~crashed' /\ PromptAt(x)'
    BY <1>2, <1>3, <1>5 DEF RejectionCounted, RejectionCounts, PromptAt
  <2> QED
    BY <1>2, <1>4, <2>1, PromptKept DEF Once
<1> QED
  BY <1>2, <1>6, <1>7

\* Nothing restarts where something is counted on: only an asynchronous strict check crashes.
LEMMA RestartCounts ==
  ASSUME ServedInv, CountInv, Restart
  PROVE  CountInv'
<1>1. CountsTyped'
  BY DEF Restart, CountsTyped, NoMetrics, NoChecks, CheckState
<1>2. ~Shadow /\ ~Prompt
  BY DEF Restart, CountInv, RejectionCounts, ServedInv, Calm, Lenient, Shadow, Undisturbed,
         Untouched, Races
<1>3. ~Shadow' /\ ~Prompt'
  <2>1. \A x \in Exchanges : exchange[x].at # "free" =>
             exchange'[x].at # "free" /\ exchange'[x].input = exchange[x].input
    <3>1. \A x \in Exchanges : exchange[x] \in Served
      BY DEF ServedInv, ServedTyped
    <3> QED
      BY <3>1 DEF Restart, Served
  <2>2. UNCHANGED config
    BY DEF Restart
  <2> QED
    BY <1>2, <2>1, <2>2, Disturbed DEF Shadow, Prompt, Plain, Untouched
<1> QED
  BY <1>1, <1>3 DEF CountInv, ShadowCounts, RejectionCounts

\* Nothing is counted before the first request.
LEMMA CountInit == MiddlewareInit => CountInv
<1> SUFFICES ASSUME MiddlewareInit PROVE CountInv
  OBVIOUS
<1>1. CountsTyped
  BY DEF MiddlewareInit, CountsTyped, NoMetrics, NoChecks, CheckState
<1>2. \A x \in Exchanges :
        /\ exchange[x].at = "free" /\ exchange[x].answer = "none"
        /\ checks[x].request = "none" /\ checks[x].response = "none"
  BY DEF MiddlewareInit, Unused, NoChecks
<1>3. /\ {x \in Exchanges : RequestCounted(x)} = {}
      /\ {x \in Exchanges : ResponseCounted(x)} = {}
      /\ {x \in Exchanges : RejectionCounted(x)} = {}
  BY <1>2 DEF RequestCounted, ResponseCounted, RejectionCounted
<1>4. metrics.request = 0 /\ metrics.response = 0 /\ metrics.rejected = 0 /\ ~crashed
  BY DEF MiddlewareInit, NoMetrics
<1>5. ShadowCounts
  BY <1>2, <1>3, <1>4, FS_EmptySet DEF ShadowCounts, Counts, ShadowAt
<1>6. RejectionCounts
  BY <1>2, <1>3, <1>4, FS_EmptySet DEF RejectionCounts, Counts, PromptAt
<1> QED
  BY <1>1, <1>5, <1>6 DEF CountInv

\* The counters are right once everything has come to an end, whatever the order in which
\* the goroutines ran and however many requests there were.
THEOREM CountsRight == Spec => []CountsAgree
<1>1. Init => ServedInv /\ CountInv
  BY ServedInit, CountInit DEF Init
<1>2. ServedInv /\ CountInv /\ [Next]_vars => ServedInv' /\ CountInv'
  <2> SUFFICES ASSUME ServedInv, CountInv, [Next]_vars PROVE ServedInv' /\ CountInv'
    OBVIOUS
  <2>1. ASSUME NEW c \in Calls, NEW host, NEW e, NEW q \in Inputs, RoundTrip(c, host, e, q)
        PROVE  ServedInv' /\ CountInv'
    BY <2>1, CallsAreExchanges, ReceiveServed, ReceiveCounts DEF RoundTrip
  <2>2. ASSUME NEW c \in Calls, Serve(c) PROVE ServedInv' /\ CountInv'
    BY <2>2, CallsAreExchanges, ServeServed, BeforeHandler, FromHandler, Goroutines
    DEF Serve, ServeStep
  <2>3. CASE ServiceRestarts
    BY <2>3, RestartServed, RestartCounts DEF ServiceRestarts
  <2>4. CASE UNCHANGED middlewareVars
    <3>1. ServedInv'
      BY <2>4 DEF middlewareVars, ServedInv, ServedTyped, Early, StrictAllows, LenientAllows, Calm,
                  Strict, Lenient, Plain, Undisturbed, Races, Mutates
    <3>2. CountInv'
      BY <2>4 DEF middlewareVars, CountInv, CountsTyped, ShadowCounts, RejectionCounts, Shadow,
                  Prompt, Plain, Untouched, Mutates, Counts, RequestCounted, ResponseCounted, RejectionCounted,
                  ShadowAt, PromptAt
    <3> QED
      BY <3>1, <3>2
  <2> QED
    BY <2>1, <2>2, <2>3, <2>4
    DEF Next, vars, Test, AnswerReturns, ConnectionBreaks, ValidateAnswer, MockCall
<1>3. CountInv => CountsAgree
  <2> SUFFICES ASSUME CountInv, AtRest, Plain, Untouched PROVE
        LET FailedRequest(x) == config.request /\ ~ValidateRequest(config, exchange[x].input)
            FailedResponse(x) == /\ config.response /\ exchange[x].answer \in {"handler", "altered"}
                                 /\ ~ValidateResponse(config, exchange[x].input)
            Rejected(x) == exchange[x].answer = "rejected"
        IN  /\ config.mode = "shadow" =>
                 /\ metrics.request = Watched(FailedRequest)
                 /\ metrics.response = Watched(FailedResponse)
            /\ ~config.async => metrics.rejected = Watched(Rejected)
    BY DEF CountsAgree, Untouched
  <2> DEFINE FailedRequest(x) == config.request /\ ~ValidateRequest(config, exchange[x].input)
             FailedResponse(x) == /\ config.response /\ exchange[x].answer \in {"handler", "altered"}
                                  /\ ~ValidateResponse(config, exchange[x].input)
             Rejected(x) == exchange[x].answer = "rejected"
  <2>1. \A x \in Exchanges : /\ exchange[x].at \in {"free", "done"}
                             /\ checks[x].request # "running" /\ checks[x].response # "running"
    BY DEF AtRest, NoChecks
  <2>2. Watched(FailedRequest) = Cardinality({x \in Exchanges : RequestCounted(x)})
    <3>1. {x \in Exchanges : RequestCounted(x)}
            = {x \in Exchanges :
                 /\ exchange[x].at = "done" /\ exchange[x].answer # "unread"
                 /\ ~exchange[x].input.excluded /\ FailedRequest(x)}
      BY <2>1 DEF RequestCounted
    <3> QED
      BY <3>1 DEF Watched
  <2>3. Watched(FailedResponse) = Cardinality({x \in Exchanges : ResponseCounted(x)})
    <3>1. {x \in Exchanges : ResponseCounted(x)}
            = {x \in Exchanges :
                 /\ exchange[x].at = "done" /\ exchange[x].answer # "unread"
                 /\ ~exchange[x].input.excluded /\ FailedResponse(x)}
      BY <2>1 DEF ResponseCounted
    <3> QED
      BY <3>1 DEF Watched
  <2>4. Watched(Rejected) = Cardinality({x \in Exchanges : RejectionCounted(x)})
    BY DEF Watched, RejectionCounted
  <2>5. config.mode = "shadow" => /\ metrics.request = Watched(FailedRequest)
                                 /\ metrics.response = Watched(FailedResponse)
    BY <2>2, <2>3 DEF CountInv, ShadowCounts, Shadow, Counts
  <2>6. ~config.async => metrics.rejected = Watched(Rejected)
    BY <2>4 DEF CountInv, RejectionCounts, Prompt, Counts
  <2> QED
    BY <2>5, <2>6
<1> QED
  BY <1>1, <1>2, <1>3, PTL DEF Spec

-----------------------------------------------------------------------------
(***************************************************************************)
(* The mocking transport's cache.                                          *)
(***************************************************************************)

Late == {"respond", "record", "done"}

\* A response comes from a call that found nothing cached, and so nothing returned.
Origin(b, stages) == call[b].before = {} /\ call[b].at \in stages

SettledCall(c) ==
    /\ c \in wiped => call[c].at \in Late
    /\ c \notin wiped /\ (call[c].at \in {"respond", "record"} \/ call[c].result = "ok") =>
         cache[call[c].endpoint] # None
    /\ call[c].at \in {"generate", "store"} => call[c].before = {} /\ c \notin call[c].gone
    /\ call[c].at = "store" => call[c].response.by = c
    /\ call[c].response # None =>
         Origin(call[c].response.by, Late \cup {"store"}) /\ call[c].response.by \notin call[c].gone

SettledCache ==
    \A e \in Endpoints :
        cache[e] # None => Origin(cache[e].by, Late) /\ cache[e].by \notin wiped

Settled ==
    setup.transport = "mock" /\ setup.cached =>
        SettledCache /\ \A c \in Calls : SettledCall(c)

SettledInv == SessionInv /\ Settled

\* What the others and the cache say stays true when a call moves on with what it found, and
\* the cache changes for the better.
LEMMA OthersSettled ==
  ASSUME SettledInv, setup.transport = "mock", setup.cached,
         NEW c \in Calls, NEW r \in CallRecord,
         call' = [call EXCEPT ![c] = r], UNCHANGED wiped,
         call[c].at \in Late \cup {"store"} => r.before = call[c].before /\ r.at \in Late,
         \A e \in Endpoints : cache[e] # None => cache'[e] # None
  PROVE  /\ \A d \in Calls : d # c => SettledCall(d)'
         /\ \A e \in Endpoints : cache'[e] # None /\ cache'[e] = cache[e] =>
                Origin(cache[e].by, Late)' /\ (cache[e].by \notin wiped)'
<1>1. call \in [Calls -> CallRecord] /\ \A d \in Calls : CallControl(d) /\ SettledCall(d)
  BY DEF SettledInv, Settled, SessionInv, SessionTyped
<1>2. ASSUME NEW b \in Calls, NEW stages \in {Late, Late \cup {"store"}}, Origin(b, stages)
      PROVE  call'[b].before = {} /\ call'[b].at \in stages
  <2>1. CASE b = c
    BY <1>1, <1>2, <2>1 DEF Origin, Late
  <2>2. CASE b # c
    BY <1>1, <1>2, <2>2 DEF Origin
  <2> QED
    BY <2>1, <2>2
<1>3. ASSUME NEW d \in Calls, d # c PROVE SettledCall(d)'
  <2>1. call'[d] = call[d]
    BY <1>1, <1>3
  <2>2. call[d].response # None =>
          /\ call[d].response.by \in Calls
          /\ Origin(call[d].response.by, Late \cup {"store"})
    BY <1>1 DEF CallRecord, Responses, SettledCall
  <2>3. call[d].response # None => Origin(call[d].response.by, Late \cup {"store"})'
    BY <1>2, <2>1, <2>2 DEF Origin
  <2>4. call[d].at \in {"respond", "record"} \/ call[d].result = "ok" => call[d].endpoint \in Endpoints
    BY <1>1 DEF CallControl
  <2> QED
    BY <1>1, <2>1, <2>3, <2>4 DEF SettledCall
<1>4. ASSUME NEW e \in Endpoints, cache'[e] # None, cache'[e] = cache[e]
      PROVE  Origin(cache[e].by, Late)' /\ (cache[e].by \notin wiped)'
  <2>1. cache[e].by \in Calls /\ Origin(cache[e].by, Late) /\ cache[e].by \notin wiped
    BY <1>4 DEF SettledInv, Settled, SettledCache, SessionInv, SessionTyped, Responses
  <2> QED
    BY <1>2, <1>4, <2>1 DEF Origin
<1> QED
  BY <1>3, <1>4

\* A step of a mocked call.
LEMMA CallMovesSettled ==
  ASSUME SettledInv, NEW c \in Calls, CallMoves(c)
  PROVE  SettledInv'
<1>0. /\ SessionInv /\ SessionInv' /\ call \in [Calls -> CallRecord] /\ call[c] \in CallRecord
      /\ CallControl(c)
  BY CallMovesInv DEF SettledInv, SessionInv, SessionTyped
<1>1. UNCHANGED <<setup, wiped>>
  BY DEF CallMoves, Mock, Send, LookUp, Generate, Store, Respond, Record, TransportFails,
         TransportAnswers, ValidateReal, serverVars, testVars
<1> SUFFICES ASSUME setup.transport = "mock", setup.cached
             PROVE  SettledCache' /\ \A d \in Calls : SettledCall(d)'
  BY <1>0, <1>1 DEF SettledInv, Settled
<1>2. SettledCache /\ \A d \in Calls : SettledCall(d)
  BY DEF SettledInv, Settled
<1>3. ASSUME NEW r \in CallRecord,
             call' = [call EXCEPT ![c] = r], UNCHANGED cache,
             call[c].at \in Late \cup {"store"} => r.before = call[c].before /\ r.at \in Late,
             SettledCall(c)'
      PROVE  SettledCache' /\ \A d \in Calls : SettledCall(d)'
  BY <1>1, <1>3, OthersSettled DEF SettledCache
<1>4. ASSUME NEW host \in Schemas, NEW e \in Endpoints, Mock(c, host, e)
      PROVE  SettledCache' /\ \A d \in Calls : SettledCall(d)'
  <2> DEFINE r == [Fresh EXCEPT !.at = "lookup", !.host = host, !.endpoint = e]
  <2>1. call' = [call EXCEPT ![c] = r] /\ call[c].at = "new" /\ UNCHANGED cache
    BY <1>4 DEF Mock, At
  <2>2. r \in CallRecord
    BY DEF Fresh, CallRecord, CallStages
  <2>3. SettledCall(c)'
    BY <1>0, <1>1, <1>2, <2>1, <2>2 DEF SettledCall, Fresh, Late
  <2> QED
    BY <1>3, <2>1, <2>2, <2>3 DEF Late
<1>5. CASE LookUp(c)
  <2> DEFINE e == call[c].endpoint
             hit == setup.cached /\ cache[e] # None
             r == [call[c] EXCEPT !.at = IF hit THEN "respond" ELSE "generate",
                                  !.response = IF hit THEN cache[e] ELSE None,
                                  !.before = Returned(e), !.gone = wiped]
  <2>1. call' = [call EXCEPT ![c] = r] /\ call[c].at = "lookup" /\ UNCHANGED cache
    BY <1>0, <1>5 DEF LookUp, At
  <2>2. e \in Endpoints /\ call[c].result # "ok" /\ c \notin wiped
    BY <1>0, <1>2, <2>1 DEF CallControl, SettledCall, Late
  <2>3. r \in CallRecord
    <3>1. cache[e] \in Responses \cup {None} /\ wiped \in SUBSET Calls
      BY <1>0, <2>2 DEF SessionInv, SessionTyped
    <3>2. Returned(e) \in SUBSET Calls
      BY DEF Returned
    <3> QED
      BY <1>0, <3>1, <3>2 DEF CallRecord, CallStages
  <2>4. SettledCall(c)'
    <3>1. /\ call'[c].at = IF hit THEN "respond" ELSE "generate"
          /\ call'[c].response = IF hit THEN cache[e] ELSE None
          /\ call'[c].before = Returned(e) /\ call'[c].gone = wiped
          /\ call'[c].endpoint = e /\ call'[c].result = call[c].result
      BY <1>0, <2>1 DEF CallRecord
    <3>2. CASE hit
      <4>1. cache[e].by \in Calls /\ Origin(cache[e].by, Late) /\ cache[e].by \notin wiped
        BY <1>0, <1>2, <2>2, <3>2 DEF SettledCache, SessionInv, SessionTyped, Responses
      <4>2. cache[e].by # c
        BY <2>1, <4>1 DEF Origin, Late
      <4>3. Origin(cache[e].by, Late)'
        BY <1>0, <2>1, <4>1, <4>2 DEF Origin
      <4> QED
        BY <1>1, <2>1, <2>2, <3>1, <3>2, <4>1, <4>3 DEF SettledCall, Origin, Late
    <3>3. CASE ~hit
      <4>1. Returned(e) = {}
        BY <1>2, <3>3 DEF Returned, SettledCall
      <4> QED
        BY <1>1, <2>1, <2>2, <3>1, <3>3, <4>1 DEF SettledCall
    <3> QED
      BY <3>2, <3>3
  <2> QED
    BY <1>3, <2>1, <2>3, <2>4 DEF Late
<1>6. ASSUME call[c].at \in {"generate", "respond"}, Fails(c), UNCHANGED cache
      PROVE  SettledCache' /\ \A d \in Calls : SettledCall(d)'
  <2> DEFINE r == [call[c] EXCEPT !.at = "done", !.result = "error"]
  <2>1. call' = [call EXCEPT ![c] = r] /\ r \in CallRecord
    BY <1>0, <1>6, FailedCall
  <2>2. r.before = call[c].before /\ r.at \in Late
    BY <1>0 DEF CallRecord, Late
  <2>3. SettledCall(c)'
    <3>1. /\ call'[c].at = "done" /\ call'[c].result = "error"
          /\ call'[c].before = call[c].before /\ call'[c].gone = call[c].gone
          /\ call'[c].response = call[c].response
      BY <1>0, <2>1 DEF CallRecord
    <3>2. ASSUME call[c].response # None PROVE Origin(call[c].response.by, Late \cup {"store"})'
      <4>1. call[c].response.by \in Calls /\ Origin(call[c].response.by, Late \cup {"store"})
        BY <1>0, <1>2, <3>2 DEF SettledCall, CallRecord, Responses
      <4> QED
        BY <1>0, <2>1, <3>1, <4>1 DEF Origin, Late
    <3> QED
      BY <1>1, <1>2, <3>1, <3>2 DEF SettledCall, Origin, Late
  <2> QED
    BY <1>3, <1>6, <2>1, <2>2, <2>3
<1>7. CASE Generate(c)
  <2>1. call[c].at = "generate" /\ UNCHANGED cache
    BY <1>7 DEF Generate, At
  <2>2. CASE Fails(c)
    BY <1>6, <2>1, <2>2
  <2>3. CASE ~Fails(c)
    <3>0. PICK response \in GenerateResponse(c) :
            call' = [call EXCEPT ![c].at = "store", ![c].response = response]
      BY <1>7, <2>3 DEF Generate
    <3> DEFINE r == [call[c] EXCEPT !.at = "store", !.response = response]
    <3>1. call' = [call EXCEPT ![c] = r]
      BY <1>0, <3>0
    <3>2. response \in Responses /\ response.by = c
      BY <1>0, GeneratedTyped DEF SessionInv
    <3>3. r \in CallRecord
      BY <1>0, <3>2 DEF CallRecord, CallStages
    <3>4. /\ call'[c].at = "store" /\ call'[c].response = response
          /\ call'[c].before = call[c].before /\ call'[c].gone = call[c].gone
          /\ call'[c].result = call[c].result /\ call'[c].endpoint = call[c].endpoint
      BY <1>0, <3>1 DEF CallRecord
    <3>5. call[c].result # "ok" /\ c \notin wiped /\ call[c].before = {} /\ c \notin call[c].gone
      BY <1>0, <1>2, <2>1 DEF CallControl, SettledCall, Late
    <3>6. SettledCall(c)'
      BY <1>1, <3>2, <3>4, <3>5 DEF SettledCall, Origin
    <3> QED
      BY <1>3, <2>1, <3>1, <3>3, <3>6 DEF Late
  <2> QED
    BY <2>2, <2>3
<1>8. CASE Store(c)
  <2> DEFINE e == call[c].endpoint
             r == [call[c] EXCEPT !.at = "respond"]
  <2>1. /\ call[c].at = "store" /\ Goes(c, "respond")
        /\ cache' = [cache EXCEPT ![e] = call[c].response]
    BY <1>8 DEF Store, At
  <2>2. call' = [call EXCEPT ![c] = r] /\ r \in CallRecord
    <3>1. "respond" \in CallStages
      BY DEF CallStages
    <3> QED
      BY <1>0, <2>1, <3>1, MovedCall
  <2>3. /\ call'[c].at = "respond" /\ call'[c].response = call[c].response
        /\ call'[c].before = call[c].before /\ call'[c].gone = call[c].gone
        /\ call'[c].endpoint = e
    BY <1>0, <2>2 DEF CallRecord
  <2>4. /\ e \in Endpoints /\ call[c].response \in Responses /\ call[c].response # None
        /\ call[c].response.by = c /\ call[c].before = {} /\ c \notin call[c].gone /\ c \notin wiped
    BY <1>0, <1>2, <2>1, SessionAssumption DEF CallControl, SettledCall, Late, Responses
  <2>5. cache'[e] = call[c].response /\ \A f \in Endpoints : f # e => cache'[f] = cache[f]
    BY <1>0, <2>1, <2>4 DEF SessionInv, SessionTyped
  <2>6. \A f \in Endpoints : cache[f] # None => cache'[f] # None
    BY <2>4, <2>5
  <2>7. call[c].at \in Late \cup {"store"} => r.before = call[c].before /\ r.at \in Late
    BY <1>0 DEF CallRecord, Late
  <2>8. /\ \A d \in Calls : d # c => SettledCall(d)'
        /\ \A f \in Endpoints : cache'[f] # None /\ cache'[f] = cache[f] =>
               Origin(cache[f].by, Late)' /\ (cache[f].by \notin wiped)'
    BY <1>1, <2>2, <2>6, <2>7, OthersSettled
  <2>9. Origin(c, Late)' /\ Origin(c, Late \cup {"store"})'
    BY <2>3, <2>4 DEF Origin, Late
  <2>10. SettledCache'
    BY <1>1, <2>4, <2>5, <2>8, <2>9 DEF SettledCache
  <2>11. SettledCall(c)'
    BY <1>1, <2>3, <2>4, <2>5, <2>9 DEF SettledCall, Late
  <2> QED
    BY <2>8, <2>10, <2>11
<1>9. CASE Respond(c) /\ ~Fails(c)
  <2> DEFINE r == [call[c] EXCEPT !.at = "record", !.verdict = "valid"]
  <2>1. call[c].at = "respond" /\ call' = [call EXCEPT ![c] = r] /\ UNCHANGED cache
    BY <1>0, <1>9 DEF Respond, At
  <2>2. r \in CallRecord
    BY <1>0 DEF CallRecord, CallStages
  <2>3. /\ call'[c].at = "record" /\ call'[c].response = call[c].response
        /\ call'[c].before = call[c].before /\ call'[c].gone = call[c].gone
        /\ call'[c].endpoint = call[c].endpoint
    BY <1>0, <2>1 DEF CallRecord
  <2>4. ASSUME call[c].response # None PROVE Origin(call[c].response.by, Late \cup {"store"})'
    <3>1. call[c].response.by \in Calls /\ Origin(call[c].response.by, Late \cup {"store"})
      BY <1>0, <1>2, <2>4 DEF SettledCall, CallRecord, Responses
    <3> QED
      BY <1>0, <2>1, <2>3, <3>1 DEF Origin, Late
  <2>5. SettledCall(c)'
    BY <1>1, <1>2, <2>1, <2>3, <2>4 DEF SettledCall, Origin, Late
  <2>6. r.before = call[c].before /\ r.at \in Late
    BY <1>0 DEF CallRecord, Late
  <2> QED
    BY <1>3, <2>1, <2>2, <2>5, <2>6
<1>10. CASE Record(c)
  <2> DEFINE result == IF call[c].verdict = "invalid" /\ setup.onFailure = "fail" THEN "error" ELSE "ok"
             r == [call[c] EXCEPT !.at = "done", !.result = result]
  <2>1. call[c].at = "record" /\ call' = [call EXCEPT ![c] = r] /\ UNCHANGED cache
    BY <1>0, <1>10 DEF Record, At
  <2>2. r \in CallRecord
    BY <1>0 DEF CallRecord, CallStages
  <2>3. /\ call'[c].at = "done" /\ call'[c].response = call[c].response
        /\ call'[c].before = call[c].before /\ call'[c].gone = call[c].gone
        /\ call'[c].endpoint = call[c].endpoint
    BY <1>0, <2>1 DEF CallRecord
  <2>4. ASSUME call[c].response # None PROVE Origin(call[c].response.by, Late \cup {"store"})'
    <3>1. call[c].response.by \in Calls /\ Origin(call[c].response.by, Late \cup {"store"})
      BY <1>0, <1>2, <2>4 DEF SettledCall, CallRecord, Responses
    <3> QED
      BY <1>0, <2>1, <2>3, <3>1 DEF Origin, Late
  <2>5. SettledCall(c)'
    BY <1>1, <1>2, <2>1, <2>3, <2>4 DEF SettledCall, Origin, Late
  <2>6. r.before = call[c].before /\ r.at \in Late
    BY <1>0 DEF CallRecord, Late
  <2> QED
    BY <1>3, <2>1, <2>2, <2>5, <2>6
<1>11. CASE Respond(c) /\ Fails(c)
  <2>1. call[c].at = "respond" /\ UNCHANGED cache
    BY <1>11 DEF Respond, At
  <2> QED
    BY <1>6, <1>11, <2>1
<1>12. ASSUME NEW host \in Schemas, NEW e \in Endpoints PROVE ~Send(c, host, e)
  BY DEF Send
<1>13. ~TransportFails(c) /\ \A r \in Responses : ~TransportAnswers(c, r)
  BY <1>0 DEF TransportFails, TransportAnswers, At, CallControl
<1>14. \A accepted \in BOOLEAN : ~ValidateReal(c, accepted)
  BY <1>0 DEF ValidateReal, At, CallControl
<1> QED
  BY <1>4, <1>5, <1>7, <1>8, <1>9, <1>10, <1>11, <1>12, <1>13, <1>14 DEF CallMoves

\* With the cache, an endpoint that was answered is not generated for again, and what was
\* cleared does not come back.
THEOREM MockedAnswersSettle == Spec => []MockAnswersSettle
<1>1. Init => SettledInv
  <2> SUFFICES ASSUME Init PROVE SettledInv
    OBVIOUS
  <2>1. /\ SessionInv /\ wiped = {} /\ cache = [e \in Endpoints |-> None]
        /\ call = [c \in Calls |-> Fresh]
    BY SessionInitInv DEF Init, SessionInit
  <2>2. SettledCache
    BY <2>1 DEF SettledCache
  <2>3. \A c \in Calls : SettledCall(c)
    BY <2>1 DEF SettledCall, Fresh
  <2> QED
    BY <2>1, <2>2, <2>3 DEF SettledInv, Settled
<1>2. SettledInv /\ [Next]_vars => SettledInv'
  <2> SUFFICES ASSUME SettledInv, [Next]_vars PROVE SettledInv'
    OBVIOUS
  <2>1. SessionInv /\ SessionInv'
    BY SessionNextInv DEF SettledInv
  <2>2. CASE UNCHANGED <<setup, call, cache, wiped>>
    BY <2>1, <2>2 DEF SettledInv, Settled, SettledCache, SettledCall, Origin
  <2>3. CASE ClearCache
    <3>1. /\ cache' = [e \in Endpoints |-> None] /\ UNCHANGED <<setup, call>>
          /\ wiped' = {c \in Calls : call[c].at \in Late}
      BY <2>3 DEF ClearCache, serverVars, testVars, Late
    <3>2. SettledCache'
      BY <3>1 DEF SettledCache
    <3>3. ASSUME setup.transport = "mock", setup.cached, NEW c \in Calls PROVE SettledCall(c)'
      <4>1. SettledCall(c) /\ CallControl(c)
        BY <3>3, <2>1 DEF SettledInv, Settled, SessionInv
      <4>2. c \notin wiped' => call[c].at \notin Late /\ call[c].result # "ok"
        BY <3>1, <4>1 DEF CallControl, Late
      <4> QED
        BY <3>1, <4>1, <4>2 DEF SettledCall, Origin, Late
    <3> QED
      BY <2>1, <3>1, <3>2, <3>3 DEF SettledInv, Settled
  <2>4. ASSUME TestStep, ~ClearCache PROVE UNCHANGED <<setup, call, cache, wiped>>
    BY <2>4 DEF TestStep, RegisterSchema, OthersRegister, LatestReverts, Registers, UseSchema, ClearInteractions,
               RegisterConsumerFromInteractions, serverVars, testVars
  <2>5. UNCHANGED sessionVars => UNCHANGED <<setup, call, cache, wiped>>
    BY DEF sessionVars, serverVars
  <2> QED
    BY <2>1, <2>2, <2>3, <2>4, <2>5, StepsOfSession, CallMovesSettled DEF SessionStep
<1>3. SettledInv => MockAnswersSettle
  <2> SUFFICES ASSUME SettledInv, setup.cached, NEW d \in Calls, Got(d)
               PROVE  /\ \A c \in call[d].before : c \notin call[call[d].response.by].before
                      /\ call[d].response.by \notin call[d].gone
    BY DEF MockAnswersSettle
  <2>1. SettledCall(d) /\ call[d].response # None
    BY DEF SettledInv, Settled, Got
  <2> QED
    BY <2>1 DEF SettledCall, Origin
<1> QED
  BY <1>1, <1>2, <1>3, PTL DEF Spec

-----------------------------------------------------------------------------
(***************************************************************************)
(* The consumer registered from what was captured.                         *)
(***************************************************************************)

CapturedInv == IsFiniteSet(captured) /\ RegisteredWasCalled

\* The schema the code finds is the one host of all that was captured.
LEMMA OneHost ==
  ASSUME IsFiniteSet(captured), NEW s \in extractSchemaID(None)
  PROVE  \A i \in captured : i.host = s
<1> DEFINE hosts == {i.host : i \in captured}
<1>1. Hosts = hosts /\ Cardinality(hosts) = 1 /\ s \in hosts
  <2>1. extractSchemaID(None) = IF Cardinality(Hosts) = 1 THEN Hosts ELSE {}
    BY DEF extractSchemaID
  <2>2. Cardinality(Hosts) = 1 /\ s \in Hosts
    BY <2>1
  <2>3. Hosts = hosts
    BY <2>2 DEF Hosts
  <2> QED
    BY <2>2, <2>3
<1>2. [i \in captured |-> i.host] \in Surjection(captured, hosts)
  BY DEF Surjection
<1>3. IsFiniteSet(hosts)
  BY <1>2, FS_Surjection
<1>4. \E x : hosts = {x}
  BY <1>1, <1>3, FS_Singleton
<1> QED
  BY <1>1, <1>4

\* A consumer registered without a schema given uses what was called of that schema's host,
\* and all that was captured was called of it.
THEOREM RegisteredAsCalled == Spec => []RegisteredWasCalled
<1>1. Init => CapturedInv
  BY FS_EmptySet DEF Init, SessionInit, CapturedInv, RegisteredWasCalled
<1>2. CapturedInv /\ [Next]_vars => CapturedInv'
  <2> SUFFICES ASSUME CapturedInv, [Next]_vars PROVE CapturedInv'
    OBVIOUS
  <2>1. ASSUME UNCHANGED <<captured, registered>> PROVE CapturedInv'
    BY <2>1 DEF CapturedInv, RegisteredWasCalled
  <2>2. ASSUME NEW c \in Calls, Record(c) PROVE CapturedInv'
    <3>1. captured' = captured \cup {Interaction(c)} /\ UNCHANGED registered
      BY <2>2 DEF Record, addInteraction, testVars
    <3>2. IsFiniteSet(captured \cup {Interaction(c)})
      BY FS_AddElement DEF CapturedInv
    <3> QED
      BY <3>1, <3>2 DEF CapturedInv, RegisteredWasCalled
  <2>3. CASE ClearInteractions
    BY <2>3, FS_EmptySet DEF ClearInteractions, testVars, CapturedInv, RegisteredWasCalled
  <2>4. ASSUME NEW given, RegisterConsumerFromInteractions(given) PROVE CapturedInv'
    <3>1. captured' = captured
      BY <2>4 DEF RegisterConsumerFromInteractions
    <3>2. PICK s \in extractSchemaID(given) :
            registered' = [schema |-> s, given |-> given, endpoints |-> {i.endpoint : i \in captured},
                           called |-> {<<i.host, i.endpoint>> : i \in captured}]
      BY <2>4 DEF RegisterConsumerFromInteractions, BuildConsumerFromInteractions,
                  mergeInteractionsToEndpoints
    <3>3. CASE given = None
      <4>1. \A i \in captured : i.host = s
        BY <3>3, OneHost DEF CapturedInv
      <4>2. {<<i.host, i.endpoint>> : i \in captured} = {s} \X {i.endpoint : i \in captured}
        BY <4>1
      <4> QED
        BY <3>1, <3>2, <4>2 DEF CapturedInv, RegisteredWasCalled
    <3>4. CASE given # None
      BY <3>1, <3>2, <3>4 DEF CapturedInv, RegisteredWasCalled
    <3> QED
      BY <3>3, <3>4
  <2>5. ASSUME NEW c \in Calls, MockCall(c), ~Record(c) PROVE CapturedInv'
    BY <2>1, <2>5 DEF MockCall, CallStep, Mock, LookUp, Generate, Store, Respond, testVars
  <2>6. ASSUME Test PROVE CapturedInv'
    BY <2>1, <2>3, <2>4, <2>6
    DEF Test, TestStep, RegisterSchema, OthersRegister, LatestReverts, UseSchema, ClearCache, testVars
  <2>7. ASSUME NEW c \in Calls, NEW host, NEW e, NEW q, RoundTrip(c, host, e, q) PROVE CapturedInv'
    BY <2>1, <2>7 DEF RoundTrip, Send, testVars
  <2>8. ASSUME NEW c \in Calls, Serve(c) \/ AnswerReturns(c) \/ ConnectionBreaks(c) \/ ValidateAnswer(c)
        PROVE  CapturedInv'
    BY <2>1, <2>8 DEF Serve, AnswerReturns, ConnectionBreaks, ValidateAnswer, TransportAnswers,
                      TransportFails, ValidateReal, testVars, sessionVars
  <2>9. ServiceRestarts \/ UNCHANGED vars => CapturedInv'
    BY <2>1 DEF ServiceRestarts, vars, sessionVars, testVars
  <2> QED
    BY <2>2, <2>5, <2>6, <2>7, <2>8, <2>9 DEF Next
<1>3. CapturedInv => RegisteredWasCalled
  BY DEF CapturedInv
<1> QED
  BY <1>1, <1>2, <1>3, PTL DEF Spec

=============================================================================
