------------------------------ MODULE SdkCalls ------------------------------
(***************************************************************************)
(* Both ends of the HTTP calls of a consumer's test: the SDK's transports  *)
(* on the consumer's side, and a service behind the SDK's middleware that  *)
(* the validating transport reaches.                                       *)
(***************************************************************************)
EXTENDS SdkSession, ProducerMiddleware

CONSTANT Deployments    \* the pairs of a setup and a configuration a test runs with

ASSUME CallsAreExchanges == Calls = Exchanges

vars == <<sessionVars, middlewareVars>>

Init == SessionInit /\ MiddlewareInit /\ <<setup, config>> \in Deployments

\* The validating transport sends the request before it looks at anything.
RoundTrip(c, host, e, q) == q \in setup.requests /\ Send(c, host, e) /\ Receive(c, q)

Serve(c) == ServeStep(c) /\ UNCHANGED sessionVars

\* The service answers as some document does, or as none does, and its middleware may still
\* be at work.
AnswerReturns(c) ==
    /\ exchange[c].answer \in {"handler", "altered", "rejected", "unread"}
    /\ \E n \in {0} \cup IF exchange[c].answer = "handler" THEN DOMAIN published[call[c].host] ELSE {} :
         TransportAnswers(c, Response(c, call[c].host, n))
    /\ UNCHANGED middlewareVars

ConnectionBreaks(c) ==
    /\ exchange[c].answer = "aborted" \/ crashed
    /\ TransportFails(c)
    /\ UNCHANGED middlewareVars

ValidateAnswer(c) ==
    /\ ValidateReal(c, exchange[c].input.verdict = "valid")
    /\ UNCHANGED middlewareVars

MockCall(c) ==
    /\ \/ \E host \in Schemas, e \in Endpoints : Mock(c, host, e)
       \/ CallStep(c)
    /\ UNCHANGED middlewareVars

Test == TestStep /\ UNCHANGED middlewareVars

ServiceRestarts == Restart /\ UNCHANGED sessionVars

\* Bound: a test ends with the registration of its consumer.
Next ==
  /\ registered = None
  /\ \/ \E c \in Calls :
           \/ \E host \in Schemas, e \in Endpoints, q \in Inputs : RoundTrip(c, host, e, q)
           \/ Serve(c) \/ AnswerReturns(c) \/ ConnectionBreaks(c) \/ ValidateAnswer(c) \/ MockCall(c)
     \/ Test
     \/ ServiceRestarts

Spec == Init /\ [][Next]_vars

=============================================================================
