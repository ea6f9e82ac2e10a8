------------------------ MODULE ProducerMiddleware -------------------------
(***************************************************************************)
(* The Go SDK's producer middleware (net/http, Chi and Gin): what a        *)
(* service does with the requests it is given, under its configuration.    *)
(*                                                                         *)
(* A configuration is [adapter, mode, request, response, async,            *)
(* onRequestFailure, onResponseFailure], an input is a request and what    *)
(* the validator makes of it:                                              *)
(*   excluded   the path filters leave it out                              *)
(*   readable   its body can be read to the end                            *)
(*   verdict    of the request alone, "error" if the validator fails       *)
(*   bareOk     a 200 response "{}" without a Content-Type is documented   *)
(*   replyOk    the response of the handler is, as the middleware sees it  *)
(*   handler    of the handler that it is for: "plain"; "special", which   *)
(*              sends an interim response before the final one, or wants   *)
(*              to stream; "mutates", which changes the request it is given *)
(***************************************************************************)
EXTENDS Naturals, FiniteSets

CONSTANTS
    Exchanges,      \* the requests the service is given
    Configs,        \* the configurations it can be deployed with
    Inputs          \* what the requests can be

VARIABLES
    config,
    exchange,       \* of each request: where it is, its input, the client's answer,
                    \* whether the handler ran for it
    checks,         \* the goroutines that validate its request and response
    metrics,        \* failures in shadow mode and rejections
    crashed         \* the process died of a panic outside a request's goroutine

middlewareVars == <<config, exchange, checks, metrics, crashed>>

Unused == [at |-> "free", input |-> CHOOSE q \in Inputs : TRUE, answer |-> "none",
           handled |-> FALSE]
NoChecks == [request |-> "none", response |-> "none"]
NoMetrics == [request |-> 0, response |-> 0, rejected |-> 0]

MiddlewareInit ==
    /\ config \in Configs
    /\ exchange = [x \in Exchanges |-> Unused]
    /\ checks = [x \in Exchanges |-> NoChecks]
    /\ metrics = NoMetrics
    /\ crashed = FALSE

-----------------------------------------------------------------------------

\* The producer's own copy of the configuration: validating neither is validating both.
NewProducer(cfg) ==
    IF ~cfg.request /\ ~cfg.response THEN [cfg EXCEPT !.request = TRUE, !.response = TRUE] ELSE cfg

\* Path filters exclude first, then include.
ShouldValidatePath(q) == ~q.excluded

ShouldValidateAsync(cfg) == cfg.mode = "shadow" \/ cfg.async

\* A request is validated as an interaction with a placeholder response.
ValidateRequest(cfg, q) ==
    NewProducer(cfg).request => q.verdict = "valid" /\ q.bareOk

ValidateResponse(cfg, q) ==
    NewProducer(cfg).response => q.verdict = "valid" /\ q.replyOk

\* What a failed request check comes to, given the client's writer or nil: a rejection
\* writes, so it panics without a writer.  A custom callback rejects by writing, too.
HandleRequestValidationFailure(cfg, writer) ==
    LET outcome(rejects, counted) ==
            [panics |-> rejects /\ ~writer, continues |-> ~rejects, counted |-> counted]
    IN  IF cfg.onRequestFailure /= "none" THEN outcome(cfg.onRequestFailure = "reject", FALSE)
        ELSE outcome(cfg.mode = "strict", cfg.mode = "shadow")

\* A response that was sent can only be logged, or counted in shadow mode.
HandleResponseValidationFailure(cfg) == ~cfg.onResponseFailure /\ cfg.mode = "shadow"

Counted(type, counts) == IF counts THEN [metrics EXCEPT ![type] = @ + 1] ELSE metrics

\* The handler was given the request that the validator is told of.
Mutates(x) == exchange[x].at /= "free" /\ exchange[x].input.handler = "mutates"

\* net/http's goroutine reads the request while the handler has it; Gin's has a copy.
Races(x) ==
    Mutates(x) /\ config.adapter = "nethttp" /\ config.request /\ ShouldValidateAsync(config)

\* What a check may find: what the handler did to the request may have changed its verdict.
RequestVerdicts(x) ==
    IF Races(x) THEN BOOLEAN ELSE {ValidateRequest(config, exchange[x].input)}

ResponseVerdicts(x) ==
    IF Mutates(x) THEN BOOLEAN ELSE {ValidateResponse(config, exchange[x].input)}

Alive(x, at) == ~crashed /\ exchange[x].at = at
Moves(x, at) == exchange' = [exchange EXCEPT ![x].at = at]
Ends(x, answer) == exchange' = [exchange EXCEPT ![x].at = "done", ![x].answer = answer]

-----------------------------------------------------------------------------
(***************************************************************************)
(* One request.                                                            *)
(***************************************************************************)

\* The body of a watched request is read before anything else, in every mode; if that fails
\* the middleware answers for the handler.
Receive(x, q) ==
    /\ Alive(x, "free")
    /\ exchange' = [exchange EXCEPT
            ![x].at = IF ~ShouldValidatePath(q) THEN "handler"
                      ELSE IF q.readable THEN "received" ELSE "done",
            ![x].answer = IF ShouldValidatePath(q) /\ ~q.readable THEN "unread" ELSE @,
            ![x].input = q]
    /\ UNCHANGED <<config, checks, metrics, crashed>>

\* The middleware looks at the configuration as it was given, not at the producer's.
SkipRequest(x) ==
    /\ Alive(x, "received") /\ ~config.request
    /\ Moves(x, "handler")
    /\ UNCHANGED <<config, checks, metrics, crashed>>

RequestPasses(x) ==
    /\ Alive(x, "received") /\ config.request /\ ~ShouldValidateAsync(config)
    /\ ValidateRequest(config, exchange[x].input)
    /\ Moves(x, "handler")
    /\ UNCHANGED <<config, checks, metrics, crashed>>

\* Mutant of RequestFails: the middleware goes on after the rejection was written.
RequestFailsThrough(x) ==
    /\ Alive(x, "received") /\ config.request /\ ~ShouldValidateAsync(config)
    /\ ~ValidateRequest(config, exchange[x].input)
    /\ Moves(x, "handler")
    /\ metrics' = Counted("request", config.mode = "shadow")
    /\ UNCHANGED <<config, checks, crashed>>

\* Gin's middleware passes no writer and writes the rejection itself, if it gets that far;
\* a panic here ends the request alone.
RequestFails(x) ==
    /\ Alive(x, "received") /\ config.request /\ ~ShouldValidateAsync(config)
    /\ ~ValidateRequest(config, exchange[x].input)
    /\ LET failure == HandleRequestValidationFailure(config, config.adapter = "nethttp")
       IN  /\ \/ failure.panics /\ Ends(x, "aborted")
              \/ failure.continues /\ Moves(x, "handler")
              \/ /\ ~failure.panics /\ ~failure.continues
                 /\ exchange' = [exchange EXCEPT ![x].at = "rejecting", ![x].answer = "rejected"]
           /\ metrics' = Counted("request", failure.counted)
    /\ UNCHANGED <<config, checks, crashed>>

RecordRejection(x) ==
    /\ Alive(x, "rejecting")
    /\ Moves(x, "done")
    /\ metrics' = [metrics EXCEPT !.rejected = @ + 1]
    /\ UNCHANGED <<config, checks, crashed>>

SpawnRequestCheck(x) ==
    /\ Alive(x, "received") /\ config.request /\ ShouldValidateAsync(config)
    /\ Moves(x, "handler")
    /\ checks' = [checks EXCEPT ![x].request = "running"]
    /\ UNCHANGED <<config, metrics, crashed>>

\* The handler's response is sent as it is written.  But net/http's capture takes the first
\* status for the last, and cannot be flushed.
Handle(x) ==
    /\ Alive(x, "handler")
    /\ LET q == exchange[x].input
           alters == config.adapter = "nethttp" /\ q.handler = "special" /\ ShouldValidatePath(q)
       IN  exchange' = [exchange EXCEPT ![x].answer = IF alters THEN "altered" ELSE "handler",
                                        ![x].handled = TRUE,
                                        ![x].at = IF ShouldValidatePath(q) THEN "replied" ELSE "done"]
    /\ UNCHANGED <<config, checks, metrics, crashed>>

HandlerPanics(x) ==
    /\ Alive(x, "handler")
    /\ exchange' = [exchange EXCEPT ![x].at = "done", ![x].answer = "aborted", ![x].handled = TRUE]
    /\ UNCHANGED <<config, checks, metrics, crashed>>

CheckResponse(x) ==
    /\ Alive(x, "replied") /\ ~(config.response /\ ShouldValidateAsync(config))
    /\ Moves(x, "done")
    /\ \E valid \in ResponseVerdicts(x) :
         metrics' = Counted("response", /\ config.response /\ ~valid
                                        /\ HandleResponseValidationFailure(config))
    /\ UNCHANGED <<config, checks, crashed>>

SpawnResponseCheck(x) ==
    /\ Alive(x, "replied") /\ config.response /\ ShouldValidateAsync(config)
    /\ Moves(x, "done")
    /\ checks' = [checks EXCEPT ![x].response = "running"]
    /\ UNCHANGED <<config, metrics, crashed>>

-----------------------------------------------------------------------------
(***************************************************************************)
(* The goroutines of asynchronous validation, and the process.             *)
(***************************************************************************)

\* Mutant of RunRequestCheck: the outcome is recorded by the request that spawned it, if it
\* is still there.
RunRequestCheckLate(x) ==
    /\ ~crashed /\ checks[x].request = "running"
    /\ checks' = [checks EXCEPT ![x].request = "none"]
    /\ \E valid \in RequestVerdicts(x) :
         metrics' = Counted("request", ~valid /\ exchange[x].at /= "done" /\ config.mode = "shadow")
    /\ UNCHANGED <<config, exchange, crashed>>

\* No writer here; nobody recovers a panic.  The headers of a request that are read while
\* they are written end the process, too.
RunRequestCheck(x) ==
    LET failure == HandleRequestValidationFailure(config, FALSE)
    IN  /\ ~crashed /\ checks[x].request = "running"
        /\ checks' = [checks EXCEPT ![x].request = "none"]
        /\ \/ \E valid \in RequestVerdicts(x) :
                /\ crashed' = (~valid /\ failure.panics)
                /\ metrics' = Counted("request", ~valid /\ failure.counted)
           \/ /\ Races(x) /\ exchange[x].at = "handler"
              /\ crashed' = TRUE
              /\ UNCHANGED metrics
        /\ UNCHANGED <<config, exchange>>

RunResponseCheck(x) ==
    /\ ~crashed /\ checks[x].response = "running"
    /\ checks' = [checks EXCEPT ![x].response = "none"]
    /\ \E valid \in ResponseVerdicts(x) :
         metrics' = Counted("response", ~valid /\ HandleResponseValidationFailure(config))
    /\ UNCHANGED <<config, exchange, crashed>>

\* Whoever runs the service starts it again; the connections are gone.
Restart ==
    /\ crashed
    /\ crashed' = FALSE
    /\ exchange' = [x \in Exchanges |->
            IF exchange[x].at \in {"free", "done"} THEN exchange[x]
            ELSE [exchange[x] EXCEPT !.at = "done",
                                     !.answer = IF @ = "none" THEN "aborted" ELSE @]]
    /\ checks' = [x \in Exchanges |-> NoChecks]
    /\ metrics' = NoMetrics
    /\ UNCHANGED config

ServeStep(x) ==
    \/ SkipRequest(x) \/ RequestPasses(x) \/ RequestFails(x) \/ RecordRejection(x)
    \/ SpawnRequestCheck(x) \/ Handle(x) \/ HandlerPanics(x)
    \/ CheckResponse(x) \/ SpawnResponseCheck(x)
    \/ RunRequestCheck(x) \/ RunResponseCheck(x)

-----------------------------------------------------------------------------
(***************************************************************************)
(* Properties.                                                             *)
(***************************************************************************)

Plain == config.onRequestFailure = "none" /\ ~config.onResponseFailure

\* Where requests are validated before the handler and failures are rejected, the handler
\* runs for no request that is watched and fails its validation.
StrictGuardsHandler ==
    config.request /\ config.mode = "strict" /\ ~config.async /\ Plain =>
        \A x \in Exchanges :
            exchange[x].handled => exchange[x].input.excluded \/ exchange[x].input.verdict = "valid"

\* Warnings and shadow mode leave the requests to the handler: no check takes the process
\* down or the handler's place, and the client gets what the handler wrote.  Only a body that
\* cannot be read is answered for it, and net/http's capture alters a special response; and a
\* handler must not change the request that a goroutine of net/http's middleware is reading.
OnlyStrictInterferes ==
    config.mode \in {"warn", "shadow"} /\ Plain /\ (\A x \in Exchanges : ~Races(x)) =>
        /\ ~crashed
        /\ \A x \in Exchanges :
             /\ exchange[x].answer /= "rejected"
             /\ exchange[x].answer = "aborted" => exchange[x].handled
             /\ exchange[x].answer = "unread" => ~exchange[x].input.readable
             /\ exchange[x].answer = "altered" =>
                    config.adapter = "nethttp" /\ exchange[x].input.handler = "special"

\* A deployment's mode means what it says for every request, alone or with others.
ModesAreKept == StrictGuardsHandler /\ OnlyStrictInterferes

\* When everything has come to an end, shadow mode has counted each failed request and each
\* failed response once, whichever of the goroutines came first, and each rejection has
\* been counted; unless handlers change their requests.
AtRest == /\ ~crashed
          /\ \A x \in Exchanges : exchange[x].at \in {"free", "done"} /\ checks[x] = NoChecks

Watched(P(_)) == Cardinality({x \in Exchanges :
                    /\ exchange[x].at = "done" /\ exchange[x].answer /= "unread"
                    /\ ~exchange[x].input.excluded /\ P(x)})

CountsAgree ==
    AtRest /\ Plain /\ (\A x \in Exchanges : ~Mutates(x)) =>
        LET FailedRequest(x) == config.request /\ ~ValidateRequest(config, exchange[x].input)
            FailedResponse(x) == /\ config.response /\ exchange[x].answer \in {"handler", "altered"}
                                 /\ ~ValidateResponse(config, exchange[x].input)
            Rejected(x) == exchange[x].answer = "rejected"
        IN  /\ config.mode = "shadow" =>
                 /\ metrics.request = Watched(FailedRequest)
                 /\ metrics.response = Watched(FailedResponse)
            /\ ~config.async => metrics.rejected = Watched(Rejected)

-----------------------------------------------------------------------------
(***************************************************************************)
(* Statements of the repository that the code does not keep.               *)
(***************************************************************************)

\* Strict mode, "Request violations rejected with 400 Bad Request": no watched request that
\* is invalid is handled, with the configuration of the guide, which names only the mode.
StrictRejects ==
    config.mode = "strict" /\ ~config.async /\ Plain =>
        \A x \in Exchanges :
            exchange[x].handled => exchange[x].input.excluded \/ exchange[x].input.verdict = "valid"

\* Shadow mode "Never blocks or modifies request/response flow": what the client gets is
\* the handler's response as it was written, or the connection the handler broke.
NeverBlocks ==
    config.mode = "shadow" =>
        \A x \in Exchanges :
            /\ exchange[x].answer \in {"none", "handler", "aborted"}
            /\ exchange[x].answer = "aborted" => exchange[x].handled

=============================================================================
