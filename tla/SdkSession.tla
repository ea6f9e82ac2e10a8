----------------------------- MODULE SdkSession -----------------------------
(***************************************************************************)
(* The Go SDK in a consumer's test: the validator's binding to a schema of *)
(* the server, the mocking and the validating transport with what they     *)
(* capture, and the registration of a consumer from it.                    *)
(*                                                                         *)
(* A call is one HTTP request of the test, made in a goroutine of its own. *)
(* The registrations of a schema are numbered as its unversioned key has   *)
(* them one after the other; each has a version, which may be lower than   *)
(* the last or the same, and documents of its own: two differ in the       *)
(* response of every endpoint.  The tests change the binding, and register *)
(* a consumer, only between calls: the validator does not guard its        *)
(* fields.  The transports are given no path filters, and a test uses one  *)
(* of them.                                                                *)
(***************************************************************************)
EXTENDS Naturals, Sequences, FiniteSets, Functions

CONSTANTS
    Schemas,        \* schema IDs, which are the hosts of the mocked services as well
    Labels,         \* versions
    Endpoints,      \* a method and a path
    Calls,
    Setups,         \* [transport, cached, validating, onMockFailure, auto, onFailure,
                    \* and as bounds: registrations, how many there are; requests, what
                    \* the service is asked, of those that its middleware tells apart]
    None

\* No response and no version is mistaken for none.
ASSUME SessionAssumption ==
    None \notin [by : Calls, schema : Schemas, number : Nat] /\ None \notin Labels

VARIABLES
    setup,          \* the configuration of the adapters
    published,      \* the server: the versions registered for each schema, in order
    latest,         \* the registration that a schema's unversioned key has, 0 at first
    reverted,       \* the schemas whose key was given an earlier one again (history)
    session,        \* the validator: schema, and version or None
    bound,          \* what the test was told it is bound to (history)
    call,
    cache,          \* of the mocking transport, by endpoint
    captured,       \* the interactions of the transport
    registered,     \* the consumer registered last
    wiped           \* the calls that had their response by the last ClearCache (history)

serverVars == <<setup, published, latest, reverted>>
testVars == <<session, bound, registered>>
sessionVars == <<serverVars, testVars, call, cache, captured, wiped>>

Binding(s, v) == [schema |-> s, version |-> v]
BoundTo(s, v, since) == [schema |-> s, version |-> v, since |-> since]
\* Number 0 is a response that no registered document has.
Response(c, s, n) == [by |-> c, schema |-> s, number |-> n]
Fresh == [at |-> "new", host |-> None, endpoint |-> None, response |-> None,
          verdict |-> "none", result |-> "none", before |-> {}, gone |-> {}]

SessionInit ==
    /\ setup \in Setups
    /\ published = [s \in Schemas |-> << >>]
    /\ latest = [s \in Schemas |-> 0]
    /\ reverted = {}
    /\ session = Binding(None, None) /\ bound = BoundTo(None, None, 0)
    /\ call = [c \in Calls |-> Fresh]
    /\ cache = [e \in Endpoints |-> None]
    /\ captured = {}
    /\ registered = None
    /\ wiped = {}

Quiet == \A c \in Calls : call[c].at \in {"new", "done"}
At(c, at) == call[c].at = at
Goes(c, at) == call' = [call EXCEPT ![c].at = at]
Fails(c) == call' = [call EXCEPT ![c].at = "done", ![c].result = "error"]

-----------------------------------------------------------------------------
(***************************************************************************)
(* The server, as far as the SDK sees it.                                  *)
(***************************************************************************)

\* What a lookup may find, 0 for nothing: the keys of the cache are evicted, the store, if
\* there is one, may fail or lag, and a version that is registered again replaces the last.
Lookups(s, v) ==
    {0} \cup {n \in DOMAIN published[s] : IF v = None THEN n = latest[s] ELSE published[s][n] = v}

MoreRegistrations ==
    FoldFunction(LAMBDA n, m : n + m, 0, [s \in Schemas |-> Len(published[s])]) < setup.registrations

Registers(s, v) ==
    /\ MoreRegistrations
    /\ published' = [published EXCEPT ![s] = Append(@, v)]
    /\ latest' = [latest EXCEPT ![s] = Len(published'[s])]
    /\ UNCHANGED <<setup, reverted>>

OthersRegister(s) ==
    /\ \E v \in Labels : Registers(s, v)
    /\ UNCHANGED <<testVars, call, cache, captured, wiped>>

\* The unversioned key was evicted, or the server restarted, and a row that was not the last,
\* or was read before the last, fills it.
LatestReverts(s) ==
    /\ \E n \in DOMAIN published[s] \ {latest[s]} : latest' = [latest EXCEPT ![s] = n]
    /\ reverted' = reverted \cup {s}
    /\ UNCHANGED <<setup, published, testVars, call, cache, captured, wiped>>

-----------------------------------------------------------------------------
(***************************************************************************)
(* The binding.                                                            *)
(***************************************************************************)

\* Mutant of RegisterSchema: the version that was used before stays.
RegisterSchemaKeepingPin(s) ==
    /\ Quiet
    /\ \E v \in Labels : Registers(s, v)
    /\ session' = [session EXCEPT !.schema = s]
    /\ bound' = BoundTo(s, None, Len(published'[s]))
    /\ UNCHANGED <<call, cache, captured, registered, wiped>>

\* Registers a file; validation follows the unversioned key from here.
RegisterSchema(s) ==
    /\ Quiet
    /\ \E v \in Labels : Registers(s, v)
    /\ session' = Binding(s, None)
    /\ bound' = BoundTo(s, None, Len(published'[s]))
    /\ UNCHANGED <<call, cache, captured, registered, wiped>>

\* GetSchema tells the version; without it nothing changes.
UseSchema(s, v) ==
    /\ Quiet
    /\ \E n \in Lookups(s, v) \ {0} :
         /\ session' = Binding(s, published[s][n])
         /\ bound' = BoundTo(s, published[s][n], 0)
    /\ UNCHANGED <<serverVars, call, cache, captured, registered, wiped>>

\* The verdicts there may be: of a request the server accepts, the response that the
\* document has which the lookup finds, or one that no document has, is valid; a request
\* that is a whole URL is refused.
Validate(c, accepted) ==
    LET response == call[c].response
        Agrees(n) == response.number = 0 \/ response = Response(response.by, session.schema, n)
    IN  {IF n > 0 /\ accepted /\ Agrees(n) THEN "valid" ELSE "invalid" :
            n \in IF session.schema = None THEN {0} ELSE Lookups(session.schema, session.version)}

\* GenerateResponse names no version: it has what the generator was last given, which
\* lookups of any version do.
GenerateResponse(c) ==
    IF session.schema = None THEN {}
    ELSE {Response(c, session.schema, n) : n \in DOMAIN published[session.schema]}

-----------------------------------------------------------------------------
(***************************************************************************)
(* The mocking transport.                                                  *)
(***************************************************************************)

Mock(c, host, e) ==
    /\ setup.transport = "mock" /\ At(c, "new")
    /\ call' = [call EXCEPT ![c] = [Fresh EXCEPT
            !.at = "lookup", !.host = host, !.endpoint = e]]
    /\ UNCHANGED <<serverVars, testVars, cache, captured, wiped>>

\* The calls of the endpoint that had returned since the cache was cleared (history).
Returned(e) ==
    {d \in Calls \ wiped : call[d].endpoint = e /\ call[d].result = "ok"}

\* The host is not part of the cache's key.
LookUp(c) ==
    /\ At(c, "lookup")
    /\ LET hit == setup.cached /\ cache[call[c].endpoint] /= None
       IN  call' = [call EXCEPT ![c].at = IF hit THEN "respond" ELSE "generate",
                                ![c].response = IF hit THEN cache[call[c].endpoint] ELSE None,
                                ![c].before = Returned(call[c].endpoint), ![c].gone = wiped]
    /\ UNCHANGED <<serverVars, testVars, cache, captured, wiped>>

\* The lock is not held while the server generates, which it does not if its lookup fails.
Generate(c) ==
    /\ At(c, "generate")
    /\ \/ Fails(c)
       \/ \E response \in GenerateResponse(c) :
            call' = [call EXCEPT ![c].at = "store", ![c].response = response]
    /\ UNCHANGED <<serverVars, testVars, cache, captured, wiped>>

\* Mutant of Store: a response is kept only if the session is bound to a version.
StorePinned(c) ==
    /\ At(c, "store")
    /\ cache' = IF setup.cached /\ session.version /= None
                THEN [cache EXCEPT ![call[c].endpoint] = call[c].response] ELSE cache
    /\ Goes(c, "respond")
    /\ UNCHANGED <<serverVars, testVars, captured, wiped>>

Store(c) ==
    /\ At(c, "store")
    /\ cache' = IF setup.cached THEN [cache EXCEPT ![call[c].endpoint] = call[c].response] ELSE cache
    /\ Goes(c, "respond")
    /\ UNCHANGED <<serverVars, testVars, captured, wiped>>

\* The validation is asked about the whole URL; its refusal ends the call unless a callback
\* accepts it, and then the interaction counts as valid.
Respond(c) ==
    /\ At(c, "respond")
    /\ IF setup.validating /\ Validate(c, FALSE) = {"invalid"} /\ setup.onMockFailure /= "accept"
       THEN Fails(c)
       ELSE call' = [call EXCEPT ![c].at = "record", ![c].verdict = "valid"]
    /\ UNCHANGED <<serverVars, testVars, cache, captured, wiped>>

Interaction(c) ==
    [call |-> c, host |-> call[c].host, endpoint |-> call[c].endpoint,
     response |-> call[c].response, verdict |-> call[c].verdict, bound |-> bound]

addInteraction(c) == captured' = captured \cup {Interaction(c)}

Record(c) ==
    /\ At(c, "record")
    /\ addInteraction(c)
    /\ call' = [call EXCEPT ![c].at = "done",
            ![c].result = IF call[c].verdict = "invalid" /\ setup.onFailure = "fail"
                          THEN "error" ELSE "ok"]
    /\ UNCHANGED <<serverVars, testVars, cache, wiped>>

ClearCache ==
    /\ setup.transport = "mock"
    /\ cache' = [e \in Endpoints |-> None]
    /\ wiped' = {c \in Calls : call[c].at \in {"respond", "record", "done"}}
    /\ UNCHANGED <<serverVars, testVars, call, captured>>

-----------------------------------------------------------------------------
(***************************************************************************)
(* The validating transport, around the real one.                          *)
(***************************************************************************)

Send(c, host, e) ==
    /\ setup.transport = "real" /\ At(c, "new")
    /\ call' = [call EXCEPT ![c] = [Fresh EXCEPT
            !.at = "sent", !.host = host, !.endpoint = e]]
    /\ UNCHANGED <<serverVars, testVars, cache, captured, wiped>>

\* A failing transport is not captured.
TransportFails(c) ==
    /\ At(c, "sent")
    /\ Fails(c)
    /\ UNCHANGED <<serverVars, testVars, cache, captured, wiped>>

TransportAnswers(c, response) ==
    /\ At(c, "sent")
    /\ call' = [call EXCEPT ![c].at = "answered", ![c].response = response]
    /\ UNCHANGED <<serverVars, testVars, cache, captured, wiped>>

\* No verdict when the binding is missing or nobody asked for one.
ValidateReal(c, accepted) ==
    /\ At(c, "answered")
    /\ \E verdict \in IF session.schema = None \/ (~setup.auto /\ setup.onFailure = "none")
                       THEN {"none"} ELSE Validate(c, accepted) :
         call' = [call EXCEPT ![c].at = "record", ![c].verdict = verdict]
    /\ UNCHANGED <<serverVars, testVars, cache, captured, wiped>>

-----------------------------------------------------------------------------
(***************************************************************************)
(* What the test does with the interactions.                               *)
(***************************************************************************)

ClearInteractions ==
    /\ captured' = {}
    /\ UNCHANGED <<serverVars, testVars, call, cache, wiped>>

\* Hosts are known of the mocked calls only: the validating transport keeps paths.
Hosts == IF setup.transport = "mock" THEN {i.host : i \in captured} ELSE {}

\* Mutant of extractSchemaID: any of the hosts.
extractAnyID(given) ==
    IF given /= None THEN {given} ELSE Hosts

\* The schema given, else the only host.
extractSchemaID(given) ==
    IF given /= None THEN {given} ELSE IF Cardinality(Hosts) = 1 THEN Hosts ELSE {}

mergeInteractionsToEndpoints == {i.endpoint : i \in captured}

\* The record keeps what was called of which host as well (history).
BuildConsumerFromInteractions(s, given) ==
    [schema |-> s, given |-> given, endpoints |-> mergeInteractionsToEndpoints,
     called |-> {<<i.host, i.endpoint>> : i \in captured}]

RegisterConsumerFromInteractions(given) ==
    /\ Quiet /\ captured /= {}
    /\ \E s \in extractSchemaID(given) : registered' = BuildConsumerFromInteractions(s, given)
    /\ UNCHANGED <<serverVars, session, bound, call, cache, captured, wiped>>

CallStep(c) ==
    LookUp(c) \/ Generate(c) \/ Store(c) \/ Respond(c) \/ Record(c)

TestStep ==
    \/ \E s \in Schemas : RegisterSchema(s) \/ OthersRegister(s) \/ LatestReverts(s)
    \/ \E s \in Schemas, v \in Labels \cup {None} : UseSchema(s, v)
    \/ ClearCache \/ ClearInteractions
    \/ \E given \in Schemas \cup {None} : RegisterConsumerFromInteractions(given)

-----------------------------------------------------------------------------
(***************************************************************************)
(* Properties.                                                             *)
(***************************************************************************)

Got(c) == setup.transport = "mock" /\ call[c].response /= None

\* With the cache, once an endpoint was answered nothing is generated for it anew: a later
\* call's response comes from a call that began before that answer.  And what ClearCache
\* cleared does not come back, except with a call that was under way.
MockAnswersSettle ==
    setup.cached =>
        \A d \in Calls : Got(d) =>
            /\ \A c \in call[d].before : c \notin call[call[d].response.by].before
            /\ call[d].response.by \notin call[d].gone

\* What was captured as valid from a service is of the schema the test was bound to, and of
\* the very version if it was bound to one, whoever registers what meanwhile; else it is of
\* no registration before the test's own, unless the server went back to an earlier one.
VerdictsKeepTheBinding ==
    \A i \in captured :
        setup.transport = "real" /\ i.verdict = "valid" /\ i.response.number > 0 =>
            /\ i.response.schema = i.bound.schema
            /\ IF i.bound.version = None
               THEN i.response.number >= i.bound.since \/ i.bound.schema \in reverted
               ELSE published[i.response.schema][i.response.number] = i.bound.version

\* A consumer registered without a schema given uses what was called of that schema's host,
\* and all that was captured was called of it.
RegisteredWasCalled ==
    registered /= None /\ registered.given = None =>
        registered.called = {registered.schema} \X registered.endpoints

=============================================================================
