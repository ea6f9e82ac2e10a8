----------------------------- MODULE MCSdkCalls -----------------------------
(***************************************************************************)
(* Instances of SdkCalls: two calls, two schemas, one endpoint.            *)
(***************************************************************************)
EXTENDS SdkCalls, TLC

CONSTANTS c1, c2, pets, orders, v1, v2

Config(adapter, mode, request, response, async, onRequest, onResponse) ==
    [adapter |-> adapter, mode |-> mode, request |-> request, response |-> response,
     async |-> async, onRequestFailure |-> onRequest, onResponseFailure |-> onResponse]

Guide == Config("nethttp", "strict", FALSE, FALSE, FALSE, "none", FALSE)
Strict == Config("nethttp", "strict", TRUE, TRUE, FALSE, "none", FALSE)

MCConfigs ==
    {Guide, Strict,
     Config("nethttp", "warn", TRUE, TRUE, FALSE, "none", FALSE),
     Config("nethttp", "shadow", TRUE, TRUE, FALSE, "none", FALSE),
     Config("gin", "strict", TRUE, FALSE, FALSE, "none", FALSE),
     Config("nethttp", "strict", TRUE, TRUE, TRUE, "none", FALSE),
     Config("gin", "shadow", TRUE, TRUE, FALSE, "reject", TRUE)}

Input(excluded, verdict, bareOk, replyOk) ==
    [excluded |-> excluded, readable |-> TRUE, verdict |-> verdict, bareOk |-> bareOk,
     replyOk |-> replyOk, handler |-> "plain"]

Good == Input(FALSE, "valid", TRUE, TRUE)
Bad == Input(FALSE, "invalid", TRUE, TRUE)
MCInputs ==
    {Good, Bad, Input(FALSE, "valid", FALSE, FALSE),
     Input(TRUE, "invalid", TRUE, TRUE),
     [Good EXCEPT !.readable = FALSE], [Good EXCEPT !.handler = "special"],
     [Good EXCEPT !.handler = "mutates"]}

Mocked(cached, validating, onFailure, registrations) ==
    [transport |-> "mock", cached |-> cached, validating |-> validating,
     onMockFailure |-> onFailure, auto |-> FALSE, onFailure |-> "none",
     registrations |-> registrations, requests |-> {}]

Validated(auto, onFailure, registrations, requests) ==
    [transport |-> "real", cached |-> FALSE, validating |-> FALSE,
     onMockFailure |-> "none", auto |-> auto, onFailure |-> onFailure,
     registrations |-> registrations, requests |-> requests]

Registering == Validated(TRUE, "none", 2, {Good})
Failing == Validated(FALSE, "fail", 2, {Good, Bad})
Plainly == Validated(TRUE, "none", 1, MCInputs)
Idle == Validated(TRUE, "none", 0, MCInputs)

MCSetups ==
    {Mocked(TRUE, FALSE, "none", 2), Mocked(TRUE, TRUE, "accept", 2),
     Mocked(FALSE, TRUE, "none", 1), Registering, Failing, Plainly, Idle}

\* The middleware plays no part in a mocked test.
MCDeployments ==
    {s \in MCSetups : s.transport = "mock"} \X {Guide}
    \cup {Idle} \X MCConfigs
    \cup {<<Registering, Guide>>, <<Failing, Guide>>, <<Plainly, Strict>>}

CallSymmetry == Permutations(Calls) \cup Permutations(Schemas) \cup Permutations(Labels)
=============================================================================
