----------------------------- MODULE Validation -----------------------------
(***************************************************************************)
(* The verdicts on an HTTP interaction: the server's ValidateInteraction   *)
(* and ValidateProducerResponse, the embedded validator's Validate and     *)
(* ValidateRequest.  A verdict is "valid" or what the interaction failed.  *)
(* A request has a path below "/" or is a whole URL (req.url).             *)
(***************************************************************************)
EXTENDS OpenApi

HttpMethods == {"GET", "POST", "PUT", "DELETE", "PATCH", "HEAD", "OPTIONS"}

ValidateHTTPMethod(m) == Upper(m) \in HttpMethods
ValidateHTTPPath(req) == ~req.url
ValidateStatusCode(status) == status \in 100 .. 599

validateInteractionRequest(req, resp) ==
    ValidateHTTPMethod(req.method) /\ ValidateHTTPPath(req) /\ ValidateStatusCode(resp.status)

validateProducerRequest(req, resp) ==
    ValidateHTTPMethod(req.method) /\ ValidateHTTPPath(req) /\ ValidateStatusCode(resp.status)

\* The base paths a request path starts with, in the order of the servers: the base is
\* followed by "/".
Bases(doc, path) ==
    {i \in DOMAIN doc.servers :
        LET base == doc.servers[i].base
        IN  base /= << >> /\ Len(path) > Len(base) /\ IsPrefix(base, path)}

First(set) == CHOOSE i \in set : \A j \in set : i <= j
After(base, path) == SubSeq(path, Len(base) + 1, Len(path))

\* Only the first base that fits, and whether or not a path has the full one as its own.
stripBasePath(doc, path) ==
    IF Bases(doc, path) = {} THEN path
    ELSE After(doc.servers[First(Bases(doc, path))].base, path)

\* buildRouter: the servers lose their paths, so the stripped path is routed as it is.
ServerRoute(doc, m, path) == Route(doc, m, path)

Stripped(doc, req) == [req EXCEPT !.path = stripBasePath(doc, req.path)]

ValidateInteraction(doc, req, resp) ==
    LET stripped == Stripped(doc, req)
        t == ServerRoute(doc, req.method, stripped.path)
    IN  IF ~validateInteractionRequest(req, resp) THEN "input"
        ELSE IF t = NoPath THEN "route"
        ELSE IF ~RequestOk(doc, t, req.method, stripped) THEN "request"
        ELSE IF ~ResponseOk(doc, t, req.method, resp) THEN "response"
        ELSE "valid"

\* Routed by the upper-case method; the request itself is not validated.
ValidateProducerResponse(doc, req, resp) ==
    LET m == Upper(req.method)
        t == ServerRoute(doc, m, stripBasePath(doc, req.path))
    IN  IF ~validateProducerRequest(req, resp) THEN "input"
        ELSE IF t = NoPath THEN "route"
        ELSE IF ~ResponseOk(doc, t, m, resp) THEN "response"
        ELSE "valid"

-----------------------------------------------------------------------------
(***************************************************************************)
(* pkg/cvt.Validator.  It checks no input; a request without a path below  *)
(* "/" has no route.                                                       *)
(***************************************************************************)

\* The path stripped of the first base it starts with, and its route.
prepareAndFindRoute(doc, req) ==
    LET fitting == {s \in DOMAIN doc.servers :
                       LET b == doc.servers[s].base
                       IN  b /= << >> /\ IsPrefix(b, req.path) /\ req.path /= b}
        path == IF req.url \/ fitting = {} THEN req.path
                ELSE After(doc.servers[First(fitting)].base, req.path)
    IN  [path |-> path,
         template |-> IF req.url THEN NoPath ELSE Route(doc, req.method, path)]

EmbeddedRequest(doc, req) ==
    LET found == prepareAndFindRoute(doc, req)
    IN  IF found.template = NoPath THEN "route"
        ELSE IF RequestOk(doc, found.template, req.method, [req EXCEPT !.path = found.path])
        THEN "valid" ELSE "request"

EmbeddedValidate(doc, req, resp) ==
    IF EmbeddedRequest(doc, req) /= "valid" THEN EmbeddedRequest(doc, req)
    ELSE IF ResponseOk(doc, prepareAndFindRoute(doc, req).template, req.method, resp)
    THEN "valid" ELSE "response"

=============================================================================
