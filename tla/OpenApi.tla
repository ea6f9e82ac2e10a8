------------------------------ MODULE OpenApi -------------------------------
(***************************************************************************)
(* OpenAPI documents as kin-openapi holds them, and what that library does *)
(* with them: finding a path, routing a request, validating a request and  *)
(* a response.  Everything here is the library's; it is written from how   *)
(* the engines, the validators and the generator call it.                  *)
(*                                                                         *)
(* A document is                                                           *)
(*   [servers: Seq([absolute, base]), ops: [<<template, method>> -> op]]   *)
(* an operation                                                            *)
(*   [params, shared: sets of parameters, body: NoBody or                  *)
(*    [required, content], responses: [code -> content]]                   *)
(* where the shared parameters are those of the path item, a code is a     *)
(* status, 2 for "2XX" (and so on) or 0 for "default", a content maps      *)
(* media types to NoSchema or an object schema                             *)
(*   [props: [name -> type], required, readOnly, writeOnly: sets of names, *)
(*    limits: [name -> values], examples: [name -> value or NoExample]].   *)
(* A limit is the values that a pattern, a length, an exclusive bound, a   *)
(* multipleOf or whatever else is demanded of a value besides its type     *)
(* leaves; none if it is {}.  A parameter has a limit and an example too.  *)
(* Paths, templates and base paths are sequences of segments.              *)
(***************************************************************************)
EXTENDS Naturals, Sequences, FiniteSets, SequencesExt

CONSTANTS
    Vars,       \* the segments that are template variables
    NoPath, NoBody, NoSchema

Untyped == ""
NoExample == ""
Json == "application/json"
HalJson == "application/hal+json"

\* http.Request carries upper- and lower-case methods alike; strings.ToUpper.
Upper(m) == IF m = "get" THEN "GET" ELSE IF m = "post" THEN "POST" ELSE m

-----------------------------------------------------------------------------
(***************************************************************************)
(* Paths.                                                                  *)
(***************************************************************************)

Templates(doc) == {key[1] : key \in DOMAIN doc.ops}
Hole == "{}"
Normal(t) == [i \in DOMAIN t |-> IF t[i] \in Vars THEN Hole ELSE t[i]]

\* Paths.Find: the template itself, or one that differs in the names of its variables.
Find(doc, t) ==
    IF t \in Templates(doc) THEN t
    ELSE IF \E u \in Templates(doc) : Normal(u) = Normal(t)
    THEN CHOOSE u \in Templates(doc) : Normal(u) = Normal(t)
    ELSE NoPath

HasOperation(doc, t, m) == <<t, m>> \in DOMAIN doc.ops

Fits(t, path) == Len(t) = Len(path) /\ \A i \in DOMAIN t : t[i] \in Vars \/ t[i] = path[i]
Variables(t) == Cardinality({i \in DOMAIN t : t[i] \in Vars})

\* gorillamux: the first path that fits, concrete ones first, decides; its operation may
\* not exist, and methods are compared as they are written.
Route(doc, m, path) ==
    LET fitting == {t \in Templates(doc) : Fits(t, path)}
    IN  IF \E t \in fitting : HasOperation(doc, t, m)
                              /\ \A u \in fitting : Variables(t) <= Variables(u)
        THEN CHOOSE t \in fitting : HasOperation(doc, t, m)
                                    /\ \A u \in fitting : Variables(t) <= Variables(u)
        ELSE NoPath

\* Routed with the servers left as they are: the host is "localhost", so a server with a
\* host of its own does not match.
RouteOnServers(doc, m, path) ==
    IF doc.servers = << >> THEN Route(doc, m, path)
    ELSE LET served == {s \in ToSet(doc.servers) : ~s.absolute /\ IsPrefix(s.base, path)}
             rests == {SubSeq(path, Len(s.base) + 1, Len(path)) : s \in served}
         IN  IF \E rest \in rests : Route(doc, m, rest) /= NoPath
             THEN Route(doc, m, CHOOSE rest \in rests : Route(doc, m, rest) /= NoPath)
             ELSE NoPath

-----------------------------------------------------------------------------
(***************************************************************************)
(* openapi3filter.  A value is "1", "1.5", "a" or "b", and in JSON "null"  *)
(* or an object within the object: "{}", or "{null}" if somewhere below    *)
(* one of its typed properties is null.                                    *)
(***************************************************************************)

ParsesAs(type, text) ==
    \/ type = "string"
    \/ type = "integer" /\ text = "1"
    \/ type = "number" /\ text \in {"1", "1.5"}

HasType(type, value) ==
    \/ type = Untyped
    \/ type = "string" /\ value \in {"a", "b"}
    \/ type = "integer" /\ value = "1"
    \/ type = "number" /\ value \in {"1", "1.5"}
    \/ type = "object" /\ value = "{}"

Within(limit, value) == limit = {} \/ value \in limit

\* What a request, or a response, may not carry, even if it is required.
Hidden(schema, side) == IF side = "request" THEN schema.readOnly ELSE schema.writeOnly

Conforms(schema, side, object) ==
    \/ schema = NoSchema
    \/ /\ object /= NoBody
       /\ schema.required \ Hidden(schema, side) \subseteq DOMAIN object
       /\ \A p \in DOMAIN object \cap DOMAIN schema.props :
            HasType(schema.props[p], object[p]) /\ Within(schema.limits[p], object[p])
       /\ \A p \in DOMAIN object \cap Hidden(schema, side) : object[p] = "null"

\* Those of the operation override those of its path item.
Parameters(op) ==
    op.params \cup {p \in op.shared : \A q \in op.params : q.name /= p.name \/ q.in /= p.in}

Given(p, t, req) ==
    IF p.in = "path" THEN {req.path[i] : i \in {i \in DOMAIN t : t[i] = p.name}}
    ELSE IF <<p.in, p.name>> \in DOMAIN req.params THEN {req.params[<<p.in, p.name>>]} ELSE {}

ParameterOk(p, t, req) ==
    /\ p.required => Given(p, t, req) /= {}
    /\ \A v \in Given(p, t, req) :
         ParsesAs(p.type, v) /\ Within(p.enum, v) /\ Within(p.limit, v)

BodyOk(op, req) ==
    \/ op.body = NoBody
    \/ IF req.body = NoBody THEN ~op.body.required
       ELSE \/ DOMAIN op.body.content = {}
            \/ /\ req.media \in DOMAIN op.body.content
               /\ Conforms(op.body.content[req.media], "request", req.body)

\* ValidateRequest.  req.path is the path that was routed.
RequestOk(doc, t, m, req) ==
    LET op == doc.ops[<<t, m>>]
    IN  (\A p \in Parameters(op) : ParameterOk(p, t, req)) /\ BodyOk(op, req)

\* Responses.Status falls back to the wildcard of the class, not to the default.
Status(responses, status) ==
    IF status \in DOMAIN responses THEN {status} ELSE {status \div 100} \cap (DOMAIN responses \ {0})

\* ValidateResponse: nothing is checked for HEAD, for four redirections, for a status that
\* is not documented and for a response without content.
ResponseOk(doc, t, m, resp) ==
    LET responses == doc.ops[<<t, m>>].responses
        found == Status(responses, resp.status)
        codes == IF found = {} THEN {0} \cap DOMAIN responses ELSE found
    IN  \/ m = "HEAD"
        \/ resp.status \in {301, 304, 307, 308}
        \/ \A c \in codes :
             \/ DOMAIN responses[c] = {}
             \/ /\ resp.media \in DOMAIN responses[c]
                /\ Conforms(responses[c][resp.media], "response", resp.body)

=============================================================================
