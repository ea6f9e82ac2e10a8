----------------------------- MODULE Generation -----------------------------
(***************************************************************************)
(* What is generated from a document: the responses and fixtures of        *)
(* pkg/cvt, the server's GenerateFixture around them, and the answers of   *)
(* the mock server's handler.  Where the code takes what a map yields      *)
(* first, the definition is the set of its outcomes.  A value stands for   *)
(* all that is made up for its type; use says whether examples written in  *)
(* the document are preferred (UseExamples).                               *)
(***************************************************************************)
EXTENDS Validation

NoStatus == 0

\* Paths.Find as it is given, or routed as a concrete path on the document's own servers.
findOperation(doc, m, path) ==
    IF HasOperation(doc, Find(doc, path), Upper(m)) THEN Find(doc, path)
    ELSE RouteOnServers(doc, Upper(m), path)

Preferred == <<200, 201, 202, 204>>
PreferredIn(responses) == {i \in DOMAIN Preferred : Status(responses, Preferred[i]) /= {}}

\* Mutant of selectSuccessStatus: any documented code will do.
selectAnyStatus(responses) == IF DOMAIN responses = {} THEN {200} ELSE DOMAIN responses

\* Any 2nn when none of the preferred, any code when no 2nn: "4XX" is read as 4.
selectSuccessStatus(responses) ==
    LET success == {c \in DOMAIN responses : c \in 200 .. 299 \/ c = 2}
        other == DOMAIN responses \ {0}
    IN  IF PreferredIn(responses) /= {} THEN {Preferred[First(PreferredIn(responses))]}
        ELSE IF success /= {} THEN success
        ELSE IF other /= {} THEN other ELSE {200}

\* The code that documents a status: itself, its class, the default.
getResponseForStatus(responses, status) ==
    IF Status(responses, status) /= {} THEN Status(responses, status)
    ELSE {0} \cap DOMAIN responses

\* An example as it is written, else a value of the type: no limit is looked at, and below
\* the tenth level everything is nil, which is where an "object" goes.
generateValue(type, example, use) ==
    IF use /\ example /= NoExample THEN example
    ELSE CASE type = "string" -> "a" [] type = "integer" -> "1" [] type = "number" -> "1.5"
           [] type = "object" -> "{null}" [] type = Untyped -> "null"

\* Every property, whoever may carry it.
generateObject(schema, use) ==
    [p \in DOMAIN schema.props |-> generateValue(schema.props[p], schema.examples[p], use)]

\* The first value of an enumeration, unless there is an example.
generateParameter(p, use) ==
    IF p.enum /= {} /\ ~(use /\ p.example /= NoExample) THEN CHOOSE v \in p.enum : TRUE
    ELSE generateValue(p.type, p.example, use)

\* Content.Get("application/json"), else any JSON media type.
MediaOf(content) ==
    IF Json \in DOMAIN content THEN {Json} ELSE {HalJson} \cap DOMAIN content

Body(content, mt, use) ==
    IF content[mt] = NoSchema THEN NoBody ELSE generateObject(content[mt], use)

Generated(content, status, use) ==
    IF MediaOf(content) = {} THEN {[status |-> status, media |-> "", body |-> NoBody]}
    ELSE {[status |-> status, media |-> mt, body |-> Body(content, mt, use)] :
             mt \in MediaOf(content)}

\* The responses that can be generated; none when the operation or a response is missing.
GenerateResponse(doc, m, path, status, use) ==
    LET t == findOperation(doc, m, path)
        responses == doc.ops[<<t, Upper(m)>>].responses
        statuses == IF status = NoStatus THEN selectSuccessStatus(responses) ELSE {status}
    IN  IF t = NoPath THEN {}
        ELSE UNION {UNION {Generated(responses[c], st, use) : c \in getResponseForStatus(responses, st)} :
                    st \in statuses}

\* The bodies that can be generated for a request, with their media types.
GenerateRequestBody(doc, m, path, use) ==
    LET t == findOperation(doc, m, path)
        body == doc.ops[<<t, Upper(m)>>].body
    IN  IF t = NoPath \/ body = NoBody THEN {}
        ELSE {[media |-> mt, body |-> Body(body.content, mt, use)] :
                 mt \in {mt \in MediaOf(body.content) : body.content[mt] /= NoSchema}}

\* The path parameters of the operation replace their variables; the others stay.
resolvePath(op, path, use) ==
    [i \in DOMAIN path |->
        IF \E p \in op.params : p.in = "path" /\ p.name = path[i]
        THEN generateParameter(CHOOSE p \in op.params : p.in = "path" /\ p.name = path[i], use)
        ELSE path[i]]

RequiredHeaders(op) == {p \in op.params : p.in = "header" /\ p.required}

\* No query parameter is generated, and no parameter of the path item.
GeneratedRequests(doc, m, path, use) ==
    LET op == doc.ops[<<findOperation(doc, m, path), Upper(m)>>]
        headers == [h \in {<<p.in, p.name>> : p \in RequiredHeaders(op)} |->
                       generateParameter(CHOOSE p \in RequiredHeaders(op) : p.name = h[2], use)]
        bodies == GenerateRequestBody(doc, m, path, use)
        Request(b) == [method |-> m, url |-> FALSE, path |-> resolvePath(op, path, use),
                       params |-> headers, media |-> b.media, body |-> b.body]
    IN  IF bodies = {} THEN {Request([media |-> "", body |-> NoBody])}
        ELSE {Request(b) : b \in bodies}

\* pkg/cvt.GenerateFixture.
Fixtures(doc, m, path, use) ==
    IF findOperation(doc, m, path) = NoPath THEN {}
    ELSE {[req |-> r, resp |-> p] :
             r \in GeneratedRequests(doc, m, path, use),
             p \in GenerateResponse(doc, m, path, NoStatus, use)}

\* The server's GenerateFixture: the method in upper case, and a body is labelled with the
\* content type that was asked for, whatever it was generated from.
GenerateFixture(doc, m, path, use) ==
    {[f EXCEPT !.req.media = IF f.req.body = NoBody THEN @ ELSE Json] :
        f \in Fixtures(doc, Upper(m), path, use)}

-----------------------------------------------------------------------------
(***************************************************************************)
(* The mock server's handler.  An answer has the handler's reason for it.  *)
(***************************************************************************)

Answer(why, resp) == [why |-> why, resp |-> resp]
OwnAnswer(why, status) == Answer(why, [status |-> status, media |-> Json, body |-> NoBody])

\* Unlike the generator's, only successes: 200 when there is none.
handlerStatus(responses) ==
    LET success == {c \in DOMAIN responses : c \in 200 .. 299 \/ c = 2}
    IN  IF PreferredIn(responses) /= {} THEN {Preferred[First(PreferredIn(responses))]}
        ELSE IF success /= {} THEN success ELSE {200}

hasJSONResponse(responses, status) ==
    \E c \in Status(responses, status) : DOMAIN responses[c] \cap {Json, HalJson} /= {}

\* Mutant of handleMatchedRoute: the status chosen for the check of the media type is the
\* status of the answer.
handleAnyStatus(doc, t, req, use) ==
    LET responses == doc.ops[<<t, req.method>>].responses
    IN  {Answer("mock", [p EXCEPT !.media = Json]) :
            p \in UNION {GenerateResponse(doc, req.method, t, c, use) : c \in DOMAIN responses \ {0}}}

\* What is generated is sent as application/json, whatever media type it was made for.
handleMatchedRoute(doc, t, req, use) ==
    LET responses == doc.ops[<<t, req.method>>].responses
        Handle(status) ==
            IF status = 204 THEN {Answer("mock", [status |-> 204, media |-> "", body |-> NoBody])}
            ELSE IF ~hasJSONResponse(responses, status) THEN {OwnAnswer("not_acceptable", 406)}
            ELSE {Answer("mock", [p EXCEPT !.media = Json]) :
                     p \in GenerateResponse(doc, req.method, t, NoStatus, use)}
    IN  UNION {Handle(status) : status \in handlerStatus(responses)}

\* The servers are cleared, not stripped; OPTIONS is answered for CORS, GET / with the index.
Serve(doc, req, validate, use) ==
    LET t == Route(doc, req.method, req.path)
    IN  IF req.method = "OPTIONS" THEN {OwnAnswer("cors", 200)}
        ELSE IF req.method = "GET" /\ req.path = << >> THEN {OwnAnswer("index", 200)}
        ELSE IF t = NoPath THEN {OwnAnswer("no_route", 404)}
        ELSE IF validate /\ EmbeddedRequest(doc, req) /= "valid" THEN {OwnAnswer("invalid", 400)}
        ELSE handleMatchedRoute(doc, t, req, use)

=============================================================================
