------------------------- MODULE ContractEvolution --------------------------
(***************************************************************************)
(* One schema over time, its documents looked into: the provider registers *)
(* versions with and without the compatibility check, a consumer tests     *)
(* against a version and registers what it used by hand or from captured   *)
(* interactions, and CanIDeploy is asked about a version.  Around it, what *)
(* generator, mock server and validators make of the versions.             *)
(***************************************************************************)
EXTENDS ServerCompatibility, EmbeddedCompatibility, Generation

CONSTANTS
    First1,         \* the first version's document
    Documents,      \* the documents of later versions
    Requests,       \* the requests the properties ask about
    Suites,         \* sets of those: what a consumer's tests may send
    MaxVersions,    \* versions in a behaviour
    None

\* A document writes a path once, up to the names of its variables, a parameter once in its
\* place, and gives its name one type in an operation: the engines keep parameters by name.
WellFormed(d) ==
    /\ \A key \in DOMAIN d.ops :
         /\ key = <<key[1], key[2]>>
         /\ key[1] \in Seq(STRING \ {Hole})
         /\ \A p, q \in d.ops[key].params :
              p.name = q.name => p.type = q.type /\ p.enum = q.enum /\ (p.in = q.in => p = q)
    /\ \A t, u \in Templates(d) : Normal(t) = Normal(u) => t = u
    /\ NoPath \notin Templates(d)

\* What its parts are made of: methods in upper case, the types that are told apart, objects
\* that are not the absence of one, and a variable at most once in a template.
Types == {Untyped, "string", "integer", "number"}
Values == {"null", "a", "b", "1", "1.5", "{}", "{null}"}
Described(content) == {mt \in DOMAIN content : content[mt] /= NoSchema}
AnswerSchemas(op) ==
    UNION {{op.responses[c][mt] : mt \in Described(op.responses[c])} : c \in DOMAIN op.responses}

Readable(d) ==
    /\ d.servers \in Seq([absolute : BOOLEAN, base : Seq(STRING)])
    /\ \A t \in Templates(d) : \A i, j \in DOMAIN t : t[i] \in Vars /\ t[i] = t[j] => i = j
    /\ \A key \in DOMAIN d.ops :
         /\ key[2] = Upper(key[2])
         /\ \A p \in d.ops[key].params \cup d.ops[key].shared : p.type \in Types
         /\ \A s \in Schemas(d.ops[key].body) \cup AnswerSchemas(d.ops[key]) :
              /\ s.props \in [DOMAIN s.props -> Types \cup {"object"}]
              /\ s.examples \in [DOMAIN s.props -> Values \cup {NoExample}]
              /\ NoBody \notin [DOMAIN s.props -> Values]

ASSUME DocumentAssumption == \A d \in {First1} \cup Documents : WellFormed(d)
ASSUME DataAssumption == \A d \in {First1} \cup Documents : Readable(d)

VARIABLES
    versions,       \* the documents registered, oldest first
    clean,          \* for which of them a check against the version before was asked for
                    \* and reported nothing
    usage           \* the consumer's registration, with its tests (history)

vars == <<versions, clean, usage>>

Init ==
    /\ versions = <<First1>> /\ clean = <<FALSE>>
    /\ usage = None

-----------------------------------------------------------------------------
(***************************************************************************)
(* Registering.                                                            *)
(***************************************************************************)

\* The check reports the changes against the version before; it refuses nothing.
RegisterSchema(d, check) ==
    /\ Len(versions) < MaxVersions
    /\ versions' = Append(versions, d)
    /\ clean' = Append(clean, check /\ CompareSchemas(Last(versions), d) = {})
    /\ UNCHANGED usage

Endpoint(m, path) == [method |-> m, path |-> path]

\* A captured request's URL loses its host and query, nothing else: its path is the one
\* that was called, not the template it matched.
normalizePathForEndpoint(req) == req.path

mergeInteractionsToEndpoints(tests) ==
    {Endpoint(req.method, normalizePathForEndpoint(req)) : req \in tests}

\* The templates of the requests, as one lists them by hand.
ListedByHand(doc, tests) ==
    {Endpoint(req.method, Route(doc, req.method, stripBasePath(doc, req.path))) : req \in tests}

\* A registration replaces the one before.
RegisterConsumer(v, tests, endpoints) ==
    /\ usage' = [version |-> v, tests |-> tests, endpoints |-> endpoints]
    /\ UNCHANGED <<versions, clean>>

RegisterFromInteractions(v, tests) ==
    /\ tests /= {}
    /\ RegisterConsumer(v, tests, mergeInteractionsToEndpoints(tests))

RegisterByHand(v, tests) ==
    /\ tests /= {}
    /\ \A req \in tests :
         Route(versions[v], req.method, stripBasePath(versions[v], req.path)) /= NoPath
    /\ RegisterConsumer(v, tests, ListedByHand(versions[v], tests))

-----------------------------------------------------------------------------
(***************************************************************************)
(* Comparing versions.                                                     *)
(***************************************************************************)

\* 0 for a version that is not named: the new one is then the latest, and the old one the
\* version before the latest, whatever the new one is.  Labels sort as they are registered.
\* What is not found compares as compatible, and so do equal contents.
CompareVersions(old, new) ==
    LET latest == Len(versions)
        o == IF old = 0 THEN latest - 1 ELSE old
        n == IF new = 0 THEN latest ELSE new
    IN  IF {o, n} \subseteq DOMAIN versions /\ versions[o] /= versions[n]
        THEN CompareSchemas(versions[o], versions[n]) ELSE {}

-----------------------------------------------------------------------------
(***************************************************************************)
(* Asking whether a version can be deployed.                               *)
(***************************************************************************)

\* Mutant of filterChangesForConsumer: only the path has to match, and removals do not.
filterWithoutRemovals(changes, endpoints) ==
    {c \in changes : c.kind /= "ENDPOINT_REMOVED" /\ \E e \in endpoints : e.path = c.path}

\* Paths are compared as they are written.
filterChangesForConsumer(changes, endpoints) ==
    IF endpoints = {} THEN changes
    ELSE {c \in changes : \E e \in endpoints : e.path = c.path /\ e.method = c.method}

\* A consumer of the very version is left out; its registered version is the old one.
CanIDeploy(v) ==
    \/ usage = None
    \/ usage.version = v
    \/ filterChangesForConsumer(CompareSchemas(versions[usage.version], versions[v]),
                                usage.endpoints) = {}

Next ==
    \/ \E d \in Documents, check \in BOOLEAN : RegisterSchema(d, check)
    \/ \E v \in DOMAIN versions, tests \in Suites :
         RegisterFromInteractions(v, tests) \/ RegisterByHand(v, tests)

Spec == Init /\ [][Next]_vars

-----------------------------------------------------------------------------
(***************************************************************************)
(* Properties.                                                             *)
(***************************************************************************)

Target(doc, req) == Route(doc, req.method, stripBasePath(doc, req.path))

Accepts(doc, req) ==
    Target(doc, req) /= NoPath /\ RequestOk(doc, Target(doc, req), req.method, Stripped(doc, req))

\* Another path of the document takes the request, as concrete or more so.
Overtaken(doc, t, path) ==
    \E v \in Templates(doc) :
        Fits(v, path) /\ Normal(v) /= Normal(t) /\ Variables(v) <= Variables(t)

Places(p, t) == {i \in DOMAIN t : t[i] = p.name}

\* A required parameter of a new name, which the engine reports.
Added(p, old, new) == p \in new.params /\ p.required /\ p.name \notin Named(old.params)

\* Any other parameter may be refused for the first time: it is new in its place or stands
\* elsewhere in the path, became required or is limited to an enumeration or otherwise, or
\* was or is one of the path item's.
ParameterTightened(old, new, t, u) ==
    \E p \in Parameters(new) :
        /\ ~Added(p, old, new)
        /\ \A q \in Parameters(old) :
             q.name = p.name /\ q.in = p.in =>
                 \/ p.in = "path" /\ Places(p, u) /= Places(q, t)
                 \/ /\ p /= q
                    /\ \/ p \notin new.params \/ q \notin old.params
                       \/ p.required /\ ~q.required
                       \/ q.enum = {} /\ p.enum /= {}
                       \/ p.limit /= {} /\ p.limit /= q.limit

\* An object may be refused for the first time by the schema of its media type: a schema is
\* new, a field is given a type or another limit, is required as it was in another media
\* type or as it was of responses only, or is no longer for requests.
SchemaTightened(o, n, requiredBefore) ==
    n /= NoSchema /\
        \/ o = NoSchema
        \/ \E f \in DOMAIN n.props :
             n.props[f] /= Untyped /\ (f \notin DOMAIN o.props \/ o.props[f] = Untyped)
        \/ \E f \in DOMAIN n.props :
             n.limits[f] /= {} /\ (f \notin DOMAIN o.props \/ n.limits[f] /= o.limits[f])
        \/ \E f \in n.required \ o.required : f \in requiredBefore
        \/ \E f \in n.required \ n.readOnly : f \in o.readOnly
        \/ ~(n.readOnly \subseteq o.readOnly)

\* A body may be: there was none, it became required, it may have fewer media types.
\* Required fields are compared for three methods.
BodyTightened(old, new, m) ==
    /\ new /= NoBody
    /\ \/ old = NoBody
       \/ new.required /\ ~old.required
       \/ ~(DOMAIN old.content \subseteq DOMAIN new.content)
       \/ DOMAIN old.content = {} /\ DOMAIN new.content /= {}
       \/ \E mt \in DOMAIN new.content \cap DOMAIN old.content :
            SchemaTightened(old.content[mt], new.content[mt],
                IF m \in {"POST", "PUT", "PATCH"} THEN RequiredFields(old)
                ELSE RequiredFields(new))

\* What neither engine looks at.
Unnoticed(old, new, req) ==
    LET m == req.method
        t == Target(old, req)
        u == Target(new, req)
        before == old.ops[<<t, m>>]
        after == new.ops[<<u, m>>]
    IN  \/ old.servers /= new.servers
        \/ Overtaken(new, t, stripBasePath(new, req.path))
        \/ u = NoPath /\ m \notin Methods \cup {"HEAD", "OPTIONS"}
        \/ u /= NoPath /\ (\/ m \notin Methods
                           \/ ParameterTightened(before, after, t, u)
                           \/ BodyTightened(before.body, after.body, m))

\* Along versions whose checks reported nothing, a request that was accepted stays accepted,
\* however many versions lie between, unless a step makes a change the engine does not look
\* at: then, and only for the requests of the operation it is made in.
CheckedChainKeepsRequests ==
    \A i, j \in DOMAIN versions :
        i < j /\ (\A k \in i + 1 .. j : clean[k]) =>
            \A req \in Requests :
                Accepts(versions[i], req) /\ ~Accepts(versions[j], req) =>
                    \E k \in i + 1 .. j :
                        /\ Accepts(versions[k - 1], req)
                        /\ Unnoticed(versions[k - 1], versions[k], req)

\* A version that CanIDeploy finds safe accepts what the consumer's tests sent to the version
\* it is registered with, unless the change is one the engine does not look at or the
\* registration does not name the operation as both documents write it.
SafeDeploysKeepConsumers ==
    usage /= None =>
        LET old == versions[usage.version]
        IN  \A v \in DOMAIN versions : CanIDeploy(v) =>
                \A req \in usage.tests :
                    Accepts(old, req) /\ ~Accepts(versions[v], req) =>
                        \/ Unnoticed(old, versions[v], req)
                        \/ Endpoint(req.method, Target(old, req)) \notin usage.endpoints
                        \/ Target(versions[v], req) \notin {NoPath, Target(old, req)}

TypedFields(schemas) == UNION {{f \in DOMAIN s.props : s.props[f] /= Untyped} : s \in schemas}
Limited(params) == {p.name : p \in {p \in params : p.enum /= {}}}

Back(first, between, last) == (first \cap last) \ between /= {}

PartComesBack(x, y, z) ==
    \/ Back(Named(x.params), Named(y.params), Named(z.params))
    \/ Back(Limited(x.params), Limited(y.params), Limited(z.params))
    \/ Back(TypedFields(Schemas(x.body)), TypedFields(Schemas(y.body)), TypedFields(Schemas(z.body)))
    \/ \E c \in DOMAIN x.responses \cap DOMAIN y.responses \cap DOMAIN z.responses :
         LET r == x.responses[c]
             s == y.responses[c]
             t == z.responses[c]
         IN  \/ Back(Described(r), Described(s), Described(t))
             \/ \E mt \in Described(r) \cap Described(s) \cap Described(t) :
                  Back(TypedFields({r[mt]}), TypedFields({s[mt]}), TypedFields({t[mt]}))

At(doc, key) == <<Find(doc, key[1]), key[2]>>

ComesBack(a, b, c) ==
    \E key \in DOMAIN a.ops :
        /\ At(b, key) \in DOMAIN b.ops /\ At(c, key) \in DOMAIN c.ops
        /\ PartComesBack(a.ops[key], b.ops[At(b, key)], c.ops[At(c, key)])

RequiredByAndBy(a, b, c) ==
    \E key \in DOMAIN a.ops :
        /\ At(b, key) \in DOMAIN b.ops /\ At(c, key) \in DOMAIN c.ops
        /\ \E p \in c.ops[At(c, key)].params :
             p.required /\ p.name \in Named(b.ops[At(b, key)].params) \ Named(a.ops[key].params)

\* Two checks without a report amount to a check without one, unless a part of the contract
\* that the first version had is gone in the one between and comes back (a parameter, its
\* enumeration, the type of a field, the schema of a response), or a parameter becomes
\* required by and by, which the engine reports of a new one only.
ChecksCompose ==
    \A i, j, k \in DOMAIN versions :
        /\ i < j /\ j < k
        /\ CompareVersions(i, j) = {}
        /\ CompareVersions(j, k) = {}
        => \/ CompareVersions(i, k) = {}
           \/ ComesBack(versions[i], versions[j], versions[k])
           \/ RequiredByAndBy(versions[i], versions[j], versions[k])

\* Whatever `cvt compare` finds between two documents, the server finds between the versions
\* that have them, and for the last two without being told which.
EmbeddedFindsNoMore ==
    /\ \A i, j \in DOMAIN versions :
         EmbCompareSchemas(versions[i], versions[j]) \subseteq CompareVersions(i, j)
    /\ \A i \in {Len(versions) - 1} \cap DOMAIN versions :
         EmbCompareSchemas(versions[i], versions[i + 1]) \subseteq CompareVersions(0, 0)

OnlyJson(op) == \A c \in DOMAIN op.responses : DOMAIN op.responses[c] \subseteq {Json}

\* The generator gives a value of the type and no other demand, or the example, if that
\* is a value of both.
Followed(type, limit, example, use) ==
    IF use /\ example /= NoExample THEN HasType(type, example) /\ Within(limit, example)
    ELSE limit = {} /\ type /= "object"

\* An object with every property: those required are among them, the side may carry them all.
Declared(s, side, use) ==
    /\ s.required \ Hidden(s, side) \subseteq DOMAIN s.props
    /\ \A f \in DOMAIN s.props :
         f \notin Hidden(s, side) /\ Followed(s.props[f], s.limits[f], s.examples[f], use)

AnswersDeclared(op, use) == \A s \in AnswerSchemas(op) : Declared(s, "response", use)

\* The answer the mock server generates for a request that the document accepts is one the
\* server's validator accepts together with the request, if both see the same operation: the
\* mock server does not strip base paths.  Not if the operation has a response in another
\* media type than application/json, which the answer is labelled with, or with a content
\* for 204; nor if an answer requires a field that it does not declare, declares one that is
\* not for responses, or demands more than a type of a field (a pattern, a length, an
\* exclusive bound, more than ten levels) for which no example that will do is written
\* down and asked for: the generator knows no such demand, and takes an example on trust.
MockAnswersConform ==
    \A i \in DOMAIN versions : \A req \in Requests :
        LET doc == versions[i]
            t == Route(doc, req.method, req.path)
            op == doc.ops[<<t, req.method>>]
        IN  /\ ValidateHTTPMethod(req.method) /\ ValidateHTTPPath(req)
            /\ t /= NoPath /\ t = Target(doc, req)
            /\ RequestOk(doc, t, req.method, Stripped(doc, req))
            => \A use \in BOOLEAN : \A a \in Serve(doc, req, TRUE, use) :
                  /\ a.why = "mock" /\ OnlyJson(op) /\ AnswersDeclared(op, use)
                  /\ 204 \in DOMAIN op.responses => DOMAIN op.responses[204] = {}
                  => ValidateInteraction(doc, req, a.resp) = "valid"

\* No failures without a success.
DocumentsSuccess(responses) ==
    \/ DOMAIN responses \subseteq {0}
    \/ \E c \in DOMAIN responses : c = 2 \/ c \in 200 .. 299

\* A parameter the generator knows, and gives a value: an example, or one of its enumeration
\* or of its type if that is all it demands.
GenerableParameter(p, op, t, use) ==
    /\ p \in op.params
    /\ \/ p.in = "header"
       \/ p.in = "path" /\ p.name \in ToSet(t)
    /\ IF use /\ p.example /= NoExample
       THEN ParsesAs(p.type, p.example) /\ Within(p.enum, p.example) /\ Within(p.limit, p.example)
       ELSE p.type /= Untyped /\ p.limit = {} /\ \A v \in p.enum : ParsesAs(p.type, v)

Generable(doc, key, use) ==
    LET op == doc.ops[key]
    IN  /\ key[2] \in HttpMethods
        /\ OnlyJson(op) /\ AnswersDeclared(op, use) /\ DocumentsSuccess(op.responses)
        /\ op.body /= NoBody => /\ DOMAIN op.body.content = {Json}
                                /\ op.body.required => op.body.content[Json] /= NoSchema
        /\ \A s \in Schemas(op.body) : Declared(s, "request", use)
        /\ \A p \in Parameters(op) :
             p.required \/ p.in = "path" => GenerableParameter(p, op, key[1], use)

\* The server's own fixture passes the server's validation, as an interaction and as a
\* response of the producer, in an operation of JSON contents that documents no failures
\* without a success; but the generator knows neither the parameters in queries nor those
\* of the path item, nor what is demanded of a field or a parameter besides its type and a
\* parameter's enumeration, it takes examples on trust and gives request and response every
\* field there is, and the path, which has no base, must lead to the operation.
FixturesConform ==
    \A i \in DOMAIN versions : \A key \in DOMAIN versions[i].ops : \A use \in BOOLEAN :
        Generable(versions[i], key, use) =>
            \A f \in GenerateFixture(versions[i], key[2], key[1], use) :
                Target(versions[i], f.req) = key[1] =>
                    /\ ValidateInteraction(versions[i], f.req, f.resp) = "valid"
                    /\ ValidateProducerResponse(versions[i], f.req, f.resp) = "valid"

-----------------------------------------------------------------------------
(***************************************************************************)
(* Statements of the repository that the code does not keep.               *)
(***************************************************************************)

\* "A breaking change is any schema modification that would make an existing caller fail.
\* CVT detects these automatically.": a version whose check reports nothing fails no caller.
ChecksKeepCallers ==
    \A i \in 1 .. Len(versions) - 1 : \A req \in Requests :
        clean[i + 1] /\ Accepts(versions[i], req) => Accepts(versions[i + 1], req)

\* "CVT can generate schema-compliant test data": the response of a fixture satisfies the
\* schema it was generated from without the examples (the server's default), for operations
\* of JSON contents that document a success.
FixturesAreCompliant ==
    \A i \in DOMAIN versions : \A key \in DOMAIN versions[i].ops :
        LET doc == versions[i]
        IN  OnlyJson(doc.ops[key]) /\ DocumentsSuccess(doc.ops[key].responses) =>
                \A f \in GenerateFixture(doc, key[2], key[1], FALSE) :
                    ResponseOk(doc, key[1], key[2], f.resp)

=============================================================================
