----------------------- MODULE ContractEvolutionProofs -----------------------
(***************************************************************************)
(* Proofs about ContractEvolution, for any documents, requests and tests   *)
(* and any number of versions.  Each property of the versions is proved of *)
(* any documents first, and then of those registered.                      *)
(***************************************************************************)
EXTENDS ContractEvolution, FiniteSetTheorems, TLAPS

\* Both engines visit the same operations and find the same old one.
LEMMA SameOperations ==
    ASSUME NEW old, NEW new, NEW methods
    PROVE  /\ EmbCompared(old, new, methods) = Compared(old, new, methods)
           /\ EmbMethods = Methods
           /\ \A key : EmbOldOp(old, key) = OldOp(old, key)
           /\ \A kind, t, m, name : EmbChange(kind, t, m, name) = Change(kind, t, m, name)
BY DEF EmbCompared, Compared, EmbMethods, Methods, EmbOldOp, OldOp, EmbChange, Change

\* The server looks at two methods more for removals.
LEMMA RemovalsFound ==
    ASSUME NEW old, NEW new
    PROVE  EmbRemovedEndpoints(old, new) \subseteq checkRemovedEndpoints(old, new)
BY SameOperations DEF EmbRemovedEndpoints, checkRemovedEndpoints

\* The same parameters are new and required to both.
LEMMA ParametersFound ==
    ASSUME NEW old, NEW new
    PROVE  EmbAddedRequiredParameters(old, new) \subseteq checkAddedRequiredParameters(old, new)
<1>1. ASSUME NEW key
      PROVE  {q \in new.ops[key].params :
                 q.required /\ \A o \in EmbOldOp(old, key).params : o.name /= q.name}
             = {q \in new.ops[key].params :
                   q.required /\ q.name \notin Named(OldOp(old, key).params)}
  BY SameOperations DEF Named
<1> QED
  BY <1>1, SameOperations DEF EmbAddedRequiredParameters, checkAddedRequiredParameters

\* The same fields of a body are required to both.
LEMMA FieldsRequired ==
    ASSUME NEW body
    PROVE  EmbRequired(body) = RequiredFields(body)
BY DEF EmbRequired, RequiredFields, Schemas

LEMMA FieldsFound ==
    ASSUME NEW old, NEW new
    PROVE  EmbAddedRequiredBodyFields(old, new) \subseteq checkAddedRequiredBodyFields(old, new)
<1>1. \A a, b : EmbRequestBodies(a, b) = compareRequestBodies(a, b)
  BY FieldsRequired DEF EmbRequestBodies, compareRequestBodies
<1> QED
  BY <1>1, SameOperations DEF EmbAddedRequiredBodyFields, checkAddedRequiredBodyFields

\* The server also looks at the types of body fields.
LEMMA TypeChangesFound ==
    ASSUME NEW old, NEW new
    PROVE  EmbTypeChanges(old, new) \subseteq checkTypeChanges(old, new)
<1>1. \A a, b : EmbParameterTypeChanges(a, b) = checkParameterTypeChanges(a, b)
  BY DEF EmbParameterTypeChanges, checkParameterTypeChanges, TypeBreaks,
         EmbIsCompatibleTypeChange, isCompatibleTypeChange
<1> QED
  BY <1>1, SameOperations DEF EmbTypeChanges, checkTypeChanges

LEMMA EnumChangesFound ==
    ASSUME NEW old, NEW new
    PROVE  EmbRemovedEnumValues(old, new) \subseteq checkRemovedEnumValues(old, new)
<1>1. \A a, b : EmbParameterEnumChanges(a, b) = checkParameterEnumChanges(a, b)
  BY DEF EmbParameterEnumChanges, checkParameterEnumChanges
<1> QED
  BY <1>1, SameOperations DEF EmbRemovedEnumValues, checkRemovedEnumValues

\* The server also looks into the responses that both documents have.
LEMMA ResponsesFound ==
    ASSUME NEW old, NEW new
    PROVE  EmbResponseChanges(old, new) \subseteq checkResponseChanges(old, new)
<1>1. \A a, b : EmbResponses(a, b) \subseteq compareResponses(a, b)
  BY DEF EmbResponses, compareResponses
<1> QED
  BY <1>1, SameOperations DEF EmbResponseChanges, checkResponseChanges

\* Whatever the documents, what the embedded engine reports the server's reports.
THEOREM EmbeddedIsWeaker ==
    ASSUME NEW old, NEW new
    PROVE  EmbCompareSchemas(old, new) \subseteq CompareSchemas(old, new)
BY RemovalsFound, ParametersFound, FieldsFound, TypeChangesFound, EnumChangesFound, ResponsesFound
DEF EmbCompareSchemas, CompareSchemas

-----------------------------------------------------------------------------

\* A document compared with itself has no changes.
LEMMA NothingChanged ==
    ASSUME NEW d \in {First1} \cup Documents
    PROVE  EmbCompareSchemas(d, d) = {}
<1>1. ASSUME NEW key \in DOMAIN d.ops
      PROVE  /\ Find(d, key[1]) = key[1]
             /\ HasOperation(d, key[1], key[2])
             /\ EmbOldOp(d, key) = d.ops[key]
  BY DocumentAssumption DEF WellFormed, Find, Templates, HasOperation, EmbOldOp
<1>2. EmbRemovedEndpoints(d, d) = {}
  BY <1>1 DEF EmbRemovedEndpoints
<1>3. EmbAddedRequiredParameters(d, d) = {}
  BY <1>1 DEF EmbAddedRequiredParameters, EmbCompared
<1>4. EmbAddedRequiredBodyFields(d, d) = {}
  BY <1>1 DEF EmbAddedRequiredBodyFields, EmbCompared, EmbRequestBodies
<1>5. EmbTypeChanges(d, d) = {}
  <2>1. \A key \in DOMAIN d.ops : EmbParameterTypeChanges(d.ops[key], d.ops[key]) = {}
    BY DocumentAssumption DEF WellFormed, EmbParameterTypeChanges
  <2> QED
    BY <1>1, <2>1 DEF EmbTypeChanges, EmbCompared
<1>6. EmbRemovedEnumValues(d, d) = {}
  <2>1. \A key \in DOMAIN d.ops : EmbParameterEnumChanges(d.ops[key], d.ops[key]) = {}
    BY DocumentAssumption DEF WellFormed, EmbParameterEnumChanges
  <2> QED
    BY <1>1, <2>1 DEF EmbRemovedEnumValues, EmbCompared
<1>7. EmbResponseChanges(d, d) = {}
  BY <1>1 DEF EmbResponseChanges, EmbCompared, EmbResponses
<1> QED
  BY <1>2, <1>3, <1>4, <1>5, <1>6, <1>7 DEF EmbCompareSchemas

\* Every version has one of the documents.
Documented == versions \in Seq({First1} \cup Documents)

\* Between any two versions, and for the last two unnamed, the server finds what the
\* embedded engine finds.
THEOREM EmbeddedFindsLess == Spec => []EmbeddedFindsNoMore
<1>1. Init => Documented
  BY DEF Init, Documented
<1>2. Documented /\ [Next]_vars => Documented'
  <2> SUFFICES ASSUME Documented, [Next]_vars PROVE Documented'
    OBVIOUS
  <2>1. ASSUME NEW d \in Documents, NEW check, RegisterSchema(d, check) PROVE Documented'
    BY <2>1 DEF RegisterSchema, Documented
  <2>2. ASSUME UNCHANGED versions PROVE Documented'
    BY <2>2 DEF Documented
  <2> QED
    BY <2>1, <2>2 DEF Next, vars, RegisterFromInteractions, RegisterByHand, RegisterConsumer
<1>3. Documented => EmbeddedFindsNoMore
  <2> SUFFICES ASSUME Documented PROVE EmbeddedFindsNoMore
    OBVIOUS
  <2> USE DEF Documented
  <2>1. DOMAIN versions = 1 .. Len(versions)
    OBVIOUS
  <2>2. ASSUME NEW i \in DOMAIN versions, NEW j \in DOMAIN versions
        PROVE  EmbCompareSchemas(versions[i], versions[j])
                 \subseteq IF versions[i] /= versions[j]
                           THEN CompareSchemas(versions[i], versions[j]) ELSE {}
    <3>1. CASE versions[i] = versions[j]
      BY <3>1, NothingChanged
    <3>2. CASE versions[i] /= versions[j]
      BY <3>2, EmbeddedIsWeaker
    <3> QED
      BY <3>1, <3>2
  <2>3. \A i, j \in DOMAIN versions :
          CompareVersions(i, j) = IF versions[i] /= versions[j]
                                  THEN CompareSchemas(versions[i], versions[j]) ELSE {}
    BY <2>1 DEF CompareVersions
  <2>4. ASSUME NEW i \in {Len(versions) - 1} \cap DOMAIN versions
        PROVE  /\ i \in DOMAIN versions /\ i + 1 \in DOMAIN versions
               /\ CompareVersions(0, 0) = CompareVersions(i, i + 1)
    BY <2>1 DEF CompareVersions
  <2> QED
    BY <2>2, <2>3, <2>4 DEF EmbeddedFindsNoMore
<1> QED
  BY <1>1, <1>2, <1>3, PTL DEF Spec

-----------------------------------------------------------------------------
(***************************************************************************)
(* What a step without a report keeps.  First the path: the new document   *)
(* routes the request to the template that the old one wrote.              *)
(***************************************************************************)

\* A template is a sequence, and the mark for a variable is none of its segments.
LEMMA TemplatesAreSequences ==
    ASSUME NEW d, WellFormed(d), NEW t \in Templates(d)
    PROVE  t \in Seq(STRING \ {Hole})
BY DEF WellFormed, Templates

LEMMA Segments ==
    ASSUME NEW S, NEW t \in Seq(S)
    PROVE  /\ Len(t) \in Nat /\ DOMAIN t = 1 .. Len(t)
           /\ \A i \in DOMAIN t : t[i] \in S
OBVIOUS

LEMMA VariablesCounted ==
    ASSUME NEW t \in Seq(STRING \ {Hole})
    PROVE  Variables(t) \in Nat
<1> DEFINE places == {i \in DOMAIN t : t[i] \in Vars}
<1>1. DOMAIN t = 1 .. Len(t) /\ Len(t) \in Nat
  BY Segments
<1>2. IsFiniteSet(1 .. Len(t))
  <2>1. 1 \in Int /\ Len(t) \in Int
    BY <1>1
  <2> QED
    BY <2>1, FS_Interval
<1>3. IsFiniteSet(places)
  BY <1>1, <1>2, FS_Subset
<1> QED
  BY <1>3, FS_CardinalityType DEF Variables

\* Templates that differ in the names of their variables fit the same paths and have as many.
LEMMA SameShape ==
    ASSUME NEW t \in Seq(STRING \ {Hole}), NEW u \in Seq(STRING \ {Hole}), Normal(t) = Normal(u)
    PROVE  /\ Variables(t) = Variables(u)
           /\ \A path : Fits(t, path) => Fits(u, path)
<1>1. DOMAIN t = DOMAIN Normal(t) /\ DOMAIN u = DOMAIN Normal(u)
  BY DEF Normal
<1>2. /\ DOMAIN t = 1 .. Len(t) /\ Len(t) \in Nat
      /\ DOMAIN u = 1 .. Len(u) /\ Len(u) \in Nat
  BY Segments
<1>3. DOMAIN t = DOMAIN u /\ Len(t) = Len(u)
  <2>1. 1 .. Len(t) = 1 .. Len(u)
    BY <1>1, <1>2
  <2>2. ASSUME NEW a \in Nat, NEW b \in Nat, a < b PROVE 1 .. a /= 1 .. b
    <3>1. b \in 1 .. b /\ b \notin 1 .. a
      BY <2>2
    <3> QED
      BY <3>1
  <2> QED
    BY <1>1, <1>2, <2>1, <2>2
<1>4. ASSUME NEW i \in DOMAIN t
      PROVE  /\ t[i] \in Vars <=> u[i] \in Vars
             /\ t[i] \notin Vars => t[i] = u[i]
  <2>1. t[i] /= Hole /\ u[i] /= Hole
    <3>1. t[i] \in STRING \ {Hole} /\ u[i] \in STRING \ {Hole}
      BY <1>3, Segments
    <3> QED
      BY <3>1
  <2>2. Normal(t)[i] = IF t[i] \in Vars THEN Hole ELSE t[i]
    BY DEF Normal
  <2>3. Normal(u)[i] = IF u[i] \in Vars THEN Hole ELSE u[i]
    BY <1>3 DEF Normal
  <2> QED
    BY <2>1, <2>2, <2>3
<1>5. {i \in DOMAIN t : t[i] \in Vars} = {i \in DOMAIN u : u[i] \in Vars}
  BY <1>3, <1>4
<1> QED
  BY <1>3, <1>4, <1>5 DEF Variables, Fits

\* The route is a template of the document that fits and has the operation, and no more
\* variables than any other that fits.
LEMMA Routed ==
    ASSUME NEW d, WellFormed(d), NEW m, NEW path
    PROVE  /\ Route(d, m, path) /= NoPath =>
                /\ Route(d, m, path) \in Templates(d)
                /\ Fits(Route(d, m, path), path)
                /\ HasOperation(d, Route(d, m, path), m)
                /\ \A v \in Templates(d) :
                     Fits(v, path) => Variables(Route(d, m, path)) <= Variables(v)
           /\ \A t \in Templates(d) :
                (/\ Fits(t, path)
                 /\ HasOperation(d, t, m)
                 /\ \A v \in Templates(d) : Fits(v, path) => Variables(t) <= Variables(v))
                => Route(d, m, path) /= NoPath
<1> DEFINE fitting == {t \in Templates(d) : Fits(t, path)}
           best(t) == HasOperation(d, t, m) /\ \A v \in fitting : Variables(t) <= Variables(v)
<1>1. Route(d, m, path) = IF \E t \in fitting : best(t)
                          THEN CHOOSE t \in fitting : best(t) ELSE NoPath
  BY DEF Route
<1>2. (\E t \in fitting : best(t)) => Route(d, m, path) \in fitting /\ best(Route(d, m, path))
  BY <1>1
<1>3. NoPath \notin fitting
  BY DEF WellFormed
<1> QED
  BY <1>1, <1>2, <1>3

\* Find gives the one template of the document that has the shape.
LEMMA Found ==
    ASSUME NEW d, WellFormed(d), NEW t, NEW u \in Templates(d), Normal(u) = Normal(t)
    PROVE  Find(d, t) = u
<1>1. CASE t \in Templates(d)
  BY <1>1 DEF Find, WellFormed
<1>2. CASE t \notin Templates(d)
  <2>1. Find(d, t) = CHOOSE v \in Templates(d) : Normal(v) = Normal(t)
    BY <1>2 DEF Find
  <2>2. Find(d, t) \in Templates(d) /\ Normal(Find(d, t)) = Normal(t)
    BY <2>1
  <2> QED
    BY <2>2 DEF WellFormed
<1> QED
  BY <1>1, <1>2

LEMMA FoundIfAny ==
    ASSUME NEW d, WellFormed(d), NEW t, NEW m, HasOperation(d, Find(d, t), m)
    PROVE  Find(d, t) \in Templates(d) /\ Normal(Find(d, t)) = Normal(t)
<1>1. Find(d, t) \in Templates(d)
  <2>1. <<Find(d, t), m>> \in DOMAIN d.ops
    BY DEF HasOperation
  <2> QED
    BY <2>1 DEF Templates
<1>2. CASE t \in Templates(d)
  BY <1>2 DEF Find
<1>3. CASE t \notin Templates(d) /\ \E v \in Templates(d) : Normal(v) = Normal(t)
  <2>1. Find(d, t) = CHOOSE v \in Templates(d) : Normal(v) = Normal(t)
    BY <1>3 DEF Find
  <2> QED
    BY <1>1, <1>3, <2>1
<1>4. CASE t \notin Templates(d) /\ ~\E v \in Templates(d) : Normal(v) = Normal(t)
  BY <1>1, <1>4 DEF Find, WellFormed
<1> QED
  BY <1>1, <1>2, <1>3, <1>4

\* No change of an operation that a request names is reported.
Silent(old, new, m, paths) ==
    \A c \in CompareSchemas(old, new) : ~(c.method = m /\ c.path \in paths \ {NoPath})

\* A request the old document takes is routed, by the new one, to the same template up to
\* the names of its variables, and the engine compares the two operations.
LEMMA TargetKept ==
    ASSUME NEW old, NEW new, WellFormed(old), WellFormed(new), NEW req,
           Target(old, req) /= NoPath,
           ~Unnoticed(old, new, req),
           Silent(old, new, req.method, {Target(old, req), Target(new, req)})
    PROVE  /\ Target(new, req) /= NoPath
           /\ req.method \in Methods
           /\ <<Target(new, req), req.method>> \in Compared(old, new, {req.method})
           /\ Find(old, Target(new, req)) = Target(old, req)
<1> DEFINE m == req.method
           t == Target(old, req)
           u == Target(new, req)
           path == stripBasePath(new, req.path)
<1>1. old.servers = new.servers
  BY DEF Unnoticed
<1>2. stripBasePath(old, req.path) = path
  BY <1>1 DEF stripBasePath, Bases
<1>3. t = Route(old, m, path) /\ u = Route(new, m, path)
  BY <1>2 DEF Target
<1>4. t \in Templates(old) /\ Fits(t, path) /\ HasOperation(old, t, m)
  BY <1>3, Routed
<1>5. m \in Methods \cup {"HEAD", "OPTIONS"}
  BY DEF Unnoticed
<1>6. HasOperation(new, Find(new, t), m)
  <2> SUFFICES ASSUME ~HasOperation(new, Find(new, t), m) PROVE FALSE
    OBVIOUS
  <2>1. <<t, m>> \in DOMAIN old.ops /\ <<t, m>>[1] = t /\ <<t, m>>[2] = m
    BY <1>4 DEF HasOperation
  <2>2. Change("ENDPOINT_REMOVED", t, m, "") \in checkRemovedEndpoints(old, new)
    BY <1>5, <2>1 DEF checkRemovedEndpoints
  <2>3. Change("ENDPOINT_REMOVED", t, m, "") \in CompareSchemas(old, new)
    BY <2>2 DEF CompareSchemas
  <2>4. /\ Change("ENDPOINT_REMOVED", t, m, "").method = m
        /\ Change("ENDPOINT_REMOVED", t, m, "").path = t
    BY DEF Change
  <2> QED
    BY <2>3, <2>4 DEF Silent
<1> DEFINE f == Find(new, t)
<1>7. f \in Templates(new) /\ Normal(f) = Normal(t)
  BY <1>6, FoundIfAny
<1>8. /\ t \in Seq(STRING \ {Hole})
      /\ \A v \in Templates(new) : v \in Seq(STRING \ {Hole})
  BY <1>4, TemplatesAreSequences
<1>9. Fits(f, path) /\ Variables(f) = Variables(t)
  BY <1>4, <1>7, <1>8, SameShape
<1>10. \A v \in Templates(new) :
          Fits(v, path) /\ v /= f => Normal(v) /= Normal(t) /\ Variables(f) < Variables(v)
  <2> SUFFICES ASSUME NEW v \in Templates(new), Fits(v, path), v /= f
               PROVE  Normal(v) /= Normal(t) /\ Variables(f) < Variables(v)
    OBVIOUS
  <2>1. Normal(v) /= Normal(t)
    BY <1>7 DEF WellFormed
  <2>2. ~(Variables(v) <= Variables(t))
    BY <2>1 DEF Unnoticed, Overtaken
  <2>3. Variables(v) \in Nat /\ Variables(t) \in Nat
    BY <1>8, VariablesCounted
  <2> QED
    BY <1>9, <2>1, <2>2, <2>3
<1>11. u = f
  <2>1. Variables(f) \in Nat /\ \A v \in Templates(new) : Variables(v) \in Nat
    BY <1>7, <1>8, VariablesCounted
  <2>2. \A v \in Templates(new) : Fits(v, path) => Variables(f) <= Variables(v)
    BY <1>10, <2>1
  <2>3. u /= NoPath
    BY <1>3, <1>6, <1>7, <1>9, <2>2, Routed
  <2>4. u \in Templates(new) /\ Fits(u, path) /\ Variables(u) <= Variables(f)
    BY <1>3, <1>7, <1>9, <2>3, Routed
  <2> QED
    BY <1>10, <2>1, <2>4
<1>12. u /= NoPath
  BY <1>7, <1>11 DEF WellFormed
<1>13. m \in Methods
  BY <1>12 DEF Unnoticed
<1>14. Find(old, u) = t
  BY <1>4, <1>7, <1>11, Found
<1>15. <<u, m>> \in Compared(old, new, {m})
  <2>1. <<u, m>> \in DOMAIN new.ops /\ <<u, m>>[1] = u /\ <<u, m>>[2] = m
    BY <1>6, <1>11 DEF HasOperation
  <2> QED
    BY <1>4, <1>14, <2>1 DEF Compared
<1> QED
  BY <1>12, <1>13, <1>14, <1>15

\* Then what the request carries: a value that the old parameter took the new one takes.
LEMMA ParametersKept ==
    ASSUME NEW a, NEW b, NEW t, NEW u, NEW req,
           ~ParameterTightened(a, b, t, u),
           \A p \in b.params : ~Added(p, a, b),
           checkParameterTypeChanges(a, b) = {},
           checkParameterEnumChanges(a, b) = {},
           \A p \in Parameters(a) : ParameterOk(p, t, req)
    PROVE  \A p \in Parameters(b) : ParameterOk(p, u, req)
<1> SUFFICES ASSUME NEW p \in Parameters(b) PROVE ParameterOk(p, u, req)
  OBVIOUS
<1>1. PICK q \in Parameters(a) :
        /\ q.name = p.name /\ q.in = p.in
        /\ p.in = "path" => Places(p, u) = Places(q, t)
        /\ p = q \/ (/\ p \in b.params /\ q \in a.params
                     /\ ~(p.required /\ ~q.required)
                     /\ ~(q.enum = {} /\ p.enum /= {})
                     /\ ~(p.limit /= {} /\ p.limit /= q.limit))
  <2>1. ~Added(p, a, b)
    BY DEF Added
  <2> QED
    BY <2>1 DEF ParameterTightened
<1>2. ParameterOk(q, t, req)
  OBVIOUS
<1>3. Given(p, u, req) = Given(q, t, req)
  <2>1. CASE p.in = "path"
    <3>1. {i \in DOMAIN u : u[i] = p.name} = {i \in DOMAIN t : t[i] = q.name}
      BY <1>1, <2>1 DEF Places
    <3> QED
      BY <1>1, <2>1, <3>1 DEF Given
  <2>2. CASE p.in /= "path"
    BY <1>1, <2>2 DEF Given
  <2> QED
    BY <2>1, <2>2
<1>4. CASE p = q
  BY <1>2, <1>3, <1>4 DEF ParameterOk
<1>5. CASE p /= q
  <2>1. p \in b.params /\ q \in a.params
    BY <1>1, <1>5
  <2>2. q.type = Untyped \/ q.type = p.type \/ (q.type = "integer" /\ p.type = "number")
    <3>1. p.name \notin checkParameterTypeChanges(a, b)
      OBVIOUS
    <3>2. ~(q.type /= Untyped /\ TypeBreaks(q.type, p.type))
      BY <1>1, <2>1, <3>1 DEF checkParameterTypeChanges
    <3> QED
      BY <3>2 DEF TypeBreaks, isCompatibleTypeChange
  <2>3. p.enum /= {} => q.enum /= {} /\ q.enum \subseteq p.enum
    <3>1. p.name \notin checkParameterEnumChanges(a, b)
      OBVIOUS
    <3>2. ~(p.enum /= {} /\ ~(q.enum \subseteq p.enum))
      BY <1>1, <2>1, <3>1 DEF checkParameterEnumChanges
    <3> QED
      BY <1>1, <1>5, <3>2
  <2>4. ASSUME NEW v, ParsesAs(q.type, v) PROVE ParsesAs(p.type, v)
    BY <2>2, <2>4 DEF ParsesAs, Untyped
  <2> QED
    BY <1>1, <1>2, <1>3, <1>5, <2>3, <2>4 DEF ParameterOk, Within
<1> QED
  BY <1>4, <1>5

\* And an object that the old schema of a media type took.
LEMMA ObjectKept ==
    ASSUME NEW a, NEW b, NEW m, a /= NoBody, b /= NoBody,
           NEW mt \in DOMAIN a.content \cap DOMAIN b.content,
           ~SchemaTightened(a.content[mt], b.content[mt],
                            IF m \in {"POST", "PUT", "PATCH"} THEN RequiredFields(a) ELSE RequiredFields(b)),
           checkRequestBodyTypeChanges(a, b) = {},
           m \in {"POST", "PUT", "PATCH"} => compareRequestBodies(a, b) = {},
           NEW object, Conforms(a.content[mt], "request", object)
    PROVE  Conforms(b.content[mt], "request", object)
<1> DEFINE o == a.content[mt]
           n == b.content[mt]
<1>1. CASE n = NoSchema
  BY <1>1 DEF Conforms
<1>2. CASE n /= NoSchema
  <2>1. o /= NoSchema
    BY <1>2 DEF SchemaTightened
  <2>2. o \in Schemas(a) /\ n \in Schemas(b)
    BY <1>2, <2>1 DEF Schemas
  <2>3. /\ object /= NoBody
        /\ o.required \ o.readOnly \subseteq DOMAIN object
        /\ \A f \in DOMAIN object \cap DOMAIN o.props :
             HasType(o.props[f], object[f]) /\ Within(o.limits[f], object[f])
        /\ \A f \in DOMAIN object \cap o.readOnly : object[f] = "null"
    BY <2>1 DEF Conforms, Hidden
  <2>4. n.required \ n.readOnly \subseteq DOMAIN object
    <3> SUFFICES ASSUME NEW f \in n.required \ n.readOnly, f \notin o.required PROVE FALSE
      <4>1. \A f \in n.required \ n.readOnly : f \notin o.readOnly
        BY <1>2 DEF SchemaTightened
      <4> QED
        BY <2>3, <4>1
    <3>1. f \in RequiredFields(b)
      BY <2>2 DEF RequiredFields
    <3>2. f \notin IF m \in {"POST", "PUT", "PATCH"} THEN RequiredFields(a) ELSE RequiredFields(b)
      BY <1>2 DEF SchemaTightened
    <3>3. f \in compareRequestBodies(a, b) /\ m \in {"POST", "PUT", "PATCH"}
      BY <3>1, <3>2 DEF compareRequestBodies
    <3> QED
      BY <3>3
  <2>5. ASSUME NEW f \in DOMAIN object \cap DOMAIN n.props
        PROVE  HasType(n.props[f], object[f])
    <3>1. CASE n.props[f] = Untyped
      BY <3>1 DEF HasType
    <3>2. CASE n.props[f] /= Untyped
      <4>1. f \in DOMAIN o.props /\ o.props[f] /= Untyped
        BY <1>2, <3>2 DEF SchemaTightened
      <4>2. f \in UNION {DOMAIN s.props : s \in Schemas(b)}
        BY <2>2
      <4>3. ~TypeBreaks(o.props[f], n.props[f])
        BY <2>2, <3>2, <4>1, <4>2 DEF checkRequestBodyTypeChanges
      <4>4. o.props[f] = n.props[f] \/ (o.props[f] = "integer" /\ n.props[f] = "number")
        BY <4>3 DEF TypeBreaks, isCompatibleTypeChange
      <4>5. HasType(o.props[f], object[f])
        BY <2>3, <4>1
      <4> QED
        BY <4>4, <4>5 DEF HasType, Untyped
    <3> QED
      BY <3>1, <3>2
  <2>6. ASSUME NEW f \in DOMAIN object \cap DOMAIN n.props
        PROVE  Within(n.limits[f], object[f])
    <3>1. CASE n.limits[f] = {}
      BY <3>1 DEF Within
    <3>2. CASE n.limits[f] /= {}
      <4>1. f \in DOMAIN o.props /\ n.limits[f] = o.limits[f]
        BY <1>2, <3>2 DEF SchemaTightened
      <4> QED
        BY <2>3, <4>1
    <3> QED
      BY <3>1, <3>2
  <2>7. \A f \in DOMAIN object \cap n.readOnly : object[f] = "null"
    <3>1. n.readOnly \subseteq o.readOnly
      BY <1>2 DEF SchemaTightened
    <3> QED
      BY <2>3, <3>1
  <2>8. Hidden(n, "request") = n.readOnly
    BY DEF Hidden
  <2> HIDE DEF n, o
  <2>9. Conforms(n, "request", object)
    BY <2>3, <2>4, <2>5, <2>6, <2>7, <2>8 DEF Conforms
  <2> QED
    BY <2>9 DEF n
<1> QED
  BY <1>1, <1>2

LEMMA BodyKept ==
    ASSUME NEW a, NEW b, NEW m, NEW req,
           ~BodyTightened(a.body, b.body, m),
           checkRequestBodyTypeChanges(a.body, b.body) = {},
           m \in {"POST", "PUT", "PATCH"} => compareRequestBodies(a.body, b.body) = {},
           BodyOk(a, req)
    PROVE  BodyOk(b, req)
<1>1. CASE b.body = NoBody
  BY <1>1 DEF BodyOk
<1>2. CASE b.body /= NoBody
  <2>1. /\ a.body /= NoBody
        /\ ~(b.body.required /\ ~a.body.required)
        /\ DOMAIN a.body.content \subseteq DOMAIN b.body.content
        /\ ~(DOMAIN a.body.content = {} /\ DOMAIN b.body.content /= {})
        /\ \A mt \in DOMAIN b.body.content \cap DOMAIN a.body.content :
             ~SchemaTightened(a.body.content[mt], b.body.content[mt],
                 IF m \in {"POST", "PUT", "PATCH"} THEN RequiredFields(a.body)
                 ELSE RequiredFields(b.body))
    BY <1>2 DEF BodyTightened
  <2>2. CASE req.body = NoBody
    BY <2>1, <2>2 DEF BodyOk
  <2>3. CASE req.body /= NoBody /\ DOMAIN a.body.content = {}
    BY <2>1, <2>3 DEF BodyOk
  <2>4. CASE req.body /= NoBody /\ DOMAIN a.body.content /= {}
    <3>1. /\ req.media \in DOMAIN a.body.content
          /\ Conforms(a.body.content[req.media], "request", req.body)
      BY <2>1, <2>4 DEF BodyOk
    <3>2. req.media \in DOMAIN a.body.content \cap DOMAIN b.body.content
      BY <2>1, <3>1
    <3>3. Conforms(b.body.content[req.media], "request", req.body)
      BY <1>2, <2>1, <3>1, <3>2, ObjectKept
    <3> QED
      BY <2>4, <3>2, <3>3 DEF BodyOk
  <2> QED
    BY <2>2, <2>3, <2>4
<1> QED
  BY <1>1, <1>2

\* What the comparison of two operations finds it reports under the new one's path.
LEMMA Reported ==
    ASSUME NEW old, NEW new, NEW u, NEW m \in Methods,
           <<u, m>> \in Compared(old, new, {m}),
           \A kind, f : Change(kind, u, m, f) \notin CompareSchemas(old, new)
    PROVE  LET a == OldOp(old, <<u, m>>)
               b == new.ops[<<u, m>>]
           IN  /\ \A p \in b.params : ~Added(p, a, b)
               /\ checkParameterTypeChanges(a, b) = {}
               /\ checkParameterEnumChanges(a, b) = {}
               /\ checkRequestBodyTypeChanges(a.body, b.body) = {}
               /\ m \in {"POST", "PUT", "PATCH"} => compareRequestBodies(a.body, b.body) = {}
<1> DEFINE key == <<u, m>>
           a == OldOp(old, key)
           b == new.ops[key]
<1>1. key \in Compared(old, new, Methods) /\ key[1] = u /\ key[2] = m
  BY DEF Compared
<1>2. m \in {"POST", "PUT", "PATCH"} => key \in Compared(old, new, {"POST", "PUT", "PATCH"})
  BY DEF Compared
<1>3. \A kind, f : Change(kind, u, m, f) \notin CompareSchemas(old, new)
  OBVIOUS
<1>4. ASSUME NEW f \in checkParameterTypeChanges(a, b) \cup checkRequestBodyTypeChanges(a.body, b.body)
      PROVE  FALSE
  <2>1. Change("TYPE_CHANGED", u, m, f) \in checkTypeChanges(old, new)
    BY <1>1 DEF checkTypeChanges
  <2> QED
    BY <1>3, <2>1 DEF CompareSchemas
<1>5. ASSUME NEW f \in checkParameterEnumChanges(a, b) PROVE FALSE
  <2>1. Change("ENUM_VALUE_REMOVED", u, m, f) \in checkRemovedEnumValues(old, new)
    BY <1>1 DEF checkRemovedEnumValues
  <2> QED
    BY <1>3, <2>1 DEF CompareSchemas
<1>6. ASSUME m \in {"POST", "PUT", "PATCH"}, NEW f \in compareRequestBodies(a.body, b.body)
      PROVE  FALSE
  <2>1. Change("REQUIRED_FIELD_ADDED", u, m, f) \in checkAddedRequiredBodyFields(old, new)
    BY <1>1, <1>2, <1>6 DEF checkAddedRequiredBodyFields
  <2> QED
    BY <1>3, <2>1 DEF CompareSchemas
<1>7. ASSUME NEW p \in b.params, Added(p, a, b) PROVE FALSE
  <2>1. Change("REQUIRED_PARAMETER_ADDED", u, m, p.name) \in checkAddedRequiredParameters(old, new)
    BY <1>1, <1>7 DEF checkAddedRequiredParameters, Added
  <2> QED
    BY <1>3, <2>1 DEF CompareSchemas
<1> QED
  BY <1>4, <1>5, <1>6, <1>7

\* Whatever the documents and the request: what the engine does not report, and looks at,
\* keeps the request.
THEOREM SilenceKeepsRequest ==
    ASSUME NEW old, NEW new, WellFormed(old), WellFormed(new), NEW req,
           Silent(old, new, req.method, {Target(old, req), Target(new, req)}),
           Accepts(old, req)
    PROVE  Accepts(new, req) \/ Unnoticed(old, new, req)
<1> SUFFICES ASSUME ~Unnoticed(old, new, req) PROVE Accepts(new, req)
  OBVIOUS
<1> DEFINE m == req.method
           t == Target(old, req)
           u == Target(new, req)
           a == old.ops[<<t, m>>]
           b == new.ops[<<u, m>>]
           sent == Stripped(new, req)
<1>1. /\ t /= NoPath
      /\ \A p \in Parameters(a) : ParameterOk(p, t, Stripped(old, req))
      /\ BodyOk(a, Stripped(old, req))
  BY DEF Accepts, RequestOk
<1>2. /\ u /= NoPath /\ m \in Methods
      /\ <<u, m>> \in Compared(old, new, {m})
      /\ Find(old, u) = t
  BY <1>1, TargetKept
<1>3. OldOp(old, <<u, m>>) = a
  BY <1>2 DEF OldOp
<1>4. Stripped(old, req) = sent
  BY DEF Stripped, stripBasePath, Bases, Unnoticed
<1>5. /\ \A p \in b.params : ~Added(p, a, b)
      /\ checkParameterTypeChanges(a, b) = {}
      /\ checkParameterEnumChanges(a, b) = {}
      /\ checkRequestBodyTypeChanges(a.body, b.body) = {}
      /\ m \in {"POST", "PUT", "PATCH"} => compareRequestBodies(a.body, b.body) = {}
  <2>1. \A kind, f : Change(kind, u, m, f) \notin CompareSchemas(old, new)
    BY <1>2 DEF Silent, Change
  <2> QED
    BY <1>2, <1>3, <2>1, Reported
<1>6. ~ParameterTightened(a, b, t, u) /\ ~BodyTightened(a.body, b.body, m)
  BY <1>2 DEF Unnoticed
<1>7. \A p \in Parameters(b) : ParameterOk(p, u, sent)
  BY <1>1, <1>4, <1>5, <1>6, ParametersKept
<1>8. BodyOk(b, sent)
  BY <1>1, <1>4, <1>5, <1>6, BodyKept
<1> QED
  BY <1>2, <1>7, <1>8 DEF Accepts, RequestOk

-----------------------------------------------------------------------------
(***************************************************************************)
(* Versions: what was checked, and what the consumer is registered with.   *)
(***************************************************************************)

\* A version marked clean was compared with the one before.
Checked ==
    /\ Documented
    /\ versions /= << >>
    /\ clean \in Seq(BOOLEAN) /\ Len(clean) = Len(versions)
    /\ \A k \in DOMAIN versions :
         k > 1 /\ clean[k] => CompareSchemas(versions[k - 1], versions[k]) = {}

\* The consumer is registered with a version there is.
Registered == usage /= None => usage.version \in DOMAIN versions

\* Registering a document adds it at the end.
LEMMA Registering ==
    ASSUME Checked, NEW d \in Documents, NEW check \in BOOLEAN, RegisterSchema(d, check)
    PROVE  LET n == Len(versions)
           IN  /\ n \in Nat \ {0}
               /\ DOMAIN versions = 1 .. n /\ DOMAIN versions' = 1 .. n + 1
               /\ Len(versions') = n + 1
               /\ \A k \in 1 .. n : versions'[k] = versions[k] /\ clean'[k] = clean[k]
               /\ versions'[n + 1] = d
               /\ clean'[n + 1] = (check /\ CompareSchemas(versions[n], d) = {})
<1>1. /\ versions' = Append(versions, d)
      /\ clean' = Append(clean, check /\ CompareSchemas(versions[Len(versions)], d) = {})
  BY DEF RegisterSchema, Last
<1>2. versions \in Seq({First1} \cup Documents) /\ versions /= << >>
      /\ clean \in Seq(BOOLEAN) /\ Len(clean) = Len(versions)
  BY DEF Checked, Documented
<1> DEFINE silent == check /\ CompareSchemas(versions[Len(versions)], d) = {}
<1>3. silent \in BOOLEAN
  OBVIOUS
<1> HIDE DEF silent
<1>4. clean' = Append(clean, silent)
  BY <1>1 DEF silent
<1>5. /\ Len(versions) \in Nat \ {0}
      /\ DOMAIN versions = 1 .. Len(versions) /\ DOMAIN versions' = 1 .. Len(versions) + 1
      /\ Len(versions') = Len(versions) + 1
      /\ \A k \in 1 .. Len(versions) : versions'[k] = versions[k]
      /\ versions'[Len(versions) + 1] = d
  BY <1>1, <1>2
<1>6. /\ \A k \in 1 .. Len(versions) : clean'[k] = clean[k]
      /\ clean'[Len(versions) + 1] = silent
  BY <1>2, <1>3, <1>4, <1>5
<1> QED
  BY <1>5, <1>6 DEF silent

LEMMA CheckedInit == Init => Checked
<1> SUFFICES ASSUME Init PROVE Checked
  OBVIOUS
<1>1. versions = <<First1>> /\ clean = <<FALSE>>
  BY DEF Init
<1>2. clean \in Seq(BOOLEAN) /\ Len(clean) = 1 /\ Len(versions) = 1 /\ versions /= << >>
  BY <1>1
<1>3. Documented
  BY <1>1 DEF Documented
<1>4. DOMAIN versions = {1}
  BY <1>1
<1> QED
  BY <1>2, <1>3, <1>4 DEF Checked

LEMMA CheckedStep == Checked /\ [Next]_vars => Checked'
<1> SUFFICES ASSUME Checked, [Next]_vars PROVE Checked'
  OBVIOUS
<1>1. ASSUME NEW d \in Documents, NEW check \in BOOLEAN, RegisterSchema(d, check) PROVE Checked'
  <2> DEFINE n == Len(versions)
  <2>1. Documented'
    BY <1>1 DEF Checked, Documented, RegisterSchema
  <2>2. versions' /= << >>
    BY <1>1 DEF Checked, Documented, RegisterSchema
  <2>3. clean' \in Seq(BOOLEAN) /\ Len(clean') = n + 1
    <3> DEFINE silent == check /\ CompareSchemas(Last(versions), d) = {}
    <3>1. silent \in BOOLEAN
      OBVIOUS
    <3> HIDE DEF silent
    <3>2. clean' = Append(clean, silent)
      BY <1>1 DEF RegisterSchema, silent
    <3>3. clean \in Seq(BOOLEAN) /\ Len(clean) = n
      BY DEF Checked
    <3> QED
      BY <3>1, <3>2, <3>3
  <2>4. Len(clean') = Len(versions')
    BY <1>1, <2>3, Registering
  <2>5. ASSUME NEW k \in DOMAIN versions', k > 1, clean'[k]
        PROVE  CompareSchemas(versions'[k - 1], versions'[k]) = {}
    <3>1. CASE k = n + 1
      <4>1. n \in 1 .. n /\ k - 1 = n
        BY <1>1, <3>1, Registering
      <4>2. versions'[k - 1] = versions[n] /\ versions'[k] = d
        BY <1>1, <3>1, <4>1, Registering
      <4>3. clean'[k] = (check /\ CompareSchemas(versions[n], d) = {})
        BY <1>1, <3>1, Registering
      <4> QED
        BY <2>5, <4>2, <4>3
    <3>2. CASE k /= n + 1
      <4>1. n \in Nat /\ k \in 1 .. n /\ k - 1 \in 1 .. n /\ k \in DOMAIN versions
        BY <1>1, <2>5, <3>2, Registering
      <4>2. versions'[k - 1] = versions[k - 1] /\ versions'[k] = versions[k] /\ clean[k]
        BY <1>1, <2>5, <4>1, Registering
      <4> QED
        BY <2>5, <4>1, <4>2 DEF Checked
    <3> QED
      BY <3>1, <3>2
  <2> QED
    BY <2>1, <2>2, <2>3, <2>4, <2>5 DEF Checked
<1>2. ASSUME UNCHANGED <<versions, clean>> PROVE Checked'
  BY <1>2 DEF Checked, Documented
<1> QED
  BY <1>1, <1>2 DEF Next, vars, RegisterFromInteractions, RegisterByHand, RegisterConsumer

\* Nothing reported at all is silence for every request.
LEMMA NothingReported ==
    ASSUME NEW old \in {First1} \cup Documents, NEW new \in {First1} \cup Documents,
           CompareSchemas(old, new) = {}, NEW req, Accepts(old, req)
    PROVE  Accepts(new, req) \/ Unnoticed(old, new, req)
<1>1. WellFormed(old) /\ WellFormed(new)
  BY DocumentAssumption
<1>2. Silent(old, new, req.method, {Target(old, req), Target(new, req)})
  BY DEF Silent
<1> QED
  BY <1>1, <1>2, SilenceKeepsRequest

\* A version registered with the check and without a report keeps every request that the
\* versions before it kept.
THEOREM RequestsKept == Spec => []CheckedChainKeepsRequests
<1> DEFINE Inv == Checked /\ CheckedChainKeepsRequests
<1>1. Init => Inv
  <2> SUFFICES ASSUME Init PROVE CheckedChainKeepsRequests
    BY CheckedInit
  <2>1. DOMAIN versions = {1}
    BY DEF Init
  <2> QED
    BY <2>1 DEF CheckedChainKeepsRequests
<1>2. Inv /\ [Next]_vars => Inv'
  <2> SUFFICES ASSUME Inv, [Next]_vars PROVE CheckedChainKeepsRequests'
    BY CheckedStep
  <2>1. ASSUME NEW d \in Documents, NEW check \in BOOLEAN, RegisterSchema(d, check)
        PROVE  CheckedChainKeepsRequests'
    <3> DEFINE n == Len(versions)
               broken(k, req) == /\ Accepts(versions'[k - 1], req)
                                 /\ Unnoticed(versions'[k - 1], versions'[k], req)
    <3>1. /\ n \in Nat \ {0} /\ DOMAIN versions = 1 .. n /\ DOMAIN versions' = 1 .. n + 1
          /\ \A k \in 1 .. n : versions'[k] = versions[k] /\ clean'[k] = clean[k]
      BY <2>1, Registering
    <3>2. Checked'
      BY CheckedStep
    <3> SUFFICES ASSUME NEW i \in DOMAIN versions', NEW j \in DOMAIN versions',
                        NEW req \in Requests, i < j,
                        \A k \in i + 1 .. j : clean'[k],
                        Accepts(versions'[i], req), ~Accepts(versions'[j], req)
                 PROVE  \E k \in i + 1 .. j : broken(k, req)
      BY DEF CheckedChainKeepsRequests
    <3>3. CASE j \in 1 .. n
      <4>1. i \in 1 .. n /\ \A k \in i + 1 .. j : k \in 1 .. n /\ k - 1 \in 1 .. n
        BY <3>1, <3>3
      <4>2. PICK k \in i + 1 .. j :
              Accepts(versions[k - 1], req) /\ Unnoticed(versions[k - 1], versions[k], req)
        BY <3>1, <3>3, <4>1 DEF CheckedChainKeepsRequests
      <4> QED
        BY <3>1, <4>1, <4>2
    <3>4. CASE j = n + 1
      <4>1. CASE Accepts(versions'[n], req)
        <5>1. j \in i + 1 .. j /\ j > 1 /\ j - 1 = n /\ clean'[j]
          BY <3>1, <3>4
        <5>2. CompareSchemas(versions'[n], versions'[j]) = {}
          BY <3>2, <5>1 DEF Checked
        <5>3. versions'[n] \in {First1} \cup Documents /\ versions'[j] \in {First1} \cup Documents
          BY <3>1, <3>2, <3>4 DEF Checked, Documented
        <5>4. Unnoticed(versions'[n], versions'[j], req)
          BY <4>1, <5>2, <5>3, NothingReported
        <5> QED
          BY <4>1, <5>1, <5>4
      <4>2. CASE ~Accepts(versions'[n], req)
        <5>1. i \in 1 .. n /\ n \in 1 .. n /\ i /= n
          BY <3>1, <3>4, <4>2
        <5>2. \A k \in i + 1 .. n : k \in 1 .. n /\ k - 1 \in 1 .. n /\ k \in i + 1 .. j
          BY <3>1, <3>4, <5>1
        <5>3. PICK k \in i + 1 .. n :
                Accepts(versions[k - 1], req) /\ Unnoticed(versions[k - 1], versions[k], req)
          BY <3>1, <4>2, <5>1, <5>2 DEF CheckedChainKeepsRequests
        <5> QED
          BY <3>1, <5>2, <5>3
      <4> QED
        BY <4>1, <4>2
    <3> QED
      BY <3>1, <3>3, <3>4
  <2>2. ASSUME UNCHANGED <<versions, clean>> PROVE CheckedChainKeepsRequests'
    BY <2>2 DEF CheckedChainKeepsRequests
  <2> QED
    BY <2>1, <2>2 DEF Next, vars, RegisterFromInteractions, RegisterByHand, RegisterConsumer
<1> QED
  BY <1>1, <1>2, PTL DEF Spec

\* A version found safe for the consumer, with the operation named, is silent about it.
LEMMA FoundSafe ==
    ASSUME Checked, usage /= None, usage.version \in DOMAIN versions,
           NEW v \in DOMAIN versions, CanIDeploy(v), NEW req,
           Accepts(versions[usage.version], req), ~Accepts(versions[v], req),
           Endpoint(req.method, Target(versions[usage.version], req)) \in usage.endpoints,
           Target(versions[v], req) \in {NoPath, Target(versions[usage.version], req)}
    PROVE  Unnoticed(versions[usage.version], versions[v], req)
<1> DEFINE old == versions[usage.version]
           new == versions[v]
           t == Target(old, req)
           e == Endpoint(req.method, t)
<1>1. old \in {First1} \cup Documents /\ new \in {First1} \cup Documents
  BY DEF Checked, Documented
<1>2. WellFormed(old) /\ WellFormed(new)
  BY <1>1, DocumentAssumption
<1>3. e.path = t /\ e.method = req.method /\ e \in usage.endpoints
  BY DEF Endpoint
<1>4. filterChangesForConsumer(CompareSchemas(old, new), usage.endpoints) = {}
  BY DEF CanIDeploy
<1>5. \A c \in CompareSchemas(old, new) : ~(c.path = t /\ c.method = req.method)
  BY <1>3, <1>4 DEF filterChangesForConsumer
<1>6. Silent(old, new, req.method, {t, Target(new, req)})
  BY <1>5 DEF Silent
<1> QED
  BY <1>2, <1>6, SilenceKeepsRequest

\* CanIDeploy's verdict keeps what the consumer's tests sent.
THEOREM ConsumersKept == Spec => []SafeDeploysKeepConsumers
<1> DEFINE Inv == Checked /\ Registered
<1>1. Init => Inv
  BY CheckedInit DEF Init, Registered
<1>2. Inv /\ [Next]_vars => Inv'
  <2> SUFFICES ASSUME Inv, [Next]_vars PROVE Registered'
    BY CheckedStep
  <2>1. ASSUME NEW d \in Documents, NEW check \in BOOLEAN, RegisterSchema(d, check)
        PROVE  Registered'
    <3>1. DOMAIN versions \subseteq DOMAIN versions'
      BY <2>1, Registering
    <3> QED
      BY <2>1, <3>1 DEF Registered, RegisterSchema
  <2>2. ASSUME NEW v \in DOMAIN versions, NEW tests, NEW endpoints,
               RegisterConsumer(v, tests, endpoints)
        PROVE  Registered'
    BY <2>2 DEF RegisterConsumer, Registered
  <2>3. ASSUME UNCHANGED vars PROVE Registered'
    BY <2>3 DEF vars, Registered
  <2> QED
    BY <2>1, <2>2, <2>3 DEF Next, RegisterFromInteractions, RegisterByHand
<1>3. Inv => SafeDeploysKeepConsumers
  BY FoundSafe DEF Registered, SafeDeploysKeepConsumers
<1> QED
  BY <1>1, <1>2, <1>3, PTL DEF Spec

-----------------------------------------------------------------------------
(***************************************************************************)
(* Two checks and one.                                                     *)
(***************************************************************************)

\* A way of a type to another that is no break goes on from a known type to a known one.
LEMMA NoBreaks ==
    ASSUME NEW r, NEW s, NEW t, r /= Untyped,
           ~TypeBreaks(r, s), s /= Untyped => ~TypeBreaks(s, t)
    PROVE  ~TypeBreaks(r, t)
BY DEF TypeBreaks, isCompatibleTypeChange, Untyped

\* Of the operations of three versions, compared one after the other.
LEMMA ParametersCompose ==
    ASSUME NEW x, NEW y, NEW z, ~PartComesBack(x, y, z),
           checkParameterTypeChanges(x, y) = {}, checkParameterTypeChanges(y, z) = {},
           checkParameterEnumChanges(x, y) = {}, checkParameterEnumChanges(y, z) = {}
    PROVE  /\ checkParameterTypeChanges(x, z) = {}
           /\ checkParameterEnumChanges(x, z) = {}
<1>1. \A o \in x.params, p \in y.params :
         o.name = p.name /\ o.type /= Untyped => ~TypeBreaks(o.type, p.type)
  BY DEF checkParameterTypeChanges
<1>2. \A o \in y.params, p \in z.params :
         o.name = p.name /\ o.type /= Untyped => ~TypeBreaks(o.type, p.type)
  BY DEF checkParameterTypeChanges
<1>3. ASSUME NEW o \in x.params, NEW q \in z.params, o.name = q.name, o.type /= Untyped
      PROVE  ~TypeBreaks(o.type, q.type)
  <2>1. o.name \in Named(x.params) \cap Named(z.params)
    BY <1>3 DEF Named
  <2>2. o.name \in Named(y.params)
    BY <2>1 DEF PartComesBack, Back
  <2>3. PICK p \in y.params : p.name = o.name
    BY <2>2 DEF Named
  <2> QED
    BY <1>1, <1>2, <1>3, <2>3, NoBreaks
<1>4. \A o \in x.params, p \in y.params :
         o.name = p.name /\ p.enum /= {} => o.enum \subseteq p.enum
  BY DEF checkParameterEnumChanges
<1>5. \A o \in y.params, p \in z.params :
         o.name = p.name /\ p.enum /= {} => o.enum \subseteq p.enum
  BY DEF checkParameterEnumChanges
<1>6. ASSUME NEW o \in x.params, NEW q \in z.params, o.name = q.name, q.enum /= {}
      PROVE  o.enum \subseteq q.enum
  <2>1. CASE o.enum = {}
    BY <2>1
  <2>2. CASE o.enum /= {}
    <3>1. o.name \in Limited(x.params) \cap Limited(z.params)
      BY <1>6, <2>2 DEF Limited
    <3>2. o.name \in Limited(y.params)
      BY <3>1 DEF PartComesBack, Back
    <3>3. PICK p \in y.params : p.name = o.name /\ p.enum /= {}
      BY <3>2 DEF Limited
    <3> QED
      BY <1>4, <1>5, <1>6, <3>3
  <2> QED
    BY <2>1, <2>2
<1> QED
  BY <1>3, <1>6 DEF checkParameterTypeChanges, checkParameterEnumChanges

LEMMA BodiesCompose ==
    ASSUME NEW x, NEW y, NEW z, ~PartComesBack(x, y, z),
           checkRequestBodyTypeChanges(x.body, y.body) = {},
           checkRequestBodyTypeChanges(y.body, z.body) = {}
    PROVE  checkRequestBodyTypeChanges(x.body, z.body) = {}
<1>1. ASSUME NEW a, NEW b, checkRequestBodyTypeChanges(a, b) = {},
             NEW o \in Schemas(a), NEW n \in Schemas(b),
             NEW f \in DOMAIN o.props \cap DOMAIN n.props,
             o.props[f] /= Untyped, n.props[f] /= Untyped
      PROVE  ~TypeBreaks(o.props[f], n.props[f])
  <2>1. f \in UNION {DOMAIN s.props : s \in Schemas(b)}
    OBVIOUS
  <2> QED
    BY <1>1, <2>1 DEF checkRequestBodyTypeChanges
<1>2. ASSUME NEW o \in Schemas(x.body), NEW n \in Schemas(z.body),
             NEW f \in DOMAIN o.props \cap DOMAIN n.props,
             o.props[f] /= Untyped, n.props[f] /= Untyped
      PROVE  ~TypeBreaks(o.props[f], n.props[f])
  <2>1. f \in TypedFields(Schemas(x.body)) \cap TypedFields(Schemas(z.body))
    BY <1>2 DEF TypedFields
  <2>2. f \in TypedFields(Schemas(y.body))
    BY <2>1 DEF PartComesBack, Back
  <2>3. PICK s \in Schemas(y.body) : f \in DOMAIN s.props /\ s.props[f] /= Untyped
    BY <2>2 DEF TypedFields
  <2>4. ~TypeBreaks(o.props[f], s.props[f]) /\ ~TypeBreaks(s.props[f], n.props[f])
    BY <1>1, <1>2, <2>3
  <2> QED
    BY <1>2, <2>4, NoBreaks
<1> QED
  BY <1>2 DEF checkRequestBodyTypeChanges

\* No response is reported: no code is gone, and no property of a media type.
LEMMA NoResponseReported ==
    ASSUME NEW a, NEW b
    PROVE  compareResponses(a, b) = {} <=>
             /\ DOMAIN a \subseteq DOMAIN b
             /\ \A c \in DOMAIN a \cap DOMAIN b : \A mt \in DOMAIN a[c] \cap DOMAIN b[c] :
                  compareResponseSchemas(a[c][mt], b[c][mt]) = {}
<1> DEFINE nameless == ""
<1>1. compareResponses(a, b) =
        {nameless : c \in DOMAIN a \ DOMAIN b} \cup
        UNION {UNION {compareResponseSchemas(a[c][mt], b[c][mt]) :
                         mt \in DOMAIN a[c] \cap DOMAIN b[c]} :
               c \in DOMAIN a \cap DOMAIN b}
  BY DEF compareResponses
<1> HIDE DEF nameless
<1> QED
  BY <1>1

LEMMA AnswersCompose ==
    ASSUME NEW x, NEW y, NEW z, ~PartComesBack(x, y, z),
           compareResponses(x.responses, y.responses) = {},
           compareResponses(y.responses, z.responses) = {}
    PROVE  compareResponses(x.responses, z.responses) = {}
<1>1. ASSUME NEW a, NEW b, compareResponses(a, b) = {}
      PROVE  /\ DOMAIN a \subseteq DOMAIN b
             /\ \A c \in DOMAIN a : \A mt \in DOMAIN a[c] \cap DOMAIN b[c] :
                  compareResponseSchemas(a[c][mt], b[c][mt]) = {}
  BY <1>1, NoResponseReported
<1>2. ASSUME NEW c \in DOMAIN x.responses,
             NEW mt \in DOMAIN x.responses[c] \cap DOMAIN z.responses[c],
             NEW f \in compareResponseSchemas(x.responses[c][mt], z.responses[c][mt])
      PROVE  FALSE
  <2> DEFINE r == x.responses[c]
             s == y.responses[c]
             t == z.responses[c]
  <2>1. c \in DOMAIN x.responses \cap DOMAIN y.responses \cap DOMAIN z.responses
    BY <1>1
  <2>2. r[mt] /= NoSchema /\ t[mt] /= NoSchema /\ f \in DOMAIN r[mt].props
    BY DEF compareResponseSchemas
  <2>3. mt \in Described(r) \cap Described(t)
    BY <2>2 DEF Described
  <2>4. mt \in Described(s)
    BY <2>1, <2>3 DEF PartComesBack, Back
  <2>5. mt \in DOMAIN s /\ s[mt] /= NoSchema
    BY <2>4 DEF Described
  <2>6. compareResponseSchemas(r[mt], s[mt]) = {} /\ compareResponseSchemas(s[mt], t[mt]) = {}
    BY <1>1, <2>1, <2>5
  <2>7. f \in DOMAIN s[mt].props
        /\ (Untyped \in {r[mt].props[f], s[mt].props[f]} \/ r[mt].props[f] = s[mt].props[f])
    BY <2>2, <2>5, <2>6 DEF compareResponseSchemas
  <2>8. f \in DOMAIN t[mt].props
        /\ (Untyped \in {s[mt].props[f], t[mt].props[f]} \/ s[mt].props[f] = t[mt].props[f])
    BY <2>2, <2>5, <2>6, <2>7 DEF compareResponseSchemas
  <2>9. /\ r[mt].props[f] /= Untyped /\ t[mt].props[f] /= Untyped
        /\ r[mt].props[f] /= t[mt].props[f]
    BY <2>8 DEF compareResponseSchemas
  <2>10. f \in TypedFields({r[mt]}) \cap TypedFields({t[mt]})
    BY <2>2, <2>8, <2>9 DEF TypedFields
  <2>11. f \in TypedFields({s[mt]})
    BY <2>1, <2>3, <2>4, <2>10 DEF PartComesBack, Back
  <2>12. s[mt].props[f] /= Untyped
    BY <2>11 DEF TypedFields
  <2> QED
    BY <2>7, <2>8, <2>9, <2>12
<1>3. DOMAIN x.responses \subseteq DOMAIN z.responses
  BY <1>1
<1> QED
  BY <1>2, <1>3, NoResponseReported

\* What the engine compares of two operations is silent.
Quiet(x, y, m) ==
    /\ \A p \in y.params : ~Added(p, x, y)
    /\ checkParameterTypeChanges(x, y) = {}
    /\ checkParameterEnumChanges(x, y) = {}
    /\ checkRequestBodyTypeChanges(x.body, y.body) = {}
    /\ m \in {"POST", "PUT", "PATCH"} => compareRequestBodies(x.body, y.body) = {}
    /\ compareResponses(x.responses, y.responses) = {}

\* An operation that both documents have, and what compares it finds nothing of.
LEMMA Unreported ==
    ASSUME NEW old, NEW new, CompareSchemas(old, new) = {},
           NEW u, NEW m \in Methods, <<u, m>> \in Compared(old, new, {m})
    PROVE  Quiet(OldOp(old, <<u, m>>), new.ops[<<u, m>>], m)
<1> DEFINE key == <<u, m>>
<1>1. key \in Compared(old, new, Methods) /\ key[1] = u /\ key[2] = m
  BY DEF Compared
<1>2. ASSUME NEW f \in compareResponses(OldOp(old, key).responses, new.ops[key].responses)
      PROVE  FALSE
  <2>1. Change("RESPONSE_SCHEMA_CHANGED", u, m, f) \in checkResponseChanges(old, new)
    BY <1>1 DEF checkResponseChanges
  <2> QED
    BY <2>1 DEF CompareSchemas
<1>3. \A kind, f : Change(kind, u, m, f) \notin CompareSchemas(old, new)
  OBVIOUS
<1> QED
  BY <1>2, <1>3, Reported DEF Quiet

\* Nor is an operation that the new document lacks, of the methods looked at.
LEMMA NoneRemoved ==
    ASSUME NEW old, NEW new, CompareSchemas(old, new) = {}, NEW k \in DOMAIN old.ops,
           k[2] \in Methods \cup {"HEAD", "OPTIONS"}
    PROVE  HasOperation(new, Find(new, k[1]), k[2])
<1> SUFFICES ASSUME ~HasOperation(new, Find(new, k[1]), k[2]) PROVE FALSE
  OBVIOUS
<1>1. Change("ENDPOINT_REMOVED", k[1], k[2], "") \in checkRemovedEndpoints(old, new)
  BY DEF checkRemovedEndpoints
<1> QED
  BY <1>1 DEF CompareSchemas

\* An operation of the first and the last document is one of the document between, under
\* templates of the same shape.
LEMMA Between ==
    ASSUME NEW a, NEW b, NEW c, WellFormed(a), WellFormed(b), WellFormed(c),
           CompareSchemas(a, b) = {}, NEW u, NEW m \in Methods,
           <<u, m>> \in Compared(a, c, {m})
    PROVE  LET t == Find(a, u)
               s == Find(b, t)
           IN  /\ <<t, m>> \in DOMAIN a.ops /\ t \in Templates(a)
               /\ <<s, m>> \in Compared(a, b, {m}) /\ s \in Templates(b)
               /\ <<u, m>> \in Compared(b, c, {m})
               /\ Find(a, s) = t /\ Find(b, u) = s /\ Find(c, t) = u
<1> DEFINE t == Find(a, u)
           s == Find(b, t)
<1>1. <<u, m>> \in DOMAIN c.ops /\ HasOperation(a, t, m)
  BY DEF Compared
<1>2. t \in Templates(a) /\ Normal(t) = Normal(u)
  BY <1>1, FoundIfAny
<1>3. <<t, m>> \in DOMAIN a.ops
  BY <1>1 DEF HasOperation
<1>4. HasOperation(b, s, m)
  <2>1. <<t, m>>[1] = t /\ <<t, m>>[2] = m /\ m \in Methods \cup {"HEAD", "OPTIONS"}
    OBVIOUS
  <2> QED
    BY <1>3, <2>1, NoneRemoved
<1>5. s \in Templates(b) /\ Normal(s) = Normal(t)
  BY <1>4, FoundIfAny
<1>6. u \in Templates(c)
  BY <1>1 DEF Templates
<1>7. Find(a, s) = t /\ Find(b, u) = s /\ Find(c, t) = u
  BY <1>2, <1>5, <1>6, Found
<1>8. <<s, m>> \in DOMAIN b.ops
  BY <1>4 DEF HasOperation
<1>9. <<s, m>> \in Compared(a, b, {m}) /\ <<u, m>> \in Compared(b, c, {m})
  BY <1>1, <1>3, <1>4, <1>7, <1>8 DEF Compared, HasOperation
<1> QED
  BY <1>2, <1>3, <1>5, <1>7, <1>9

\* What two checks find nothing of, one does not either.
LEMMA OperationsCompose ==
    ASSUME NEW a, NEW b, NEW c, WellFormed(a), WellFormed(b), WellFormed(c),
           CompareSchemas(a, b) = {}, CompareSchemas(b, c) = {},
           ~ComesBack(a, b, c), ~RequiredByAndBy(a, b, c),
           NEW u, NEW m \in Methods, <<u, m>> \in Compared(a, c, {m})
    PROVE  Quiet(OldOp(a, <<u, m>>), c.ops[<<u, m>>], m)
<1> DEFINE t == Find(a, u)
           s == Find(b, t)
           key == <<t, m>>
           x == a.ops[key]
           y == b.ops[<<s, m>>]
           z == c.ops[<<u, m>>]
<1>1. /\ key \in DOMAIN a.ops
      /\ <<s, m>> \in Compared(a, b, {m})
      /\ <<u, m>> \in Compared(b, c, {m})
      /\ Find(a, s) = t /\ Find(b, u) = s /\ Find(c, t) = u
  BY Between
<1>2. OldOp(a, <<u, m>>) = x /\ OldOp(a, <<s, m>>) = x /\ OldOp(b, <<u, m>>) = y
  BY <1>1 DEF OldOp
<1>3. /\ At(b, key) = <<s, m>> /\ At(c, key) = <<u, m>>
      /\ <<s, m>> \in DOMAIN b.ops /\ <<u, m>> \in DOMAIN c.ops
  BY <1>1 DEF At, Compared
<1>4. Quiet(x, y, m)
  BY <1>1, <1>2, Unreported
<1>5. Quiet(y, z, m)
  BY <1>1, <1>2, Unreported
<1>6. ~PartComesBack(x, y, z)
  BY <1>1, <1>3 DEF ComesBack
<1>7. \A p \in z.params : ~Added(p, x, z)
  <2> SUFFICES ASSUME NEW p \in z.params, p.required, p.name \notin Named(x.params) PROVE FALSE
    BY DEF Added
  <2>1. p.name \in Named(y.params)
    BY <1>5 DEF Added, Quiet
  <2> QED
    BY <1>1, <1>3, <2>1 DEF RequiredByAndBy
<1>8. m \in {"POST", "PUT", "PATCH"} => compareRequestBodies(x.body, z.body) = {}
  BY <1>4, <1>5 DEF compareRequestBodies, Quiet
<1>9. checkParameterTypeChanges(x, z) = {} /\ checkParameterEnumChanges(x, z) = {}
  BY <1>4, <1>5, <1>6, ParametersCompose DEF Quiet
<1>10. checkRequestBodyTypeChanges(x.body, z.body) = {}
  BY <1>4, <1>5, <1>6, BodiesCompose DEF Quiet
<1>11. compareResponses(x.responses, z.responses) = {}
  BY <1>4, <1>5, <1>6, AnswersCompose DEF Quiet
<1> QED
  BY <1>2, <1>7, <1>8, <1>9, <1>10, <1>11 DEF Quiet

\* Whatever the three documents: two checks without a report amount to one, unless a part of
\* an operation comes back or a parameter becomes required by and by.
THEOREM ChecksAddUp ==
    ASSUME NEW a, NEW b, NEW c, WellFormed(a), WellFormed(b), WellFormed(c),
           CompareSchemas(a, b) = {}, CompareSchemas(b, c) = {},
           ~ComesBack(a, b, c), ~RequiredByAndBy(a, b, c)
    PROVE  CompareSchemas(a, c) = {}
<1>1. ASSUME NEW key \in Compared(a, c, Methods)
      PROVE  /\ key = <<key[1], key[2]>> /\ key[2] \in Methods
             /\ key \in Compared(a, c, {key[2]})
  BY DEF Compared, WellFormed
<1>2. checkRemovedEndpoints(a, c) = {}
  <2> SUFFICES ASSUME NEW key \in DOMAIN a.ops, key[2] \in Methods \cup {"HEAD", "OPTIONS"}
               PROVE  HasOperation(c, Find(c, key[1]), key[2])
    BY DEF checkRemovedEndpoints
  <2> DEFINE s == Find(b, key[1])
             f == Find(c, s)
  <2>2. HasOperation(b, s, key[2])
    BY NoneRemoved
  <2>3. s \in Templates(b) /\ Normal(s) = Normal(key[1])
    BY <2>2, FoundIfAny
  <2>4. HasOperation(c, f, key[2])
    <3>1. <<s, key[2]>> \in DOMAIN b.ops
      BY <2>2 DEF HasOperation
    <3> QED
      BY <3>1, NoneRemoved
  <2>5. f \in Templates(c) /\ Normal(f) = Normal(s)
    BY <2>4, FoundIfAny
  <2>6. Find(c, key[1]) = f
    BY <2>3, <2>5, Found
  <2> QED
    BY <2>4, <2>6
<1>3. ASSUME NEW key \in Compared(a, c, Methods)
      PROVE  Quiet(OldOp(a, key), c.ops[key], key[2])
  BY <1>1, OperationsCompose
<1>4. checkAddedRequiredParameters(a, c) = {}
  BY <1>3 DEF checkAddedRequiredParameters, Added, Quiet
<1>5. checkAddedRequiredBodyFields(a, c) = {}
  <2>1. ASSUME NEW key \in Compared(a, c, {"POST", "PUT", "PATCH"})
        PROVE  key \in Compared(a, c, Methods) /\ key[2] \in {"POST", "PUT", "PATCH"}
    BY DEF Compared, Methods
  <2>2. \A key \in Compared(a, c, {"POST", "PUT", "PATCH"}) :
          compareRequestBodies(OldOp(a, key).body, c.ops[key].body) = {}
    BY <1>3, <2>1 DEF Quiet
  <2> QED
    BY <2>2 DEF checkAddedRequiredBodyFields
<1>6. checkTypeChanges(a, c) = {}
  BY <1>3 DEF checkTypeChanges, Quiet
<1>7. checkRemovedEnumValues(a, c) = {}
  BY <1>3 DEF checkRemovedEnumValues, Quiet
<1>8. checkResponseChanges(a, c) = {}
  BY <1>3 DEF checkResponseChanges, Quiet
<1> QED
  BY <1>2, <1>4, <1>5, <1>6, <1>7, <1>8 DEF CompareSchemas

LEMMA CheckedAlways == Spec => []Checked
BY CheckedInit, CheckedStep, PTL DEF Spec

\* Between any three versions.
THEOREM ChecksComposeAlways == Spec => []ChecksCompose
<1>1. Checked => ChecksCompose
  <2> SUFFICES ASSUME Checked,
                      NEW i \in DOMAIN versions, NEW j \in DOMAIN versions,
                      NEW k \in DOMAIN versions,
                      CompareVersions(i, j) = {}, CompareVersions(j, k) = {},
                      ~ComesBack(versions[i], versions[j], versions[k]),
                      ~RequiredByAndBy(versions[i], versions[j], versions[k])
               PROVE  CompareVersions(i, k) = {}
    BY DEF ChecksCompose
  <2> DEFINE a == versions[i]
             b == versions[j]
             c == versions[k]
  <2>1. \A x, y \in DOMAIN versions :
          CompareVersions(x, y) = IF versions[x] /= versions[y]
                                  THEN CompareSchemas(versions[x], versions[y]) ELSE {}
    <3>1. DOMAIN versions = 1 .. Len(versions)
      BY DEF Checked, Documented
    <3> QED
      BY <3>1 DEF CompareVersions
  <2>2. WellFormed(a) /\ WellFormed(b) /\ WellFormed(c)
    BY DocumentAssumption DEF Checked, Documented
  <2>3. CASE a = b \/ b = c \/ a = c
    BY <2>1, <2>3
  <2>4. CASE a /= b /\ b /= c /\ a /= c
    <3>1. CompareSchemas(a, b) = {} /\ CompareSchemas(b, c) = {}
      BY <2>1, <2>4
    <3> QED
      BY <2>1, <2>2, <2>4, <3>1, ChecksAddUp
  <2> QED
    BY <2>3, <2>4
<1> QED
  BY <1>1, CheckedAlways, PTL

-----------------------------------------------------------------------------
(***************************************************************************)
(* What is generated the validator accepts.  First the values.             *)
(***************************************************************************)

LEMMA UntypedIsNoType == Untyped \notin {"string", "integer", "number"}
BY Zenon DEF Untyped

\* Made up for a type it is a value of the type.
LEMMA Valued ==
    ASSUME NEW type \in Types, NEW example, NEW use, ~(use /\ example /= NoExample)
    PROVE  /\ HasType(type, generateValue(type, example, use))
           /\ type /= Untyped => ParsesAs(type, generateValue(type, example, use))
           /\ generateValue(type, example, use) \in Values
<1>1. type \in {Untyped, "string", "integer", "number"}
  BY DEF Types
<1>2. CASE type = Untyped
  BY <1>2, UntypedIsNoType DEF HasType, generateValue, Values
<1>3. CASE type \in {"string", "integer", "number"}
  BY <1>3, UntypedIsNoType DEF HasType, ParsesAs, generateValue, Values
<1> QED
  BY <1>1, <1>2, <1>3

\* What is demanded is followed if the example is good, or if nothing is but a type.
LEMMA Followable ==
    ASSUME NEW type \in Types \cup {"object"}, NEW limit,
           NEW example \in Values \cup {NoExample}, NEW use, Followed(type, limit, example, use)
    PROVE  /\ HasType(type, generateValue(type, example, use))
           /\ Within(limit, generateValue(type, example, use))
           /\ generateValue(type, example, use) \in Values
<1>1. CASE use /\ example /= NoExample
  BY <1>1 DEF Followed, generateValue
<1>2. CASE ~(use /\ example /= NoExample)
  <2>1. type \in Types /\ limit = {}
    BY <1>2 DEF Followed
  <2> QED
    BY <1>2, <2>1, Valued DEF Within
<1> QED
  BY <1>1, <1>2

\* A schema as a readable document declares it, and as the generator can follow it.
Sound(s, side, use) ==
    /\ s.props \in [DOMAIN s.props -> Types \cup {"object"}]
    /\ s.examples \in [DOMAIN s.props -> Values \cup {NoExample}]
    /\ NoBody \notin [DOMAIN s.props -> Values]
    /\ Declared(s, side, use)

LEMMA ObjectConforms ==
    ASSUME NEW s, NEW side, NEW use, Sound(s, side, use)
    PROVE  /\ generateObject(s, use) /= NoBody
           /\ Conforms(s, side, generateObject(s, use))
<1> DEFINE object == generateObject(s, use)
<1>1. /\ DOMAIN object = DOMAIN s.props
      /\ \A f \in DOMAIN s.props : object[f] = generateValue(s.props[f], s.examples[f], use)
  BY DEF generateObject
<1>2. ASSUME NEW f \in DOMAIN s.props
      PROVE  /\ HasType(s.props[f], object[f]) /\ Within(s.limits[f], object[f])
             /\ object[f] \in Values
             /\ f \notin Hidden(s, side)
  <2>1. s.props[f] \in Types \cup {"object"} /\ s.examples[f] \in Values \cup {NoExample}
    BY DEF Sound
  <2>2. Followed(s.props[f], s.limits[f], s.examples[f], use) /\ f \notin Hidden(s, side)
    BY DEF Sound, Declared
  <2> HIDE DEF object
  <2> QED
    BY <1>1, <2>1, <2>2, Followable
<1>3. object \in [DOMAIN s.props -> Values]
  <2>1. object = [f \in DOMAIN s.props |-> object[f]]
    BY <1>1 DEF generateObject
  <2> HIDE DEF object
  <2> QED
    BY <1>2, <2>1
<1>4. object /= NoBody
  BY <1>3 DEF Sound
<1>5. s.required \ Hidden(s, side) \subseteq DOMAIN object
  BY <1>1 DEF Sound, Declared
<1> HIDE DEF object
<1>6. Conforms(s, side, object)
  BY <1>1, <1>2, <1>4, <1>5 DEF Conforms
<1> QED
  BY <1>4, <1>6 DEF object

\* The contents of an operation's answers that has no other media type.
LEMMA Answered ==
    ASSUME NEW d, Readable(d), NEW key \in DOMAIN d.ops, NEW use,
           OnlyJson(d.ops[key]), AnswersDeclared(d.ops[key], use)
    PROVE  \A c \in DOMAIN d.ops[key].responses :
             LET content == d.ops[key].responses[c]
             IN  /\ DOMAIN content \subseteq {Json}
                 /\ Json \in DOMAIN content /\ content[Json] /= NoSchema => Sound(content[Json], "response", use)
<1> SUFFICES ASSUME NEW c \in DOMAIN d.ops[key].responses
             PROVE  LET content == d.ops[key].responses[c]
                    IN  /\ DOMAIN content \subseteq {Json}
                        /\ Json \in DOMAIN content /\ content[Json] /= NoSchema => Sound(content[Json], "response", use)
  OBVIOUS
<1> DEFINE op == d.ops[key]
           content == op.responses[c]
<1>1. DOMAIN content \subseteq {Json}
  BY DEF OnlyJson
<1>2. ASSUME Json \in DOMAIN content, content[Json] /= NoSchema
      PROVE  Sound(content[Json], "response", use)
  <2>1. content[Json] \in AnswerSchemas(op)
    BY <1>2 DEF AnswerSchemas, Described
  <2> QED
    BY <2>1 DEF Readable, AnswersDeclared, Sound
<1> QED
  BY <1>1, <1>2

\* What is generated for a status from the response that documents it, sent as it is or
\* labelled application/json, is what the validator wants of the status.
LEMMA GeneratedConforms ==
    ASSUME NEW d, Readable(d), NEW t, NEW m, <<t, m>> \in DOMAIN d.ops, NEW use,
           OnlyJson(d.ops[<<t, m>>]), AnswersDeclared(d.ops[<<t, m>>], use),
           NEW st, NEW c \in getResponseForStatus(d.ops[<<t, m>>].responses, st),
           NEW p \in Generated(d.ops[<<t, m>>].responses[c], st, use),
           NEW resp, resp.status = st, resp.body = p.body, resp.media \in {p.media, Json}
    PROVE  ResponseOk(d, t, m, resp)
<1> DEFINE responses == d.ops[<<t, m>>].responses
           content == responses[c]
<1>1. /\ c \in DOMAIN responses
      /\ \A b \in getResponseForStatus(responses, st) : b = c
  BY DEF getResponseForStatus, Status
<1>2. /\ DOMAIN content \subseteq {Json}
      /\ Json \in DOMAIN content /\ content[Json] /= NoSchema => Sound(content[Json], "response", use)
  BY <1>1, Answered
<1>3. CASE DOMAIN content = {}
  BY <1>1, <1>3 DEF ResponseOk, getResponseForStatus
<1>4. CASE DOMAIN content /= {}
  <2>1. Json \in DOMAIN content
    BY <1>2, <1>4
  <2>2. p.media = Json /\ p.body = Body(content, Json, use)
    <3>1. MediaOf(content) = {Json} /\ {Json} /= {}
      BY <2>1 DEF MediaOf
    <3>2. Generated(content, st, use)
            = {[status |-> st, media |-> mt, body |-> Body(content, mt, use)] : mt \in {Json}}
      BY <3>1, Zenon DEF Generated
    <3> QED
      BY <3>2
  <2>3. resp.media = Json /\ resp.body = Body(content, Json, use)
    BY <2>2
  <2>4. Conforms(content[Json], "response", Body(content, Json, use))
    BY <1>2, <2>1, ObjectConforms DEF Body, Conforms
  <2> QED
    BY <1>1, <2>1, <2>3, <2>4 DEF ResponseOk, getResponseForStatus
<1> QED
  BY <1>3, <1>4

-----------------------------------------------------------------------------
(***************************************************************************)
(* Then the statuses.                                                      *)
(***************************************************************************)

LEMMA PreferredAreFour ==
    /\ DOMAIN Preferred = {1, 2, 3, 4}
    /\ Preferred[1] = 200 /\ Preferred[2] = 201 /\ Preferred[3] = 202 /\ Preferred[4] = 204
BY DEF Preferred

\* One of the preferred, the first, if any is documented; then a class of successes makes it 200.
LEMMA FirstPreferred ==
    ASSUME NEW responses, PreferredIn(responses) /= {}
    PROVE  LET st == Preferred[First(PreferredIn(responses))]
           IN  /\ st \in {200, 201, 202, 204}
               /\ Status(responses, st) /= {}
               /\ 2 \in DOMAIN responses => st = 200
<1> DEFINE P == PreferredIn(responses)
<1>1. P \subseteq {1, 2, 3, 4}
  BY PreferredAreFour DEF PreferredIn
<1>2. \E i \in P : \A j \in P : i <= j
  <2>1. CASE 1 \in P
    BY <1>1, <2>1
  <2>2. CASE 1 \notin P /\ 2 \in P
    BY <1>1, <2>2
  <2>3. CASE 1 \notin P /\ 2 \notin P /\ 3 \in P
    BY <1>1, <2>3
  <2>4. CASE 1 \notin P /\ 2 \notin P /\ 3 \notin P
    BY <1>1, <2>4
  <2> QED
    BY <2>1, <2>2, <2>3, <2>4
<1>3. First(P) \in P /\ \A j \in P : First(P) <= j
  BY <1>2 DEF First
<1>4. 2 \in DOMAIN responses => 1 \in P
  <2>1. 2 \in DOMAIN responses => Status(responses, 200) /= {}
    BY DEF Status
  <2> QED
    BY <2>1, PreferredAreFour DEF PreferredIn
<1>5. 1 \in P => First(P) = 1
  BY <1>1, <1>3
<1>6. Status(responses, Preferred[First(P)]) /= {}
  BY <1>3 DEF PreferredIn
<1> HIDE DEF P
<1> QED
  BY <1>1, <1>3, <1>4, <1>5, <1>6, PreferredAreFour DEF P

\* The generator and the handler choose alike where the handler's status is documented: a
\* success that has a response, which 204 has of its own.
LEMMA SuccessChosen ==
    ASSUME NEW responses, NEW status \in handlerStatus(responses), Status(responses, status) /= {}
    PROVE  /\ selectSuccessStatus(responses) = handlerStatus(responses)
           /\ \A st \in handlerStatus(responses) :
                /\ st \in 200 .. 299
                /\ Status(responses, st) /= {}
                /\ st = 204 => 204 \in DOMAIN responses
<1> DEFINE success == {c \in DOMAIN responses : c \in 200 .. 299 \/ c = 2}
<1>1. CASE PreferredIn(responses) /= {}
  <2> DEFINE st == Preferred[First(PreferredIn(responses))]
  <2>1. handlerStatus(responses) = {st} /\ selectSuccessStatus(responses) = {st}
    BY <1>1 DEF handlerStatus, selectSuccessStatus
  <2>2. /\ st \in {200, 201, 202, 204} /\ Status(responses, st) /= {}
        /\ 2 \in DOMAIN responses => st = 200
    BY <1>1, FirstPreferred
  <2> HIDE DEF st
  <2>3. st = 204 => 204 \in DOMAIN responses
    BY <2>2 DEF Status
  <2> QED
    BY <2>1, <2>2, <2>3
<1>2. CASE PreferredIn(responses) = {}
  <2>1. Status(responses, 200) = {}
    BY <1>2, PreferredAreFour DEF PreferredIn
  <2>2. 2 \notin DOMAIN responses /\ 200 \notin DOMAIN responses
    BY <2>1 DEF Status
  <2>3. success /= {}
    BY <1>2, <2>1 DEF handlerStatus
  <2>4. handlerStatus(responses) = success /\ selectSuccessStatus(responses) = success
    BY <1>2, <2>3 DEF handlerStatus, selectSuccessStatus
  <2> QED
    BY <2>2, <2>4 DEF Status
<1> QED
  BY <1>1, <1>2

-----------------------------------------------------------------------------
(***************************************************************************)
(* The mock server's answers.                                              *)
(***************************************************************************)

\* What is generated is a response of the status it is generated for.
LEMMA GeneratedIsResponse ==
    ASSUME NEW content, NEW st, NEW use, NEW p \in Generated(content, st, use)
    PROVE  p = [status |-> st, media |-> p.media, body |-> p.body]
<1>1. CASE MediaOf(content) = {}
  <2> DEFINE none == ""
  <2>1. p = [status |-> st, media |-> none, body |-> NoBody]
    BY <1>1 DEF Generated
  <2> HIDE DEF none
  <2> QED
    BY <2>1
<1>2. CASE MediaOf(content) /= {}
  <2>1. PICK mt \in MediaOf(content) :
          p = [status |-> st, media |-> mt, body |-> Body(content, mt, use)]
    BY <1>2, Zenon DEF Generated
  <2> QED
    BY <2>1
<1> QED
  BY <1>1, <1>2

\* A template of the document is found as it is, by its methods in upper case.
LEMMA OperationFound ==
    ASSUME NEW d, WellFormed(d), Readable(d), NEW t, NEW m, <<t, m>> \in DOMAIN d.ops
    PROVE  Upper(m) = m /\ findOperation(d, m, t) = t /\ t /= NoPath /\ t \in Templates(d)
<1>1. <<t, m>>[1] = t /\ <<t, m>>[2] = m
  OBVIOUS
<1>2. t \in Templates(d)
  BY <1>1 DEF Templates
<1>3. Upper(m) = m
  BY <1>1 DEF Readable
<1>4. Find(d, t) = t
  BY <1>2 DEF Find
<1>5. t /= NoPath
  BY <1>2 DEF WellFormed
<1> QED
  BY <1>2, <1>3, <1>4, <1>5 DEF findOperation, HasOperation

\* An answer that is generated is a success that the validator accepts.
LEMMA MatchedConforms ==
    ASSUME NEW d, WellFormed(d), Readable(d), NEW req, NEW t, <<t, req.method>> \in DOMAIN d.ops,
           NEW use,
           OnlyJson(d.ops[<<t, req.method>>]), AnswersDeclared(d.ops[<<t, req.method>>], use),
           204 \in DOMAIN d.ops[<<t, req.method>>].responses
             => DOMAIN d.ops[<<t, req.method>>].responses[204] = {},
           NEW a \in handleMatchedRoute(d, t, req, use), a.why = "mock"
    PROVE  a.resp.status \in 200 .. 299 /\ ResponseOk(d, t, req.method, a.resp)
<1> DEFINE m == req.method
           responses == d.ops[<<t, m>>].responses
           blank == ""
           none == [status |-> 204, media |-> blank, body |-> NoBody]
           Handle(status) ==
             IF status = 204 THEN {Answer("mock", none)}
             ELSE IF ~hasJSONResponse(responses, status) THEN {OwnAnswer("not_acceptable", 406)}
             ELSE {Answer("mock", [p EXCEPT !.media = Json]) :
                      p \in GenerateResponse(d, m, t, NoStatus, use)}
<1>1. PICK status \in handlerStatus(responses) : a \in Handle(status)
  <2>1. handleMatchedRoute(d, t, req, use) = UNION {Handle(status) : status \in handlerStatus(responses)}
    BY Zenon DEF handleMatchedRoute
  <2> HIDE DEF Handle
  <2> QED
    BY <2>1
<1> HIDE DEF blank
<1>2. none.status = 204
  OBVIOUS
<1>3. CASE status = 204
  <2>1. a = Answer("mock", none)
    BY <1>1, <1>3, Zenon
  <2> HIDE DEF none
  <2>2. a.resp = none
    BY <2>1 DEF Answer
  <2>3. CASE Status(responses, 204) /= {}
    <3>1. 204 \in DOMAIN responses
      BY <1>1, <1>3, <2>3, SuccessChosen
    <3> QED
      BY <1>2, <2>2, <3>1 DEF ResponseOk, Status
  <2>4. CASE Status(responses, 204) = {}
    <3>1. PreferredIn(responses) = {}
      BY <1>1, <1>3, <2>4, FirstPreferred DEF handlerStatus
    <3>2. 204 \notin DOMAIN responses
      BY <2>4 DEF Status
    <3>3. 204 \notin handlerStatus(responses)
      BY <3>1, <3>2 DEF handlerStatus
    <3> QED
      BY <1>1, <1>3, <3>3
  <2> QED
    BY <2>3, <2>4
<1>4. CASE status /= 204
  <2>1. a /= OwnAnswer("not_acceptable", 406)
    <3>1. OwnAnswer("not_acceptable", 406).why = "not_acceptable"
      BY DEF OwnAnswer, Answer
    <3> QED
      BY <3>1
  <2> HIDE DEF none
  <2>2. PICK p \in GenerateResponse(d, m, t, NoStatus, use) : a = Answer("mock", [p EXCEPT !.media = Json])
    BY <1>1, <1>4, <2>1
  <2>3. hasJSONResponse(responses, status)
    BY <1>1, <1>4, <2>1
  <2>4. Status(responses, status) /= {}
    BY <2>3 DEF hasJSONResponse
  <2>5. /\ selectSuccessStatus(responses) = handlerStatus(responses)
        /\ \A st \in handlerStatus(responses) : st \in 200 .. 299
    BY <2>4, SuccessChosen
  <2>6. PICK st \in selectSuccessStatus(responses) :
          \E c \in getResponseForStatus(responses, st) : p \in Generated(responses[c], st, use)
    BY OperationFound DEF GenerateResponse
  <2>7. PICK c \in getResponseForStatus(responses, st) : p \in Generated(responses[c], st, use)
    BY <2>6
  <2>8. p = [status |-> st, media |-> p.media, body |-> p.body]
    BY <2>7, GeneratedIsResponse
  <2>9. a.resp.status = st /\ a.resp.media = Json /\ a.resp.body = p.body
    BY <2>2, <2>8 DEF Answer
  <2> QED
    BY <2>5, <2>7, <2>9, GeneratedConforms
<1> QED
  BY <1>3, <1>4

\* Whatever the document and the request, valid and answered from the operation that the
\* validator routes it to.
THEOREM AnswersConform ==
    ASSUME NEW d, WellFormed(d), Readable(d), NEW req, NEW use,
           ValidateHTTPMethod(req.method), ValidateHTTPPath(req),
           Route(d, req.method, req.path) /= NoPath,
           Route(d, req.method, req.path) = Target(d, req),
           RequestOk(d, Target(d, req), req.method, Stripped(d, req)),
           OnlyJson(d.ops[<<Target(d, req), req.method>>]),
           AnswersDeclared(d.ops[<<Target(d, req), req.method>>], use),
           204 \in DOMAIN d.ops[<<Target(d, req), req.method>>].responses
             => DOMAIN d.ops[<<Target(d, req), req.method>>].responses[204] = {},
           NEW a \in Serve(d, req, TRUE, use), a.why = "mock"
    PROVE  ValidateInteraction(d, req, a.resp) = "valid"
<1> DEFINE t == Target(d, req)
<1>1. <<t, req.method>> \in DOMAIN d.ops
  BY Routed DEF HasOperation
<1>2. a \in handleMatchedRoute(d, t, req, use)
  <2>1. \A why, status : OwnAnswer(why, status).why = why
    BY DEF OwnAnswer, Answer
  <2>2. /\ a /= OwnAnswer("cors", 200) /\ a /= OwnAnswer("index", 200)
        /\ a /= OwnAnswer("no_route", 404) /\ a /= OwnAnswer("invalid", 400)
    BY <2>1
  <2> QED
    BY <2>2 DEF Serve
<1>3. a.resp.status \in 200 .. 299 /\ ResponseOk(d, t, req.method, a.resp)
  BY <1>1, <1>2, MatchedConforms
<1>4. ServerRoute(d, req.method, Stripped(d, req).path) = t
  <2>1. Stripped(d, req).path = stripBasePath(d, req.path)
    BY DEF Stripped
  <2> QED
    BY <2>1 DEF ServerRoute, Target
<1>5. validateInteractionRequest(req, a.resp)
  BY <1>3 DEF validateInteractionRequest, ValidateStatusCode
<1> QED
  BY <1>3, <1>4, <1>5 DEF ValidateInteraction

\* In every version.
THEOREM MockAnswersConformAlways == Spec => []MockAnswersConform
<1>1. Checked => MockAnswersConform
  <2>1. ASSUME Checked, NEW i \in DOMAIN versions
        PROVE  WellFormed(versions[i]) /\ Readable(versions[i])
    BY <2>1, DocumentAssumption, DataAssumption DEF Checked, Documented
  <2>2. ASSUME NEW d, WellFormed(d), Readable(d), NEW req, NEW use,
               ValidateHTTPMethod(req.method), ValidateHTTPPath(req),
               Route(d, req.method, req.path) /= NoPath,
               Route(d, req.method, req.path) = Target(d, req),
               RequestOk(d, Route(d, req.method, req.path), req.method, Stripped(d, req)),
               NEW a \in Serve(d, req, TRUE, use), a.why = "mock",
               OnlyJson(d.ops[<<Route(d, req.method, req.path), req.method>>]),
               AnswersDeclared(d.ops[<<Route(d, req.method, req.path), req.method>>], use),
               204 \in DOMAIN d.ops[<<Route(d, req.method, req.path), req.method>>].responses
                 => DOMAIN d.ops[<<Route(d, req.method, req.path), req.method>>].responses[204] = {}
        PROVE  ValidateInteraction(d, req, a.resp) = "valid"
    BY <2>2, AnswersConform
  <2> SUFFICES ASSUME Checked, NEW i \in DOMAIN versions, NEW req \in Requests
               PROVE  LET doc == versions[i]
                          t == Route(doc, req.method, req.path)
                          op == doc.ops[<<t, req.method>>]
                      IN  /\ ValidateHTTPMethod(req.method) /\ ValidateHTTPPath(req)
                          /\ t /= NoPath /\ t = Target(doc, req)
                          /\ RequestOk(doc, t, req.method, Stripped(doc, req))
                          => \A use \in BOOLEAN : \A a \in Serve(doc, req, TRUE, use) :
                                /\ a.why = "mock" /\ OnlyJson(op) /\ AnswersDeclared(op, use)
                                /\ 204 \in DOMAIN op.responses => DOMAIN op.responses[204] = {}
                                => ValidateInteraction(doc, req, a.resp) = "valid"
    BY Zenon DEF MockAnswersConform
  <2>3. WellFormed(versions[i]) /\ Readable(versions[i])
    BY <2>1
  <2> QED
    BY <2>2, <2>3
<1> QED
  BY <1>1, CheckedAlways, PTL

-----------------------------------------------------------------------------
(***************************************************************************)
(* The server's fixtures.  First the path, which is not stripped of a base *)
(* if it leads to the template it was made of.                             *)
(***************************************************************************)

\* A set of naturals has a least element.
LEMMA Least ==
    ASSUME NEW T \in SUBSET Nat, T /= {}
    PROVE  \E m \in T : \A n \in T : m <= n
<1> DEFINE R == OpToRel(<, Nat)
<1>1. IsWellFoundedOn(R, Nat)
  BY NatLessThanWellFounded, Zenon
<1>2. \A n, m \in Nat : n < m => <<n, m>> \in R
  <2> SUFFICES ASSUME NEW n \in Nat, NEW m \in Nat, n < m PROVE <<n, m>> \in R
    BY Zenon
  <2>1. <<n, m>> \in Nat \X Nat /\ <<n, m>>[1] = n /\ <<n, m>>[2] = m
    OBVIOUS
  <2> QED
    BY <2>1, Zenon DEF OpToRel
<1> HIDE DEF R
<1>3. PICK m \in T : \A n \in T : <<n, m>> \notin R
  BY <1>1, WFMin
<1>4. \A n \in T : n \in Nat /\ m \in Nat /\ ~(n < m)
  BY <1>2, <1>3, Zenon
<1> QED
  BY <1>4

LEMMA SequenceMade ==
    ASSUME NEW n \in Nat, NEW S, NEW f \in [1 .. n -> S]
    PROVE  f \in Seq(S) /\ Len(f) = n
OBVIOUS

LEMMA Shortened ==
    ASSUME NEW S, NEW path \in Seq(S), NEW base \in Seq(STRING), base /= << >>,
           Len(path) > Len(base)
    PROVE  Len(After(base, path)) < Len(path)
<1>1. Len(base) \in Nat /\ Len(base) > 0 /\ Len(path) \in Nat
  OBVIOUS
<1>2. After(base, path) = SubSeq(path, Len(base) + 1, Len(path))
  BY DEF After
<1>3. Len(After(base, path)) = Len(path) - Len(base)
  BY <1>1, <1>2
<1> QED
  BY <1>1, <1>3

\* A path as long as a template that it fits only without a base has none.
LEMMA NothingStripped ==
    ASSUME NEW d, Readable(d), NEW S, NEW path \in Seq(S),
           Len(stripBasePath(d, path)) = Len(path)
    PROVE  stripBasePath(d, path) = path
<1> SUFFICES ASSUME Bases(d, path) /= {} PROVE FALSE
  BY DEF stripBasePath
<1> DEFINE B == Bases(d, path)
           base == d.servers[First(B)].base
<1>1. d.servers \in Seq([absolute : BOOLEAN, base : Seq(STRING)])
  BY DEF Readable
<1>2. B \subseteq DOMAIN d.servers /\ B \in SUBSET Nat
  <2>1. DOMAIN d.servers = 1 .. Len(d.servers) /\ Len(d.servers) \in Nat
    BY <1>1
  <2>2. B \subseteq DOMAIN d.servers
    BY DEF Bases
  <2> QED
    BY <2>1, <2>2
<1>3. First(B) \in B
  <2> HIDE DEF B
  <2>1. B /= {}
    BY DEF B
  <2>2. \E i \in B : \A j \in B : i <= j
    BY <1>2, <2>1, Least
  <2> QED
    BY <2>2 DEF First
<1>4. base /= << >> /\ Len(path) > Len(base)
  BY <1>3 DEF Bases
<1>5. base \in Seq(STRING)
  <2> DEFINE server == d.servers[First(B)]
  <2>1. server \in [absolute : BOOLEAN, base : Seq(STRING)]
    <3>1. First(B) \in DOMAIN d.servers
      BY <1>2, <1>3
    <3> QED
      BY <1>1, <3>1, Segments
  <2> HIDE DEF server
  <2>2. server.base \in Seq(STRING)
    BY <2>1
  <2> QED
    BY <2>2 DEF server
<1>6. stripBasePath(d, path) = After(base, path)
  BY DEF stripBasePath
<1> HIDE DEF base
<1>7. Len(After(base, path)) < Len(path) /\ Len(path) \in Nat
  BY <1>4, <1>5, Shortened
<1> QED
  BY <1>6, <1>7

\* The path that a template resolves to has its length.
LEMMA Resolved ==
    ASSUME NEW S, NEW t \in Seq(S), NEW op, NEW use
    PROVE  \E T : /\ resolvePath(op, t, use) \in Seq(T)
                  /\ Len(resolvePath(op, t, use)) = Len(t)
                  /\ DOMAIN resolvePath(op, t, use) = DOMAIN t
<1> DEFINE path == resolvePath(op, t, use)
           T == {path[i] : i \in DOMAIN t}
<1>1. Len(t) \in Nat /\ DOMAIN t = 1 .. Len(t)
  OBVIOUS
<1>2. path = [i \in DOMAIN t |-> path[i]]
  BY DEF resolvePath
<1> HIDE DEF path
<1>3. path \in [1 .. Len(t) -> T]
  BY <1>1, <1>2
<1> HIDE DEF T
<1>4. path \in Seq(T) /\ Len(path) = Len(t)
  BY <1>1, <1>3, SequenceMade
<1>5. DOMAIN path = DOMAIN t
  BY <1>2
<1> QED
  BY <1>4, <1>5 DEF path

-----------------------------------------------------------------------------
(***************************************************************************)
(* Then the parameters and the body.                                       *)
(***************************************************************************)

\* The value that a parameter is given is one it takes.
LEMMA ParameterGenerated ==
    ASSUME NEW p, p.type \in Types, NEW op, NEW t, NEW use, GenerableParameter(p, op, t, use)
    PROVE  /\ ParsesAs(p.type, generateParameter(p, use))
           /\ Within(p.enum, generateParameter(p, use))
           /\ Within(p.limit, generateParameter(p, use))
<1>1. CASE use /\ p.example /= NoExample
  BY <1>1 DEF GenerableParameter, generateParameter, generateValue
<1>2. CASE ~(use /\ p.example /= NoExample)
  <2>1. p.type /= Untyped /\ p.limit = {} /\ \A v \in p.enum : ParsesAs(p.type, v)
    BY <1>2 DEF GenerableParameter
  <2>2. CASE p.enum /= {}
    BY <1>2, <2>1, <2>2 DEF generateParameter, Within
  <2>3. CASE p.enum = {}
    BY <1>2, <2>1, <2>3, Valued DEF generateParameter, Within
  <2> QED
    BY <2>2, <2>3
<1> QED
  BY <1>1, <1>2

\* Parameters of one name in one place are one, and what is generated for it suits it.
LEMMA SameName ==
    ASSUME NEW d, WellFormed(d), Readable(d), NEW key \in DOMAIN d.ops,
           NEW use, Generable(d, key, use),
           NEW p \in d.ops[key].params, NEW q \in d.ops[key].params,
           p.name = q.name, p.in = q.in, q.required \/ q.in = "path"
    PROVE  /\ ParsesAs(p.type, generateParameter(q, use))
           /\ Within(p.enum, generateParameter(q, use))
           /\ Within(p.limit, generateParameter(q, use))
<1>1. p = q
  BY DEF WellFormed
<1>2. q \in Parameters(d.ops[key])
  BY DEF Parameters
<1>3. GenerableParameter(q, d.ops[key], key[1], use)
  BY <1>2 DEF Generable
<1>4. q.type \in Types
  BY DEF Readable
<1> QED
  BY <1>1, <1>3, <1>4, ParameterGenerated

\* The headers, and the body, of a fixture's request.
HeadersOf(op, use) ==
    [h \in {<<p.in, p.name>> : p \in RequiredHeaders(op)} |->
        generateParameter(CHOOSE p \in RequiredHeaders(op) : p.name = h[2], use)]

BodyMade(bodies, body) ==
    IF bodies = {} THEN body = NoBody ELSE \E b \in bodies : body = b.body

LEMMA ParametersGenerated ==
    ASSUME NEW d, WellFormed(d), Readable(d), NEW key \in DOMAIN d.ops,
           NEW use, Generable(d, key, use),
           NEW req, req.path = resolvePath(d.ops[key], key[1], use),
           req.params = HeadersOf(d.ops[key], use),
           NEW p \in Parameters(d.ops[key])
    PROVE  ParameterOk(p, key[1], req)
<1> DEFINE op == d.ops[key]
           t == key[1]
           H == RequiredHeaders(op)
           given == Given(p, t, req)
<1>1. \A q \in H : q \in op.params /\ q.in = "header" /\ q.required
  BY DEF RequiredHeaders
<1>2. p.required \/ p.in = "path" => GenerableParameter(p, op, t, use)
  BY DEF Generable
<1>3. CASE p.in = "path"
  <2>1. p \in op.params /\ p.name \in ToSet(t)
    BY <1>2, <1>3 DEF GenerableParameter
  <2>2. given = {req.path[i] : i \in {i \in DOMAIN t : t[i] = p.name}}
    BY <1>3 DEF Given
  <2>3. given /= {}
    <3>1. PICK i \in DOMAIN t : t[i] = p.name
      BY <2>1 DEF ToSet
    <3>2. req.path[i] \in given
      BY <2>2, <3>1
    <3> QED
      BY <3>2
  <2>4. ASSUME NEW i \in DOMAIN t, t[i] = p.name
        PROVE  /\ ParsesAs(p.type, req.path[i])
               /\ Within(p.enum, req.path[i]) /\ Within(p.limit, req.path[i])
    <3> DEFINE q == CHOOSE q \in op.params : q.in = "path" /\ q.name = t[i]
    <3>1. q \in op.params /\ q.in = "path" /\ q.name = t[i]
      BY <1>3, <2>1, <2>4
    <3>2. req.path[i] = generateParameter(q, use)
      BY <1>3, <2>1, <2>4 DEF resolvePath
    <3> HIDE DEF q
    <3> QED
      BY <1>3, <2>1, <2>4, <3>1, <3>2, SameName
  <2> QED
    BY <2>2, <2>3, <2>4 DEF ParameterOk
<1>4. CASE p.in /= "path"
  <2> DEFINE h == <<p.in, p.name>>
             q == CHOOSE q \in H : q.name = p.name
  <2>1. given = IF h \in DOMAIN req.params THEN {req.params[h]} ELSE {}
    BY <1>4 DEF Given
  <2>2. DOMAIN req.params = {<<r.in, r.name>> : r \in H}
    BY DEF HeadersOf
  <2>3. p.required => h \in DOMAIN req.params
    <3> SUFFICES ASSUME p.required PROVE p \in H
      BY <2>2
    <3> QED
      BY <1>2, <1>4 DEF GenerableParameter, RequiredHeaders
  <2>4. CASE h \in DOMAIN req.params
    <3>1. PICK r \in H : <<r.in, r.name>> = h
      BY <2>2, <2>4
    <3>2. r.in = p.in /\ r.name = p.name
      BY <3>1
    <3>3. p \in op.params
      <4>1. r \in op.params
        BY <1>1
      <4> QED
        BY <3>2, <4>1 DEF Parameters
    <3>4. q \in H /\ q.name = p.name
      BY <3>2
    <3>5. req.params[h] = generateParameter(q, use)
      BY <2>2, <2>4 DEF HeadersOf
    <3> HIDE DEF q, h
    <3>6. q \in op.params /\ q.required /\ q.in = p.in
      BY <1>1, <3>2, <3>4
    <3>7. /\ ParsesAs(p.type, req.params[h])
          /\ Within(p.enum, req.params[h]) /\ Within(p.limit, req.params[h])
      BY <3>3, <3>4, <3>5, <3>6, SameName
    <3> QED
      BY <2>1, <2>4, <3>7 DEF ParameterOk
  <2>5. CASE h \notin DOMAIN req.params
    BY <2>1, <2>3, <2>5 DEF ParameterOk
  <2> QED
    BY <2>4, <2>5
<1> QED
  BY <1>3, <1>4

\* And its body: none, or an object of the JSON schema.
LEMMA BodyGenerated ==
    ASSUME NEW d, WellFormed(d), Readable(d), NEW key \in DOMAIN d.ops,
           NEW use, Generable(d, key, use),
           NEW req, req.body /= NoBody => req.media = Json,
           BodyMade(GenerateRequestBody(d, key[2], key[1], use), req.body)
    PROVE  BodyOk(d.ops[key], req)
<1> DEFINE op == d.ops[key]
           body == op.body
           schema == body.content[Json]
<1>1. CASE body = NoBody
  BY <1>1 DEF BodyOk
<1>2. CASE body /= NoBody
  <2>1. DOMAIN body.content = {Json} /\ (body.required => schema /= NoSchema)
    BY <1>2 DEF Generable
  <2>2. MediaOf(body.content) = {Json}
    BY <2>1 DEF MediaOf
  <2>3. key = <<key[1], key[2]>>
    BY DEF WellFormed
  <2>4. findOperation(d, key[2], key[1]) = key[1] /\ key[1] /= NoPath /\ Upper(key[2]) = key[2]
    BY <2>3, OperationFound
  <2>5. GenerateRequestBody(d, key[2], key[1], use)
          = {[media |-> mt, body |-> Body(body.content, mt, use)] :
                mt \in {mt \in {Json} : body.content[mt] /= NoSchema}}
    BY <1>2, <2>2, <2>3, <2>4 DEF GenerateRequestBody
  <2>6. CASE schema = NoSchema
    <3>1. req.body = NoBody
      BY <2>5, <2>6 DEF BodyMade
    <3> QED
      BY <2>1, <2>6, <3>1 DEF BodyOk
  <2>7. CASE schema /= NoSchema
    <3>1. req.body = Body(body.content, Json, use)
      <4> DEFINE bodies == GenerateRequestBody(d, key[2], key[1], use)
                 object == Body(body.content, Json, use)
      <4>1. bodies = {[media |-> Json, body |-> object]}
        BY <2>5, <2>7
      <4>2. bodies /= {} /\ \A b \in bodies : b.body = object
        <5> HIDE DEF bodies, object
        <5> QED
          BY <4>1
      <4>3. IF bodies = {} THEN req.body = NoBody ELSE \E b \in bodies : req.body = b.body
        BY DEF BodyMade
      <4> HIDE DEF bodies, object
      <4>4. req.body = object
        BY <4>2, <4>3
      <4> QED
        BY <4>4 DEF object
    <3>2. req.body = generateObject(schema, use)
      BY <2>7, <3>1 DEF Body
    <3>3. schema \in Schemas(body)
      BY <1>2, <2>1, <2>7 DEF Schemas
    <3>4. Sound(schema, "request", use)
      BY <3>3 DEF Readable, Generable, Sound
    <3>5. req.body /= NoBody /\ Conforms(schema, "request", req.body)
      BY <3>2, <3>4, ObjectConforms
    <3> QED
      BY <2>1, <3>5 DEF BodyOk
  <2> QED
    BY <2>6, <2>7
<1> QED
  BY <1>1, <1>2

-----------------------------------------------------------------------------
(***************************************************************************)
(* A fixture, and what the validator says of it.                           *)
(***************************************************************************)

\* A documented success is what the generator chooses, or 200 where nothing is documented.
LEMMA StatusGenerated ==
    ASSUME NEW responses, DocumentsSuccess(responses)
    PROVE  \A st \in selectSuccessStatus(responses) : st \in 200 .. 299
<1> DEFINE success == {c \in DOMAIN responses : c \in 200 .. 299 \/ c = 2}
<1>1. CASE PreferredIn(responses) /= {}
  BY <1>1, FirstPreferred DEF selectSuccessStatus
<1>2. CASE PreferredIn(responses) = {} /\ success /= {}
  <2>1. Status(responses, 200) = {}
    BY <1>2, PreferredAreFour DEF PreferredIn
  <2>2. 2 \notin DOMAIN responses
    BY <2>1 DEF Status
  <2> QED
    BY <1>2, <2>2 DEF selectSuccessStatus
<1>3. CASE PreferredIn(responses) = {} /\ success = {}
  <2>1. DOMAIN responses \subseteq {0}
    BY <1>3 DEF DocumentsSuccess
  <2>2. selectSuccessStatus(responses) = {200}
    BY <1>3, <2>1 DEF selectSuccessStatus
  <2> QED
    BY <2>2
<1> QED
  BY <1>1, <1>2, <1>3

\* What a fixture is made of.
LEMMA FixtureMade ==
    ASSUME NEW d, WellFormed(d), Readable(d), NEW t, NEW m, <<t, m>> \in DOMAIN d.ops, NEW use,
           NEW f \in GenerateFixture(d, m, t, use)
    PROVE  /\ f.resp \in GenerateResponse(d, m, t, NoStatus, use)
           /\ f.req.method = m /\ ~f.req.url
           /\ f.req.path = resolvePath(d.ops[<<t, m>>], t, use)
           /\ f.req.params = HeadersOf(d.ops[<<t, m>>], use)
           /\ f.req.body /= NoBody => f.req.media = Json
           /\ BodyMade(GenerateRequestBody(d, m, t, use), f.req.body)
<1> DEFINE op == d.ops[<<t, m>>]
           bodies == GenerateRequestBody(d, m, t, use)
           path == resolvePath(op, t, use)
           headers == HeadersOf(op, use)
           blank == ""
           none == [media |-> blank, body |-> NoBody]
           Request(b) == [method |-> m, url |-> FALSE, path |-> path,
                          params |-> headers, media |-> b.media, body |-> b.body]
<1>1. Upper(m) = m /\ findOperation(d, m, t) = t /\ t /= NoPath
  BY OperationFound
<1>2. GeneratedRequests(d, m, t, use) = IF bodies = {} THEN {Request(none)} ELSE {Request(b) : b \in bodies}
  <2> DEFINE found == d.ops[<<findOperation(d, m, t), Upper(m)>>]
             Made(b) == [method |-> m, url |-> FALSE, path |-> resolvePath(found, t, use),
                         params |-> HeadersOf(found, use), media |-> b.media, body |-> b.body]
  <2>1. GeneratedRequests(d, m, t, use) = IF bodies = {} THEN {Made(none)} ELSE {Made(b) : b \in bodies}
    BY Zenon DEF GeneratedRequests, HeadersOf
  <2>2. found = op
    BY <1>1
  <2> HIDE DEF blank, bodies
  <2> QED
    BY <2>1, <2>2
<1> HIDE DEF blank
<1>3. ASSUME NEW r \in GeneratedRequests(d, m, t, use)
      PROVE  /\ r = [method |-> m, url |-> FALSE, path |-> path, params |-> headers,
                     media |-> r.media, body |-> r.body]
             /\ BodyMade(bodies, r.body)
  <2> HIDE DEF bodies, path, headers
  <2>1. CASE bodies = {}
    BY <1>2, <1>3, <2>1 DEF BodyMade
  <2>2. CASE bodies /= {}
    <3>1. PICK b \in bodies : r = Request(b)
      BY <1>2, <1>3, <2>2
    <3> QED
      BY <2>2, <3>1 DEF BodyMade
  <2> QED
    BY <2>1, <2>2
<1>4. PICK g \in Fixtures(d, m, t, use) :
         f = [g EXCEPT !.req.media = IF g.req.body = NoBody THEN @ ELSE Json]
  BY <1>1 DEF GenerateFixture
<1>5. PICK r \in GeneratedRequests(d, m, t, use), p \in GenerateResponse(d, m, t, NoStatus, use) :
         g = [req |-> r, resp |-> p]
  BY <1>1 DEF Fixtures
<1> HIDE DEF bodies, path, headers
<1>6. /\ f.resp = p
      /\ f.req = [r EXCEPT !.media = IF r.body = NoBody THEN r.media ELSE Json]
  BY <1>4, <1>5
<1>7. /\ f.req.method = m /\ ~f.req.url /\ f.req.path = path /\ f.req.params = headers
      /\ f.req.body = r.body
      /\ r.body /= NoBody => f.req.media = Json
  BY <1>3, <1>6
<1> QED
  BY <1>3, <1>5, <1>6, <1>7 DEF bodies, path, headers

\* Whatever the document: what is generated for an operation that is routed to is valid.
THEOREM GeneratedIsValid ==
    ASSUME NEW d, WellFormed(d), Readable(d), NEW key \in DOMAIN d.ops,
           NEW use, Generable(d, key, use),
           NEW f \in GenerateFixture(d, key[2], key[1], use), Target(d, f.req) = key[1]
    PROVE  /\ ValidateInteraction(d, f.req, f.resp) = "valid"
           /\ ValidateProducerResponse(d, f.req, f.resp) = "valid"
<1> DEFINE t == key[1]
           m == key[2]
           op == d.ops[key]
           responses == op.responses
           sent == Stripped(d, f.req)
<1>1. key = <<t, m>>
  BY DEF WellFormed
<1>2. Upper(m) = m /\ findOperation(d, m, t) = t /\ t /= NoPath /\ t \in Templates(d)
  BY <1>1, OperationFound
<1>3. /\ f.resp \in GenerateResponse(d, m, t, NoStatus, use)
      /\ f.req.method = m /\ ~f.req.url
      /\ f.req.path = resolvePath(op, t, use)
      /\ f.req.params = HeadersOf(op, use)
      /\ f.req.body /= NoBody => f.req.media = Json
      /\ BodyMade(GenerateRequestBody(d, m, t, use), f.req.body)
  BY <1>1, FixtureMade
<1>4. stripBasePath(d, f.req.path) = f.req.path
  <2>1. t \in Seq(STRING \ {Hole})
    BY <1>2, TemplatesAreSequences
  <2>2. PICK T : f.req.path \in Seq(T) /\ Len(f.req.path) = Len(t)
    BY <1>3, <2>1, Resolved
  <2>3. Fits(t, stripBasePath(d, f.req.path))
    BY <1>2, Routed DEF Target
  <2>4. Len(stripBasePath(d, f.req.path)) = Len(f.req.path)
    BY <2>2, <2>3 DEF Fits
  <2> QED
    BY <2>2, <2>4, NothingStripped
<1>5. /\ sent.path = resolvePath(op, t, use) /\ sent.params = f.req.params
      /\ sent.body = f.req.body /\ sent.media = f.req.media
  BY <1>3, <1>4 DEF Stripped
<1>6. RequestOk(d, t, m, sent)
  <2>1. \A p \in Parameters(op) : ParameterOk(p, t, sent)
    BY <1>3, <1>5, ParametersGenerated
  <2>2. BodyOk(op, sent)
    BY <1>3, <1>5, BodyGenerated
  <2> QED
    BY <1>1, <2>1, <2>2 DEF RequestOk
<1>7. PICK st \in selectSuccessStatus(responses) :
         \E c \in getResponseForStatus(responses, st) : f.resp \in Generated(responses[c], st, use)
  BY <1>1, <1>2, <1>3 DEF GenerateResponse
<1>8. PICK c \in getResponseForStatus(responses, st) : f.resp \in Generated(responses[c], st, use)
  BY <1>7
<1>9. f.resp.status = st
  BY <1>8, GeneratedIsResponse
<1>10. st \in 200 .. 299
  BY <1>7, StatusGenerated DEF Generable
<1>11. ResponseOk(d, t, m, f.resp)
  BY <1>1, <1>8, <1>9, GeneratedConforms DEF Generable
<1>12. validateInteractionRequest(f.req, f.resp) /\ validateProducerRequest(f.req, f.resp)
  BY <1>2, <1>3, <1>9, <1>10
  DEF Generable, validateInteractionRequest, validateProducerRequest, ValidateHTTPMethod,
      ValidateHTTPPath, ValidateStatusCode
<1>13. Route(d, m, stripBasePath(d, f.req.path)) = t
  BY <1>3 DEF Target
<1>14. ServerRoute(d, f.req.method, sent.path) = t
  BY <1>3, <1>4, <1>5, <1>13 DEF ServerRoute
<1>15. ValidateInteraction(d, f.req, f.resp) = "valid"
  BY <1>2, <1>3, <1>6, <1>11, <1>12, <1>14 DEF ValidateInteraction
<1>16. ValidateProducerResponse(d, f.req, f.resp) = "valid"
  BY <1>2, <1>3, <1>11, <1>12, <1>13 DEF ValidateProducerResponse, ServerRoute
<1> QED
  BY <1>15, <1>16

\* In every version.
THEOREM FixturesConformAlways == Spec => []FixturesConform
<1>1. Checked => FixturesConform
  <2>1. ASSUME Checked, NEW i \in DOMAIN versions
        PROVE  WellFormed(versions[i]) /\ Readable(versions[i])
    BY <2>1, DocumentAssumption, DataAssumption DEF Checked, Documented
  <2> QED
    BY <2>1, GeneratedIsValid DEF FixturesConform
<1> QED
  BY <1>1, CheckedAlways, PTL

=============================================================================
