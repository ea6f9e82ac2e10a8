------------------------ MODULE ServerCompatibility -------------------------
(***************************************************************************)
(* The server's CompatibilityEngine: the breaking changes it reports       *)
(* between two documents.  A change is the kind, path, method and name of  *)
(* what changed; the engine collects them in one list and calls the        *)
(* documents compatible when the list is empty.  Its maps are keyed by     *)
(* names: a document gives a name one type in an operation.                *)
(***************************************************************************)
EXTENDS OpenApi

Methods == {"GET", "POST", "PUT", "DELETE", "PATCH"}
Change(kind, t, m, name) == [kind |-> kind, path |-> t, method |-> m, name |-> name]

\* The operations both documents have, under the path of the new one.
Compared(old, new, methods) ==
    {key \in DOMAIN new.ops :
        key[2] \in methods /\ HasOperation(old, Find(old, key[1]), key[2])}

OldOp(old, key) == old.ops[<<Find(old, key[1]), key[2]>>]

-----------------------------------------------------------------------------

\* Reported under the path of the old document.
checkRemovedEndpoints(old, new) ==
    {Change("ENDPOINT_REMOVED", key[1], key[2], "") :
        key \in {k \in DOMAIN old.ops :
            /\ k[2] \in Methods \cup {"HEAD", "OPTIONS"}
            /\ ~HasOperation(new, Find(new, k[1]), k[2])}}

Named(params) == {p.name : p \in params}

\* Only the operation's own parameters, by name alone.
checkAddedRequiredParameters(old, new) ==
    UNION {{Change("REQUIRED_PARAMETER_ADDED", key[1], key[2], p.name) :
               p \in {q \in new.ops[key].params :
                   q.required /\ q.name \notin Named(OldOp(old, key).params)}} :
           key \in Compared(old, new, Methods)}

Schemas(body) ==
    IF body = NoBody THEN {}
    ELSE {body.content[mt] : mt \in DOMAIN body.content} \ {NoSchema}
RequiredFields(body) == UNION {s.required : s \in Schemas(body)}

compareRequestBodies(oldBody, newBody) == RequiredFields(newBody) \ RequiredFields(oldBody)

checkAddedRequiredBodyFields(old, new) ==
    UNION {{Change("REQUIRED_FIELD_ADDED", key[1], key[2], f) :
               f \in compareRequestBodies(OldOp(old, key).body, new.ops[key].body)} :
           key \in Compared(old, new, {"POST", "PUT", "PATCH"})}

\* Mutants of isCompatibleTypeChange: either way round; also from numbers to text.
isSimilarType(oldType, newType) == {oldType, newType} = {"integer", "number"}
isWiderType(oldType, newType) == <<oldType, newType>> \in {<<"integer", "number">>, <<"number", "string">>}

isCompatibleTypeChange(oldType, newType) == oldType = "integer" /\ newType = "number"

TypeBreaks(oldType, newType) ==
    oldType /= newType /\ ~isCompatibleTypeChange(oldType, newType)

\* The old type must be known; a new parameter without one has the type "".
checkParameterTypeChanges(oldOp, newOp) ==
    {p.name : p \in {q \in newOp.params :
        \E o \in oldOp.params :
            o.name = q.name /\ o.type /= Untyped /\ TypeBreaks(o.type, q.type)}}

\* Of all media types; both types must be known.
checkRequestBodyTypeChanges(oldBody, newBody) ==
    {f \in UNION {DOMAIN s.props : s \in Schemas(newBody)} :
        \E o \in Schemas(oldBody), n \in Schemas(newBody) :
            /\ f \in DOMAIN o.props /\ f \in DOMAIN n.props
            /\ Untyped \notin {o.props[f], n.props[f]}
            /\ TypeBreaks(o.props[f], n.props[f])}

checkTypeChanges(old, new) ==
    UNION {{Change("TYPE_CHANGED", key[1], key[2], f) :
               f \in checkParameterTypeChanges(OldOp(old, key), new.ops[key])
                     \cup checkRequestBodyTypeChanges(OldOp(old, key).body, new.ops[key].body)} :
           key \in Compared(old, new, Methods)}

checkParameterEnumChanges(oldOp, newOp) ==
    {p.name : p \in {q \in newOp.params :
        /\ q.enum /= {}
        /\ \E o \in oldOp.params : o.name = q.name /\ ~(o.enum \subseteq q.enum)}}

checkRemovedEnumValues(old, new) ==
    UNION {{Change("ENUM_VALUE_REMOVED", key[1], key[2], f) :
               f \in checkParameterEnumChanges(OldOp(old, key), new.ops[key])} :
           key \in Compared(old, new, Methods)}

\* A property that is gone, or has another type: no widening in a response.
compareResponseSchemas(oldSchema, newSchema) ==
    IF NoSchema \in {oldSchema, newSchema} THEN {}
    ELSE {f \in DOMAIN oldSchema.props :
            IF f \in DOMAIN newSchema.props
            THEN /\ Untyped \notin {oldSchema.props[f], newSchema.props[f]}
                 /\ oldSchema.props[f] /= newSchema.props[f]
            ELSE TRUE}

\* A removed code has no field to name.
compareResponses(old, new) ==
    {"" : c \in DOMAIN old \ DOMAIN new} \cup
    UNION {UNION {compareResponseSchemas(old[c][mt], new[c][mt]) :
                     mt \in DOMAIN old[c] \cap DOMAIN new[c]} :
           c \in DOMAIN old \cap DOMAIN new}

checkResponseChanges(old, new) ==
    UNION {{Change("RESPONSE_SCHEMA_CHANGED", key[1], key[2], f) :
               f \in compareResponses(OldOp(old, key).responses, new.ops[key].responses)} :
           key \in Compared(old, new, Methods)}

CompareSchemas(old, new) ==
    checkRemovedEndpoints(old, new) \cup checkAddedRequiredParameters(old, new)
    \cup checkAddedRequiredBodyFields(old, new) \cup checkTypeChanges(old, new)
    \cup checkRemovedEnumValues(old, new) \cup checkResponseChanges(old, new)

=============================================================================
