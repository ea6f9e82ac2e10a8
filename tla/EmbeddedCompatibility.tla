----------------------- MODULE EmbeddedCompatibility ------------------------
(***************************************************************************)
(* The CompatibilityEngine of the embedded library pkg/cvt, a second copy  *)
(* of the server's that `cvt compare` uses: it knows five methods only and *)
(* looks neither into request bodies for types nor into responses.         *)
(***************************************************************************)
EXTENDS OpenApi

EmbMethods == {"GET", "POST", "PUT", "DELETE", "PATCH"}
EmbChange(kind, t, m, name) == [kind |-> kind, path |-> t, method |-> m, name |-> name]

EmbCompared(old, new, methods) ==
    {key \in DOMAIN new.ops :
        key[2] \in methods /\ HasOperation(old, Find(old, key[1]), key[2])}

EmbOldOp(old, key) == old.ops[<<Find(old, key[1]), key[2]>>]

EmbRemovedEndpoints(old, new) ==
    {EmbChange("ENDPOINT_REMOVED", key[1], key[2], "") :
        key \in {k \in DOMAIN old.ops :
            k[2] \in EmbMethods /\ ~HasOperation(new, Find(new, k[1]), k[2])}}

EmbAddedRequiredParameters(old, new) ==
    UNION {{EmbChange("REQUIRED_PARAMETER_ADDED", key[1], key[2], p.name) :
               p \in {q \in new.ops[key].params :
                   q.required /\ \A o \in EmbOldOp(old, key).params : o.name /= q.name}} :
           key \in EmbCompared(old, new, EmbMethods)}

EmbRequired(body) ==
    IF body = NoBody THEN {}
    ELSE UNION {body.content[mt].required :
                   mt \in {mt \in DOMAIN body.content : body.content[mt] /= NoSchema}}

EmbRequestBodies(oldBody, newBody) == EmbRequired(newBody) \ EmbRequired(oldBody)

EmbAddedRequiredBodyFields(old, new) ==
    UNION {{EmbChange("REQUIRED_FIELD_ADDED", key[1], key[2], f) :
               f \in EmbRequestBodies(EmbOldOp(old, key).body, new.ops[key].body)} :
           key \in EmbCompared(old, new, {"POST", "PUT", "PATCH"})}

EmbIsCompatibleTypeChange(oldType, newType) == oldType = "integer" /\ newType = "number"

\* Mutant of EmbParameterTypeChanges: any change of the type is reported.
EmbAnyParameterTypeChange(oldOp, newOp) ==
    {p.name : p \in {q \in newOp.params :
        \E o \in oldOp.params : o.name = q.name /\ o.type /= q.type}}

EmbParameterTypeChanges(oldOp, newOp) ==
    {p.name : p \in {q \in newOp.params :
        \E o \in oldOp.params :
            /\ o.name = q.name /\ o.type /= Untyped
            /\ o.type /= q.type /\ ~EmbIsCompatibleTypeChange(o.type, q.type)}}

EmbTypeChanges(old, new) ==
    UNION {{EmbChange("TYPE_CHANGED", key[1], key[2], f) :
               f \in EmbParameterTypeChanges(EmbOldOp(old, key), new.ops[key])} :
           key \in EmbCompared(old, new, EmbMethods)}

EmbParameterEnumChanges(oldOp, newOp) ==
    {p.name : p \in {q \in newOp.params :
        q.enum /= {} /\ \E o \in oldOp.params : o.name = q.name /\ o.enum \ q.enum /= {}}}

EmbRemovedEnumValues(old, new) ==
    UNION {{EmbChange("ENUM_VALUE_REMOVED", key[1], key[2], f) :
               f \in EmbParameterEnumChanges(EmbOldOp(old, key), new.ops[key])} :
           key \in EmbCompared(old, new, EmbMethods)}

EmbResponses(old, new) == {"" : c \in DOMAIN old \ DOMAIN new}

EmbResponseChanges(old, new) ==
    UNION {{EmbChange("RESPONSE_SCHEMA_CHANGED", key[1], key[2], c) :
               c \in EmbResponses(EmbOldOp(old, key).responses, new.ops[key].responses)} :
           key \in EmbCompared(old, new, EmbMethods)}

EmbCompareSchemas(old, new) ==
    EmbRemovedEndpoints(old, new) \cup EmbAddedRequiredParameters(old, new)
    \cup EmbAddedRequiredBodyFields(old, new) \cup EmbTypeChanges(old, new)
    \cup EmbRemovedEnumValues(old, new) \cup EmbResponseChanges(old, new)

=============================================================================
