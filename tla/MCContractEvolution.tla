------------------------ MODULE MCContractEvolution -------------------------
(***************************************************************************)
(* An instance of ContractEvolution: a small pet store and one change at a *)
(* time of it, so that a behaviour is a chain of single changes.           *)
(***************************************************************************)
EXTENDS ContractEvolution

MCVars == {"{id}", "{petId}"}
Pets == <<"pets">>
Pet == <<"pets", "{id}">>

Param(name, in, required, type, enum) ==
    [name |-> name, in |-> in, required |-> required, type |-> type, enum |-> enum,
     limit |-> {}, example |-> NoExample]
Schema(props, required) ==
    [props |-> props, required |-> required, readOnly |-> {}, writeOnly |-> {},
     limits |-> [f \in DOMAIN props |-> {}], examples |-> [f \in DOMAIN props |-> NoExample]]
OnlyMedia(mt, schema) == mt :> schema

Id == Param("{id}", "path", TRUE, "string", {})
Limit == Param("limit", "query", FALSE, "integer", {})
Trace == Param("trace", "header", FALSE, "string", {})
PetBody == Schema("name" :> "string" @@ "age" :> "integer", {"name"})
PetAnswer == Schema("name" :> "string" @@ "tag" :> "string", {"name"})

GetPet == [params |-> {Id, Limit}, shared |-> {}, body |-> NoBody,
           responses |-> 200 :> OnlyMedia(Json, PetAnswer) @@ 404 :> << >>]
PostPets == [params |-> {}, shared |-> {},
             body |-> [required |-> TRUE, content |-> OnlyMedia(Json, PetBody)],
             responses |-> 201 :> OnlyMedia(Json, PetAnswer)]

Base == [servers |-> <<[absolute |-> TRUE, base |-> <<"v1">>]>>,
         ops |-> <<Pet, "GET">> :> GetPet @@ <<Pets, "POST">> :> PostPets]

WithGet(op) == [Base EXCEPT !.ops[<<Pet, "GET">>] = op]
WithLimit(p) == WithGet([GetPet EXCEPT !.params = {Id, p}])
WithAnswer(responses) == WithGet([GetPet EXCEPT !.responses = responses])
WithBody(body) == [Base EXCEPT !.ops[<<Pets, "POST">>].body = body]
WithSchema(schema) == WithBody([required |-> TRUE, content |-> OnlyMedia(Json, schema)])

ParameterChanges ==
    {WithLimit(p) : p \in {
        [Limit EXCEPT !.required = TRUE], [Limit EXCEPT !.type = "number"],
        [Limit EXCEPT !.type = "string"], [Limit EXCEPT !.in = "header"],
        [Limit EXCEPT !.enum = {"1"}, !.type = "number"],
        [Limit EXCEPT !.enum = {"1.5"}, !.type = "number"]}}
    \cup {WithGet([GetPet EXCEPT !.params = {Id}]),
          WithGet([GetPet EXCEPT !.params = {Id}, !.shared = {[Limit EXCEPT !.required = TRUE]}]),
          WithGet([GetPet EXCEPT !.shared = {[Limit EXCEPT !.required = TRUE]}]),
          WithGet([GetPet EXCEPT !.params = @ \cup {Trace}]),
          WithGet([GetPet EXCEPT !.params = @ \cup {[Trace EXCEPT !.required = TRUE]}]),
          WithGet([GetPet EXCEPT !.params = {Limit, [Id EXCEPT !.limit = {"b"}, !.example = "b"]}])}

BodyChanges ==
    {WithSchema(s) : s \in {
        [PetBody EXCEPT !.required = {"name", "age"}], [PetBody EXCEPT !.props["age"] = "number"],
        [PetBody EXCEPT !.props["age"] = "string"], [PetBody EXCEPT !.props["age"] = Untyped],
        [PetBody EXCEPT !.props["age"] = "object"],
        [PetBody EXCEPT !.limits["name"] = {"b"}, !.examples["name"] = "b"],
        [PetBody EXCEPT !.readOnly = {"name"}],
        Schema("name" :> "string", {"name"})}}
    \cup {WithBody(NoBody), WithBody([required |-> FALSE, content |-> OnlyMedia(HalJson, PetBody)]),
          WithBody([required |-> TRUE, content |-> << >>]),
          WithBody([required |-> TRUE,
                    content |-> Json :> PetBody @@ HalJson :> [PetBody EXCEPT !.required = {"name", "age"}]])}

AnswerChanges ==
    {WithAnswer(r) : r \in {
        200 :> OnlyMedia(Json, Schema("name" :> "string", {"name"})) @@ 404 :> << >>,
        200 :> OnlyMedia(Json, [PetAnswer EXCEPT !.props["tag"] = Untyped]) @@ 404 :> << >>,
        200 :> OnlyMedia(Json, [PetAnswer EXCEPT !.props["tag"] = "integer"]) @@ 404 :> << >>,
        2 :> OnlyMedia(Json, PetAnswer), 4 :> << >>, 0 :> OnlyMedia(Json, PetAnswer),
        200 :> OnlyMedia(Json, [PetAnswer EXCEPT !.limits["tag"] = {"b"}, !.examples["tag"] = "b"]),
        200 :> OnlyMedia(Json, [PetAnswer EXCEPT !.examples["tag"] = "1"]),
        200 :> OnlyMedia(Json, [PetAnswer EXCEPT !.writeOnly = {"tag"}]),
        200 :> OnlyMedia(HalJson, PetAnswer), 204 :> << >>,
        206 :> OnlyMedia(Json, PetAnswer) @@ 203 :> OnlyMedia("text/plain", NoSchema)}}

PathChanges ==
    {[Base EXCEPT !.ops = <<Pet, "GET">> :> GetPet],
     [Base EXCEPT !.ops = <<<<"pets", "{petId}">>, "GET">> :>
                              [GetPet EXCEPT !.params = {[Id EXCEPT !.name = "{petId}"], Limit}]
                          @@ <<Pets, "POST">> :> PostPets],
     [Base EXCEPT !.ops = @ @@ <<<<"pets", "a">>, "GET">> :>
                              [GetPet EXCEPT !.params = {[Limit EXCEPT !.required = TRUE]}]],
     [Base EXCEPT !.ops = @ @@ <<<<"pets", "a">>, "POST">> :> PostPets],
     [Base EXCEPT !.ops = @ @@ <<Pet, "HEAD">> :> GetPet],
     [Base EXCEPT !.ops = @ @@ <<Pet, "HEAD">> :> [GetPet EXCEPT !.params = {Id, [Limit EXCEPT !.enum = {"1"}]}]],
     [Base EXCEPT !.servers = << >>],
     [Base EXCEPT !.servers = <<[absolute |-> FALSE, base |-> <<"pets">>]>>]}

MCDocuments == {Base} \cup ParameterChanges \cup BodyChanges \cup AnswerChanges \cup PathChanges

Request(m, path, params, body) ==
    [method |-> m, url |-> FALSE, path |-> path, params |-> params,
     media |-> IF body = NoBody THEN "" ELSE Json, body |-> body]

GetRequests ==
    {Request("GET", <<"pets", "a">>, params, NoBody) :
        params \in {<< >>, <<"query", "limit">> :> "1", <<"query", "limit">> :> "1.5",
                    <<"header", "limit">> :> "a"}}
    \cup {Request("GET", <<"v1", "pets", "a">>, << >>, NoBody)}
    \cup {Request("HEAD", <<"pets", "a">>, params, NoBody) :
            params \in {<< >>, <<"query", "limit">> :> "1.5"}}
    \cup {Request("get", <<"pets", "a">>, << >>, NoBody)}
PostRequests ==
    {Request("POST", Pets, << >>, body) :
        body \in {NoBody, "name" :> "a", "name" :> "a" @@ "age" :> "1", "name" :> "a" @@ "age" :> "a",
                  "name" :> "b", "age" :> "1"}}
    \cup {Request("POST", <<"v1", "pets">>, << >>, "name" :> "a")}

MCRequests == GetRequests \cup PostRequests
GetTest == Request("GET", <<"pets", "a">>, <<"query", "limit">> :> "1", NoBody)
PostTest == Request("POST", Pets, << >>, "name" :> "a")
MCSuites == {{GetTest, PostTest}}

=============================================================================
