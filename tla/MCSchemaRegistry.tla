-------------------------- MODULE MCSchemaRegistry --------------------------
(***************************************************************************)
(* Instances of SchemaRegistry for TLC: one schema ID, two versions, and   *)
(* two different documents of the second version.                          *)
(***************************************************************************)
EXTENDS SchemaRegistry, TLC

CONSTANTS api, d1, d2, e2, v1, v2, c1, c2, c3

MCSchemas == {api}
MCDocs == {d1, d2, e2}
MCVersions == {v1, v2}
MCVersionOf == d1 :> v1 @@ d2 :> v2 @@ e2 :> v2

Registrations(docs, checks) ==
  [op : {"register"}, schema : {api}, doc : docs, version : {Latest},
   check : checks]

Gets(versions) ==
  [op : {"get"}, schema : {api}, doc : {NoDoc}, version : versions,
   check : {FALSE}]

Fixtures ==
  [op : {"fixture"}, schema : {api}, doc : {NoDoc}, version : {Latest},
   check : {FALSE}]

NothingServed == api :> {}
PluginHasOne == api :> {d1}

CheckedTraffic ==
  Registrations(MCDocs, {TRUE}) \cup Gets({Latest}) \cup Fixtures

MixedTraffic ==
  Registrations(MCDocs, BOOLEAN) \cup Gets({Latest, v2})

PluginTraffic ==
  Registrations({d2, e2}, {TRUE}) \cup Gets(Keys) \cup Fixtures

FixtureTraffic ==
  Registrations(MCDocs, {FALSE}) \cup Gets({v1}) \cup Fixtures

CallSymmetry == Permutations({c1, c2, c3})

=============================================================================
