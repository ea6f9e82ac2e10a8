------------------------- MODULE MCConsumerRegistry -------------------------
(***************************************************************************)
(* Instances of ConsumerRegistry for TLC: up to two consumers and two      *)
(* environments, two versions, and a change from d1 to d2 that touches one *)
(* of two endpoints.                                                       *)
(***************************************************************************)
EXTENDS ConsumerRegistry, TLC

CONSTANTS d1, d2, v1, v2, pets, orders, h1, h2, h3, web, app

MCDocs == {d1, d2}
MCVersions == {v1, v2}
MCVersionOf == d1 :> v1 @@ d2 :> v2
MCVersionOf1 == d1 :> v1
NoChanges == <<d1, d1>> :> {}
MCChanges ==
  [p \in MCDocs \X MCDocs |-> IF p = <<d1, d2>> THEN {{pets}} ELSE {}]

Registers(ids, envs, versions, uses) ==
  [op : {"register"}, consumer : ids, env : envs, version : versions,
   uses : uses]

Deregisters(ids, envs) ==
  [op : {"deregister"}, consumer : ids, env : envs, version : {Latest},
   uses : {{}}]

Deploys(envs, versions) ==
  [op : {"deploy"}, consumer : {web}, env : envs, version : versions,
   uses : {{}}]

\* Two consumers in "dev" race for the last place.
CapTraffic ==
  Registers({web, app}, {Unset, "prod"}, {Latest}, {{}})
    \cup Deregisters({web, app}, {Unset})

\* A producer asks about v2 in production while a consumer moves.
DeployTraffic ==
  Registers({web}, {"prod"}, {v1}, {{}, {orders}})
    \cup Registers({app}, {Unset}, {v1}, {{}})
    \cup Deregisters({web}, {"prod"})
    \cup Deploys({Unset}, {v2})

\* One consumer registers twice, or registers and leaves.
StoreTraffic ==
  Registers({web}, {"prod"}, {v1, v2}, {{}}) \cup Deregisters({web}, {"prod"})

HandlerSymmetry == Permutations(Handlers)

=============================================================================
