--------------------------- MODULE ConsumerRegistry ---------------------------
(***************************************************************************)
(* The consumer side of ValidatorService (server/cvtservice) for one       *)
(* schema ID: RegisterConsumer, DeregisterConsumer and CanIDeploy, served  *)
(* by concurrent gRPC handlers over the consumer map of SchemaCache and    *)
(* the optional SQL store.                                                 *)
(*                                                                         *)
(* CanIDeploy reads the schema registry several times, so the registry is  *)
(* here too, reduced to what a lookup finds: documents come and go under   *)
(* their keys while handlers run, as SchemaLookup lets them.               *)
(* SchemaRegistry models that side in full and implements SchemaLookup.    *)
(***************************************************************************)
EXTENDS Naturals, FiniteSets

CONSTANTS
  Handlers,     \* gRPC handler goroutines, each serving call after call
  Consumers,    \* consumer IDs
  Environments, \* deployment environments, "dev" and "prod" among them
  Versions,     \* non-empty version strings
  Docs,         \* OpenAPI documents
  VersionOf,    \* Docs -> Versions, info.version
  Endpoints,    \* the endpoints consumers may declare
  Changes,      \* breaking changes between two documents, each of them the
                \* set of endpoints it touches
  Traffic,      \* the requests clients may send, a subset of Request
  MaxConsumersPerSchema,
  StoreOn,      \* TRUE when a SQL store is configured
  PluginBound,  \* TRUE when some plugin is bound to the fetch_schema hook
  NoDoc,        \* absence of a document
  NoEntry,      \* absence of a consumer entry
  Latest,       \* the empty version string: latest, or "not pinned"
  Unset         \* the empty environment string

Keys == Versions \cup {Latest}

\* One consumer ID in one environment: makeConsumerKey for a fixed schema.
ConsumerKeys == Consumers \X Environments

ConsumerEntry == [version : Keys, uses : SUBSET Endpoints]

Request ==
  [op : {"register", "deregister", "deploy"}, consumer : Consumers,
   env : Environments \cup {Unset}, version : Keys, uses : SUBSET Endpoints]

ASSUME ConsumerAssumption ==
  /\ {"dev", "prod"} \subseteq Environments
  /\ IsFiniteSet(Handlers) /\ IsFiniteSet(ConsumerKeys)
  /\ MaxConsumersPerSchema \in Nat \ {0}
  /\ StoreOn \in BOOLEAN /\ PluginBound \in BOOLEAN
  /\ Traffic \subseteq Request

ASSUME DocumentAssumption ==
  /\ VersionOf \in [Docs -> Versions]
  /\ Changes \in [Docs \X Docs -> SUBSET (SUBSET Endpoints)]
  /\ NoDoc \notin Docs
  /\ Latest \notin Versions
  /\ NoEntry \notin ConsumerEntry

VARIABLES
  consumers, \* SchemaCache.consumers
  rows,      \* the store's consumers table
  entries,   \* what getSchemaEntry finds under each key
  pc,        \* where each handler is
  args,      \* its request
  newDoc,    \* CanIDeploy: the document to be deployed
  snapshot,  \* CanIDeploy: listed consumers not yet compared
  affected,  \* CanIDeploy: consumers already in the answer
  willBreak, \* CanIDeploy: those among them marked WillBreak
  reply,     \* what the client was told
  \* history, read by no action
  standing,  \* per call: consumers unchanged since it began
  steady,    \* per call: schema keys found and unchanged since it began
  dirty      \* a store write failed, or the process restarted

deploy  == <<newDoc, snapshot, affected, willBreak>>
history == <<standing, steady, dirty>>
vars    == <<consumers, rows, entries, pc, args, deploy, reply, history>>

Steps ==
  {"idle", "lookup", "cap", "put", "store", "remove", "delete", "new",
   "fallback", "list", "compare", "done"}

Replies == {"none", "ok", "refused", "safe", "unsafe"}

TypeOK ==
  /\ consumers \in [ConsumerKeys -> ConsumerEntry \cup {NoEntry}]
  /\ rows \in [ConsumerKeys -> ConsumerEntry \cup {NoEntry}]
  /\ entries \in [Keys -> Docs \cup {NoDoc}]
  /\ pc \in [Handlers -> Steps]
  /\ args \in [Handlers -> Request \cup {NoEntry}]
  /\ newDoc \in [Handlers -> Docs \cup {NoDoc}]
  /\ snapshot \in [Handlers -> [ConsumerKeys -> ConsumerEntry \cup {NoEntry}]]
  /\ affected \in [Handlers -> SUBSET ConsumerKeys]
  /\ willBreak \in [Handlers -> SUBSET ConsumerKeys]
  /\ reply \in [Handlers -> Replies]
  /\ standing \in [Handlers -> SUBSET ConsumerKeys]
  /\ steady \in [Handlers -> SUBSET Keys]
  /\ dirty \in BOOLEAN

\* What lookups in the schema registry find.
Lookup == INSTANCE SchemaLookup

NoConsumers == [k \in ConsumerKeys |-> NoEntry]

Init ==
  /\ consumers = NoConsumers
  /\ rows = NoConsumers
  /\ Lookup!Init
  /\ pc = [h \in Handlers |-> "idle"]
  /\ args = [h \in Handlers |-> NoEntry]
  /\ newDoc = [h \in Handlers |-> NoDoc]
  /\ snapshot = [h \in Handlers |-> NoConsumers]
  /\ affected = [h \in Handlers |-> {}]
  /\ willBreak = [h \in Handlers |-> {}]
  /\ reply = [h \in Handlers |-> "none"]
  /\ standing = [h \in Handlers |-> {}]
  /\ steady = [h \in Handlers |-> {}]
  /\ dirty = FALSE

-----------------------------------------------------------------------------
(* Helpers                                                                 *)

Goto(h, l) == pc' = [pc EXCEPT ![h] = l] /\ UNCHANGED reply

Return(h, r) ==
  /\ pc' = [pc EXCEPT ![h] = "done"]
  /\ reply' = [reply EXCEPT ![h] = r]

\* The environment a call acts on: an omitted one is "dev" to the two
\* registration RPCs and "prod" to CanIDeploy.
EnvOf(r) ==
  IF r.env # Unset THEN r.env ELSE IF r.op = "deploy" THEN "prod" ELSE "dev"

KeyOf(r) == <<r.consumer, EnvOf(r)>>

Registered == {k \in ConsumerKeys : consumers[k] # NoEntry}

In(env) == {k \in ConsumerKeys : k[2] = env}

\* filterChangesForConsumer: without declared endpoints everything matters.
Relevant(old, new, uses) ==
  {change \in Changes[<<old, new>>] : uses = {} \/ change \cap uses # {}}

\* History bookkeeping of a step that writes the consumer map or the
\* registry.
Track ==
  /\ standing' = [h \in Handlers |->
                   {k \in standing[h] : consumers'[k] = consumers[k]}]
  /\ steady' = [h \in Handlers |->
                 {k \in steady[h] : entries'[k] = entries[k]}]

-----------------------------------------------------------------------------
(* Arrival and answer                                                      *)

\* A request that passes validation reaches its handler.
Begin(h) ==
  /\ pc[h] = "idle"
  /\ \E r \in Traffic :
       /\ args' = [args EXCEPT ![h] = r]
       /\ Goto(h, IF r.op = "deregister" THEN "remove" ELSE "lookup")
  /\ standing' = [standing EXCEPT ![h] = Registered]
  /\ steady' = [steady EXCEPT ![h] = {k \in Keys : entries[k] # NoDoc}]
  /\ UNCHANGED <<consumers, rows, entries, deploy, dirty>>

\* The answer is sent, the call's variables are gone and the handler may
\* serve another one.
Finish(h) ==
  /\ pc[h] = "done"
  /\ pc' = [pc EXCEPT ![h] = "idle"]
  /\ args' = [args EXCEPT ![h] = NoEntry]
  /\ newDoc' = [newDoc EXCEPT ![h] = NoDoc]
  /\ snapshot' = [snapshot EXCEPT ![h] = NoConsumers]
  /\ affected' = [affected EXCEPT ![h] = {}]
  /\ willBreak' = [willBreak EXCEPT ![h] = {}]
  /\ reply' = [reply EXCEPT ![h] = "none"]
  /\ standing' = [standing EXCEPT ![h] = {}]
  /\ steady' = [steady EXCEPT ![h] = {}]
  /\ UNCHANGED <<consumers, rows, entries, dirty>>

\* RegisterConsumer and CanIDeploy first make sure that the schema is known.
FindSchema(h) ==
  /\ pc[h] = "lookup"
  /\ \/ /\ entries[Latest] = NoDoc
        /\ Return(h, IF args[h].op = "deploy" THEN "unsafe" ELSE "refused")
     \/ /\ entries[Latest] # NoDoc
        /\ Goto(h, IF args[h].op = "deploy" THEN "new" ELSE "cap")
  /\ UNCHANGED <<consumers, rows, entries, args, deploy, history>>

-----------------------------------------------------------------------------
(* RegisterConsumer                                                        *)

\* Mutant of CheckCap: off by one.
CheckCapPast(h) ==
  /\ pc[h] = "cap"
  /\ IF Cardinality(Registered) > MaxConsumersPerSchema
       THEN Return(h, "refused")
       ELSE Goto(h, "put")
  /\ UNCHANGED <<consumers, rows, entries, args, deploy, history>>

\* The soft cap: counted over every environment, under a lock of its own,
\* and applied to updates of a known consumer too.
CheckCap(h) ==
  /\ pc[h] = "cap"
  /\ IF Cardinality(Registered) >= MaxConsumersPerSchema
       THEN Return(h, "refused")
       ELSE Goto(h, "put")
  /\ UNCHANGED <<consumers, rows, entries, args, deploy, history>>

\* SchemaCache.RegisterConsumer.
Put(h) ==
  /\ pc[h] = "put"
  /\ consumers' = [consumers EXCEPT ![KeyOf(args[h])] =
                     [version |-> args[h].version, uses |-> args[h].uses]]
  /\ IF StoreOn THEN Goto(h, "store") ELSE Return(h, "ok")
  /\ UNCHANGED <<rows, entries, args, deploy, dirty>>
  /\ Track

\* Store.RegisterConsumer, an upsert; register_consumer_usage is fired after
\* it and its result ignored.
StorePut(h) ==
  /\ pc[h] = "store"
  /\ rows' = [rows EXCEPT ![KeyOf(args[h])] =
                [version |-> args[h].version, uses |-> args[h].uses]]
  /\ Return(h, "ok")
  /\ UNCHANGED <<consumers, entries, args, deploy, history>>

-----------------------------------------------------------------------------
(* DeregisterConsumer                                                      *)

\* SchemaCache.DeregisterConsumer: a consumer the cache does not know is
\* "not found", whatever the store holds.
Remove(h) ==
  /\ pc[h] = "remove"
  /\ LET k == KeyOf(args[h]) IN
       \/ /\ consumers[k] = NoEntry
          /\ Return(h, "refused")
          /\ UNCHANGED consumers
       \/ /\ consumers[k] # NoEntry
          /\ consumers' = [consumers EXCEPT ![k] = NoEntry]
          /\ IF StoreOn THEN Goto(h, "delete") ELSE Return(h, "ok")
  /\ UNCHANGED <<rows, entries, args, deploy, dirty>>
  /\ Track

StoreDelete(h) ==
  /\ pc[h] = "delete"
  /\ rows' = [rows EXCEPT ![KeyOf(args[h])] = NoEntry]
  /\ Return(h, "ok")
  /\ UNCHANGED <<consumers, entries, args, deploy, history>>

\* Either store call fails: logged, and the caller gets plain success.
StoreFails(h) ==
  /\ pc[h] \in {"store", "delete"}
  /\ Return(h, "ok")
  /\ dirty' = TRUE
  /\ UNCHANGED <<consumers, rows, entries, args, deploy, standing, steady>>

-----------------------------------------------------------------------------
(* CanIDeploy                                                              *)

\* Mutant of FindNewVersion: looks up the latest version first.
FindNewVersionLatest(h) ==
  /\ pc[h] = "new"
  /\ newDoc' = [newDoc EXCEPT ![h] = entries[Latest]]
  /\ Goto(h, IF entries[Latest] = NoDoc THEN "fallback" ELSE "list")
  /\ UNCHANGED <<consumers, rows, entries, args, snapshot, affected,
                 willBreak, history>>

FindNewVersion(h) ==
  /\ pc[h] = "new"
  /\ LET d == entries[args[h].version] IN
       /\ newDoc' = [newDoc EXCEPT ![h] = d]
       /\ Goto(h, IF d = NoDoc THEN "fallback" ELSE "list")
  /\ UNCHANGED <<consumers, rows, entries, args, snapshot, affected,
                 willBreak, history>>

\* The version asked about is unknown: the latest one stands in for it.
FallBack(h) ==
  /\ pc[h] = "fallback"
  /\ newDoc' = [newDoc EXCEPT ![h] = entries[Latest]]
  /\ IF entries[Latest] = NoDoc THEN Return(h, "unsafe") ELSE Goto(h, "list")
  /\ UNCHANGED <<consumers, rows, entries, args, snapshot, affected,
                 willBreak, history>>

\* Mutant of ListEnvironment: an omitted environment means "dev".
ListEnvironmentDev(h) ==
  /\ pc[h] = "list"
  /\ LET env    == IF args[h].env = Unset THEN "dev" ELSE args[h].env
         listed == [k \in ConsumerKeys |->
                     IF k \in In(env) THEN consumers[k] ELSE NoEntry] IN
       /\ snapshot' = [snapshot EXCEPT ![h] = listed]
       /\ IF listed = NoConsumers THEN Return(h, "safe") ELSE Goto(h, "compare")
  /\ UNCHANGED <<consumers, rows, entries, args, newDoc, affected, willBreak,
                 history>>

\* SchemaCache.ListConsumers in one environment; no consumer, no risk.
ListEnvironment(h) ==
  /\ pc[h] = "list"
  /\ LET listed == [k \in ConsumerKeys |->
                     IF k \in In(EnvOf(args[h])) THEN consumers[k]
                                                 ELSE NoEntry] IN
       /\ snapshot' = [snapshot EXCEPT ![h] = listed]
       /\ IF listed = NoConsumers THEN Return(h, "safe") ELSE Goto(h, "compare")
  /\ UNCHANGED <<consumers, rows, entries, args, newDoc, affected, willBreak,
                 history>>

\* Mutant of Breaks: changes to endpoints the consumer does not use count.
BreaksUnfiltered(old, new, entry, target) ==
  /\ entry.version \notin {Latest, target}
  /\ old = NoDoc \/ Changes[<<old, new>>] # {}

\* Will deploying new break a consumer pinned to version, when a lookup of
\* that version finds old?
Breaks(old, new, entry, target) ==
  /\ entry.version \notin {Latest, target}
  /\ old = NoDoc \/ Relevant(old, new, entry.uses) # {}

\* One turn of the loop over the listed consumers, in map order: looks up
\* the consumer's version now, long after the list was taken.
CompareOne(h) ==
  /\ pc[h] = "compare"
  /\ \E k \in ConsumerKeys :
       /\ snapshot[h][k] # NoEntry
       /\ snapshot' = [snapshot EXCEPT ![h][k] = NoEntry]
       /\ affected' = [affected EXCEPT ![h] = @ \cup {k}]
       /\ LET e == snapshot[h][k] IN
            willBreak' =
              IF Breaks(entries[e.version], newDoc[h], e, args[h].version)
                THEN [willBreak EXCEPT ![h] = @ \cup {k}]
                ELSE willBreak
  /\ UNCHANGED <<consumers, rows, entries, pc, reply, args, newDoc, history>>

Conclude(h) ==
  /\ pc[h] = "compare"
  /\ snapshot[h] = NoConsumers
  /\ Return(h, IF willBreak[h] = {} THEN "safe" ELSE "unsafe")
  /\ UNCHANGED <<consumers, rows, entries, args, deploy, history>>

-----------------------------------------------------------------------------
(* The environment                                                         *)

\* Another call registers a document or fills the cache from the store.
Set(k, d) ==
  /\ Lookup!Set(k, d)
  /\ UNCHANGED <<consumers, rows, pc, args, deploy, reply, dirty>>
  /\ Track

Forget(k) ==
  /\ Lookup!Forget(k)
  /\ UNCHANGED <<consumers, rows, pc, args, deploy, reply, dirty>>
  /\ Track

\* The process dies and comes back: calls in flight are never answered, the
\* store keeps its rows, and no consumer is ever read back from it.
Restart ==
  /\ consumers' = NoConsumers
  /\ Lookup!Restart
  /\ pc' = [h \in Handlers |-> "idle"]
  /\ args' = [h \in Handlers |-> NoEntry]
  /\ newDoc' = [h \in Handlers |-> NoDoc]
  /\ snapshot' = [h \in Handlers |-> NoConsumers]
  /\ affected' = [h \in Handlers |-> {}]
  /\ willBreak' = [h \in Handlers |-> {}]
  /\ reply' = [h \in Handlers |-> "none"]
  /\ standing' = [h \in Handlers |-> {}]
  /\ steady' = [h \in Handlers |-> {}]
  /\ dirty' = TRUE
  /\ UNCHANGED rows

-----------------------------------------------------------------------------

Serve(h) ==
  \/ FindSchema(h)
  \/ CheckCap(h) \/ Put(h) \/ StorePut(h)
  \/ Remove(h) \/ StoreDelete(h) \/ StoreFails(h)
  \/ FindNewVersion(h) \/ FallBack(h) \/ ListEnvironment(h)
  \/ CompareOne(h) \/ Conclude(h)

Next ==
  \/ \E h \in Handlers : Begin(h) \/ Serve(h) \/ Finish(h)
  \/ \E k \in Keys, d \in Docs : Set(k, d)
  \/ \E k \in Keys : Forget(k)
  \/ Restart

Spec == Init /\ [][Next]_vars

\* A handler that has a call keeps running: every lock here is held for one
\* map operation, and store calls return or time out.
Fairness == \A h \in Handlers : WF_vars(Serve(h))

FairSpec == Spec /\ Fairness

-----------------------------------------------------------------------------
(* Properties                                                              *)

Deploying(h) == pc[h] # "idle" /\ args[h].op = "deploy"

\* The soft cap of RegisterConsumer may be passed, but by fewer consumers
\* than there are handlers racing between the count and the write.
CapOvershootBounded ==
  Cardinality(Registered) < MaxConsumersPerSchema + Cardinality(Handlers)

\* CanIDeploy answers "safe" for a version only if it breaks none of the
\* consumers of that environment registered all through the call, as far as
\* their versions and the new one could be found all through the call.
SafeVerdictIsSound ==
  \A h \in Handlers :
    LET target == args[h].version IN
    Deploying(h) /\ reply[h] = "safe" /\ target \in steady[h] =>
      \A k \in standing[h] \cap In(EnvOf(args[h])) :
        LET e == consumers[k] IN
        e.version \in steady[h] \ {Latest, target} =>
          Relevant(entries[e.version], entries[target], e.uses) = {}

\* A consumer without a findable version is never waved through: whoever
\* stood all through a call that ended "safe" was looked at and cleared.
SafeVerdictIsComplete ==
  \A h \in Handlers :
    Deploying(h) /\ reply[h] = "safe" =>
      standing[h] \cap In(EnvOf(args[h])) \subseteq affected[h]

\* A consumer that is reported to break really does, if neither it, nor its
\* version, nor the new version changed while CanIDeploy was looking.
BreakageIsReal ==
  \A h \in Handlers :
    LET target == args[h].version IN
    Deploying(h) /\ target \in steady[h] =>
      \A k \in willBreak[h] \cap standing[h] :
        LET e == consumers[k] IN
        e.version \in steady[h] =>
          Relevant(entries[e.version], entries[target], e.uses) # {}

\* Every call is answered, or lost to a restart: CanIDeploy's loop ends
\* however many consumers come and go meanwhile.
CallsEnd ==
  \A h \in Handlers :
    pc[h] \notin {"idle", "done"} ~> pc[h] \in {"idle", "done"}

\* validator_service.go: "Writes go to both cache and storage
\* (write-through)", so with every write done the two agree.
WriteThroughAtRest ==
  StoreOn /\ ~dirty /\ (\A h \in Handlers : pc[h] \in {"idle", "done"}) =>
    rows = consumers

=============================================================================
