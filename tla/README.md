# A verification project for CVT

CVT validates API traffic against OpenAPI contracts.  A gRPC server keeps
schemas and their consumers, says which versions break whom, and delegates to
plugins, separate processes that it forks.  Around it are a mock server, an
embedded library with its own copy of the engines, and SDKs that put validation
into the tests of a consumer and into the handlers of a producer.  The TLA+
modules here model the parts whose correctness depends on the order of
concurrent steps, and those where two pieces of code must agree: TLC checks them
on small instances, and TLAPS proves the main safety results for every instance.

Paths below are relative to `src/`.

## 1. Inventory

### Schema registry: `server/cvtservice/validator_service.go`, `cache.go`, `hooks_fire.go`, `fixture_generator.go`

*State.* A Ristretto cache with a bare key (latest) and a key per version; the
versions tracked per schema; the embedded generator, which holds one document
per schema ID; a mutex per schema ID for compatibility checks (`compatLocks`);
the optional store (`schemas` rows with an `is_latest` flag).

*Operations.* `RegisterSchema`, optionally with a check against the prior
version; `getSchemaEntry`, the read-through lookup (cache, then the plugin bound
to `fetch_schema`, then the store) under every reading RPC; `GenerateFixture`;
`CompareSchemas`; the validations.

*What is hard.* A registration writes cache, version key, version list,
generator and store in five separate steps, and only checked registrations take
the mutex.  A lookup fills the same places, from a plugin or from the store,
with what it read earlier.  The cache may drop any key at any moment, store and
plugin fail, the process restarts.

*Correct means.* Two checks of a schema do not overlap and each is judged
against the document published just before it; no early return keeps the mutex;
what is cached for a version is what is stored, unless calls crossed over it;
what was acknowledged as stored is stored; plugin documents never reach the store; a stored schema is found.

### Consumer registry and deployment safety: `consumer_registry.go`, `deployment_safety.go`, `cache.go`

*State.* The consumer map of the cache, keyed by schema, consumer and
environment; the `consumers` rows of the store.

*Operations.* `RegisterConsumer` (schema lookup, soft cap, cache write, store
write), `DeregisterConsumer`, `ListConsumers`, `CanIDeploy` (look up the new
version, list the consumers of the environment, then look up and compare each
one's version in turn).

*What is hard.* The cap is counted before the write, outside its lock; cache and
store are written in two steps without a common lock; `CanIDeploy` is a loop
over a snapshot while consumers and versions change under it.

*Correct means.* The cap is exceeded by a bounded number only; a `safe` verdict
left nobody out and breaks nobody who stood still; a reported breakage is real.

### The engines: `compatibility_engine.go`, `pkg/cvt/compatibility.go`, `validator_service.go`, `pkg/cvt/validator.go`, `pkg/cvt/generator.go`

*State.* None: functions of documents, requests and responses.

*What is hard.* The engine's idea of a breaking change, the validator's idea of
an accepted request, the generator's idea of an answer and the filter of
`CanIDeploy` were written apart, the first of them twice.

*Correct means.* What is checked and not reported keeps a caller's requests;
the copy used by `cvt compare` finds nothing the server does not; what is
generated passes validation, as far as the generator follows the schema; a
deployment called safe keeps a consumer's tests.

### Storage layer: `server/storage/{memory,sqlite,postgres}`

*State.* Schemas, validation runs, comparisons and consumers, in maps or tables.

*What is hard.* Three implementations of one interface; flags, times, filters
and pages that only two calls in a row tell apart.

*Correct means.* The same calls get the same answers, wherever the data is kept.

### Plugins and the server's life: `internal/pluginmgr/{config,manager}.go`, `internal/pluginclient/hooks_adapter.go`, `cmd/cvt/{serve,plugins_runtime}.go`, `server/cvtservice/health.go`

*State.* The configuration, one handle and process per plugin, two metric
series per plugin, hook calls under way with their audit records; the phase of
the server, its health and its Watch streams.

*What is hard.* Plugins start in parallel, all or none; a dispense that times
out is abandoned and may finish later; plugins crash and nobody watches; calls
are under way while plugins stop; the teardown is spread over defers, a select
and a goroutine.

*Correct means.* A process that returns from main leaves nothing running, open
or reported; every hook call of a bound plugin is audited once and follows the
plugin's `on_error` policy; store and plugins outlive the handlers that use them.

### Plugin installation state: `internal/pluginmgr/state.go`, `state_flock_*.go`, `cmd/cvt/plugins.go`

*State.* `state.json` (path and SHA256 of each plugin), the binaries, the file
lock.

*What is hard.* Processes interleave, fail and die between renaming a binary
into place and recording its hash; `Remove` deletes after releasing the lock.

*Correct means.* No command loses another's entry; a recorded plugin that would
fail `VerifyInstalled` has a known cause; nothing blocks for ever.

### Mock server: `pkg/mock/{server,watcher,handler}.go`, `cmd/cvt/mock.go`

*State.* The handler that is served, replaced as a whole; the watcher, its
debounce timer and its loop; reload goroutines; requests under way.

*What is hard.* A document changes while it is read, two reloads overlap, a
request outlives the handler it took, and the shutdown has a time limit.

*Correct means.* What is served parsed as a whole; answers do not go back in
time; the last edit is served in the end; the server stops.

### Go SDK: `sdks/go/cvt` (`validator.go`, `auto_register.go`, `adapters`, `producer`)

*State.* The validator's binding to a schema and version, the mocking
transport's cache, captured interactions, and at the producer's end its
goroutines and metrics.

*What is hard.* Others register versions between a test's calls; two calls miss
one cache; validation runs in goroutines that outlive their request.

*Correct means.* A verdict is about the version the test was bound to, or about
nothing older than its own registration; a cached answer stays; a registered
consumer really called what it names; a mode's promise holds for every mix of
requests; failures are counted once.

Every part of the system, modelled or not, is listed in `PROJECT.json` under
"components", and every hazard we found, covered or not, under "hazards", at the
line where it bites.

## 2. Modules

| Module | What it is |
|---|---|
| `SchemaRegistry` | the schema registry, one action per access to shared state |
| `AtomicRegistry` | the abstract promise of the compatibility check |
| `SchemaLookup` | what the service may assume of lookups: implemented by `SchemaRegistry`, assumed by `ConsumerRegistry` |
| `ConsumerRegistry` | the consumer side, with the schema registry reduced to `SchemaLookup` |
| `PluginInstall` | install and remove over the plugin directory |
| `PluginConfig` | `Load` as a function from a file's contents to a configuration or an error |
| `PluginRuntime` | the plugin manager and the hooks adapter; extends `PluginConfig` |
| `ServerRuntime` | `cvt serve` from bootstrap to exit, composed with `PluginRuntime` |
| `Stores` | every operation of the three stores as an operator on tables |
| `StoreParity` | the three stores under the same calls, side by side |
| `OpenApi` | what the code uses of kin-openapi: paths, routes, validation (external) |
| `ServerCompatibility`, `EmbeddedCompatibility` | the two compatibility engines, rule by rule |
| `Validation` | the verdicts of server and library on an interaction |
| `Generation` | generated responses, fixtures and the mock handler's answers |
| `ContractEvolution` | a schema's versions over time: engines, validator, generator and `CanIDeploy`'s filter held against one another |
| `MockServer` | the mock server's life, with its hot reload |
| `SdkSession` | a consumer's test through the SDK's transports |
| `ProducerMiddleware` | a service behind the SDK's middleware |
| `SdkCalls` | both ends of a call: composes the two |
| `MC...` | instances for TLC |
| `SchemaRegistryProofs`, `ConsumerRegistryProofs`, `PluginInstallProofs`, `ServerRuntimeProofs`, `StoreParityProofs`, `ContractEvolutionProofs`, `MockServerProofs`, `SdkCallsProofs` | theorems and their proofs |

Definitions introduced as "Mutant of ..." are variants of a definition with a
plausible bug.  No specification uses them: they exist to show that each
property can fail.

### SchemaRegistry

`pc[c]` is the place of RPC `c` in its handler.

| Action | Code |
|---|---|
| `Begin`, `Reject` | request validation, and the branch on `CheckCompatibility` |
| `AcquireCompatLock` | `compatLocks.lock`; `Unlock` is part of every return, as the `defer` is |
| `LookupCache` | `SchemaCache.Get`/`GetVersion`, for a baseline or for a reader |
| `PluginSilent`, `PluginFails`, `PluginAnswers` | `tryFetchSchemaFromPlugin` |
| `NoStore`, `ReadMisses`, `ReadFails`, `ReadHits` | the store branch of `getSchemaEntry` and of `lookupPriorSchemaForCompat` |
| `RouterFails` | `buildRouter` refuses the document |
| `SetBare`, `SetRequested`, `SetVersioned` | the separate `cache.Set` calls of `SchemaCache.Set` and of the plugin path |
| `Mirror` | registering the document with the embedded generator |
| `Persist`, `PersistFails`, `Respond` | `store.SetSchema` and the answer, with its warning |
| `Generate` | `GenerateFixture` draws from the generator |
| `Evict`, `Restart` | cache eviction; a crash and a new process |

`Backend` is the deployment: no store, the memory store, or a SQL store (SQLite
and Postgres differ in nothing that these actions tell apart).  The memory store
marks a latest version by itself, the SQL stores take the record's flag.
`serve` never configures the memory store (`IsEnabled` leaves it out); it is
reached only through `NewValidatorServiceWithStore`, as the tests do.
`published`, `last` and `crossed` are history, read by no action; `crossed` are the
versions that somebody wrote, to the cache or the store, while somebody else was
about to write another document for them (`Carries`), and that no registration
has cached undisturbed since.

### ConsumerRegistry

One schema ID.  `Begin`, `FindSchema`, `CheckCap`, `Put`, `StorePut` and
`StoreFails` are `RegisterConsumer`; `Remove` and `StoreDelete` are
`DeregisterConsumer`; `FindNewVersion`, `FallBack`, `ListEnvironment`,
`CompareOne` (once per consumer) and `Conclude` are `CanIDeploy`.  With
Postgres every store write is a `StoreFails` (see `Stores`).  `Set` and
`Forget` are what the schema registry does to a lookup meanwhile.  They are the
actions of `SchemaLookup`, one key at a time as in `SchemaCache.Set`: between its
two writes the latest document is not yet its version's.  That the whole of
`SchemaRegistry` does nothing else to the keys of a schema is a theorem
(`LookupsAsAssumed`), so what is proved of the consumers holds beside it.
The outcome of the compatibility engine is the constant `Changes`: a set of
breaking changes per pair of documents, each the set of endpoints it touches;
`Relevant` is `filterChangesForConsumer`, whose comparison of paths is modelled
in `ContractEvolution`.  `standing`, `steady` and `dirty` are history: the
consumers and versions that have not changed since a call began.

### PluginInstall

A process runs one command: `Begin` or `Reject`, `AcquireLock` (and `ReadState`
under it), then `Refuse`, or `Copy`, `Hash` and `Write` for an install and
`Forget` and `Write` for a removal, `Release`, and for a removal `Delete`
outside the lock.  `HashFails` is the binary vanishing under an install,
`Abort` an I/O error at any step and `Crash` the death of the process; the
kernel gives its lock back.  A hash stands for the content it is of.  `cut` is
history: the plugins whose binary an unfinished reinstall or a late deletion has
touched.

### PluginConfig, PluginRuntime, ServerRuntime

`Load` is the loader: no configuration when plugins are disabled or the file is
missing, `None` when the version, a name, a binary, a policy, a secret, a reference
or a hook's binding is refused, and otherwise the stanzas with their defaults.  A
value is represented by what expanding its `${...}` comes to.

`startOne` is `Verify`, `Connect`, `DispenseHandshake`, `Info`, `SetConfig`,
`DispenseServices` and `Publish`, any of which may fail (`StartFails`); the
workers run in parallel, the first failure rolls all back (`RollBack`,
`StartRefused`).  `Crash` kills a plugin's process at any time, and nothing
notices.  A hook call is `BeginHook`, `LookUpClient`, `Reply` or `TimeOut`, and
`Audit`, which also applies the policy.  In `ServerRuntime`, `Main` is the
goroutine of `runServe`: `Bootstrap`, `Started` or `RollBack`, `OpenStore`,
`Migrate`, `Listen`, then `Signal` or `ServeFails`, `Drained`, `CloseService`,
`StopPlugins`, `Exit`; `SignalKills` is the default action of a signal that comes
before `signal.Notify`.  `Respond` is where a handler goes on to the store after a
hook, with no answer or with a document that it cannot use; `OpenWatch` and `CloseWatch` are the health streams.  `fellThrough` is
history: the calls that did.

### Stores, StoreParity

A table is a record of rows, runs, comparisons and consumers; `Mem...`,
`Lite...` and `Pg...` operators are the three implementations, the SQL ones what
their statements do (columns written, conflict clauses, scans, windows, orders,
pages).  An action of `StoreParity` makes one call on all three, and the
invariants compare every reading operation.  Time is a tick per call, two ticks
are a second, which is what SQLite's columns resolve.  `Advance(table)` bounds a
behaviour to the calls of one table: tables share no state.

A read that may answer in several ways (a map iteration, an `ORDER BY` with
ties, a `LIMIT`) is the set of its answers, and a property is about each of them.

Differences the invariants name: Postgres stores no consumer, since its upsert
names a conflict on consumer and environment (`postgres.go:796`) and the only
unique constraint is on consumer, schema and environment
(`postgres/migrations/002_consumers.sql:16`), which makes every registration an
error; Postgres loses the read-only flag of a row
without an owner and ignores the page token of a listing; its analytics over no
rows are an error; the page token SQLite answers is the page size, so that the
third page repeats the second (`sqlite.go:323`); registering a version again
moves its time in the memory store and keeps it in the SQL stores; the memory
store lists a schema ID after its last version is gone, and validation runs in
the order they were recorded, the SQL stores the newest first.  SQLite's
analytics never answer: the statement for the top errors (`sqlite.go:543`) has
two `WHERE` clauses, which is not SQL, and the test of it accepts the error
(`sqlite_test.go:590`).

### OpenApi to ContractEvolution

A document has servers and, for each template and method, an operation with
parameters (its own and its path item's), a body and responses.  A schema is an
object of typed fields, with those required, readOnly and writeOnly, and for each
field and parameter a limit and an example: the limit is the set of values that a
pattern, a length, an exclusive bound or a `multipleOf` leaves, none if it is
empty.  A field of type `object` is one nested deeper than the generator's ten
levels.  The engines' rules are one operator each, under the functions' names.
`RegisterSchema` adds a version; `RegisterFromInteractions` and `RegisterByHand`
register a consumer; `CompareVersions` and `CanIDeploy` are answers.

`Readable` is what the parser and kin-openapi's document validation let through,
stated for the documents in `DataAssumption`: methods in upper case, a template's
variables distinct, types that are told apart.  Examples are any values: nothing
makes them fit their schema.

`Generation` follows `generator.go` in what it does not do: `generateValue` makes a
value of the type and looks at no limit (`generator.go:581` answers every pattern
with the literal `pattern-value`), gives nil below ten levels, and takes an example
as it is written when `UseExamples` is set (`use`); `generateObject` makes every
property for requests and responses alike, readOnly and writeOnly ones included.

The properties name what the engine does not look at (`Unnoticed`), which is the
module's map of blind spots: the servers; a more concrete path that takes the
request; methods outside the compared ones; path-item parameters; a parameter
that moves, becomes required or gets an enumeration or another limit; a body that
is new, becomes required or loses a media type; a field that is typed for the first
time, gets another limit, becomes readOnly, or is required as it was in another
media type or of responses only.  On the way the translation keeps:
the default old version of `CompareSchemas` is the one before the latest in the
order of labels, whatever the new one is; the consumer's `UsedFields` play no
part in the filter; auto-registered endpoints are the concrete paths that were
called; the generator reads `4XX` as status 4; the mock labels every answer
`application/json`.

What the other properties of the module except was found where their proofs
failed, and each is a behaviour of the code:

- `ChecksCompose`: two silent checks amount to a silent one, unless a part of an
  operation (a parameter, its enumeration, the type of a field, the schema of a
  response) is gone in the version between and comes back (`ComesBack`), or a
  parameter that the first version lacks is optional in the second and required
  in the third (`RequiredByAndBy`): the engine reports a required parameter only
  when it is new.
- `MockAnswersConform`: the mock server does not strip base paths, so the property
  is of requests that both route alike; and not of operations with a response in
  another media type (`OnlyJson`), with contents for 204, or with an answer's schema
  that the generator does not follow (`Declared`): it requires a field that it does
  not declare, declares one that is writeOnly, or demands of a field more than a
  type (`Followed`), unless an example that fits is written down and asked for.
- `FixturesConform`: of operations that are `Generable`: JSON contents and
  declared fields as above, a documented success if there are documented failures
  (the generator falls back to 200), and required parameters that the generator
  knows, which are the operation's own in headers and paths, with a type that
  their enumeration is of and no other limit, or with an example that fits
  (`GenerableParameter`); a readOnly field in the request is as wrong as a writeOnly
  one in the response.  The fixture's path is the template, without a base,
  and has to lead back to the operation.

### MockServer

`LoadFirst`, `Watch` and `Listen` are `Start`; `TakeEvent` and `LoopEnds` the
watcher's loop; `Fire` the timer; `BeginReload`, `ReadDoc` (once per document)
and `StoreHandler` a reload; `Receive`, `Delegate` and `Answer` a request;
`Signal`, `ServeFails`, `Shutdown`, `ShutdownTimesOut`, `CloseWatcher`,
`StopTimer` and `Stopped` the end.  A document is the number of the edit that
wrote it; an edit may spoil it.  URLs are read again but not watched.

### SdkSession, ProducerMiddleware, SdkCalls

A call of a test goes through `Mock`, `LookUp`, `Generate`, `Store`, `Respond`
and `Record`, or through `Send`, the service, `ValidateReal` and `Record`.
`RegisterSchema`, `UseSchema`, `ClearCache`, `ClearInteractions` and
`RegisterConsumerFromInteractions` are the test's own steps, and
`OthersRegister` a registration by somebody else.

`published` is the sequence of a schema's registrations, each with its version and
a document of its own; a version may be lower than the one before or the same
again.  `Lookups` is what the server may find: under the unversioned key the
registration in `latest`, under a version any registered document of that version
(its key stays until it is evicted, with or without a store), and at any moment
nothing.  `LatestReverts` is a fill of the unversioned key, after an eviction or a
restart, from a row that is not the last; `reverted` is history.  `GenerateResponse`
has whatever the generator was last given, which lookups of old versions change.  A
plugin bound to `fetch_schema` is not in this model.  So a verdict of a test that is
bound to a version is about a document of that version, and else about no older
registration than the test's own, unless the server went back
(`VerdictsKeepTheBinding`).

In the service `Receive`, `SkipRequest`, `RequestPasses`, `RequestFails`,
`RecordRejection`, `Handle`, `CheckResponse` and their spawned variants are the
middleware of net/http and Gin.  `Receive` includes the reading of the body: if it
fails, the answer is `unread`, a 500 in every mode, and the handler does not run.
`Handle` answers `altered` where the capture of net/http does not pass on what the
handler did.  A handler may change its request (`Mutates`): the validation of the
response, and in net/http the goroutine of the request's (`Races`), then finds
either verdict, and the latter may end the process on the shared header map.
`OnlyStrictInterferes` and `CountsAgree` except these cases by name, and
`NeverBlocks` below does not.

What the code does there and one might not
expect: `GenerateResponse` does not send the pinned version; the mocking
transport's cache key has neither host nor binding; with `ValidateRequests` it
sends a whole URL that `ValidateHTTPPath` refuses; the middleware validates a
request together with a placeholder response, which a document may refuse;
shadow metrics count failures only; in asynchronous strict mode the rejection
has no writer and panics.

### Abstractions

- Documents, names, versions, endpoints and builds are atoms wherever their
  contents play no part.  Cache keys are pairs; the code formats them with `@`
  and `/` separators, and we take the formatted keys as distinct.
- Logs, hook events after the fact and RPC audit records are left out: nothing
  modelled reads them.  Metrics are modelled where they are a promise (plugins,
  middleware).
- `Ristretto` may drop or refuse a key; refusing at `Set` is `Set` followed at
  once by `Evict`.
- Temporary files of the atomic renames are left out: they have unique names and
  nobody reads them.  The crash of a process is modelled, a power failure that
  loses a rename is not.  The Windows lock has the same meaning as `flock`.
- Values of a schema are "1", "1.5", "a", "b", null, "{}" and "{null}", which tell the
  types and limits apart; "{null}" is an object with a nil somewhere below.
- Bounds (`MaxVersions`, `MaxCalls`, `MaxEdits`, `MaxTime`, the sets of calls,
  reloads and requests) are guards of actions; no run needs a state constraint.

## 3. Runs

Every passing run lists its properties in its `.cfg`; each property has a mutant
in `PROJECT.json` that breaks it.  `CHECK_DEADLOCK FALSE` stands where the
model really stops: when every call, process or edit has been used, or the
server has.  The consumer-side runs never stop and check deadlock.

| Run | Instance (distinct states) | Shows |
|---|---|---|
| `SchemaCheckedCache` | no store; 3 RPCs, all registrations checked, readers, evictions, restarts (75k) | `ChecksAreAtomic`: the sequence look up, compare, publish implements `AtomicRegistry`, one atomic step |
| `SchemaSqlMixed` | SQL store; 3 RPCs, checked and unchecked registrations, latest and versioned reads (1.1M) | `CachedIsCurrent`, `AcknowledgedIsStored`, `CachedIsStored` through every interleaving of fills, registrations, failed writes and restarts |
| `SchemaLiveness` | memory store and a plugin that serves one document; 2 RPCs (31k) | `Answered` under fairness: every started call is answered, so no path leaves the mutex held; `StoreHoldsOnlyRegistrations`; `LatestFoundIfStored` holds where the store marks its latest row itself |
| `ConsumerCap` | 2 handlers, 2 consumers in 2 environments, cap 1, a store that may fail (2.6M) | `CapOvershootBounded`: the cap is passed by fewer consumers than there are handlers |
| `ConsumerDeploy` | 2 handlers, 2 consumers, 2 versions of which the newer breaks one of two endpoints (2.2M) | `SafeVerdictIsSound`, `SafeVerdictIsComplete`, `BreakageIsReal` while consumers move and versions come and go |
| `PluginInstall` | 3 processes, 2 plugins, one shared path, 2 builds (260k) | `EntriesAreNotClobbered`, `MismatchHasCause`, `CommandsEnd` with errors and deaths at every step |
| `ServerRuntime` | 2 plugins, 5 files, 2 callers, 2 hook calls (293k) | `CleanExit`, `HandlesMatchMetrics`, `AuditPrecedesReturn`, `DrainedBeforeTeardown`, `RefusalIsFinal` and `StopEnds`, with crashes, late answers, unusable documents, a signal at any point: it drains a server that serves, and kills a process that has not called `signal.Notify` |
| `StoreParity` | 2 schemas, 2 versions, 2 documents, 1 consumer; 4 calls of one table (104k) | `LookupsAgree`, `ConsumersAgree`, `TwoPagesSuffice`, `ObservationsAgree` |
| `MockServer` | a watched file and a URL, 2 reloads at once, 1 request, 3 edits (347k) | `ParsedServed`, `MonotonicAnswers`, `CleanStopAnswers`; `EditsServed` and `StopEnds` under fairness |
| `ContractEvolution` | chains of 3 versions out of a family of 46 documents, 15 requests, a consumer that tests two operations (30k) | `CheckedChainKeepsRequests`, `ChecksCompose`, `EmbeddedFindsNoMore`, `MockAnswersConform`, `FixturesConform`, `SafeDeploysKeepConsumers` |
| `SdkCalls` | 2 calls, 2 schemas, 2 versions, 7 setups, 7 middleware configurations, 7 kinds of requests (1.7M) | `VerdictsKeepTheBinding`, `MockAnswersSettle`, `RegisteredWasCalled`, `ModesAreKept`, `CountsAgree` |
| `SchemaLatestLost` | SQL store, 2 RPCs | a violation, below |

### Statements of the repository that the code does not keep

One has a run of its own.  `SchemaLatestLost`: faq.md says that with persistent
storage "schemas also survive server restarts"; `RegisterSchema` never sets
`IsLatest`, so no row of a SQL store is the latest and an unversioned lookup
misses every schema after a restart or an eviction.

The others are definitions of the modules.  TLC violates each when a run's
`.cfg` is given that property instead of its own (and no `SYMMETRY`):

| Definition | Use | Statement | What happens |
|---|---|---|---|
| `RefusedOnlyOnFault` | INVARIANT in `SchemaSqlMixed.cfg` | a missing prior version is a first registration | the SQL stores answer `ErrNotFound`, which is taken for a failure: the first checked registration is refused |
| `LookupKeepsGenerator` | PROPERTY in `SchemaSqlMixed.cfg` with `Traffic <- FixtureTraffic` | a lookup does not promote an old version | reading an old version registers it with the generator as the schema's document |
| `WriteThroughAtRest` | INVARIANT in `ConsumerDeploy.cfg` with `Traffic <- StoreTraffic`, `StoreOn = TRUE` | writes go to both cache and storage | two handlers write the two in opposite orders and leave them different |
| `ConfigFailsClosed` | INVARIANT in `ServerRuntime.cfg` | an unset secret without default fails closed at load time | the server runs on without plugins, after a warning, and answers from its store what a `fail_closed` plugin should have |
| `SignalLeavesNothing` | INVARIANT in `ServerRuntime.cfg` | plugins/README.md: "On shutdown: SIGTERM, 30-second grace, SIGKILL" | a signal that comes before `signal.Notify` (`serve.go:237`), while plugins start or the store opens, ends the process without `runPluginShutdown` and leaves the plugins running |
| `UpMeansRunning` | INVARIANT in `ServerRuntime.cfg` | `cvt_plugin_up` is 1 "if the plugin subprocess is running and healthy" | nothing watches the process: a crashed plugin stays up until `Stop` |
| `WatchedIsServed` | PROPERTY in `MockServer.cfg` with `Paths <- OneFile`, `Urls = {}` | cli.mdx: "watches schema files on disk for changes and automatically reloads them" | an edit between the first load and the watch is never seen |
| `ConsumersStored` | INVARIANT in `StoreParity.cfg` | `RegisterConsumer` "stores or updates a consumer registration" (`postgres.go:780`) | Postgres has no unique constraint for the conflict that the statement names, so that the call always ends in an error (in the service: a logged warning, and the consumer is in the cache only) |
| `AnalyticsAnswered` | INVARIANT in `StoreParity.cfg` | `GetValidationAnalytics` "returns aggregated validation statistics" (`storage.go:144`, `sqlite.go:459`) | SQLite's statement for the top errors has two `WHERE` clauses (`sqlite.go:543`), so that the call always ends in an error |
| `ChecksKeepCallers` | INVARIANT in `ContractEvolution.cfg` | breaking-changes.mdx: any change that makes a caller fail is detected automatically | the blind spots listed under `Unnoticed` |
| `StrictRejects` | INVARIANT in `SdkCalls.cfg` | validation-modes.mdx: in strict mode violations are "rejected with 400" | the guide's configuration names the mode only, and validation is off unless switched on |
| `NeverBlocks` | INVARIANT in `SdkCalls.cfg` | shadow mode "Never blocks or modifies request/response flow" (`producer/config.go:56`) | a body that cannot be read is answered with 500 and not handled (`nethttp.go:51`, `gin.go:54`), the capture of net/http swallows the final status after an interim one and cannot be flushed (`producer.go:223`), and a handler that writes the headers which the middleware's goroutine reads may end the process |
| `FixturesAreCompliant` | INVARIANT in `ContractEvolution.cfg` | "CVT can generate schema-compliant test data" (docs/ai-helper/advanced-patterns.md) | the response of a fixture for a field with a pattern, a length or another limit is a value of the type, whatever the limit |

### Why these bounds

*Schema side.*  One schema ID: schema IDs share no state but the store's
connection, so two would only multiply independent behaviours.  Two versions
and three documents, two of one version: the least in which a fill can land
under a wrong key, and in which a re-registration differs from a new version.
Three RPCs: two writers and a reader or third writer; the races are between
pairs of steps, and the third lets one pair be interrupted.

*Consumer side.*  Overshoot needs two handlers between count and write at a cap
that a sequential run can reach.  A verdict needs a consumer that moves, one
that does not, and a version set or forgotten between the listing and the
comparison.

*Plugins.*  For the installation, one path shared by two names is the case of
the collision guard, two builds tell a hash from another, and three processes are
two that race and one that removes.  `slack` may be installed in place, which
the guard does not cover.  For the runtime, two plugins are a start that half
succeeds, with both policies and one binding that does not match the services
offered; two calls let one be under way while the other meets a dead plugin.

*Stores.*  Four calls of one table give three records and what is asked or done
about them: a page after the second, which `TwoPagesSuffice` excludes since
SQLite repeats it, a version registered again after a deletion, two
records in one second and one in the next.

*Mock server.*  Two reloads are what overlaps; three edits spoil a document,
mend it, and change the other in between.  One request sees one swap; the history
`answered` carries what earlier clients were given.

*Documents.*  Each later document is one change of the first, of every kind the
engine has a rule for and every kind it lacks one for; three versions are what
composition needs (something goes, and comes back).  Limits are met and missed, by
examples that fit and that do not, and without one; fields are readOnly, writeOnly
and too deep.  Soundness along a chain is proved for all documents and lengths.

*SDK.*  Two calls race for one cache entry.  Two registrations, of two versions of
one schema, twice of one, or of two schemas, lie before, between and after them
(the theorem is of any number).  The seven middleware
configurations run with the setup that registers nothing (`Idle`) and every kind
of request, and `Strict` with a registration as well: the middleware never reads
what the SDK registers.

Symmetry is used over interchangeable RPCs, handlers, calls, versions or
documents, in runs without liveness.

### Fairness

- `SchemaRegistry`: weak fairness of each RPC that has started.  Store calls
  carry contexts, plugin calls time out, a Go mutex is not withheld for ever, and
  no handler waits for another while holding a mutex.  A client need not call.
- `PluginInstall`: weak fairness of a started process's own progress.  Neither an
  error nor a death is assumed to happen, so a process that waits for the lock is
  rescued only if the lock is really given back.
- `ServerRuntime`: weak fairness of the main goroutine, of each start worker, of
  each handler's own steps (a reply need not come, the time-out does) and of
  clients giving up their Watch: `GracefulStop` has no limit, and without the last
  `StopEnds` is false, so the hazard of a Watch that stays open is named and not
  excluded.  No crash, signal or failure is assumed.
- `MockServer`: weak fairness of the main goroutine, the watcher's loop, the timer
  and the reloads.  No edit is assumed, and a request need not end: the shutdown
  has its limit.
- `ConsumerRegistry` states a `FairSpec` (each handler that has a call) under which
  `CallsEnd` holds on `ConsumerDeploy.cfg` with one handler and the store on; no
  run of the list repeats it.

## 4. Proofs

All theorems are for arbitrary constants under the modules' named assumptions:
documents have versions and sentinels are not data (`DocsAssumption`, the
`DocumentAssumption` of `ConsumerRegistry`, `PluginAssumption`,
`ConfigAssumption`, `MockAssumption`, `SessionAssumption`), traffic consists of
well-formed requests (`TrafficAssumption`), the deployment is one there is
(`DeploymentAssumption`, `ServerAssumption`, `RuntimeAssumption`), handlers and
consumer keys are finitely many where they are counted (`ConsumerAssumption`),
both ends speak of the same calls (`CallsAreExchanges`), a document writes a
path once, a parameter once in its place, and gives it one type (the
`DocumentAssumption` of `ContractEvolution`), documents are made of what kin-openapi's validation lets
through (`DataAssumption`), and records differ from `None`, ticks make a second
and the clock has a bound (`StoresAssumption`, `ParityAssumption`).

| Theorem | Argument |
|---|---|
| `SchemaRegistryProofs!TypeCorrect` | `Inv`: types, and that a call past `idle` carries a well-formed request whose kind fits its place (`CallOK`); without the latter `entry` could be set from a request without a document |
| `LockHeld` | `LockIsHeldByItsCheck` is inductive relative to `Inv` |
| `CachedCurrent` | `CurrentInv`: a reader about to fill the cache carries what is in the row, or the version was crossed, or the document is unsaved (`Excused`), and a registration about to write a row finds its own document cached, if any; it rests on `VersionedKeysHonest` (no key or row holds another version's document), which is a lemma |
| `AcknowledgedStored` | strengthened to calls about to answer: a handler at `respond` without a fault has its row, and rows are overwritten but never emptied |
| `CachedStored` | `FromStore`: a fill carries what the store has; `ExcuseKept`: what is cached and not stored has a registration on its way to the store, or one that answered with a warning, and neither excuse is lost before the row is there |
| `StoreRegistered` | only `Persist` writes rows, and what reaches it is the request's own document |
| `LatestFound` | `LatestIsMarked`: in the memory store a schema with a row has one marked the latest, since every write of a row marks it, and nothing deletes rows; so a lookup that misses in store and cache has nothing to find |
| `AtomicChecks` | in a deployment where every registration is checked, without a store or with a SQL store, and without readers if a plugin is bound: `LineOK` says that the bare key holds the end of the line or nothing, and that a registration about to publish compared with that; it rests on `Alone`, from mutual exclusion: no other registration of the schema is between lookup and write |
| `LookupsAsAssumed` | a refinement per schema: each of the three cache writes is a `Set` of its one key, with a document of that version unless a plugin resolved an alias; everything else that touches the cache is a `Forget` or a `Restart` |
| `VersionsAnswered` | `VersionCarried`: with `VersionedKeysHonest`, what a reader of a version picks up in cache or store is of that version, and no step replaces it before the answer |
| `ConsumerRegistryProofs!ConsumerTypeCorrect` | `ControlOK`: the request of a handler fits its place |
| `CapOvershoot` | the invariant adds the handlers between count and write to the count: registered plus putting stays below cap plus handlers |
| `SafeVerdict`, `SafeComplete`, `BreakageReal` | `VerdictInv`: what still stands is what was listed, what was listed is still in the snapshot or in the answer, who was cleared is not broken and who was marked is |
| `PluginInstallProofs!InstallTypeCorrect` | `ControlOK`, and `LockOK`: the lock is held exactly inside the transaction |
| `EntriesKept` | `EditOK`: what a process is about to write differs from `state.json` only at its own plugin, because nobody else writes while it holds the lock |
| `MismatchExplained` | `RecordOK`: what is about to be recorded is the hash of what lies there, unless a late removal struck; the collision guard keeps a copy from another plugin's path |
| `ServerRuntimeProofs!ExitIsClean`, `HandlesAsReported`, `DrainsFirst` | `RuntimeInv`: a plugin has a process from its fork to its kill, the metrics follow the worker (`PluginTyped`), the phase decides what may be held (`PhaseInv`, `StoreInv`), nobody is in a process that has not called `signal.Notify`, and after a signal the server goes on only when nobody is in it (`HealthInv`) |
| `AuditedBeforeReturn`, `RefusalsHold` | `CallInv`: a call's number is its own, its record empty until it comes back and then one entry long, with the result its policy makes of the code; `ConfigInv`: what the loader accepted binds hooks to plugins with policies that exist |
| `MockServerProofs!OnlyParsedIsServed` | `Parsed`: what a reload has read so far parses and is no newer than the disk, so a later edit spoils nothing that was read |
| `AnswersMoveOn` | `Monotone`: with one reload at a time, served lies between answered and read; `Progress` says what the place of `Start` excludes |
| `CleanStopIsClean` | from `Progress`: the shutdown ends without an error only when no request is in |
| `SdkCallsProofs!VerdictsBound` | `VerdictInv`: the validator's fields say what the test was told, and a verdict not yet captured is about the binding, which cannot change while calls are under way (`BindingKept`); what it is about stays so, because nothing that was published is taken back and a schema once reverted is named for good (`AboutBinding`) |
| `MockedAnswersSettle` | `SettledInv`: the cache's entry is the settled answer, and a call that missed the cache is still counted among those before |
| `RegisteredAsCalled` | `CapturedInv`: finitely many captures, so one host in their hosts is the only one (`OneHost`), and the schema the code infers is the host of every capture |
| `ModesHold` | `ServedInv`: who has not been received has no answer (`Early`), in strict mode nothing invalid is at or past the handler (`StrictAllows`), in the lenient ones no rejection is on its way and every other answer has its cause (`LenientAllows`), and no process has died (`Calm`), as long as no request was raced for |
| `CountsRight` | `CountInv`: each counter is the cardinality of the set of calls that are past being counted (`Counts`), and a step moves at most its own call into such a set, together with the counter (`Once`), if no handler changes its request: then a check finds what the input says |
| `ContractEvolutionProofs!EmbeddedIsWeaker`, `EmbeddedFindsLess` | rule by rule the copy visits fewer operations and compares less; a document compared with itself has no changes, which the short cut for equal contents needs |
| `SilenceKeepsRequest` | for any two documents and any request: unreported removals and the shape of templates keep the route (`TargetKept`); unreported types and enumerations keep each parameter (`ParametersKept`); unreported required fields and types, and limits and readOnly marks that stayed, keep the body (`ObjectKept`, `BodyKept`); what remains is `Unnoticed` |
| `RequestsKept`, `ConsumersKept` | the step above along a chain of any length (`Checked`: a clean mark means an empty report), and through the filter of `CanIDeploy` |
| `ChecksAddUp`, `ChecksComposeAlways` | a removal, a type or an enumeration that first and last version disagree about must already be disagreed about in one of the steps, or the part was absent between them; the templates of three versions are followed through their shapes, since variables may be renamed on the way |
| `AnswersConform`, `MockAnswersConformAlways` | the generated object has each declared field, hence each required one and none that is not for responses, with a value of its type where the generator follows the schema or with an example that fits (`Followed`, `Declared`), and the status it is given is one the validator finds the same response for |
| `GeneratedIsValid`, `FixturesConformAlways` | each required parameter is generated, with a value that parses as its type and is of its enumeration or with an example that fits, and the body is `Declared` for requests, so that the request is accepted; the response as above |
| `StoreParityProofs!ConsumersAlike`, `LookupsAlike` | `ParityInv`: the three tables hold the same records, up to SQLite's seconds, the flags Postgres drops and the consumers it refuses; times grow with the position in a version list, which makes the orders of the SQL statements those of memory, except for schemas stored again (`again`) |
| `TwoPagesDo` | a page is a stretch of one sorted sequence, and the token of the second is where the first ended |
| `ObservationsAlike` | `RunsInv`: the runs are in the order of their times; what `ORDER BY ... LIMIT` may return is characterised by counting the runs at least as new (`ForemostCounted`), so that a window of SQLite, wider by the rest of its first and last second, lists no run older than one it leaves out |

The facts that make up an invariance proof are lemmas of their own (`...Init`,
`...Next` or `...Step`, and the theorem).

Every safety property of a passing run is stated by a theorem.  *Only
model-checked* is liveness (`Answered`, `CommandsEnd`, `EditsServed` and both
`StopEnds`): liveness under fairness, and the ENABLED in it, is beyond the prover.

*Not proved, and not claimed:* atomic checks with unchecked registrations mixed
in.  They take no lock and may publish between another's lookup and its write.
Atomic checks say little of a store without a plugin: in a deployment that only
makes checked registrations the first one of each schema is refused
(`RefusedOnlyOnFault`) and nothing is ever published, so the theorem has its
substance without a store, or with a SQL store behind a plugin that answers.
Nothing is claimed of the memory store, whose rows carry a latest mark.
Answers of the mock server under overlapping reloads: the older content may be
stored last (`watcher.go:97`), and both properties except it by name.

## 5. Not modelled

- *Reads of one piece of state* (`ListSchemas`, `ListEndpoints`, `GetSchema`,
  `ListConsumers`, `plugins list` and `verify`) have no action: they change
  nothing, and no step comes between two reads of theirs.
- *Authentication, TLS, interceptors, RPC audit log, telemetry:* their state is
  set at start-up, and each works on one request alone.
- *Storage:* connection pools, migrations and `Close`.  Calls are atomic here, as
  a mutex or a transaction makes them.
- *Validation records* written by goroutines after their RPC (only validations
  that passed are recorded, `validator_service.go:543`): the loss at shutdown is
  logged and accepted by the code.
- *kin-openapi* beyond how the code calls it, and the generator with it:
  compositions, arrays and `uniqueItems`, formats, response headers, examples of
  whole objects, content negotiation.
- *Go SDK:* one-RPC wrappers, the TestKit and the Chi variant of the middleware.
- *Plugin SDK* (in the plugin's process, adapters without state), *Node, Python
  and Java SDKs* (clients of the same RPCs), and the other commands of the CLI.
- *Generated code* (`*.pb.go`).
