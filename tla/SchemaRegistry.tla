--------------------------- MODULE SchemaRegistry ---------------------------
(***************************************************************************)
(* The schema side of ValidatorService (server/cvtservice): RegisterSchema *)
(* with its optional compatibility check, the read-through lookup          *)
(* getSchemaEntry behind every reading RPC, and GenerateFixture, run by    *)
(* any number of concurrent gRPC handlers over three pieces of shared      *)
(* state: the Ristretto cache (which may drop any key at any time), the    *)
(* embedded fixture generator and the optional persistent store.  The      *)
(* process may crash and restart between any two steps.                    *)
(*                                                                         *)
(* A step is one access to shared state: handlers interleave exactly where *)
(* the Go code lets them, since only checked registrations take a lock.    *)
(***************************************************************************)
EXTENDS Naturals

CONSTANTS
  Schemas,      \* schema IDs
  Calls,        \* the RPCs a behaviour may serve, each at most once
  Docs,         \* parsed OpenAPI documents with their metadata (SchemaEntry)
  Versions,     \* non-empty version strings
  VersionOf,    \* Docs -> Versions, info.version of a document
  Traffic,      \* the requests clients may send, a subset of Request
  Backend,      \* "none", "memory" or "sql": the Store behind the service
  PluginBound,  \* TRUE when some plugin is bound to the fetch_schema hook
  PluginServes, \* Schemas -> SUBSET Docs, what that plugin may answer
  NoDoc,        \* absence of a document
  Latest,       \* the empty version string: the bare cache key
  Free          \* an unlocked compatibility mutex

Keys == Versions \cup {Latest}

Request ==
  [op : {"register"}, schema : Schemas, doc : Docs, version : {Latest},
   check : BOOLEAN]
    \cup
  [op : {"get"}, schema : Schemas, doc : {NoDoc}, version : Keys,
   check : {FALSE}]
    \cup
  [op : {"fixture"}, schema : Schemas, doc : {NoDoc}, version : {Latest},
   check : {FALSE}]

NoRequest ==
  [op |-> "none", schema |-> NoDoc, doc |-> NoDoc, version |-> Latest,
   check |-> FALSE]

ASSUME DocsAssumption ==
  /\ VersionOf \in [Docs -> Versions]
  /\ NoDoc \notin Docs
  /\ Latest \notin Versions

ASSUME TrafficAssumption ==
  /\ Traffic \subseteq Request
  /\ Free \notin Calls

ASSUME DeploymentAssumption ==
  /\ Backend \in {"none", "memory", "sql"}
  /\ PluginBound \in BOOLEAN
  /\ PluginServes \in [Schemas -> SUBSET Docs]

VARIABLES
  \* in memory, lost on a restart
  cache,      \* SchemaCache.cache: bare and versioned keys
  tracked,    \* SchemaCache.schemaVersions
  generator,  \* ValidatorService.generator: one document per schema ID
  compatLock, \* ValidatorService.compatLocks: holder per schema ID
  \* the store
  rows,       \* content of each (schema_id, version) row
  latestRows, \* the versions whose row has is_latest set
  \* the handlers
  pc,         \* where each RPC is
  args,       \* its request
  entry,      \* the entry it is working on
  source,     \* where that entry came from
  prior,      \* the baseline of a checked registration
  drawn,      \* the document a fixture was generated from
  reply,      \* what the client was told
  fault,      \* TRUE once the store or the plugin failed this call
  \* history, read by no action
  published,  \* registrations whose document has been put on the bare key
  last,       \* the document most recently put there, since the last start
  crossed     \* versions that two calls wrote with different documents in hand

memory == <<cache, tracked, generator>>
disk   == <<rows, latestRows>>
locals == <<entry, source, prior, drawn>>
past   == <<published, last, crossed>>
vars   == <<memory, compatLock, disk, pc, args, locals, reply, fault, past>>

Steps ==
  {"idle", "lock", "lookup", "ask", "read", "setBare", "setRequested",
   "setVersioned", "mirror", "persist", "respond", "generate", "done"}

Replies ==
  {"none", "ok", "warned", "refused", "invalid", "notfound", "lost"}

TypeOK ==
  /\ cache \in [Schemas -> [Keys -> Docs \cup {NoDoc}]]
  /\ tracked \in [Schemas -> SUBSET Versions]
  /\ generator \in [Schemas -> Docs \cup {NoDoc}]
  /\ compatLock \in [Schemas -> Calls \cup {Free}]
  /\ rows \in [Schemas -> [Versions -> Docs \cup {NoDoc}]]
  /\ latestRows \in [Schemas -> SUBSET Versions]
  /\ pc \in [Calls -> Steps]
  /\ args \in [Calls -> Request \cup {NoRequest}]
  /\ entry \in [Calls -> Docs \cup {NoDoc}]
  /\ source \in [Calls -> {"none", "cache", "plugin", "store", "request"}]
  /\ prior \in [Calls -> Docs \cup {NoDoc}]
  /\ drawn \in [Calls -> Docs \cup {NoDoc}]
  /\ reply \in [Calls -> Replies]
  /\ fault \in [Calls -> BOOLEAN]
  /\ published \subseteq Calls
  /\ last \in [Schemas -> Docs \cup {NoDoc}]
  /\ crossed \in [Schemas -> SUBSET Versions]

EmptyCache == [s \in Schemas |-> [k \in Keys |-> NoDoc]]

NoRows == [s \in Schemas |-> [v \in Versions |-> NoDoc]]

Init ==
  /\ cache = EmptyCache
  /\ tracked = [s \in Schemas |-> {}]
  /\ generator = [s \in Schemas |-> NoDoc]
  /\ compatLock = [s \in Schemas |-> Free]
  /\ rows = NoRows
  /\ latestRows = [s \in Schemas |-> {}]
  /\ pc = [c \in Calls |-> "idle"]
  /\ args = [c \in Calls |-> NoRequest]
  /\ entry = [c \in Calls |-> NoDoc]
  /\ source = [c \in Calls |-> "none"]
  /\ prior = [c \in Calls |-> NoDoc]
  /\ drawn = [c \in Calls |-> NoDoc]
  /\ reply = [c \in Calls |-> "none"]
  /\ fault = [c \in Calls |-> FALSE]
  /\ published = {}
  /\ last = [s \in Schemas |-> NoDoc]
  /\ crossed = [s \in Schemas |-> {}]

-----------------------------------------------------------------------------
(* Helpers shared by the handlers                                          *)

Goto(c, l) == pc' = [pc EXCEPT ![c] = l]

Register(c) == args[c].op = "register"

\* The handler works on document d, taken from src.
Take(c, d, src) ==
  /\ entry' = [entry EXCEPT ![c] = d]
  /\ source' = [source EXCEPT ![c] = src]

\* The deferred unlock of RegisterSchema: runs on every return, and does
\* nothing for a call that never took the lock.
Unlock(c) ==
  compatLock' = [s \in Schemas |-> IF compatLock[s] = c THEN Free
                                                        ELSE compatLock[s]]

Return(c, r) ==
  /\ Goto(c, "done")
  /\ reply' = [reply EXCEPT ![c] = r]
  /\ Unlock(c)

\* Mutant of Commit: keeps working on the baseline (a shadowed "entry").
CommitBaseline(c, p) ==
  /\ prior' = [prior EXCEPT ![c] = p]
  /\ UNCHANGED drawn
  /\ Take(c, IF p = NoDoc THEN args[c].doc ELSE p, "request")
  /\ Goto(c, "setBare")

\* RegisterSchema has its baseline p (NoDoc: none found) and turns to the
\* submitted document; NewSchemaEntry and buildRouter come next.
Commit(c, p) ==
  /\ prior' = [prior EXCEPT ![c] = p]
  /\ UNCHANGED drawn
  /\ Take(c, args[c].doc, "request")
  /\ Goto(c, "setBare")

\* Neither cache, plugin nor store had the schema, or one of them failed: a
\* registration is refused (lookupErr), a reader sees "not found".
GiveUp(c) == Return(c, IF Register(c) THEN "refused" ELSE "notfound")

\* The version c's entry is filed under: the row's, for a reader that got its
\* version from the store, and the document's own otherwise.
Label(c) ==
  IF source[c] = "store" /\ args[c].version # Latest
    THEN args[c].version
    ELSE VersionOf[entry[c]]

\* Call c still has to write version v of s, to the cache or to the store.
Carries(c, s, v) ==
  /\ \/ pc[c] \in {"setBare", "setVersioned"}
     \/ pc[c] \in {"mirror", "persist"} /\ source[c] = "request"
  /\ args[c].schema = s
  /\ Label(c) = v

\* History: c writes its version and crosses whoever carries another document
\* of that version.  A registration that crosses nobody when it caches its
\* document sets things straight.
Cross(c) ==
  LET s == args[c].schema
      v == Label(c)
  IN crossed' = [crossed EXCEPT ![s] =
       IF \E b \in Calls : Carries(b, s, v) /\ entry[b] # entry[c]
         THEN @ \cup {v}
       ELSE IF source[c] = "request" /\ pc[c] = "setVersioned"
         THEN @ \ {v}
       ELSE @]

-----------------------------------------------------------------------------
(* Arrival                                                                 *)

\* A request that passes validation.  A checked registration goes for the
\* per-schema mutex, an unchecked one straight to the cache.
Begin(c) ==
  /\ pc[c] = "idle"
  /\ \E r \in Traffic :
       /\ args' = [args EXCEPT ![c] = r]
       /\ \/ /\ r.op # "register"
             /\ Goto(c, "lookup")
             /\ UNCHANGED <<entry, source>>
          \/ /\ r.op = "register" /\ r.check
             /\ Goto(c, "lock")
             /\ UNCHANGED <<entry, source>>
          \/ /\ r.op = "register" /\ ~r.check
             /\ Goto(c, "setBare")
             /\ Take(c, r.doc, "request")
  /\ UNCHANGED <<memory, compatLock, disk, prior, drawn, reply, fault, past>>

\* A request turned away by validation, parsing or the version check.
Reject(c) ==
  /\ pc[c] = "idle"
  /\ \E r \in Traffic : args' = [args EXCEPT ![c] = r]
  /\ Return(c, "invalid")
  /\ UNCHANGED <<memory, disk, locals, fault, past>>

\* Mutant of AcquireCompatLock: a mutex per call instead of per schema ID.
AcquireOwnLock(c) ==
  /\ pc[c] = "lock"
  /\ compatLock' = [compatLock EXCEPT ![args[c].schema] = c]
  /\ Goto(c, "lookup")
  /\ UNCHANGED <<memory, disk, args, locals, reply, fault, past>>

AcquireCompatLock(c) ==
  /\ pc[c] = "lock"
  /\ compatLock[args[c].schema] = Free
  /\ compatLock' = [compatLock EXCEPT ![args[c].schema] = c]
  /\ Goto(c, "lookup")
  /\ UNCHANGED <<memory, disk, args, locals, reply, fault, past>>

-----------------------------------------------------------------------------
(* Lookup: cache, then plugin, then store                                  *)

LookupCache(c) ==
  /\ pc[c] = "lookup"
  /\ LET hit == cache[args[c].schema][args[c].version] IN
       \/ /\ hit = NoDoc
          /\ Goto(c, "ask")
          /\ UNCHANGED <<compatLock, locals, reply>>
       \/ /\ hit # NoDoc
          /\ Register(c)
          /\ Commit(c, hit)
          /\ UNCHANGED <<compatLock, reply>>
       \/ /\ hit # NoDoc
          /\ args[c].op = "get"
          /\ Take(c, hit, "cache")
          /\ Return(c, "ok")
          /\ UNCHANGED <<prior, drawn>>
       \/ /\ hit # NoDoc
          /\ args[c].op = "fixture"
          /\ Take(c, hit, "cache")
          /\ Goto(c, "generate")
          /\ UNCHANGED <<compatLock, prior, drawn, reply>>
  /\ UNCHANGED <<memory, disk, args, fault, past>>

\* No plugin, fail_open, Unimplemented, an empty or a malformed answer.
PluginSilent(c) ==
  /\ pc[c] = "ask"
  /\ Goto(c, "read")
  /\ UNCHANGED <<memory, compatLock, disk, args, locals, reply, fault, past>>

\* An error under fail_closed: no fall-through to the store.
PluginFails(c) ==
  /\ pc[c] = "ask"
  /\ PluginBound
  /\ fault' = [fault EXCEPT ![c] = TRUE]
  /\ GiveUp(c)
  /\ UNCHANGED <<memory, disk, args, locals, past>>

PluginAnswers(c) ==
  /\ pc[c] = "ask"
  /\ PluginBound
  /\ \E d \in PluginServes[args[c].schema] : Take(c, d, "plugin")
  /\ Goto(c, IF args[c].version = Latest THEN "setBare" ELSE "setRequested")
  /\ UNCHANGED <<memory, compatLock, disk, args, prior, drawn, reply, fault,
                 past>>

\* GetSchema selects the row with is_latest = 1, GetSchemaVersion the row
\* of that version.
Selected(s, v) ==
  IF v = Latest THEN {rows[s][w] : w \in latestRows[s]}
                ELSE {rows[s][v]} \ {NoDoc}

\* Without a store a miss is "no prior version" to a registration.
NoStore(c) ==
  /\ pc[c] = "read"
  /\ Backend = "none"
  /\ \/ /\ Register(c)
        /\ Commit(c, NoDoc)
        /\ UNCHANGED <<compatLock, reply>>
     \/ /\ ~Register(c)
        /\ GiveUp(c)
        /\ UNCHANGED locals
  /\ UNCHANGED <<memory, disk, args, fault, past>>

\* Both read paths treat ErrNotFound as they treat any other error.
ReadMisses(c) ==
  /\ pc[c] = "read"
  /\ Backend # "none"
  /\ Selected(args[c].schema, args[c].version) = {}
  /\ GiveUp(c)
  /\ UNCHANGED <<memory, disk, args, locals, fault, past>>

\* The query fails, or the stored content no longer parses, validates or
\* yields a router.
ReadFails(c) ==
  /\ pc[c] = "read"
  /\ Backend = "sql"
  /\ fault' = [fault EXCEPT ![c] = TRUE]
  /\ GiveUp(c)
  /\ UNCHANGED <<memory, disk, args, locals, past>>

\* lookupPriorSchemaForCompat hands the row back without caching it;
\* getSchemaEntry goes on to fill the cache.
ReadHits(c) ==
  /\ pc[c] = "read"
  /\ Backend # "none"
  /\ \E d \in Selected(args[c].schema, args[c].version) :
       \/ Register(c) /\ Commit(c, d)
       \/ /\ ~Register(c)
          /\ Take(c, d, "store")
          /\ Goto(c, IF args[c].version = Latest THEN "setBare"
                                                 ELSE "setVersioned")
          /\ UNCHANGED <<prior, drawn>>
  /\ UNCHANGED <<memory, compatLock, disk, args, reply, fault, past>>

-----------------------------------------------------------------------------
(* Cache writes                                                            *)

\* Mutant of RouterFails: returns before the unlock is deferred.
RouterFailsKeepingLock(c) ==
  /\ pc[c] = "setBare"
  /\ source[c] = "request"
  /\ Goto(c, "done")
  /\ reply' = [reply EXCEPT ![c] = "invalid"]
  /\ UNCHANGED <<memory, compatLock, disk, args, locals, fault, past>>

\* buildRouter fails on the submitted document: the registration is refused
\* after its check and before any write.
RouterFails(c) ==
  /\ pc[c] = "setBare"
  /\ source[c] = "request"
  /\ Return(c, "invalid")
  /\ UNCHANGED <<memory, disk, args, locals, fault, past>>

\* SchemaCache.Set, first half: the bare key.
SetBare(c) ==
  /\ pc[c] = "setBare"
  /\ cache' = [cache EXCEPT ![args[c].schema][Latest] = entry[c]]
  /\ last' = [last EXCEPT ![args[c].schema] = entry[c]]
  /\ published' = IF source[c] = "request" THEN published \cup {c}
                                           ELSE published
  /\ Goto(c, "setVersioned")
  /\ UNCHANGED <<tracked, generator, compatLock, disk, args, locals, reply,
                 fault, crossed>>

\* Writes entry[c] under versioned key v and tracks v: SetVersion, and the
\* second half of Set.
WriteVersion(c, v) ==
  /\ cache' = [cache EXCEPT ![args[c].schema][v] = entry[c]]
  /\ tracked' = [tracked EXCEPT ![args[c].schema] = @ \cup {v}]
  /\ UNCHANGED <<generator, compatLock, disk, args, locals, reply, fault,
                 published, last>>

\* A plugin's answer is cached under the version asked for ...
SetRequested(c) ==
  /\ pc[c] = "setRequested"
  /\ WriteVersion(c, args[c].version)
  /\ Goto(c, IF VersionOf[entry[c]] = args[c].version THEN "mirror"
                                                      ELSE "setVersioned")
  /\ UNCHANGED crossed

\* ... and under the version it resolved to; any other entry under its label.
SetVersioned(c) ==
  /\ pc[c] = "setVersioned"
  /\ WriteVersion(c, Label(c))
  /\ Cross(c)
  /\ Goto(c, "mirror")

\* generator.RegisterSchema(schemaID, content), whatever version that is.
Mirror(c) ==
  /\ pc[c] = "mirror"
  /\ generator' = [generator EXCEPT ![args[c].schema] = entry[c]]
  /\ \/ /\ source[c] = "request"
        /\ Goto(c, IF Backend = "none" THEN "respond" ELSE "persist")
        /\ UNCHANGED <<compatLock, locals, reply>>
     \/ /\ source[c] # "request"
        /\ Register(c)
        /\ Commit(c, entry[c])
        /\ UNCHANGED <<compatLock, reply>>
     \/ /\ args[c].op = "get"
        /\ Return(c, "ok")
        /\ UNCHANGED locals
     \/ /\ args[c].op = "fixture"
        /\ Goto(c, "generate")
        /\ UNCHANGED <<compatLock, locals, reply>>
  /\ UNCHANGED <<cache, tracked, disk, args, fault, past>>

-----------------------------------------------------------------------------
(* Store writes and answers                                                *)

\* Mutant of SetSchema: ON CONFLICT DO NOTHING, the first content stays.
SetSchemaFirstWins(s, d) ==
  /\ rows' = [rows EXCEPT ![s][VersionOf[d]] = IF @ = NoDoc THEN d ELSE @]
  /\ latestRows' = latestRows

\* Mutant of SetSchema: the other versions' rows are dropped.
SetSchemaOnlyVersion(s, d) ==
  /\ rows' = [rows EXCEPT ![s] = [v \in Versions |->
                 IF v = VersionOf[d] THEN d ELSE NoDoc]]
  /\ latestRows' = latestRows

\* Mutant of SetSchema: no implementation marks the new row as the latest.
SetSchemaUnmarked(s, d) ==
  /\ rows' = [rows EXCEPT ![s][VersionOf[d]] = d]
  /\ latestRows' = [latestRows EXCEPT ![s] = {}]

\* Store.SetSchema with the record RegisterSchema builds, which leaves
\* IsLatest unset: the SQL stores clear every is_latest flag of the schema
\* and write the record's, the memory store sets it itself.
SetSchema(s, d) ==
  /\ rows' = [rows EXCEPT ![s][VersionOf[d]] = d]
  /\ latestRows' = [latestRows EXCEPT
                      ![s] = IF Backend = "memory" THEN {VersionOf[d]} ELSE {}]

Persist(c) ==
  /\ pc[c] = "persist"
  /\ SetSchema(args[c].schema, entry[c])
  /\ Cross(c)
  /\ Goto(c, "respond")
  /\ UNCHANGED <<memory, compatLock, args, locals, reply, fault, published,
                 last>>

\* SetSchema fails: the transaction rolls back and the caller gets success
\* with a warning.
PersistFails(c) ==
  /\ pc[c] = "persist"
  /\ Backend = "sql"
  /\ fault' = [fault EXCEPT ![c] = TRUE]
  /\ Goto(c, "respond")
  /\ UNCHANGED <<memory, compatLock, disk, args, locals, reply, past>>

\* Mutant of Respond: the storage warning is dropped.
RespondWithoutWarning(c) ==
  /\ pc[c] = "respond"
  /\ Return(c, "ok")
  /\ UNCHANGED <<memory, disk, args, locals, fault, past>>

\* Fires on_breaking_change_detected (its result is ignored), answers, and
\* only then lets go of the mutex.
Respond(c) ==
  /\ pc[c] = "respond"
  /\ Return(c, IF fault[c] THEN "warned" ELSE "ok")
  /\ UNCHANGED <<memory, disk, args, locals, fault, past>>

\* GenerateFixture draws from the generator, not from the entry it looked
\* up; an unknown schema there is an error to the client.
Generate(c) ==
  /\ pc[c] = "generate"
  /\ drawn' = [drawn EXCEPT ![c] = generator[args[c].schema]]
  /\ Return(c, IF generator[args[c].schema] = NoDoc THEN "refused" ELSE "ok")
  /\ UNCHANGED <<memory, disk, args, entry, source, prior, fault, past>>

-----------------------------------------------------------------------------
(* The environment                                                         *)

\* Ristretto drops a key: TTL, admission policy or a full buffer.  The
\* tracked version list is never trimmed.
Evict(s, k) ==
  /\ cache[s][k] # NoDoc
  /\ cache' = [cache EXCEPT ![s][k] = NoDoc]
  /\ UNCHANGED <<tracked, generator, compatLock, disk, pc, args, locals,
                 reply, fault, past>>

\* The process dies and comes back: calls in flight are never answered, and
\* only a SQL store keeps its rows.
Restart ==
  /\ cache' = EmptyCache
  /\ tracked' = [s \in Schemas |-> {}]
  /\ generator' = [s \in Schemas |-> NoDoc]
  /\ compatLock' = [s \in Schemas |-> Free]
  /\ IF Backend = "sql"
       THEN UNCHANGED disk
       ELSE rows' = NoRows /\ latestRows' = [s \in Schemas |-> {}]
  /\ pc' = [c \in Calls |-> IF pc[c] = "idle" THEN "idle" ELSE "done"]
  /\ reply' = [c \in Calls |-> IF pc[c] \in {"idle", "done"} THEN reply[c]
                                                             ELSE "lost"]
  /\ last' = [s \in Schemas |-> NoDoc]
  /\ crossed' = [s \in Schemas |-> {}]
  /\ UNCHANGED <<args, locals, fault, published>>

-----------------------------------------------------------------------------

Handler(c) ==
  \/ Begin(c) \/ Reject(c) \/ AcquireCompatLock(c)
  \/ LookupCache(c)
  \/ PluginSilent(c) \/ PluginFails(c) \/ PluginAnswers(c)
  \/ NoStore(c) \/ ReadMisses(c) \/ ReadFails(c) \/ ReadHits(c)
  \/ RouterFails(c) \/ SetBare(c) \/ SetRequested(c) \/ SetVersioned(c)
  \/ Mirror(c)
  \/ Persist(c) \/ PersistFails(c) \/ Respond(c) \/ Generate(c)

Next ==
  \/ \E c \in Calls : Handler(c)
  \/ \E s \in Schemas, k \in Keys : Evict(s, k)
  \/ Restart

Spec == Init /\ [][Next]_vars

\* Every RPC that has started keeps taking steps: store and plugin calls
\* end in an answer, an error or a timeout, and Go's sync.Mutex is not
\* withheld from a waiter for ever.  Nothing obliges a client to call.
Fairness ==
  \A c \in Calls : WF_vars(Handler(c) /\ pc[c] # "idle")

FairSpec == Spec /\ Fairness

-----------------------------------------------------------------------------
(* Properties                                                              *)

\* Call c is a checked registration inside its critical section.
InCheck(c) ==
  /\ pc[c] \in Steps \ {"idle", "lock", "done"}
  /\ Register(c)
  /\ args[c].check

\* The mutex of a schema is held exactly by the one checked registration of
\* that schema which is past lock() and has not returned: two checks of a
\* schema never overlap, and no early return leaks the mutex.
LockIsHeldByItsCheck ==
  \A c \in Calls, s \in Schemas :
    compatLock[s] = c <=> InCheck(c) /\ args[c].schema = s

\* A checked registration is one atomic compare-and-publish against the
\* document published just before it (AtomicRegistry).
Atomic ==
  INSTANCE AtomicRegistry WITH
    verdict <- [c \in Calls |->
                 IF c \in published THEN <<prior[c], args[c].doc>>
                                    ELSE <<>>],
    line <- last

ChecksAreAtomic == Atomic!Spec

\* To those who only look up a schema (ConsumerRegistry), the cache is no more
\* than SchemaLookup: whatever registrations, readers and evictions do at the
\* same time, one key changes at a time and takes what its name says.
Lookup(s) == INSTANCE SchemaLookup WITH entries <- cache[s]

LookupsAreAsAssumed ==
  /\ \A s \in Schemas : Lookup(s)!Init
  /\ [][\A s \in Schemas : [Lookup(s)!Next]_(cache[s])]_cache

\* Call c has put its document into the cache and not into the store, where
\* it will write it next, or could not and said so to its client.
Unsaved(c) ==
  /\ Register(c)
  /\ \/ pc[c] \in {"mirror", "persist"}
     \/ pc[c] = "respond" /\ fault[c]
     \/ reply[c] = "warned"

\* With a SQL store and no plugin, a version's cached document is the one in
\* its row, or one that is unsaved, or two calls crossed over that version
\* since a registration last had it to itself: a fill that lands late, after
\* the row it read was overwritten, needs such a crossing, and the next
\* registration mends it.
CachedIsCurrent ==
  Backend = "sql" /\ ~PluginBound =>
    \A s \in Schemas, v \in Versions :
      \/ cache[s][v] \in {NoDoc, rows[s][v]}
      \/ v \in crossed[s]
      \/ \E c \in Calls : /\ Unsaved(c)
                         /\ args[c].schema = s
                         /\ args[c].doc = cache[s][v]

\* With a SQL store, a registration acknowledged without the warning has its
\* version in the store, whatever ran beside it and however often the
\* process restarted since.
AcknowledgedIsStored ==
  \A c \in Calls :
    Backend = "sql" /\ Register(c) /\ reply[c] = "ok" =>
      rows[args[c].schema][VersionOf[args[c].doc]] # NoDoc

\* Without a plugin, who asks for a version and gets an answer gets a document
\* of that version, from the cache or the store, however the keys changed
\* while the lookup was under way.
VersionIsAnswered ==
  ~PluginBound =>
    \A c \in Calls :
      args[c].op = "get" /\ args[c].version # Latest /\ reply[c] = "ok" =>
        VersionOf[entry[c]] = args[c].version

\* Call c has d in the cache but has not yet reached, or has failed, the
\* store write.
StillToStore(c, s, v) ==
  /\ Register(c)
  /\ args[c].schema = s
  /\ VersionOf[args[c].doc] = v
  /\ pc[c] \in {"mirror", "persist"} \/ fault[c]

\* With a SQL store and no plugin, a version only the cache knows belongs to
\* a registration that is still on its way to the store or whose client is
\* told that the write failed.
CachedIsStored ==
  Backend = "sql" /\ ~PluginBound =>
    \A s \in Schemas, v \in Versions :
      cache[s][v] # NoDoc =>
        rows[s][v] # NoDoc \/ \E c \in Calls : StillToStore(c, s, v)

\* What the store holds was submitted by a registration of that schema:
\* documents fetched from a plugin are never written there.
StoreHoldsOnlyRegistrations ==
  \A s \in Schemas, v \in Versions :
    rows[s][v] # NoDoc =>
      \E c \in Calls : /\ Register(c)
                       /\ args[c].schema = s
                       /\ args[c].doc = rows[s][v]

\* Every RPC that starts is answered or lost to a restart.
Answered == \A c \in Calls : pc[c] # "idle" ~> pc[c] = "done"

\* An unversioned lookup that reaches a working store fails only when the
\* store has no version of the schema (docs/getting-started/faq.md: with
\* persistent storage "schemas also survive server restarts").
LatestFoundIfStored ==
  [][\A c \in Calls :
       ReadMisses(c) /\ args[c].version = Latest =>
         \A v \in Versions : rows[args[c].schema][v] = NoDoc]_vars

\* A registration is refused only when the store or the plugin failed: a
\* schema without a prior version is "(nil, false, nil)", a first
\* registration, in the comment on lookupPriorSchemaForCompat.
RefusedOnlyOnFault ==
  \A c \in Calls : Register(c) /\ reply[c] = "refused" => fault[c]

\* A lookup leaves the generator on the cached latest document: getSchemaEntry
\* is meant "to avoid promoting an old version into the latest cache slot",
\* and fixtures come from the generator.
LookupKeepsGenerator ==
  [][\A c \in Calls :
       LET s == args[c].schema IN
       /\ Mirror(c)
       /\ ~Register(c)
       /\ generator[s] = cache[s][Latest]
       /\ generator[s] # NoDoc
       => generator'[s] = generator[s]]_vars

=============================================================================
