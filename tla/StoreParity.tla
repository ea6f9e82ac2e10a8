----------------------------- MODULE StoreParity -----------------------------
(***************************************************************************)
(* The three stores under the same calls: every call is made on a          *)
(* MemoryStore, a SQLiteStore and a PostgresStore, and what they answer is *)
(* compared.  Calls are made one after the other.  A call takes a tick, so *)
(* that no two records have the same time but many share their second.     *)
(***************************************************************************)
EXTENDS Stores

CONSTANTS
    MaxTime,  \* the number of calls, which bounds a behaviour
    Owned     \* the ownerships records are written with

ASSUME ParityAssumption ==
    /\ MaxTime \in Nat
    /\ Owned \subseteq Ownership \cup {None}

VARIABLES mem,    \* MemoryStore
          lite,   \* SQLiteStore
          pg,     \* PostgresStore
          now,    \* the clock
          again   \* history: schemas one of whose versions was stored twice

vars == <<mem, lite, pg, now, again>>

Init ==
    /\ mem = EmptyTable /\ lite = EmptyTable /\ pg = EmptyTable
    /\ now = 0
    /\ again = {}

\* Bound: the four tables share nothing but the clock, so a behaviour fills one of them.
Advance(table) ==
    /\ \A t \in {"rows", "runs", "comparisons", "consumers"} \ {table} : mem[t] = EmptyTable[t]
    /\ now < MaxTime
    /\ now' = now + 1

\* The service leaves the flag of a record false, the stores' tests set it.
SetSchema(s, v, doc, flag, own) ==
    LET r == [doc |-> doc, latest |-> flag, at |-> now, own |-> own]
    IN  /\ Advance("rows")
        /\ mem' = MemSetSchema(mem, s, v, r)
        /\ lite' = LiteSetSchema(lite, s, v, r)
        /\ pg' = PgSetSchema(pg, s, v, r)
        /\ again' = IF v \in Present(mem, s) THEN again \cup {s} ELSE again

DeleteSchema(s) ==
    /\ Advance("rows")
    /\ mem' = MemDeleteSchema(mem, s)
    /\ lite' = LiteDeleteSchema(lite, s)
    /\ pg' = PgDeleteSchema(pg, s)
    /\ again' = again \ {s}

DeleteSchemaVersion(s, v) ==
    /\ Advance("rows")
    /\ mem' = MemDeleteSchemaVersion(mem, s, v)
    /\ lite' = LiteDeleteSchemaVersion(lite, s, v)
    /\ pg' = PgDeleteSchemaVersion(pg, s, v)
    /\ UNCHANGED again

RecordValidation(s, errors) ==
    LET run == [schema |-> s, valid |-> errors = {}, errors |-> errors, at |-> now]
    IN  /\ Advance("runs")
        /\ mem' = MemRecordValidation(mem, run)
        /\ lite' = LiteRecordValidation(lite, run)
        /\ pg' = PgRecordValidation(pg, run)
        /\ UNCHANGED again

RecordComparison(p, verdict) ==
    /\ Advance("comparisons")
    /\ mem' = MemRecordComparison(mem, p, verdict)
    /\ lite' = LiteRecordComparison(lite, p, verdict)
    /\ pg' = PgRecordComparison(pg, p, verdict)
    /\ UNCHANGED again

RegisterConsumer(k, release) ==
    LET c == [release |-> release, registered |-> now, validated |-> now]
    IN  /\ Advance("consumers")
        /\ mem' = MemRegisterConsumer(mem, k, c)
        /\ lite' = LiteRegisterConsumer(lite, k, c)
        /\ pg' = PgRegisterConsumer(pg, k, c)
        /\ UNCHANGED again

DeregisterConsumer(k) ==
    /\ Advance("consumers")
    /\ mem' = MemDeregisterConsumer(mem, k)
    /\ lite' = LiteDeregisterConsumer(lite, k)
    /\ pg' = PgDeregisterConsumer(pg, k)
    /\ UNCHANGED again

UpdateConsumerValidation(k) ==
    /\ Advance("consumers")
    /\ mem' = MemUpdateConsumerValidation(mem, k, now)
    /\ lite' = LiteUpdateConsumerValidation(lite, k, now)
    /\ pg' = PgUpdateConsumerValidation(pg, k, now)
    /\ UNCHANGED again

SchemaCall ==
    \E s \in Schemas :
        \/ \E v \in Versions, doc \in Docs, flag \in BOOLEAN, own \in Owned : SetSchema(s, v, doc, flag, own)
        \/ DeleteSchema(s)
        \/ \E v \in Versions : DeleteSchemaVersion(s, v)

RecordCall ==
    \/ \E s \in Schemas, errors \in SUBSET Errors : RecordValidation(s, errors)
    \/ \E p \in Pairs, verdict \in BOOLEAN : RecordComparison(p, verdict)

ConsumerCall ==
    \E k \in ConsumerKeys :
        \/ \E release \in Releases : RegisterConsumer(k, release)
        \/ DeregisterConsumer(k)
        \/ UpdateConsumerValidation(k)

Next == SchemaCall \/ RecordCall \/ ConsumerCall

Spec == Init /\ [][Next]_vars

-----------------------------------------------------------------------------
(***************************************************************************)
(* What the stores have in common.                                         *)
(***************************************************************************)

Tables ==
    [rows        : [Schemas -> [Versions -> SchemaRows \cup {None}]],
     ids         : SUBSET Schemas,
     runs        : Seq(Runs),
     comparisons : [Pairs -> BOOLEAN \cup {None}],
     consumers   : [ConsumerKeys -> ConsumerRecords \cup {None}]]

TypeOK ==
    /\ mem \in Tables /\ lite \in Tables /\ pg \in Tables
    /\ now \in Nat
    /\ again \subseteq Schemas

\* A version is found in all three stores or in none, with the same document and the
\* same named owner; the read-only flag of an owner who is named survives, in Postgres
\* through the NULLs of its columns.
VersionsAgree ==
    \A s \in Schemas, v \in Versions :
        LET m == MemGetSchemaVersion(mem, s, v)
            l == LiteGetSchemaVersion(lite, s, v)
            p == PgGetSchemaVersion(pg, s, v)
        IN  \/ m = None /\ l = None /\ p = None
            \/ /\ m /= None /\ l /= None /\ p /= None
               /\ m.doc = l.doc /\ m.doc = p.doc
               /\ OwnerOf(m) = OwnerOf(l) /\ OwnerOf(m) = OwnerOf(p)
               /\ OwnerOf(m) /= Nobody => m.own = l.own /\ m.own = p.own

\* A schema never has two latest versions, and a SQL store that has one has the one the
\* memory store has: the flag of the record decides whether it answers, never with what.
LatestAgrees ==
    \A s \in Schemas :
        LET m == MemGetSchema(mem, s)
            l == LiteGetSchema(lite, s)
            p == PgGetSchema(pg, s)
        IN  /\ Cardinality(m) <= 1
            /\ {r.doc : r \in l} \subseteq {r.doc : r \in m}
            /\ {r.doc : r \in p} = {r.doc : r \in l}

\* Once a version has been registered a second time MemoryStore and the SQL stores
\* disagree on when it was registered, hence on what came before it.  Until then they
\* answer alike, SQLite as far as seconds tell: what it names is what the others name,
\* or something registered within the second of theirs.
PreviousAgrees ==
    \A s \in Schemas \ again, v \in Versions :
        LET m == PreviousVersion(mem, s, v)
            l == LiteGetPreviousVersion(lite, s, v)
        IN  /\ PgGetPreviousVersion(pg, s, v) = m
            /\ m = {} => l = {}
            /\ \A w \in l : mem.rows[s][w].at < mem.rows[s][v].at
            /\ \A w \in m : l /= {} /\ w \notin l =>
                 Second(mem.rows[s][w].at) = Second(mem.rows[s][v].at)

\* The versions, each once, and the schemas that are listed: memory still lists a schema whose versions were
\* deleted one by one.
ListsAgree ==
    /\ \A s \in Schemas :
         /\ LiteListVersions(lite, s) /= {} /\ PgListVersions(pg, s) /= {}
         /\ \A q \in LiteListVersions(lite, s) \cup PgListVersions(pg, s) :
              Len(q) = Cardinality(MemListVersions(mem, s)) /\ ToSet(q) = MemListVersions(mem, s)
    /\ LiteListSchemaIDs(lite) = PgListSchemaIDs(pg)
    /\ \A s \in MemListSchemaIDs(mem) \ LiteListSchemaIDs(lite) : MemListVersions(mem, s) = {}
    /\ LiteListSchemaIDs(lite) \subseteq MemListSchemaIDs(mem)

\* What is found of a schema does not depend on the store, as far as its clock tells.
LookupsAgree == VersionsAgree /\ LatestAgrees /\ PreviousAgrees /\ ListsAgree

\* Registering a consumer, again or after it was deregistered, and validating with it leave
\* memory and SQLite with the same registration, made at the same time up to the resolution of
\* each.  Postgres, which refuses every registration, has none of them or the same.
ConsumersAgree ==
    \A k \in ConsumerKeys :
        LET m == MemGetConsumer(mem, k)
            l == LiteGetConsumer(lite, k)
        IN  /\ PgGetConsumer(pg, k) \in {None, m}
            /\ PgListConsumers(pg, ConsumerKeys) \subseteq LiteListConsumers(lite, ConsumerKeys)
            /\ LiteListConsumers(lite, ConsumerKeys) = MemListConsumers(mem, ConsumerKeys)
            /\ m /= None =>
                 /\ l.release = m.release
                 /\ l.registered = Second(m.registered)
                 /\ l.validated = Second(m.validated)

\* As storage.Store promises of every store, and Postgres never does: a registration is stored.
ConsumersStored ==
    \A k \in ConsumerKeys : MemGetConsumer(mem, k) /= None => PgGetConsumer(pg, k) /= None

\* Listing with page size n reaches every schema of the filter, each once, as long as
\* two pages hold them all: the token is the size of a page, which is the right offset
\* for the second page only.
TwoPagesSuffice ==
    \A owner \in Owners, size \in 1 .. Cardinality(Schemas) :
        LET first  == LiteListSchemas(lite, owner, size, None)
            second == LiteListSchemas(lite, owner, size, first.token)
            all    == Ordered(Selected(lite, owner))
        IN  IF first.token = None THEN first.schemas = all
            ELSE Len(all) <= 2 * size => second.token = None /\ first.schemas \o second.schemas = all

\* No run is in any window of none.
Instants == (IF mem.runs = << >> THEN {} ELSE 0 .. MaxTime) \cup {None}
Windows == {w \in [schema : Schemas \cup {None}, start : Instants, end : Instants] :
                None \in {w.start, w.end} \/ w.start <= w.end}

\* The window with its first and its last second in full.
Wide(w) == [w EXCEPT !.start = IF @ = None THEN None ELSE Second(@),
                     !.end = IF @ = None THEN None ELSE Second(@) + Tick - 1]

\* Postgres counts what memory counts, unless there is nothing to count.
AnalyticsAgree ==
    \A w \in Windows :
        LET m == MemGetValidationAnalytics(mem, w)
            p == PgGetValidationAnalytics(pg, w)
        IN  /\ p = None <=> m.total = 0
            /\ p /= None => p = m

\* As storage.Store promises of every store, and SQLite never does: the runs of a window are
\* counted.
AnalyticsAnswered ==
    \A w \in Windows : Matching(mem, w) /= {} => LiteGetValidationAnalytics(lite, w) /= None

\* The SQL stores list as many runs as memory does, SQLite also those in the rest of the first
\* and the last second: the same ones if there is room for all, otherwise none that is older
\* than one which only memory lists, as far as the clock tells.
ListingsAgree ==
    \A w \in Windows, size \in 1 .. Len(mem.runs) + 1 :
        LET m == MemListValidations(mem, w, size)
            ofPg == PgListValidations(pg, w, size)
            ofLite == LiteListValidations(lite, w, size)
        IN  /\ ofPg /= {} /\ ofLite /= {}
            /\ \A p \in ofPg :
                 /\ Cardinality(p) = Cardinality(m)
                 /\ Cardinality(Matching(mem, w)) <= size => p = m
                 /\ \A i \in p \ m, j \in m \ p : mem.runs[j].at < mem.runs[i].at
            /\ \A l \in ofLite :
                 /\ l \subseteq Matching(mem, Wide(w))
                 /\ Cardinality(l) = Cardinality(MemListValidations(mem, Wide(w), size))
                 /\ Cardinality(Matching(mem, Wide(w))) <= size => m \subseteq l
                 /\ \A i \in l, j \in m \ l : Second(mem.runs[j].at) <= Second(mem.runs[i].at)

ComparisonsAgree ==
    \A p \in Pairs :
        /\ LiteGetComparison(lite, p) = MemGetComparison(mem, p)
        /\ PgGetComparison(pg, p) = MemGetComparison(mem, p)

\* What was recorded of validations and comparisons reads alike from every store, where the
\* store answers and as far as its clock tells.
ObservationsAgree == AnalyticsAgree /\ ListingsAgree /\ ComparisonsAgree

=============================================================================
