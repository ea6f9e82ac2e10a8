------------------------------- MODULE Stores -------------------------------
(***************************************************************************)
(* The three implementations of storage.Store as operators on tables: the  *)
(* maps of MemoryStore and the statements SQLiteStore and PostgresStore    *)
(* run.  A table is a record:                                              *)
(*   rows[s][v]     the schemas row of version v of schema s, or None      *)
(*   ids            the schema IDs MemoryStore has a version map for       *)
(*   runs           the validation runs, in the order of their insertion   *)
(*   comparisons    the verdict of each compared pair, or None             *)
(*   consumers[k]   the registration of a consumer key, or None            *)
(* A row's time is when it was registered, in ticks.  Ownership stands for *)
(* owner, team and e-mail (one of them named, or none) and the read-only   *)
(* flag; filters on owner, team and environment work alike and are         *)
(* represented by the one on owner.                                        *)
(***************************************************************************)
EXTENDS Integers, Sequences, FiniteSets, SequencesExt

CONSTANTS
    Schemas,      \* schema IDs, 1 .. n: ORDER BY schema_id is their order
    Versions,     \* version labels
    Docs,         \* schema documents
    ConsumerKeys, \* consumer, schema and environment of a registration
    Releases,     \* versions of a consumer
    Errors,       \* validation errors
    Tick,         \* ticks in a second, the resolution of RFC 3339 text
    None,         \* no row
    Nobody        \* the empty owner name

Owners == {Nobody, "team"}
Ownership == [owner : Owners, readOnly : BOOLEAN]

SchemaRows == [doc : Docs, latest : BOOLEAN, at : Nat,
               own : Ownership \cup {None}]
ConsumerRecords == [release : Releases, registered : Nat, validated : Nat]
Runs == [schema : Schemas, valid : BOOLEAN, errors : SUBSET Errors, at : Nat]
Analytics == [total : Nat, pass : Nat, fail : Nat]
Pairs == Schemas \X Versions \X Versions

ASSUME StoresAssumption ==
    /\ Schemas \subseteq Nat
    /\ Tick \in Nat \ {0}
    /\ None \notin SchemaRows \cup ConsumerRecords \cup Ownership \cup Analytics \cup Nat

EmptyTable ==
    [rows        |-> [s \in Schemas |-> [v \in Versions |-> None]],
     ids         |-> {},
     runs        |-> << >>,
     comparisons |-> [p \in Pairs |-> None],
     consumers   |-> [k \in ConsumerKeys |-> None]]

\* Format(time.RFC3339) drops the fraction of a second.
Second(t) == (t \div Tick) * Tick

Present(t, s) == {v \in Versions : t.rows[s][v] /= None}

Unmark(row) == IF row = None THEN None ELSE [row EXCEPT !.latest = FALSE]

-----------------------------------------------------------------------------
(***************************************************************************)
(* Schemas: the writes.                                                    *)
(***************************************************************************)

\* The map keeps the record it is given, and marks it the latest whatever its
\* flag says.
MemSetSchema(t, s, v, r) ==
    [t EXCEPT !.rows[s] = [w \in Versions |-> IF w = v THEN [r EXCEPT !.latest = TRUE]
                                                       ELSE Unmark(t.rows[s][w])],
              !.ids = @ \cup {s}]

\* The columns a record is written to; a nil ownership becomes empty strings.
LiteColumns(r) ==
    [r EXCEPT !.at = Second(@),
              !.own = IF @ = None THEN [owner |-> Nobody, readOnly |-> FALSE] ELSE @]

\* Postgres keeps the time, and writes NULL for an owner that is not named.
PgColumns(r) ==
    [r EXCEPT !.own = IF @ = None THEN [owner |-> Nobody, readOnly |-> FALSE] ELSE @]

\* The upsert leaves registered_at out of its DO UPDATE list.
Upsert(old, new) == IF old = None THEN new ELSE [new EXCEPT !.at = old.at]

SqlSetSchema(t, s, v, columns) ==
    [t EXCEPT !.rows[s] = [w \in Versions |-> IF w = v THEN Upsert(t.rows[s][w], columns)
                                                       ELSE Unmark(t.rows[s][w])]]

LiteSetSchema(t, s, v, r) == SqlSetSchema(t, s, v, LiteColumns(r))

PgSetSchema(t, s, v, r) == SqlSetSchema(t, s, v, PgColumns(r))

MemDeleteSchema(t, s) ==
    [t EXCEPT !.rows[s] = [v \in Versions |-> None], !.ids = @ \ {s}]

\* The version map stays, even when its last version goes.
MemDeleteSchemaVersion(t, s, v) == [t EXCEPT !.rows[s][v] = None]

LiteDeleteSchema(t, s) == [t EXCEPT !.rows[s] = [v \in Versions |-> None]]

LiteDeleteSchemaVersion(t, s, v) == [t EXCEPT !.rows[s][v] = None]

PgDeleteSchema(t, s) == LiteDeleteSchema(t, s)

PgDeleteSchemaVersion(t, s, v) == LiteDeleteSchemaVersion(t, s, v)

-----------------------------------------------------------------------------
(***************************************************************************)
(* Schemas: the reads.  A read that may answer with any of several rows    *)
(* (a map iteration, an ORDER BY with ties) is the set of those rows.      *)
(***************************************************************************)

LiteScan(row) == row

\* Ownership comes back only if one of its columns is not NULL.
PgScan(row) ==
    IF row = None \/ row.own.owner /= Nobody THEN row ELSE [row EXCEPT !.own = None]

MemGetSchema(t, s) == {t.rows[s][v] : v \in {w \in Present(t, s) : t.rows[s][w].latest}}

LiteGetSchema(t, s) == {LiteScan(row) : row \in MemGetSchema(t, s)}

PgGetSchema(t, s) == {PgScan(row) : row \in MemGetSchema(t, s)}

MemGetSchemaVersion(t, s, v) == t.rows[s][v]

LiteGetSchemaVersion(t, s, v) == LiteScan(t.rows[s][v])

PgGetSchemaVersion(t, s, v) == PgScan(t.rows[s][v])

MemListSchemaIDs(t) == t.ids

LiteListSchemaIDs(t) == {s \in Schemas : Present(t, s) /= {}}

PgListSchemaIDs(t) == LiteListSchemaIDs(t)

\* Mutant of PreviousVersion: not later instead of earlier.
PreviousVersionOrSame(t, s, v) ==
    LET older == IF t.rows[s][v] = None THEN {}
                 ELSE {w \in Present(t, s) : t.rows[s][w].at <= t.rows[s][v].at}
    IN  {w \in older : \A x \in older : t.rows[s][x].at <= t.rows[s][w].at}

\* The sequences of all of S with the values of key in ascending order.
Ascending(S, key) ==
    {q \in SetToSeqs(S) : \A i, j \in DOMAIN q : i < j => key[q[i]] <= key[q[j]]}

\* MemoryStore lists versions in no order, the SQL stores the last registered first, those
\* of equal times in any order.
MemListVersions(t, s) == Present(t, s)

LiteListVersions(t, s) ==
    {Reverse(q) : q \in Ascending(Present(t, s), [v \in Present(t, s) |-> t.rows[s][v].at])}

PgListVersions(t, s) == LiteListVersions(t, s)

\* Registered strictly before v, and none of those later than it: the same scan in
\* Go and in SQL.
PreviousVersion(t, s, v) ==
    LET older == IF t.rows[s][v] = None THEN {}
                 ELSE {w \in Present(t, s) : t.rows[s][w].at < t.rows[s][v].at}
    IN  {w \in older : \A x \in older : t.rows[s][x].at <= t.rows[s][w].at}

LiteGetPreviousVersion(t, s, v) == PreviousVersion(t, s, v)

PgGetPreviousVersion(t, s, v) == PreviousVersion(t, s, v)

\* Schemas with a latest row that passes the filter.
OwnerOf(row) == IF row.own = None THEN Nobody ELSE row.own.owner
Selected(t, owner) ==
    {s \in Schemas : \E row \in MemGetSchema(t, s) : owner \in {Nobody, OwnerOf(row)}}
Ordered(S) == CHOOSE q \in Ascending(S, [s \in S |-> s]) : TRUE
Page(all, from, size) ==
    [i \in 1 .. Min({size, Max({0, Len(all) - from})}) |-> all[from + i]]

\* MemoryStore returns everything, and never a token.
MemListSchemas(t, owner) ==
    [schemas |-> Selected(t, owner), token |-> None, total |-> Cardinality(Selected(t, owner))]

\* Mutant of LiteListSchemas: OFFSET counts from one.
LiteListSchemasFromOne(t, owner, size, token) ==
    LET all  == Ordered(Selected(t, owner))
        from == IF token = None THEN 0 ELSE token + 1
    IN  [schemas |-> Page(all, from, size),
         token   |-> IF Len(all) > from + size THEN size ELSE None,
         total   |-> Cardinality(Selected(t, Nobody))]

\* LIMIT size + 1 OFFSET token; the next token is the length of this page.
LiteListSchemas(t, owner, size, token) ==
    LET all  == Ordered(Selected(t, owner))
        from == IF token = None THEN 0 ELSE token
    IN  [schemas |-> Page(all, from, size),
         token   |-> IF Len(all) > from + size THEN size ELSE None,
         total   |-> Cardinality(Selected(t, Nobody))]

\* Postgres takes no OFFSET: the token it is given is not used.
PgListSchemas(t, owner, size, token) == LiteListSchemas(t, owner, size, None)

-----------------------------------------------------------------------------
(***************************************************************************)
(* Validation runs.  A window is a schema (or None), a start and an end    *)
(* (None for the zero time.Time).                                          *)
(***************************************************************************)

MemRecordValidation(t, run) == [t EXCEPT !.runs = Append(@, run)]

LiteRecordValidation(t, run) ==
    [t EXCEPT !.runs = Append(@, [run EXCEPT !.at = Second(@)])]

PgRecordValidation(t, run) == MemRecordValidation(t, run)

InWindow(run, w) ==
    /\ w.schema \in {None, run.schema}
    /\ w.start = None \/ run.at >= w.start
    /\ w.end = None \/ run.at <= w.end

\* Mutant of LiteWindow: the window's ends are compared as they are.
LiteWindowExact(w) == w

\* SQLite compares text: the window's ends lose their fraction as the runs' did.
LiteWindow(w) ==
    [w EXCEPT !.start = IF @ = None THEN None ELSE Second(@),
              !.end   = IF @ = None THEN None ELSE Second(@)]

\* The positions of the runs in a window.
Matching(t, w) == {i \in DOMAIN t.runs : InWindow(t.runs[i], w)}

\* The first runs that were recorded.
MemListValidations(t, w, size) ==
    LET all == Matching(t, w)
    IN  {i \in all : Cardinality({j \in all : j < i}) < size}

\* ORDER BY validated_at DESC LIMIT size: which of several runs with equal times are
\* returned is open.
Newest(t, w, size) ==
    LET all == Matching(t, w)
    IN  {kept \in SUBSET all :
            /\ Cardinality(kept) = Min({size, Cardinality(all)})
            /\ \A i \in kept, j \in all \ kept : t.runs[j].at <= t.runs[i].at}

LiteListValidations(t, w, size) == Newest(t, LiteWindow(w), size)

PgListValidations(t, w, size) == Newest(t, w, size)

Totals(t, w) ==
    [total |-> Cardinality(Matching(t, w)),
     pass  |-> Cardinality({i \in Matching(t, w) : t.runs[i].valid}),
     fail  |-> Cardinality({i \in Matching(t, w) : ~t.runs[i].valid})]

MemGetValidationAnalytics(t, w) == Totals(t, w)

\* The statement for the top errors has two WHERE clauses, which no SQLite parses: the
\* call is always an error, whatever the counts before it came to.
LiteGetValidationAnalytics(t, w) == None

\* SUM over no rows is NULL, which does not scan into an int64: an error.
PgGetValidationAnalytics(t, w) == IF Matching(t, w) = {} THEN None ELSE Totals(t, w)

-----------------------------------------------------------------------------
(***************************************************************************)
(* Comparisons, one row per pair, and consumer registrations.              *)
(***************************************************************************)

MemRecordComparison(t, p, verdict) == [t EXCEPT !.comparisons[p] = verdict]

LiteRecordComparison(t, p, verdict) == [t EXCEPT !.comparisons[p] = verdict]

PgRecordComparison(t, p, verdict) == LiteRecordComparison(t, p, verdict)

MemGetComparison(t, p) == t.comparisons[p]

LiteGetComparison(t, p) == t.comparisons[p]

PgGetComparison(t, p) == t.comparisons[p]

\* A registration that exists keeps the time it was first made.
Keep(old, new) == IF old = None THEN new ELSE [new EXCEPT !.registered = old.registered]

MemRegisterConsumer(t, k, c) == [t EXCEPT !.consumers[k] = Keep(@, c)]

\* Mutant of LiteRegisterConsumer: registered_at is in the DO UPDATE list.
LiteRegisterConsumerAnew(t, k, c) ==
    [t EXCEPT !.consumers[k] = [c EXCEPT !.registered = Second(@), !.validated = Second(@)]]

LiteRegisterConsumer(t, k, c) ==
    [t EXCEPT !.consumers[k] = Keep(@, [c EXCEPT !.registered = Second(@), !.validated = Second(@)])]

\* The statement fails: it names a conflict on consumer and environment, and the table's only
\* unique constraint is on consumer, schema and environment.
PgRegisterConsumer(t, k, c) == t

MemDeregisterConsumer(t, k) == [t EXCEPT !.consumers[k] = None]

LiteDeregisterConsumer(t, k) == [t EXCEPT !.consumers[k] = None]

PgDeregisterConsumer(t, k) == LiteDeregisterConsumer(t, k)

MemUpdateConsumerValidation(t, k, at) ==
    [t EXCEPT !.consumers[k] = IF @ = None THEN None ELSE [@ EXCEPT !.validated = at]]

LiteUpdateConsumerValidation(t, k, at) == MemUpdateConsumerValidation(t, k, Second(at))

PgUpdateConsumerValidation(t, k, at) == MemUpdateConsumerValidation(t, k, at)

MemGetConsumer(t, k) == t.consumers[k]

LiteGetConsumer(t, k) == t.consumers[k]

PgGetConsumer(t, k) == t.consumers[k]

MemListConsumers(t, passing) == {k \in passing : t.consumers[k] /= None}

LiteListConsumers(t, passing) == MemListConsumers(t, passing)

PgListConsumers(t, passing) == MemListConsumers(t, passing)

=============================================================================
