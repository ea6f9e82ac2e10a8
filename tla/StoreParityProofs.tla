-------------------------- MODULE StoreParityProofs --------------------------
(***************************************************************************)
(* Proofs about StoreParity, for any schemas, versions, documents,         *)
(* consumers and ownerships, any resolution of SQLite's clock and any      *)
(* number of calls.                                                        *)
(***************************************************************************)
EXTENDS StoreParity, FiniteSetTheorems, TLAPS

-----------------------------------------------------------------------------
(***************************************************************************)
(* Numbers: what is least, what is greatest, and what is left of a time.   *)
(***************************************************************************)

\* A set of naturals has a least element.
LEMMA Least ==
  ASSUME NEW T \in SUBSET Nat, T # {}
  PROVE  \E m \in T : \A n \in T : m <= n
<1> DEFINE R == OpToRel(<, Nat)
<1>1. IsWellFoundedOn(R, Nat)
  BY NatLessThanWellFounded, Zenon
<1>2. \A n, m \in Nat : n < m => <<n, m>> \in R
  <2> SUFFICES ASSUME NEW n \in Nat, NEW m \in Nat, n < m PROVE <<n, m>> \in R
    BY Zenon
  <2>1. <<n, m>> \in Nat \X Nat /\ <<n, m>>[1] = n /\ <<n, m>>[2] = m
    OBVIOUS
  <2> QED
    BY <2>1, Zenon DEF OpToRel
<1> HIDE DEF R
<1>3. PICK m \in T : \A n \in T : <<n, m>> \notin R
  BY <1>1, WFMin
<1>4. \A n \in T : n \in Nat /\ m \in Nat /\ ~(n < m)
  BY <1>2, <1>3, Zenon
<1> QED
  BY <1>4

\* One that is bounded has a greatest.
LEMMA Greatest ==
  ASSUME NEW T \in SUBSET Nat, T # {}, NEW b \in Nat, \A n \in T : n <= b
  PROVE  \E m \in T : \A n \in T : n <= m
<1> DEFINE U == {b - n : n \in T}
<1>1. U \in SUBSET Nat /\ U # {}
  <2>1. \A n \in T : n \in Nat /\ n <= b
    OBVIOUS
  <2>2. \A n \in T : b - n \in Nat
    BY <2>1
  <2> QED
    BY <2>2
<1>2. PICK u \in U : \A n \in U : u <= n
  <2> HIDE DEF U
  <2> QED
    BY <1>1, Least
<1>3. PICK m \in T : u = b - m
  BY <1>2
<1>4. \A n \in T : b - m <= b - n
  BY <1>2, <1>3
<1> QED
  BY <1>4

\* Whole seconds are in the order of the times they are left of, and not after them.
LEMMA Seconds ==
  ASSUME NEW t \in Nat, NEW u \in Nat
  PROVE  /\ Second(t) \in Nat /\ Second(t) <= t
         /\ t <= u => Second(t) <= Second(u)
<1>1. Tick \in Nat /\ Tick > 0
  BY StoresAssumption
<1>2. \A n \in Nat : /\ n \div Tick \in Nat
                     /\ (n \div Tick) * Tick <= n
                     /\ n < (n \div Tick) * Tick + Tick
  BY <1>1
<1>3. \A i, j \in Nat : i <= j => i * Tick <= j * Tick
  BY <1>1
<1>4. ASSUME t <= u PROVE t \div Tick <= u \div Tick
  <2> DEFINE i == t \div Tick
             j == u \div Tick
  <2>1. i \in Nat /\ j \in Nat /\ i * Tick <= t /\ u < j * Tick + Tick
    BY <1>2
  <2> HIDE DEF i, j
  <2>2. j + 1 <= i => (j + 1) * Tick <= i * Tick
    BY <1>3, <2>1
  <2>3. (j + 1) * Tick = j * Tick + Tick
    BY <1>1, <2>1
  <2>4. i <= j
    <3>1. i * Tick \in Nat /\ j * Tick \in Nat
      BY <1>1, <2>1
    <3> QED
      BY <1>1, <1>4, <2>1, <2>2, <2>3, <3>1
  <2> QED
    BY <2>4 DEF i, j
<1> QED
  BY <1>1, <1>2, <1>3, <1>4 DEF Second

-----------------------------------------------------------------------------
(***************************************************************************)
(* Sorted sequences.                                                       *)
(***************************************************************************)

\* What has been sorted is a sequence of all of S, each once.
LEMMA SortedHoldsAll ==
  ASSUME NEW S, IsFiniteSet(S), NEW key, NEW q \in Ascending(S, key)
  PROVE  /\ q \in Seq(S) /\ Len(q) = Cardinality(S) /\ ToSet(q) = S
         /\ Reverse(q) \in Seq(S) /\ Len(Reverse(q)) = Cardinality(S) /\ ToSet(Reverse(q)) = S
<1> DEFINE n == Cardinality(S)
<1>1. n \in Nat
  BY FS_CardinalityType
<1>2. q \in [1 .. n -> S] /\ \A i, j \in 1 .. n : i # j => q[i] # q[j]
  BY DEF Ascending, SetToSeqs
<1>3. IsFiniteSet(1 .. n) /\ Cardinality(1 .. n) = n
  <2>1. 1 \in Int /\ n \in Int
    BY <1>1
  <2> QED
    BY <1>1, <2>1, FS_Interval
<1> HIDE DEF n
<1>4. q \in Surjection(1 .. n, S)
  <2>1. q \in Injection(1 .. n, S)
    BY <1>2 DEF Injection, IsInjective
  <2> QED
    BY <1>3, <2>1, FS_Injection DEF n
<1>5. \A x \in S : \E i \in 1 .. n : q[i] = x
  BY <1>4 DEF Surjection
<1>6. q \in Seq(S) /\ Len(q) = n /\ DOMAIN q = 1 .. n
  BY <1>1, <1>2
<1>7. ToSet(q) = S
  BY <1>2, <1>5, <1>6 DEF ToSet
<1>8. Reverse(q) = [i \in 1 .. n |-> q[(n - i) + 1]]
  BY <1>6 DEF Reverse
<1>9. \A i \in 1 .. n : (n - i) + 1 \in 1 .. n /\ (n - ((n - i) + 1)) + 1 = i
  BY <1>1
<1>10. Reverse(q) \in [1 .. n -> S]
  BY <1>2, <1>8, <1>9
<1>11. Reverse(q) \in Seq(S) /\ Len(Reverse(q)) = n /\ DOMAIN Reverse(q) = 1 .. n
  BY <1>1, <1>10
<1>12. \A x \in S : \E i \in 1 .. n : Reverse(q)[i] = x
  BY <1>5, <1>8, <1>9
<1>13. ToSet(Reverse(q)) = S
  BY <1>10, <1>11, <1>12 DEF ToSet
<1> QED
  BY <1>6, <1>7, <1>11, <1>13 DEF n

\* A finite set can be sorted: take what is least to the front.  The induction is on the
\* smallest set that cannot.
LEMMA Sortable ==
  ASSUME NEW S, IsFiniteSet(S), NEW key, \A x \in S : key[x] \in Nat
  PROVE  Ascending(S, key) # {}
<1> DEFINE Unsorted == {n \in Nat : \E T \in SUBSET S : Cardinality(T) = n /\ Ascending(T, key) = {}}
<1>1. SUFFICES ASSUME Unsorted # {} PROVE FALSE
  BY FS_CardinalityType
<1>2. PICK n \in Unsorted : \A m \in Unsorted : n <= m
  <2>1. Unsorted \in SUBSET Nat
    OBVIOUS
  <2> HIDE DEF Unsorted
  <2> QED
    BY <1>1, <2>1, Least
<1>3. PICK T \in SUBSET S : Cardinality(T) = n /\ Ascending(T, key) = {}
  BY <1>2
<1>4. IsFiniteSet(T) /\ n \in Nat
  BY <1>2, FS_Subset
<1>5. CASE T = {}
  <2>1. n = 0
    BY <1>3, <1>5, FS_EmptySet
  <2>2. 1 .. n = {}
    BY <2>1
  <2>3. [i \in 1 .. n |-> i] \in [1 .. n -> T]
    BY <2>2
  <2>4. [i \in 1 .. n |-> i] \in Ascending(T, key)
    BY <1>3, <2>2, <2>3 DEF Ascending, SetToSeqs
  <2> QED
    BY <1>3, <2>4
<1>6. CASE T # {}
  <2>1. PICK w \in T : \A x \in T : key[w] <= key[x]
    <3>1. {key[x] : x \in T} \in SUBSET Nat /\ {key[x] : x \in T} # {}
      BY <1>6
    <3>2. PICK k \in {key[x] : x \in T} : \A l \in {key[x] : x \in T} : k <= l
      BY <3>1, Least
    <3> QED
      BY <3>2
  <2> DEFINE U == T \ {w}
             m == Cardinality(U)
  <2>2. IsFiniteSet(U) /\ m = n - 1 /\ U \in SUBSET S
    BY <1>3, <1>4, FS_RemoveElement
  <2>3. m \in Nat
    BY <2>2, FS_CardinalityType
  <2>4. m \notin Unsorted
    BY <1>2, <1>4, <2>2, <2>3
  <2>5. PICK q \in Ascending(U, key) : TRUE
    BY <2>2, <2>3, <2>4
  <2>6. /\ q \in [1 .. m -> U]
        /\ \A i, j \in 1 .. m : i # j => q[i] # q[j]
        /\ \A i, j \in 1 .. m : i < j => key[q[i]] <= key[q[j]]
    BY <2>5 DEF Ascending, SetToSeqs
  <2> DEFINE r == [i \in 1 .. n |-> IF i = 1 THEN w ELSE q[i - 1]]
  <2>7. \A i \in 1 .. n : i # 1 => i - 1 \in 1 .. m
    BY <1>4, <2>2
  <2>8. \A i \in 1 .. n : i # 1 => q[i - 1] \in T /\ q[i - 1] # w
    BY <2>6, <2>7
  <2>9. r \in [1 .. n -> T] /\ DOMAIN r = 1 .. n
    BY <2>8
  <2>10. \A i, j \in 1 .. n : i # j => r[i] # r[j]
    <3> SUFFICES ASSUME NEW i \in 1 .. n, NEW j \in 1 .. n, i # j PROVE r[i] # r[j]
      OBVIOUS
    <3>1. CASE i = 1 \/ j = 1
      BY <2>8, <3>1
    <3>2. CASE i # 1 /\ j # 1
      <4>1. i - 1 \in 1 .. m /\ j - 1 \in 1 .. m /\ i - 1 # j - 1
        BY <2>7, <3>2
      <4> QED
        BY <2>6, <3>2, <4>1
    <3> QED
      BY <3>1, <3>2
  <2>11. \A i, j \in 1 .. n : i < j => key[r[i]] <= key[r[j]]
    <3> SUFFICES ASSUME NEW i \in 1 .. n, NEW j \in 1 .. n, i < j PROVE key[r[i]] <= key[r[j]]
      OBVIOUS
    <3>1. j # 1
      BY <1>4
    <3>2. CASE i = 1
      BY <2>1, <2>8, <3>1, <3>2
    <3>3. CASE i # 1
      <4>1. i - 1 \in 1 .. m /\ j - 1 \in 1 .. m
        BY <2>7, <3>1, <3>3
      <4>2. key[q[i - 1]] <= key[q[j - 1]]
        <5>1. i - 1 < j - 1
          BY <1>4
        <5> HIDE DEF m
        <5> QED
          BY <2>6, <4>1, <5>1
      <4>3. r[i] = q[i - 1] /\ r[j] = q[j - 1]
        BY <3>1, <3>3
      <4> QED
        BY <4>2, <4>3
    <3> QED
      BY <3>2, <3>3
  <2>12. r \in Ascending(T, key)
    <3> HIDE DEF r
    <3> QED
      BY <1>3, <2>9, <2>10, <2>11 DEF Ascending, SetToSeqs
  <2> QED
    BY <1>3, <2>12
<1> QED
  BY <1>5, <1>6

-----------------------------------------------------------------------------
(***************************************************************************)
(* How the three tables are related.                                       *)
(***************************************************************************)

\* What the SQL stores write of an ownership.
Written(own) == IF own = None THEN [owner |-> Nobody, readOnly |-> FALSE] ELSE own

\* The rows of one version: the SQL stores have the document and the written ownership, the
\* mark of the latest only where memory has it, and as long as nothing was stored twice the
\* same time, SQLite in whole seconds.
SameVersion(m, l, p, fresh) ==
    \/ m = None /\ l = None /\ p = None
    \/ /\ m \in SchemaRows /\ l \in SchemaRows /\ p \in SchemaRows
       /\ l.doc = m.doc /\ p.doc = m.doc
       /\ l.own = Written(m.own) /\ p.own = Written(m.own)
       /\ p.latest = l.latest
       /\ l.latest => m.latest
       /\ fresh => p.at = m.at /\ l.at = Second(m.at)

\* Of one schema: its versions, the one that memory marks, and that memory lists it.
SchemaAgrees(s) ==
    /\ \A v \in Versions :
         SameVersion(mem.rows[s][v], lite.rows[s][v], pg.rows[s][v], s \notin again)
    /\ \A v, w \in Present(mem, s) : mem.rows[s][v].latest /\ mem.rows[s][w].latest => v = w
    /\ Present(mem, s) # {} => s \in mem.ids
    /\ IsFiniteSet(Present(mem, s))

Stored == {s \in Schemas : Present(mem, s) # {}}

SchemasInv ==
    /\ TypeOK
    /\ \A s \in Schemas : SchemaAgrees(s)
    /\ IsFiniteSet(Stored)

\* A row is a row, not the absence of one.
LEMMA RowsAreRows ==
  /\ \A r \in SchemaRows : r # None
  /\ \A c \in ConsumerRecords : c # None
  /\ \A o \in Ownership : o # None
  /\ None \notin Nat
BY StoresAssumption

\* Unmarking the rows of a version in all three stores leaves them as they were related.
LEMMA Unmarked ==
  ASSUME NEW m, NEW l, NEW p, NEW fresh, SameVersion(m, l, p, fresh)
  PROVE  /\ SameVersion(Unmark(m), Unmark(l), Unmark(p), fresh)
         /\ Unmark(m) = None <=> m = None
         /\ m # None => Unmark(m).latest = FALSE
         /\ \A r \in {m, l, p} : r \in SchemaRows \cup {None} /\ Unmark(r) \in SchemaRows \cup {None}
<1>1. CASE m = None /\ l = None /\ p = None
  BY <1>1 DEF Unmark, SameVersion
<1>2. CASE m \in SchemaRows /\ l \in SchemaRows /\ p \in SchemaRows
  <2>1. m # None /\ l # None /\ p # None
    BY <1>2, RowsAreRows
  <2>2. /\ Unmark(m) = [m EXCEPT !.latest = FALSE]
        /\ Unmark(l) = [l EXCEPT !.latest = FALSE]
        /\ Unmark(p) = [p EXCEPT !.latest = FALSE]
    BY <2>1 DEF Unmark
  <2>3. Unmark(m) \in SchemaRows /\ Unmark(l) \in SchemaRows /\ Unmark(p) \in SchemaRows
    BY <1>2, <2>2 DEF SchemaRows
  <2>4. SameVersion(Unmark(m), Unmark(l), Unmark(p), fresh)
    BY <1>2, <2>1, <2>2, <2>3 DEF SameVersion, SchemaRows
  <2> QED
    BY <1>2, <2>1, <2>2, <2>3, <2>4, RowsAreRows DEF SchemaRows
<1> QED
  BY <1>1, <1>2 DEF SameVersion

\* Storing a record over what each store has of its version: the SQL stores keep the time of
\* what was there.
LEMMA Upserted ==
  ASSUME NEW m, NEW l, NEW p, NEW fresh, SameVersion(m, l, p, fresh),
         NEW r \in SchemaRows, now \in Nat
  PROVE  LET newM == [r EXCEPT !.latest = TRUE]
             newL == Upsert(l, LiteColumns(r))
             newP == Upsert(p, PgColumns(r))
         IN  /\ newM \in SchemaRows /\ newL \in SchemaRows /\ newP \in SchemaRows
             /\ SameVersion(newM, newL, newP, m = None)
<1> DEFINE newM == [r EXCEPT !.latest = TRUE]
           newL == Upsert(l, LiteColumns(r))
           newP == Upsert(p, PgColumns(r))
<1>1. newM \in SchemaRows /\ newM.doc = r.doc /\ newM.own = r.own /\ newM.at = r.at /\ newM.latest
  BY DEF SchemaRows
<1>2. /\ LiteColumns(r) \in SchemaRows /\ LiteColumns(r).doc = r.doc
      /\ LiteColumns(r).own = Written(r.own) /\ LiteColumns(r).latest = r.latest
      /\ LiteColumns(r).at = Second(r.at)
  <2>1. Second(r.at) \in Nat
    BY Seconds DEF SchemaRows
  <2>2. Written(r.own) \in Ownership
    BY RowsAreRows DEF SchemaRows, Written, Ownership, Owners
  <2>3. LiteColumns(r) = [r EXCEPT !.at = Second(r.at), !.own = Written(r.own)]
    BY DEF LiteColumns, Written, SchemaRows
  <2> QED
    BY <2>1, <2>2, <2>3 DEF SchemaRows
<1>3. /\ PgColumns(r) \in SchemaRows /\ PgColumns(r).doc = r.doc
      /\ PgColumns(r).own = Written(r.own) /\ PgColumns(r).latest = r.latest
      /\ PgColumns(r).at = r.at
  <2>1. Written(r.own) \in Ownership
    BY RowsAreRows DEF SchemaRows, Written, Ownership, Owners
  <2>2. PgColumns(r) = [r EXCEPT !.own = Written(r.own)]
    BY DEF PgColumns, Written, SchemaRows
  <2> QED
    BY <2>1, <2>2 DEF SchemaRows
<1>4. CASE m = None
  <2>1. l = None /\ p = None
    BY <1>4, RowsAreRows DEF SameVersion
  <2>2. newL = LiteColumns(r) /\ newP = PgColumns(r)
    BY <2>1 DEF Upsert
  <2> HIDE DEF newM, newL, newP
  <2>3. SameVersion(newM, newL, newP, TRUE)
    BY <1>1, <1>2, <1>3, <2>2 DEF SameVersion
  <2> QED
    BY <1>1, <1>2, <1>3, <1>4, <2>2, <2>3 DEF newM, newL, newP
<1>5. CASE m # None
  <2>1. l \in SchemaRows /\ p \in SchemaRows /\ l # None /\ p # None
    BY <1>5, RowsAreRows DEF SameVersion
  <2>2. newL = [LiteColumns(r) EXCEPT !.at = l.at] /\ newP = [PgColumns(r) EXCEPT !.at = p.at]
    BY <2>1 DEF Upsert
  <2>3. l.at \in Nat /\ p.at \in Nat
    BY <2>1 DEF SchemaRows
  <2> HIDE DEF newM, newL, newP
  <2>4. /\ newL \in SchemaRows /\ newL.doc = r.doc /\ newL.own = Written(r.own)
        /\ newL.latest = r.latest
    BY <1>2, <2>2, <2>3 DEF SchemaRows
  <2>5. /\ newP \in SchemaRows /\ newP.doc = r.doc /\ newP.own = Written(r.own)
        /\ newP.latest = r.latest
    BY <1>3, <2>2, <2>3 DEF SchemaRows
  <2>6. SameVersion(newM, newL, newP, FALSE)
    BY <1>1, <2>4, <2>5 DEF SameVersion
  <2> QED
    BY <1>1, <1>5, <2>4, <2>5, <2>6 DEF newM, newL, newP
<1> QED
  BY <1>4, <1>5

\* The rows of a schema may be replaced by rows.
LEMMA RowsReplaced ==
  ASSUME NEW t \in Tables, NEW s \in Schemas, NEW f \in [Versions -> SchemaRows \cup {None}]
  PROVE  LET u == [t EXCEPT !.rows[s] = f]
         IN  /\ u \in Tables /\ u.ids = t.ids /\ u.rows[s] = f
             /\ \A z \in Schemas \ {s} : u.rows[z] = t.rows[z]
BY DEF Tables

\* A call about schema s leaves the others related as they were.
LEMMA OtherSchemas ==
  ASSUME SchemasInv, TypeOK', NEW s \in Schemas,
         \A z \in Schemas \ {s} :
            /\ mem'.rows[z] = mem.rows[z] /\ lite'.rows[z] = lite.rows[z] /\ pg'.rows[z] = pg.rows[z]
            /\ z \in again' <=> z \in again
            /\ z \in mem.ids => z \in mem'.ids,
         SchemaAgrees(s)'
  PROVE  SchemasInv'
<1>1. \A z \in Schemas \ {s} : SchemaAgrees(z)'
  BY DEF SchemasInv, SchemaAgrees, Present
<1>2. IsFiniteSet(Stored)'
  <2>1. Stored' \subseteq Stored \cup {s}
    BY DEF Stored, Present
  <2>2. IsFiniteSet(Stored \cup {s})
    BY FS_AddElement DEF SchemasInv
  <2>3. IsFiniteSet(Stored')
    BY <2>1, <2>2, FS_Subset
  <2> QED
    BY <2>3
<1> QED
  BY <1>1, <1>2 DEF SchemasInv

-----------------------------------------------------------------------------
(***************************************************************************)
(* Every call keeps the schemas related.                                   *)
(***************************************************************************)

\* Rows related by a stronger claim about their times are related by a weaker one.
LEMMA LessFresh ==
  ASSUME NEW m, NEW l, NEW p, NEW fresh, NEW fresher, SameVersion(m, l, p, fresher),
         fresh => fresher
  PROVE  SameVersion(m, l, p, fresh)
BY DEF SameVersion

LEMMA SchemaIsSet ==
  ASSUME SchemasInv, NEW s \in Schemas, NEW v \in Versions, NEW doc \in Docs,
         NEW flag \in BOOLEAN, NEW own \in Owned, SetSchema(s, v, doc, flag, own)
  PROVE  SchemasInv'
<1> DEFINE r == [doc |-> doc, latest |-> flag, at |-> now, own |-> own]
           m == mem.rows[s][v]
           l == lite.rows[s][v]
           p == pg.rows[s][v]
           newM == [r EXCEPT !.latest = TRUE]
           newL == Upsert(l, LiteColumns(r))
           newP == Upsert(p, PgColumns(r))
           fm == [w \in Versions |-> IF w = v THEN newM ELSE Unmark(mem.rows[s][w])]
           fl == [w \in Versions |-> IF w = v THEN newL ELSE Unmark(lite.rows[s][w])]
           fp == [w \in Versions |-> IF w = v THEN newP ELSE Unmark(pg.rows[s][w])]
<1>1. /\ mem \in Tables /\ lite \in Tables /\ pg \in Tables
      /\ now \in Nat /\ again \subseteq Schemas /\ mem.ids \subseteq Schemas
  BY DEF SchemasInv, TypeOK, Tables
<1>2. SchemaAgrees(s)
  BY DEF SchemasInv
<1>3. r \in SchemaRows
  <2>1. own \in Ownership \cup {None}
    BY ParityAssumption
  <2> QED
    BY <1>1, <2>1 DEF SchemaRows
<1>4. /\ newM \in SchemaRows /\ newL \in SchemaRows /\ newP \in SchemaRows
      /\ SameVersion(newM, newL, newP, m = None)
  <2>1. SameVersion(m, l, p, s \notin again)
    BY <1>2 DEF SchemaAgrees
  <2> HIDE DEF r, m, l, p
  <2> QED
    BY <1>1, <1>3, <2>1, Upserted
<1>5. newM.latest = TRUE
  OBVIOUS
<1>6. \A w \in Versions :
        /\ SameVersion(Unmark(mem.rows[s][w]), Unmark(lite.rows[s][w]), Unmark(pg.rows[s][w]), s \notin again)
        /\ Unmark(mem.rows[s][w]) = None <=> mem.rows[s][w] = None
        /\ mem.rows[s][w] # None => Unmark(mem.rows[s][w]).latest = FALSE
        /\ Unmark(mem.rows[s][w]) \in SchemaRows \cup {None}
        /\ Unmark(lite.rows[s][w]) \in SchemaRows \cup {None}
        /\ Unmark(pg.rows[s][w]) \in SchemaRows \cup {None}
  <2> SUFFICES ASSUME NEW w \in Versions
               PROVE  /\ SameVersion(Unmark(mem.rows[s][w]), Unmark(lite.rows[s][w]), Unmark(pg.rows[s][w]), s \notin again)
                      /\ Unmark(mem.rows[s][w]) = None <=> mem.rows[s][w] = None
                      /\ mem.rows[s][w] # None => Unmark(mem.rows[s][w]).latest = FALSE
                      /\ Unmark(mem.rows[s][w]) \in SchemaRows \cup {None}
                      /\ Unmark(lite.rows[s][w]) \in SchemaRows \cup {None}
                      /\ Unmark(pg.rows[s][w]) \in SchemaRows \cup {None}
    OBVIOUS
  <2>1. SameVersion(mem.rows[s][w], lite.rows[s][w], pg.rows[s][w], s \notin again)
    BY <1>2 DEF SchemaAgrees
  <2> QED
    <3> DEFINE a == mem.rows[s][w]
               b == lite.rows[s][w]
               c == pg.rows[s][w]
               fresh == s \notin again
    <3>1. SameVersion(a, b, c, fresh)
      BY <2>1
    <3> HIDE DEF a, b, c, fresh
    <3>2. /\ SameVersion(Unmark(a), Unmark(b), Unmark(c), fresh)
          /\ Unmark(a) = None <=> a = None
          /\ a # None => Unmark(a).latest = FALSE
          /\ \A x \in {a, b, c} : Unmark(x) \in SchemaRows \cup {None}
      BY <3>1, Unmarked
    <3> QED
      BY <3>2 DEF a, b, c, fresh
<1>7. /\ mem' = [mem EXCEPT !.rows[s] = fm, !.ids = mem.ids \cup {s}]
      /\ lite' = [lite EXCEPT !.rows[s] = fl]
      /\ pg' = [pg EXCEPT !.rows[s] = fp]
      /\ again' = IF v \in Present(mem, s) THEN again \cup {s} ELSE again
      /\ now' \in Nat
  BY <1>1 DEF SetSchema, MemSetSchema, LiteSetSchema, PgSetSchema, SqlSetSchema, Advance
<1>8. /\ fm \in [Versions -> SchemaRows \cup {None}]
      /\ fl \in [Versions -> SchemaRows \cup {None}]
      /\ fp \in [Versions -> SchemaRows \cup {None}]
  <2> HIDE DEF newM, newL, newP
  <2> QED
    BY <1>4, <1>6
<1>9. /\ mem' \in Tables /\ mem'.ids = mem.ids \cup {s} /\ mem'.rows[s] = fm
      /\ lite' \in Tables /\ lite'.rows[s] = fl
      /\ pg' \in Tables /\ pg'.rows[s] = fp
      /\ \A z \in Schemas \ {s} :
            mem'.rows[z] = mem.rows[z] /\ lite'.rows[z] = lite.rows[z] /\ pg'.rows[z] = pg.rows[z]
  <2> HIDE DEF fm, fl, fp
  <2>1. mem.ids \cup {s} \in SUBSET Schemas
    BY <1>1
  <2>2. mem' \in Tables /\ mem'.ids = mem.ids \cup {s} /\ mem'.rows[s] = fm
        /\ \A z \in Schemas \ {s} : mem'.rows[z] = mem.rows[z]
    <3> DEFINE ids == mem.ids \cup {s}
    <3>1. mem' = [mem EXCEPT !.rows[s] = fm, !.ids = ids] /\ ids \in SUBSET Schemas /\ mem \in Tables
      BY <1>1, <1>7, <2>1
    <3> HIDE DEF ids
    <3>2. mem' \in Tables /\ mem'.ids = ids /\ mem'.rows[s] = fm
          /\ \A z \in Schemas \ {s} : mem'.rows[z] = mem.rows[z]
      BY <1>8, <3>1 DEF Tables
    <3> QED
      BY <3>2 DEF ids
  <2>3. lite' \in Tables /\ lite'.rows[s] = fl
        /\ \A z \in Schemas \ {s} : lite'.rows[z] = lite.rows[z]
    BY <1>1, <1>7, <1>8, RowsReplaced
  <2>4. pg' \in Tables /\ pg'.rows[s] = fp
        /\ \A z \in Schemas \ {s} : pg'.rows[z] = pg.rows[z]
    BY <1>1, <1>7, <1>8, RowsReplaced
  <2> QED
    BY <2>2, <2>3, <2>4
<1>10. TypeOK'
  BY <1>1, <1>7, <1>9 DEF TypeOK
<1>11. SchemaAgrees(s)'
  <2>1. s \notin again' => s \notin again /\ m = None
    BY <1>7 DEF Present
  <2> HIDE DEF newM, newL, newP, m
  <2>2. \A w \in Versions :
          SameVersion(mem'.rows[s][w], lite'.rows[s][w], pg'.rows[s][w], s \notin again')
    <3> SUFFICES ASSUME NEW w \in Versions
                 PROVE  SameVersion(fm[w], fl[w], fp[w], s \notin again')
      BY <1>9
    <3>1. CASE w = v
      BY <1>4, <2>1, <3>1, LessFresh
    <3>2. CASE w # v
      BY <1>6, <2>1, <3>2, LessFresh
    <3> QED
      BY <3>1, <3>2
  <2>3. \A w \in Versions \ {v} : fm[w] # None => fm[w].latest = FALSE
    BY <1>6
  <2>4. \A w, x \in Present(mem', s) : mem'.rows[s][w].latest /\ mem'.rows[s][x].latest => w = x
    BY <1>9, <2>3 DEF Present
  <2>5. Present(mem', s) = Present(mem, s) \cup {v}
    <3>1. newM # None
      BY <1>4, RowsAreRows
    <3>2. \A w \in Versions : fm[w] # None <=> w = v \/ mem.rows[s][w] # None
      BY <1>6, <3>1
    <3> QED
      BY <1>9, <3>2 DEF Present
  <2>6. IsFiniteSet(Present(mem', s))
    BY <1>2, <2>5, FS_AddElement DEF SchemaAgrees
  <2> QED
    BY <1>9, <2>2, <2>4, <2>6 DEF SchemaAgrees
<1>12. \A z \in Schemas \ {s} : (z \in again' <=> z \in again) /\ (z \in mem.ids => z \in mem'.ids)
  BY <1>7, <1>9
<1> QED
  BY <1>9, <1>10, <1>11, <1>12, OtherSchemas

\* Once a schema is deleted no store has a row of it.
LEMMA SchemaIsDeleted ==
  ASSUME SchemasInv, NEW s \in Schemas, DeleteSchema(s)
  PROVE  SchemasInv'
<1> DEFINE none == [v \in Versions |-> None]
<1>1. /\ mem \in Tables /\ lite \in Tables /\ pg \in Tables
      /\ now \in Nat /\ again \subseteq Schemas /\ mem.ids \subseteq Schemas
  BY DEF SchemasInv, TypeOK, Tables
<1>2. /\ mem' = [mem EXCEPT !.rows[s] = none, !.ids = mem.ids \ {s}]
      /\ lite' = [lite EXCEPT !.rows[s] = none]
      /\ pg' = [pg EXCEPT !.rows[s] = none]
      /\ again' = again \ {s}
      /\ now' \in Nat
  BY <1>1 DEF DeleteSchema, MemDeleteSchema, LiteDeleteSchema, PgDeleteSchema, Advance
<1>3. none \in [Versions -> SchemaRows \cup {None}] /\ \A v \in Versions : none[v] = None
  OBVIOUS
<1> HIDE DEF none
<1>4. /\ mem' \in Tables /\ mem'.ids = mem.ids \ {s} /\ mem'.rows[s] = none
      /\ lite' \in Tables /\ lite'.rows[s] = none
      /\ pg' \in Tables /\ pg'.rows[s] = none
      /\ \A z \in Schemas \ {s} :
            mem'.rows[z] = mem.rows[z] /\ lite'.rows[z] = lite.rows[z] /\ pg'.rows[z] = pg.rows[z]
  <2>1. mem.ids \ {s} \in SUBSET Schemas
    BY <1>1
  <2>2. mem' \in Tables /\ mem'.ids = mem.ids \ {s} /\ mem'.rows[s] = none
        /\ \A z \in Schemas \ {s} : mem'.rows[z] = mem.rows[z]
    <3> DEFINE ids == mem.ids \ {s}
    <3>1. mem' = [mem EXCEPT !.rows[s] = none, !.ids = ids] /\ ids \in SUBSET Schemas /\ mem \in Tables
      BY <1>1, <1>2, <2>1
    <3> HIDE DEF ids
    <3>2. mem' \in Tables /\ mem'.ids = ids /\ mem'.rows[s] = none
          /\ \A z \in Schemas \ {s} : mem'.rows[z] = mem.rows[z]
      BY <1>3, <3>1 DEF Tables
    <3> QED
      BY <3>2 DEF ids
  <2>3. lite' \in Tables /\ lite'.rows[s] = none
        /\ \A z \in Schemas \ {s} : lite'.rows[z] = lite.rows[z]
    BY <1>1, <1>2, <1>3, RowsReplaced
  <2>4. pg' \in Tables /\ pg'.rows[s] = none
        /\ \A z \in Schemas \ {s} : pg'.rows[z] = pg.rows[z]
    BY <1>1, <1>2, <1>3, RowsReplaced
  <2> QED
    BY <2>2, <2>3, <2>4
<1>5. TypeOK'
  BY <1>1, <1>2, <1>4 DEF TypeOK
<1>6. SchemaAgrees(s)'
  <2>1. Present(mem', s) = {}
    BY <1>3, <1>4 DEF Present
  <2> QED
    BY <1>3, <1>4, <2>1, FS_EmptySet DEF SchemaAgrees, SameVersion
<1>7. \A z \in Schemas \ {s} : (z \in again' <=> z \in again) /\ (z \in mem.ids => z \in mem'.ids)
  BY <1>2, <1>4
<1> QED
  BY <1>4, <1>5, <1>6, <1>7, OtherSchemas

\* Nor of a version that is deleted, and the other versions stay.
LEMMA VersionIsDeleted ==
  ASSUME SchemasInv, NEW s \in Schemas, NEW v \in Versions, DeleteSchemaVersion(s, v)
  PROVE  SchemasInv'
<1> DEFINE Without(t) == [t.rows[s] EXCEPT ![v] = None]
<1>1. /\ mem \in Tables /\ lite \in Tables /\ pg \in Tables
      /\ now \in Nat /\ again \subseteq Schemas
  BY DEF SchemasInv, TypeOK
<1>2. \A t \in Tables : /\ Without(t) \in [Versions -> SchemaRows \cup {None}]
                        /\ Without(t)[v] = None
                        /\ \A w \in Versions \ {v} : Without(t)[w] = t.rows[s][w]
  BY DEF Tables
<1>3. \A t \in Tables : [t EXCEPT !.rows[s][v] = None] = [t EXCEPT !.rows[s] = Without(t)]
  BY DEF Tables
<1>4. /\ mem' = [mem EXCEPT !.rows[s] = Without(mem)]
      /\ lite' = [lite EXCEPT !.rows[s] = Without(lite)]
      /\ pg' = [pg EXCEPT !.rows[s] = Without(pg)]
      /\ again' = again
      /\ now' \in Nat
  <2>1. /\ mem' = [mem EXCEPT !.rows[s][v] = None]
        /\ lite' = [lite EXCEPT !.rows[s][v] = None]
        /\ pg' = [pg EXCEPT !.rows[s][v] = None]
        /\ again' = again
        /\ now' \in Nat
    BY <1>1 DEF DeleteSchemaVersion, MemDeleteSchemaVersion, LiteDeleteSchemaVersion,
                PgDeleteSchemaVersion, Advance
  <2> HIDE DEF Without
  <2> QED
    BY <1>1, <1>3, <2>1
<1> HIDE DEF Without
<1>5. /\ mem' \in Tables /\ mem'.ids = mem.ids /\ mem'.rows[s] = Without(mem)
      /\ lite' \in Tables /\ lite'.rows[s] = Without(lite)
      /\ pg' \in Tables /\ pg'.rows[s] = Without(pg)
      /\ \A z \in Schemas \ {s} :
            mem'.rows[z] = mem.rows[z] /\ lite'.rows[z] = lite.rows[z] /\ pg'.rows[z] = pg.rows[z]
  BY <1>1, <1>2, <1>4, RowsReplaced
<1>6. TypeOK'
  BY <1>1, <1>4, <1>5 DEF TypeOK
<1>7. SchemaAgrees(s)'
  <2>1. SchemaAgrees(s)
    BY DEF SchemasInv
  <2>2. \A w \in Versions :
          SameVersion(mem'.rows[s][w], lite'.rows[s][w], pg'.rows[s][w], s \notin again')
    <3> SUFFICES ASSUME NEW w \in Versions
                 PROVE  SameVersion(Without(mem)[w], Without(lite)[w], Without(pg)[w], s \notin again)
      BY <1>4, <1>5
    <3>1. CASE w = v
      BY <1>1, <1>2, <3>1 DEF SameVersion
    <3>2. CASE w # v
      BY <1>1, <1>2, <2>1, <3>2 DEF SchemaAgrees
    <3> QED
      BY <3>1, <3>2
  <2>3. Present(mem', s) \subseteq Present(mem, s) /\ v \notin Present(mem', s)
    BY <1>1, <1>2, <1>5 DEF Present
  <2>4. \A w \in Present(mem', s) : mem'.rows[s][w] = mem.rows[s][w]
    BY <1>1, <1>2, <1>5, <2>3 DEF Present
  <2>5. IsFiniteSet(Present(mem', s))
    BY <2>1, <2>3, FS_Subset DEF SchemaAgrees
  <2> QED
    BY <1>5, <2>1, <2>2, <2>3, <2>4, <2>5 DEF SchemaAgrees
<1> QED
  BY <1>4, <1>5, <1>6, <1>7, OtherSchemas

\* The calls on the other tables find the schemas as they were.
LEMMA SchemasUntouched ==
  ASSUME SchemasInv, TypeOK',
         mem'.rows = mem.rows, lite'.rows = lite.rows, pg'.rows = pg.rows,
         mem'.ids = mem.ids, again' = again
  PROVE  SchemasInv'
<1>1. \A s \in Schemas : Present(mem', s) = Present(mem, s)
  BY DEF Present
<1>2. Stored' = Stored
  BY <1>1 DEF Stored
<1>3. \A s \in Schemas : SchemaAgrees(s)'
  BY <1>1 DEF SchemasInv, SchemaAgrees
<1> QED
  BY <1>2, <1>3 DEF SchemasInv

LEMMA RunIsRecorded ==
  ASSUME SchemasInv, NEW s \in Schemas, NEW errors \in SUBSET Errors, RecordValidation(s, errors)
  PROVE  SchemasInv'
<1> DEFINE run == [schema |-> s, valid |-> errors = {}, errors |-> errors, at |-> now]
           written == [run EXCEPT !.at = Second(@)]
<1>1. mem \in Tables /\ lite \in Tables /\ pg \in Tables /\ now \in Nat /\ again \subseteq Schemas
  BY DEF SchemasInv, TypeOK
<1>2. run \in Runs /\ written \in Runs
  BY <1>1, Seconds DEF Runs
<1>3. /\ mem' = [mem EXCEPT !.runs = Append(@, run)]
      /\ lite' = [lite EXCEPT !.runs = Append(@, written)]
      /\ pg' = [pg EXCEPT !.runs = Append(@, run)]
      /\ again' = again /\ now' \in Nat
  BY <1>1 DEF RecordValidation, MemRecordValidation, LiteRecordValidation, PgRecordValidation, Advance
<1> HIDE DEF run, written
<1>4. \A t \in Tables, q \in Seq(Runs) :
        LET u == [t EXCEPT !.runs = q] IN u \in Tables /\ u.rows = t.rows /\ u.ids = t.ids
  BY DEF Tables
<1>5. \A t \in Tables, r \in Runs : Append(t.runs, r) \in Seq(Runs)
  BY DEF Tables
<1>6. /\ mem' \in Tables /\ mem'.rows = mem.rows /\ mem'.ids = mem.ids
      /\ lite' \in Tables /\ lite'.rows = lite.rows
      /\ pg' \in Tables /\ pg'.rows = pg.rows
  BY <1>1, <1>2, <1>3, <1>4, <1>5
<1> QED
  BY <1>1, <1>3, <1>6, SchemasUntouched DEF TypeOK

LEMMA ComparisonIsRecorded ==
  ASSUME SchemasInv, NEW p \in Pairs, NEW verdict \in BOOLEAN, RecordComparison(p, verdict)
  PROVE  SchemasInv'
<1>1. mem \in Tables /\ lite \in Tables /\ pg \in Tables /\ now \in Nat /\ again \subseteq Schemas
  BY DEF SchemasInv, TypeOK
<1>2. /\ mem' = [mem EXCEPT !.comparisons[p] = verdict]
      /\ lite' = [lite EXCEPT !.comparisons[p] = verdict]
      /\ pg' = [pg EXCEPT !.comparisons[p] = verdict]
      /\ again' = again /\ now' \in Nat
  BY <1>1 DEF RecordComparison, MemRecordComparison, LiteRecordComparison, PgRecordComparison, Advance
<1>3. \A t \in Tables :
        LET u == [t EXCEPT !.comparisons[p] = verdict] IN u \in Tables /\ u.rows = t.rows /\ u.ids = t.ids
  BY DEF Tables
<1>4. /\ mem' \in Tables /\ mem'.rows = mem.rows /\ mem'.ids = mem.ids
      /\ lite' \in Tables /\ lite'.rows = lite.rows
      /\ pg' \in Tables /\ pg'.rows = pg.rows
  BY <1>1, <1>2, <1>3
<1> QED
  BY <1>1, <1>2, <1>4, SchemasUntouched DEF TypeOK

-----------------------------------------------------------------------------
(***************************************************************************)
(* Consumers.                                                              *)
(***************************************************************************)

\* The registrations of one consumer: SQLite has the release that memory has and its times in
\* whole seconds, Postgres has none.
SameConsumer(m, l, p) ==
    /\ p = None
    /\ \/ m = None /\ l = None
       \/ /\ m \in ConsumerRecords /\ l \in ConsumerRecords
          /\ l.release = m.release
          /\ l.registered = Second(m.registered)
          /\ l.validated = Second(m.validated)

ConsumersInv ==
    \A k \in ConsumerKeys : SameConsumer(mem.consumers[k], lite.consumers[k], pg.consumers[k])

\* To replace nothing by nothing changes no table.
LEMMA NothingReplaced ==
  ASSUME NEW t \in Tables, NEW k \in ConsumerKeys, t.consumers[k] = None
  PROVE  [t EXCEPT !.consumers[k] = None] = t
<1>1. t = [rows |-> t.rows, ids |-> t.ids, runs |-> t.runs,
           comparisons |-> t.comparisons, consumers |-> t.consumers]
  BY DEF Tables
<1>2. [t.consumers EXCEPT ![k] = None] = t.consumers
  BY DEF Tables
<1> QED
  BY <1>1, <1>2

\* One registration is replaced by another, the others stay.
LEMMA ConsumerReplaced ==
  ASSUME SchemasInv, ConsumersInv, NEW k \in ConsumerKeys, NEW m, NEW l,
         SameConsumer(m, l, None),
         mem' = [mem EXCEPT !.consumers[k] = m],
         lite' = [lite EXCEPT !.consumers[k] = l],
         pg' = pg,
         again' = again, now' \in Nat
  PROVE  SchemasInv' /\ ConsumersInv'
<1>1. mem \in Tables /\ lite \in Tables /\ pg \in Tables /\ again \subseteq Schemas
  BY DEF SchemasInv, TypeOK
<1>2. m \in ConsumerRecords \cup {None} /\ l \in ConsumerRecords \cup {None}
  BY DEF SameConsumer
<1>3. \A t \in Tables, c \in ConsumerRecords \cup {None} :
        LET u == [t EXCEPT !.consumers[k] = c]
        IN  /\ u \in Tables /\ u.rows = t.rows /\ u.ids = t.ids /\ u.consumers[k] = c
            /\ \A j \in ConsumerKeys \ {k} : u.consumers[j] = t.consumers[j]
  BY DEF Tables
<1>4. /\ mem' \in Tables /\ mem'.rows = mem.rows /\ mem'.ids = mem.ids
      /\ lite' \in Tables /\ lite'.rows = lite.rows
      /\ pg' \in Tables /\ pg'.rows = pg.rows
  BY <1>1, <1>2, <1>3
<1>5. /\ mem'.consumers[k] = m /\ lite'.consumers[k] = l /\ pg'.consumers[k] = None
      /\ \A j \in ConsumerKeys \ {k} : /\ mem'.consumers[j] = mem.consumers[j]
                                       /\ lite'.consumers[j] = lite.consumers[j]
                                       /\ pg'.consumers[j] = pg.consumers[j]
  BY <1>1, <1>2, <1>3 DEF ConsumersInv, SameConsumer
<1>6. ConsumersInv'
  <2> SUFFICES ASSUME NEW j \in ConsumerKeys
               PROVE  SameConsumer(mem'.consumers[j], lite'.consumers[j], pg'.consumers[j])
    BY DEF ConsumersInv
  <2>1. CASE j = k
    BY <1>5, <2>1
  <2>2. CASE j # k
    BY <1>5, <2>2 DEF ConsumersInv
  <2> QED
    BY <2>1, <2>2
<1> QED
  BY <1>1, <1>4, <1>6, SchemasUntouched DEF TypeOK

LEMMA ConsumerIsRegistered ==
  ASSUME SchemasInv, ConsumersInv, NEW k \in ConsumerKeys, NEW release \in Releases,
         RegisterConsumer(k, release)
  PROVE  SchemasInv' /\ ConsumersInv'
<1> DEFINE c == [release |-> release, registered |-> now, validated |-> now]
           d == [c EXCEPT !.registered = Second(@), !.validated = Second(@)]
           m == mem.consumers[k]
           l == lite.consumers[k]
<1>1. mem \in Tables /\ lite \in Tables /\ pg \in Tables /\ now \in Nat
  BY DEF SchemasInv, TypeOK
<1>2. Second(now) \in Nat
  BY <1>1, Seconds
<1>3. SameConsumer(m, l, pg.consumers[k])
  BY DEF ConsumersInv
<1>4. /\ mem' = [mem EXCEPT !.consumers[k] = Keep(m, c)]
      /\ lite' = [lite EXCEPT !.consumers[k] = Keep(l, d)]
      /\ pg' = pg
      /\ again' = again /\ now' \in Nat
  <2>1. now' \in Nat /\ again' = again
    BY <1>1 DEF RegisterConsumer, Advance
  <2>2. /\ mem' = [mem EXCEPT !.consumers[k] = Keep(@, c)]
        /\ lite' = [lite EXCEPT !.consumers[k] = Keep(@, d)]
        /\ pg' = pg
    BY Zenon DEF RegisterConsumer, MemRegisterConsumer, LiteRegisterConsumer, PgRegisterConsumer
  <2> QED
    BY <2>1, <2>2, Zenon
<1>5. /\ c \in ConsumerRecords /\ c.release = release /\ c.registered = now /\ c.validated = now
      /\ d \in ConsumerRecords /\ d.release = release
      /\ d.registered = Second(now) /\ d.validated = Second(now)
  BY <1>1, <1>2 DEF ConsumerRecords
<1> HIDE DEF c, d
<1>6. SameConsumer(Keep(m, c), Keep(l, d), None)
  <2>1. CASE m = None
    <3>1. l = None
      BY <1>3, <2>1, RowsAreRows DEF SameConsumer
    <3> QED
      BY <1>5, <2>1, <3>1 DEF SameConsumer, Keep, ConsumerRecords
  <2>2. CASE m # None
    <3>1. /\ m \in ConsumerRecords /\ l \in ConsumerRecords /\ l # None
          /\ l.registered = Second(m.registered)
      BY <1>3, <2>2, RowsAreRows DEF SameConsumer
    <3>2. /\ Keep(m, c) = [c EXCEPT !.registered = m.registered]
          /\ Keep(l, d) = [d EXCEPT !.registered = l.registered]
      BY <2>2, <3>1 DEF Keep
    <3>3. m.registered \in Nat /\ l.registered \in Nat
      BY <3>1 DEF ConsumerRecords
    <3> HIDE DEF m, l
    <3> QED
      BY <1>5, <3>1, <3>2, <3>3 DEF SameConsumer, ConsumerRecords
  <2> QED
    BY <2>1, <2>2
<1> HIDE DEF m, l
<1> QED
  BY <1>4, <1>6, ConsumerReplaced

LEMMA ConsumerIsDeregistered ==
  ASSUME SchemasInv, ConsumersInv, NEW k \in ConsumerKeys, DeregisterConsumer(k)
  PROVE  SchemasInv' /\ ConsumersInv'
<1>1. /\ mem' = [mem EXCEPT !.consumers[k] = None]
      /\ lite' = [lite EXCEPT !.consumers[k] = None]
      /\ pg' = [pg EXCEPT !.consumers[k] = None]
      /\ again' = again /\ now' \in Nat
  BY DEF DeregisterConsumer, MemDeregisterConsumer, LiteDeregisterConsumer, PgDeregisterConsumer,
         Advance, SchemasInv, TypeOK
<1>2. SameConsumer(None, None, None)
  BY DEF SameConsumer
<1>3. pg' = pg
  BY <1>1, NothingReplaced DEF SchemasInv, TypeOK, ConsumersInv, SameConsumer
<1> QED
  BY <1>1, <1>2, <1>3, ConsumerReplaced

LEMMA ConsumerIsValidated ==
  ASSUME SchemasInv, ConsumersInv, NEW k \in ConsumerKeys, UpdateConsumerValidation(k)
  PROVE  SchemasInv' /\ ConsumersInv'
<1> DEFINE At(c, t) == IF c = None THEN None ELSE [c EXCEPT !.validated = t]
           m == mem.consumers[k]
           l == lite.consumers[k]
           p == pg.consumers[k]
           second == Second(now)
<1>1. mem \in Tables /\ lite \in Tables /\ pg \in Tables /\ now \in Nat
  BY DEF SchemasInv, TypeOK
<1>2. second \in Nat
  BY <1>1, Seconds
<1>3. SameConsumer(m, l, p)
  BY DEF ConsumersInv
<1>4. p = None
  BY <1>3 DEF SameConsumer
<1>5. /\ mem' = [mem EXCEPT !.consumers[k] = At(m, now)]
      /\ lite' = [lite EXCEPT !.consumers[k] = At(l, second)]
      /\ pg' = [pg EXCEPT !.consumers[k] = At(p, now)]
      /\ again' = again /\ now' \in Nat
  BY <1>1 DEF UpdateConsumerValidation, MemUpdateConsumerValidation, LiteUpdateConsumerValidation,
              PgUpdateConsumerValidation, Advance, Tables
<1>6. SameConsumer(At(m, now), At(l, second), None)
  <2>1. CASE m = None
    <3>1. l = None
      BY <1>3, <2>1, RowsAreRows DEF SameConsumer
    <3> QED
      BY <2>1, <3>1 DEF SameConsumer
  <2>2. CASE m # None
    <3>1. /\ m \in ConsumerRecords /\ l \in ConsumerRecords /\ l # None
          /\ l.release = m.release /\ l.registered = Second(m.registered)
      BY <1>3, <2>2, RowsAreRows DEF SameConsumer
    <3>2. /\ At(m, now) = [m EXCEPT !.validated = now]
          /\ At(l, second) = [l EXCEPT !.validated = second]
      BY <2>2, <3>1
    <3>3. second = Second(now)
      OBVIOUS
    <3> HIDE DEF m, l, At, second
    <3> QED
      BY <1>1, <1>2, <3>1, <3>2, <3>3 DEF SameConsumer, ConsumerRecords
  <2> QED
    BY <2>1, <2>2
<1>7. pg' = pg
  BY <1>1, <1>4, <1>5, NothingReplaced
<1> HIDE DEF m, l, p, At, second
<1> QED
  BY <1>5, <1>6, <1>7, ConsumerReplaced

\* The calls on schemas and records find the consumers as they were.
LEMMA ConsumersUntouched ==
  ASSUME SchemasInv, ConsumersInv, SchemaCall \/ RecordCall
  PROVE  ConsumersInv'
<1>1. mem'.consumers = mem.consumers /\ lite'.consumers = lite.consumers /\ pg'.consumers = pg.consumers
  <2>1. /\ mem = [rows |-> mem.rows, ids |-> mem.ids, runs |-> mem.runs,
                  comparisons |-> mem.comparisons, consumers |-> mem.consumers]
        /\ lite = [rows |-> lite.rows, ids |-> lite.ids, runs |-> lite.runs,
                   comparisons |-> lite.comparisons, consumers |-> lite.consumers]
        /\ pg = [rows |-> pg.rows, ids |-> pg.ids, runs |-> pg.runs,
                 comparisons |-> pg.comparisons, consumers |-> pg.consumers]
    BY DEF SchemasInv, TypeOK, Tables
  <2>2. ASSUME NEW s, NEW v, NEW doc, NEW flag, NEW own, SetSchema(s, v, doc, flag, own)
        PROVE  mem'.consumers = mem.consumers /\ lite'.consumers = lite.consumers /\ pg'.consumers = pg.consumers
    BY <2>1, <2>2 DEF SetSchema, MemSetSchema, LiteSetSchema, PgSetSchema, SqlSetSchema
  <2>3. ASSUME NEW s, DeleteSchema(s)
        PROVE  mem'.consumers = mem.consumers /\ lite'.consumers = lite.consumers /\ pg'.consumers = pg.consumers
    BY <2>1, <2>3 DEF DeleteSchema, MemDeleteSchema, LiteDeleteSchema, PgDeleteSchema
  <2>4. ASSUME NEW s, NEW v, DeleteSchemaVersion(s, v)
        PROVE  mem'.consumers = mem.consumers /\ lite'.consumers = lite.consumers /\ pg'.consumers = pg.consumers
    BY <2>1, <2>4 DEF DeleteSchemaVersion, MemDeleteSchemaVersion, LiteDeleteSchemaVersion, PgDeleteSchemaVersion
  <2>5. ASSUME NEW s, NEW errors, RecordValidation(s, errors)
        PROVE  mem'.consumers = mem.consumers /\ lite'.consumers = lite.consumers /\ pg'.consumers = pg.consumers
    BY <2>1, <2>5 DEF RecordValidation, MemRecordValidation, LiteRecordValidation, PgRecordValidation
  <2>6. ASSUME NEW p, NEW verdict, RecordComparison(p, verdict)
        PROVE  mem'.consumers = mem.consumers /\ lite'.consumers = lite.consumers /\ pg'.consumers = pg.consumers
    BY <2>1, <2>6 DEF RecordComparison, MemRecordComparison, LiteRecordComparison, PgRecordComparison
  <2> QED
    BY <2>2, <2>3, <2>4, <2>5, <2>6 DEF SchemaCall, RecordCall
<1> QED
  BY <1>1 DEF ConsumersInv

-----------------------------------------------------------------------------
(***************************************************************************)
(* The relation is an invariant.                                           *)
(***************************************************************************)

ParityInv == SchemasInv /\ ConsumersInv

LEMMA ParityInit == Init => ParityInv
<1> SUFFICES ASSUME Init PROVE ParityInv
  OBVIOUS
<1>1. mem = EmptyTable /\ lite = EmptyTable /\ pg = EmptyTable /\ now = 0 /\ again = {}
  BY DEF Init
<1>2. EmptyTable \in Tables
  BY DEF EmptyTable, Tables
<1>3. \A s \in Schemas : Present(EmptyTable, s) = {}
  BY DEF EmptyTable, Present
<1>4. \A s \in Schemas, v \in Versions : EmptyTable.rows[s][v] = None
  BY DEF EmptyTable
<1>5. \A s \in Schemas : SchemaAgrees(s)
  BY <1>1, <1>3, <1>4, FS_EmptySet DEF SchemaAgrees, SameVersion
<1>6. Stored = {}
  BY <1>1, <1>3 DEF Stored
<1>7. ConsumersInv
  BY <1>1 DEF ConsumersInv, SameConsumer, EmptyTable
<1> QED
  BY <1>1, <1>2, <1>5, <1>6, <1>7, FS_EmptySet DEF ParityInv, SchemasInv, TypeOK

LEMMA ParityStep == ParityInv /\ [Next]_vars => ParityInv'
<1> SUFFICES ASSUME ParityInv, [Next]_vars PROVE ParityInv'
  OBVIOUS
<1> USE DEF ParityInv
<1>1. CASE SchemaCall
  <2>1. SchemasInv'
    BY <1>1, SchemaIsSet, SchemaIsDeleted, VersionIsDeleted DEF SchemaCall
  <2> QED
    BY <1>1, <2>1, ConsumersUntouched
<1>2. CASE RecordCall
  <2>1. SchemasInv'
    BY <1>2, RunIsRecorded, ComparisonIsRecorded DEF RecordCall
  <2> QED
    BY <1>2, <2>1, ConsumersUntouched
<1>3. CASE ConsumerCall
  BY <1>3, ConsumerIsRegistered, ConsumerIsDeregistered, ConsumerIsValidated DEF ConsumerCall
<1>4. CASE UNCHANGED vars
  <2>1. TypeOK'
    BY <1>4 DEF vars, SchemasInv, TypeOK
  <2>2. SchemasInv'
    BY <1>4, <2>1, SchemasUntouched DEF vars
  <2> QED
    BY <1>4, <2>2 DEF vars, ConsumersInv
<1> QED
  BY <1>1, <1>2, <1>3, <1>4 DEF Next

THEOREM ParityHolds == Spec => []ParityInv
BY ParityInit, ParityStep, PTL DEF Spec

\* The tables hold what their columns may hold.
THEOREM ParityTypes == Spec => []TypeOK
<1>1. ParityInv => TypeOK
  BY DEF ParityInv, SchemasInv
<1> QED
  BY <1>1, ParityHolds, PTL

\* Registering a consumer, and validating with it, leave memory and SQLite with the same
\* registration, up to the resolution of SQLite's clock, and Postgres with none or the same.
THEOREM ConsumersAlike == Spec => []ConsumersAgree
<1>1. ConsumersInv => ConsumersAgree
  <2> SUFFICES ASSUME ConsumersInv PROVE ConsumersAgree
    OBVIOUS
  <2>1. \A k \in ConsumerKeys : SameConsumer(mem.consumers[k], lite.consumers[k], pg.consumers[k])
    BY DEF ConsumersInv
  <2>2. /\ PgListConsumers(pg, ConsumerKeys) = {}
        /\ LiteListConsumers(lite, ConsumerKeys) = MemListConsumers(mem, ConsumerKeys)
    BY <2>1, RowsAreRows
    DEF SameConsumer, MemListConsumers, LiteListConsumers, PgListConsumers
  <2> QED
    BY <2>1, <2>2 DEF SameConsumer, ConsumersAgree, MemGetConsumer, LiteGetConsumer, PgGetConsumer
<1> QED
  BY <1>1, ParityHolds, PTL DEF ParityInv

-----------------------------------------------------------------------------
(***************************************************************************)
(* What is found of a schema.                                              *)
(***************************************************************************)

\* The NULLs of Postgres' columns lose no owner.
LEMMA Scanned ==
  ASSUME NEW row \in SchemaRows, row.own \in Ownership
  PROVE  /\ PgScan(row) # None /\ PgScan(row).doc = row.doc
         /\ OwnerOf(PgScan(row)) = row.own.owner /\ OwnerOf(row) = row.own.owner
         /\ row.own.owner # Nobody => PgScan(row) = row
<1>1. row # None /\ row.own # None
  BY RowsAreRows
<1>2. CASE row.own.owner # Nobody
  BY <1>1, <1>2 DEF PgScan, OwnerOf
<1>3. CASE row.own.owner = Nobody
  <2> DEFINE scan == [row EXCEPT !.own = None]
  <2>1. PgScan(row) = scan
    BY <1>1, <1>3 DEF PgScan
  <2>2. scan \in SchemaRows /\ scan.doc = row.doc /\ scan.own = None
    BY DEF SchemaRows
  <2> HIDE DEF scan
  <2> QED
    BY <1>1, <1>3, <2>1, <2>2, RowsAreRows DEF OwnerOf
<1> QED
  BY <1>2, <1>3

\* A version is there in all three stores or in none.
LEMMA SamePresent ==
  ASSUME SchemasInv, NEW s \in Schemas
  PROVE  /\ Present(lite, s) = Present(mem, s) /\ Present(pg, s) = Present(mem, s)
         /\ \A v \in Present(mem, s) :
              /\ v \in Versions
              /\ mem.rows[s][v] \in SchemaRows /\ lite.rows[s][v] \in SchemaRows /\ pg.rows[s][v] \in SchemaRows
<1>1. \A v \in Versions :
        SameVersion(mem.rows[s][v], lite.rows[s][v], pg.rows[s][v], s \notin again)
  BY DEF SchemasInv, SchemaAgrees
<1> QED
  BY <1>1, RowsAreRows DEF SameVersion, Present

LEMMA VersionsAlike == SchemasInv => VersionsAgree
<1> SUFFICES ASSUME SchemasInv, NEW s \in Schemas, NEW v \in Versions
             PROVE  LET m == mem.rows[s][v]
                        l == lite.rows[s][v]
                        p == PgScan(pg.rows[s][v])
                    IN  \/ m = None /\ l = None /\ p = None
                        \/ /\ m # None /\ l # None /\ p # None
                           /\ m.doc = l.doc /\ m.doc = p.doc
                           /\ OwnerOf(m) = OwnerOf(l) /\ OwnerOf(m) = OwnerOf(p)
                           /\ OwnerOf(m) # Nobody => m.own = l.own /\ m.own = p.own
  BY DEF VersionsAgree, MemGetSchemaVersion, LiteGetSchemaVersion, PgGetSchemaVersion, LiteScan
<1> DEFINE m == mem.rows[s][v]
           l == lite.rows[s][v]
           p == pg.rows[s][v]
<1>1. SameVersion(m, l, p, s \notin again)
  BY DEF SchemasInv, SchemaAgrees
<1> HIDE DEF m, l, p
<1>2. CASE m = None /\ l = None /\ p = None
  BY <1>2 DEF PgScan, m, l, p
<1>3. CASE m \in SchemaRows /\ l \in SchemaRows /\ p \in SchemaRows
  <2>1. /\ m # None /\ l # None /\ p # None
        /\ l.doc = m.doc /\ p.doc = m.doc
        /\ l.own = Written(m.own) /\ p.own = Written(m.own)
    BY <1>1, <1>3, RowsAreRows DEF SameVersion
  <2>2. Written(m.own) \in Ownership /\ OwnerOf(m) = Written(m.own).owner
    BY <1>3 DEF SchemaRows, Written, OwnerOf, Ownership, Owners
  <2>3. OwnerOf(m) # Nobody => Written(m.own) = m.own
    BY DEF OwnerOf, Written
  <2>4. /\ PgScan(p) # None /\ PgScan(p).doc = p.doc
        /\ OwnerOf(PgScan(p)) = p.own.owner
        /\ p.own.owner # Nobody => PgScan(p) = p
        /\ OwnerOf(l) = l.own.owner
    BY <1>3, <2>1, <2>2, Scanned
  <2> QED
    BY <2>1, <2>2, <2>3, <2>4 DEF m, l, p
<1> QED
  BY <1>1, <1>2, <1>3 DEF SameVersion

LEMMA LatestAlike == SchemasInv => LatestAgrees
<1> SUFFICES ASSUME SchemasInv, NEW s \in Schemas
             PROVE  /\ Cardinality(MemGetSchema(mem, s)) <= 1
                    /\ {r.doc : r \in LiteGetSchema(lite, s)} \subseteq {r.doc : r \in MemGetSchema(mem, s)}
                    /\ {r.doc : r \in PgGetSchema(pg, s)} = {r.doc : r \in LiteGetSchema(lite, s)}
  BY DEF LatestAgrees
<1> DEFINE Marked(t) == {w \in Present(t, s) : t.rows[s][w].latest}
<1>1. \A v \in Versions :
        SameVersion(mem.rows[s][v], lite.rows[s][v], pg.rows[s][v], s \notin again)
  BY DEF SchemasInv, SchemaAgrees
<1>2. Cardinality(MemGetSchema(mem, s)) <= 1
  <2>1. \A v, w \in Marked(mem) : v = w
    BY DEF SchemasInv, SchemaAgrees
  <2>2. MemGetSchema(mem, s) = {} \/ \E r : MemGetSchema(mem, s) = {r}
    BY <2>1 DEF MemGetSchema
  <2>3. MemGetSchema(mem, s) = {} => Cardinality(MemGetSchema(mem, s)) = 0
    BY FS_EmptySet, Zenon
  <2>4. \A r : MemGetSchema(mem, s) = {r} => Cardinality(MemGetSchema(mem, s)) = 1
    BY FS_Singleton, Zenon
  <2> QED
    BY <2>2, <2>3, <2>4
<1>3. \A v \in Present(mem, s) : /\ lite.rows[s][v].doc = mem.rows[s][v].doc
                                /\ PgScan(pg.rows[s][v]).doc = mem.rows[s][v].doc
  <2> SUFFICES ASSUME NEW v \in Present(mem, s)
               PROVE  /\ lite.rows[s][v].doc = mem.rows[s][v].doc
                      /\ PgScan(pg.rows[s][v]).doc = mem.rows[s][v].doc
    OBVIOUS
  <2>1. v \in Versions /\ mem.rows[s][v] # None
    BY DEF Present
  <2>2. /\ mem.rows[s][v] \in SchemaRows /\ pg.rows[s][v] \in SchemaRows
        /\ lite.rows[s][v].doc = mem.rows[s][v].doc /\ pg.rows[s][v].doc = mem.rows[s][v].doc
        /\ pg.rows[s][v].own = Written(mem.rows[s][v].own)
    BY <1>1, <2>1 DEF SameVersion
  <2>3. Written(mem.rows[s][v].own) \in Ownership
    BY <2>2 DEF SchemaRows, Written, Ownership, Owners
  <2> QED
    BY <2>2, <2>3, Scanned
<1>4. /\ {r.doc : r \in MemGetSchema(mem, s)} = {mem.rows[s][v].doc : v \in Marked(mem)}
      /\ {r.doc : r \in LiteGetSchema(lite, s)} = {lite.rows[s][v].doc : v \in Marked(lite)}
      /\ {r.doc : r \in PgGetSchema(pg, s)} = {PgScan(pg.rows[s][v]).doc : v \in Marked(pg)}
  BY DEF MemGetSchema, LiteGetSchema, PgGetSchema, LiteScan
<1>5. Marked(lite) \subseteq Marked(mem) /\ Marked(pg) = Marked(lite) /\ Marked(mem) \subseteq Present(mem, s)
  <2>1. Present(lite, s) = Present(mem, s) /\ Present(pg, s) = Present(mem, s)
    BY SamePresent
  <2>2. ASSUME NEW v \in Present(mem, s)
        PROVE  /\ lite.rows[s][v].latest => mem.rows[s][v].latest
               /\ pg.rows[s][v].latest <=> lite.rows[s][v].latest
    <3>1. v \in Versions /\ mem.rows[s][v] # None
      BY <2>2 DEF Present
    <3> QED
      BY <1>1, <3>1 DEF SameVersion
  <2> QED
    BY <2>1, <2>2, Zenon
<1> HIDE DEF Marked
<1>6. {lite.rows[s][v].doc : v \in Marked(lite)} = {mem.rows[s][v].doc : v \in Marked(lite)}
  <2>1. \A v \in Marked(lite) : lite.rows[s][v].doc = mem.rows[s][v].doc
    BY <1>3, <1>5
  <2> QED
    BY <2>1, Zenon
<1>7. {PgScan(pg.rows[s][v]).doc : v \in Marked(lite)} = {mem.rows[s][v].doc : v \in Marked(lite)}
  <2>1. \A v \in Marked(lite) : PgScan(pg.rows[s][v]).doc = mem.rows[s][v].doc
    BY <1>3, <1>5
  <2> QED
    BY <2>1, Zenon
<1>8. {mem.rows[s][v].doc : v \in Marked(lite)} \subseteq {mem.rows[s][v].doc : v \in Marked(mem)}
  BY <1>5
<1>9. {r.doc : r \in PgGetSchema(pg, s)} = {PgScan(pg.rows[s][v]).doc : v \in Marked(lite)}
  BY <1>4, <1>5, Zenon
<1> QED
  BY <1>2, <1>4, <1>6, <1>7, <1>8, <1>9, Zenon

\* Seconds can hide that one version came before another, never the other way round.
LEMMA PreviousAlike == SchemasInv => PreviousAgrees
<1> SUFFICES ASSUME SchemasInv, NEW s \in Schemas \ again, NEW v \in Versions
             PROVE  LET m == PreviousVersion(mem, s, v)
                        l == PreviousVersion(lite, s, v)
                    IN  /\ PreviousVersion(pg, s, v) = m
                        /\ m = {} => l = {}
                        /\ \A w \in l : mem.rows[s][w].at < mem.rows[s][v].at
                        /\ \A w \in m : l # {} /\ w \notin l =>
                             Second(mem.rows[s][w].at) = Second(mem.rows[s][v].at)
  BY DEF PreviousAgrees, LiteGetPreviousVersion, PgGetPreviousVersion
<1> DEFINE at == [w \in Present(mem, s) |-> mem.rows[s][w].at]
           P == Present(mem, s)
           older == {w \in P : at[w] < at[v]}
           olderSecond == {w \in P : Second(at[w]) < Second(at[v])}
           NewestBefore == {w \in older : \A x \in older : at[x] <= at[w]}
           NewestSecond == {w \in olderSecond : \A x \in olderSecond : Second(at[x]) <= Second(at[w])}
<1>1. \A w \in P : /\ at[w] \in Nat /\ mem.rows[s][w].at = at[w]
                   /\ pg.rows[s][w].at = at[w] /\ lite.rows[s][w].at = Second(at[w])
  <2>1. \A w \in Versions :
          SameVersion(mem.rows[s][w], lite.rows[s][w], pg.rows[s][w], s \notin again)
    BY DEF SchemasInv, SchemaAgrees
  <2> QED
    BY <2>1 DEF SameVersion, Present, SchemaRows
<1>2. Present(lite, s) = P /\ Present(pg, s) = P
  BY SamePresent
<1> HIDE DEF at
<1>3. /\ v \notin P => /\ PreviousVersion(mem, s, v) = {} /\ PreviousVersion(pg, s, v) = {}
                      /\ PreviousVersion(lite, s, v) = {}
      /\ v \in P => /\ PreviousVersion(mem, s, v) = NewestBefore /\ PreviousVersion(pg, s, v) = NewestBefore
                    /\ PreviousVersion(lite, s, v) = NewestSecond
  <2>1. \A w \in Versions : /\ w \in P <=> mem.rows[s][w] # None
                            /\ w \in P <=> lite.rows[s][w] # None
                            /\ w \in P <=> pg.rows[s][w] # None
    BY <1>2 DEF Present
  <2> HIDE DEF P
  <2>2. CASE v \notin P
    BY <2>1, <2>2 DEF PreviousVersion
  <2>3. CASE v \in P
    <3>1. mem.rows[s][v] # None /\ lite.rows[s][v] # None /\ pg.rows[s][v] # None
      BY <2>1, <2>3
    <3>2. PreviousVersion(mem, s, v) = NewestBefore
      BY <1>1, <2>3, <3>1 DEF PreviousVersion, P
    <3>3. PreviousVersion(pg, s, v) = NewestBefore
      BY <1>1, <1>2, <2>3, <3>1 DEF PreviousVersion
    <3>4. PreviousVersion(lite, s, v) = NewestSecond
      BY <1>1, <1>2, <2>3, <3>1 DEF PreviousVersion
    <3> QED
      BY <2>3, <3>2, <3>3, <3>4
  <2> QED
    BY <2>2, <2>3
<1>4. CASE v \notin P
  BY <1>3, <1>4
<1>5. CASE v \in P
  <2> HIDE DEF P
  <2>1. \A w, x \in P : /\ Second(at[w]) \in Nat
                        /\ at[w] <= at[x] => Second(at[w]) <= Second(at[x])
    BY <1>1, Seconds
  <2>2. olderSecond \subseteq older
    BY <1>1, <1>5, <2>1
  <2>3. older # {} => NewestBefore # {}
    <3>1. {at[w] : w \in older} \in SUBSET Nat /\ \A n \in {at[w] : w \in older} : n <= at[v]
      BY <1>1, <1>5
    <3>2. older # {} => \E k \in {at[w] : w \in older} : \A n \in {at[w] : w \in older} : n <= k
      BY <1>1, <1>5, <3>1, Greatest
    <3> QED
      BY <3>2
  <2>4. \A w \in NewestBefore : w \notin NewestSecond /\ NewestSecond # {} => Second(at[w]) = Second(at[v])
    <3> SUFFICES ASSUME NEW w \in NewestBefore, Second(at[w]) # Second(at[v])
                 PROVE  w \in NewestSecond
      OBVIOUS
    <3>1. w \in P /\ at[w] < at[v] /\ \A x \in older : at[x] <= at[w]
      OBVIOUS
    <3>2. at[w] <= at[v]
      BY <1>1, <1>5, <3>1
    <3>3. w \in olderSecond
      BY <1>5, <2>1, <3>1, <3>2
    <3>4. \A x \in olderSecond : x \in P /\ at[x] <= at[w]
      BY <2>2, <3>1
    <3> QED
      BY <2>1, <3>1, <3>3, <3>4
  <2>5. \A w \in NewestSecond : w \in P /\ at[w] < at[v]
    BY <2>2
  <2>6. NewestBefore = {} => NewestSecond = {}
    BY <2>2, <2>3
  <2>7. \A w \in NewestBefore : w \in P
    OBVIOUS
  <2> HIDE DEF NewestBefore, NewestSecond
  <2> QED
    BY <1>1, <1>3, <1>5, <2>4, <2>5, <2>6, <2>7
<1> QED
  BY <1>4, <1>5

LEMMA ListsAlike == SchemasInv => ListsAgree
<1> SUFFICES ASSUME SchemasInv PROVE ListsAgree
  OBVIOUS
<1>1. ASSUME NEW s \in Schemas, NEW t \in {lite, pg}
      PROVE  /\ LiteListVersions(t, s) # {}
             /\ \A q \in LiteListVersions(t, s) :
                  Len(q) = Cardinality(MemListVersions(mem, s)) /\ ToSet(q) = MemListVersions(mem, s)
  <2> DEFINE P == Present(mem, s)
             key == [v \in P |-> t.rows[s][v].at]
  <2>1. Present(t, s) = P /\ IsFiniteSet(P)
    BY SamePresent DEF SchemasInv, SchemaAgrees
  <2>2. \A v \in P : key[v] \in Nat
    <3>1. \A v \in P : t.rows[s][v] \in SchemaRows
      BY SamePresent
    <3> QED
      BY <3>1 DEF SchemaRows
  <2>3. LiteListVersions(t, s) = {Reverse(q) : q \in Ascending(P, key)}
    BY <2>1 DEF LiteListVersions
  <2> HIDE DEF P, key
  <2>4. Ascending(P, key) # {}
    BY <2>1, <2>2, Sortable
  <2>5. \A q \in Ascending(P, key) : Len(Reverse(q)) = Cardinality(P) /\ ToSet(Reverse(q)) = P
    BY <2>1, SortedHoldsAll
  <2>6. \A q \in LiteListVersions(t, s) : Len(q) = Cardinality(P) /\ ToSet(q) = P
    BY <2>3, <2>5
  <2> QED
    BY <2>3, <2>4, <2>6 DEF MemListVersions, P
<1>2. \A s \in Schemas :
         /\ LiteListVersions(lite, s) # {} /\ PgListVersions(pg, s) # {}
         /\ \A q \in LiteListVersions(lite, s) \cup PgListVersions(pg, s) :
              Len(q) = Cardinality(MemListVersions(mem, s)) /\ ToSet(q) = MemListVersions(mem, s)
  BY <1>1 DEF PgListVersions
<1>3. LiteListSchemaIDs(lite) = Stored /\ PgListSchemaIDs(pg) = Stored
  BY SamePresent DEF LiteListSchemaIDs, PgListSchemaIDs, Stored
<1>4. Stored \subseteq mem.ids /\ mem.ids \subseteq Schemas
  BY DEF SchemasInv, SchemaAgrees, Stored, TypeOK, Tables
<1> QED
  BY <1>2, <1>3, <1>4 DEF ListsAgree, MemListSchemaIDs, MemListVersions, Stored

\* What is found of a schema does not depend on the store, as far as its clock tells: its
\* versions, the latest of them, the one before each, and the lists of them.
THEOREM LookupsAlike == Spec => []LookupsAgree
<1>1. ParityInv => LookupsAgree
  BY VersionsAlike, LatestAlike, PreviousAlike, ListsAlike DEF ParityInv, LookupsAgree
<1> QED
  BY <1>1, ParityHolds, PTL

-----------------------------------------------------------------------------
(***************************************************************************)
(* Paging.                                                                 *)
(***************************************************************************)

\* A page has as many entries as fit and are left.
LEMMA PageLength ==
  ASSUME NEW size \in Nat, NEW n \in Nat, NEW from \in Nat
  PROVE  Min({size, Max({0, n - from})}) =
           IF n <= from THEN 0 ELSE IF n - from <= size THEN n - from ELSE size
<1> DEFINE left == n - from
           most == IF left > 0 THEN left ELSE 0
<1>1. left \in Int
  OBVIOUS
<1> HIDE DEF left
<1>2. Max({0, left}) = most
  <2>1. most \in {0, left} /\ \A y \in {0, left} : most >= y
    BY <1>1
  <2>2. \A x \in {0, left} : (\A y \in {0, left} : x >= y) => x = most
    BY <1>1
  <2> QED
    BY <2>1, <2>2 DEF Max
<1>3. most \in Nat
  BY <1>1
<1> HIDE DEF most
<1>4. Min({size, most}) = IF most <= size THEN most ELSE size
  <2> DEFINE least == IF most <= size THEN most ELSE size
  <2>1. least \in {size, most} /\ \A y \in {size, most} : least <= y
    BY <1>3
  <2>2. \A x \in {size, most} : (\A y \in {size, most} : x <= y) => x = least
    BY <1>3
  <2> HIDE DEF least
  <2>3. Min({size, most}) = least
    BY <2>1, <2>2 DEF Min
  <2> QED
    BY <2>3 DEF least
<1>5. Min({size, Max({0, left})}) = IF most <= size THEN most ELSE size
  BY <1>2, <1>4
<1> QED
  BY <1>5 DEF most, left

\* Two sequences after one another.
LEMMA Joined ==
  ASSUME NEW S, NEW p \in Seq(S), NEW q \in Seq(S)
  PROVE  p \o q \in Seq(S) /\ Len(p \o q) = Len(p) + Len(q)
OBVIOUS

\* A page that holds all is all, and the two that do are all together.
LEMMA PagesHoldAll ==
  ASSUME NEW S, NEW all \in Seq(S), NEW size \in Nat
  PROVE  /\ Len(all) <= size => Page(all, 0, size) = all
         /\ size < Len(all) /\ Len(all) <= 2 * size =>
              Page(all, 0, size) \o Page(all, size, size) = all
<1> DEFINE n == Len(all)
<1>1. n \in Nat /\ all = [i \in 1 .. n |-> all[i]]
  OBVIOUS
<1>2. ASSUME n <= size PROVE Page(all, 0, size) = all
  <2>1. Min({size, Max({0, n - 0})}) = n
    <3> HIDE DEF n
    <3>1. 0 \in Nat
      OBVIOUS
    <3>2. Min({size, Max({0, n - 0})}) =
            IF n <= 0 THEN 0 ELSE IF n - 0 <= size THEN n - 0 ELSE size
      BY <1>1, <3>1, PageLength
    <3> QED
      BY <1>1, <1>2, <3>2
  <2>2. Page(all, 0, size) = [i \in 1 .. n |-> all[0 + i]]
    BY <2>1 DEF Page
  <2>3. \A i \in 1 .. n : 0 + i = i
    OBVIOUS
  <2>4. Page(all, 0, size) = [i \in 1 .. n |-> all[i]]
    <3> HIDE DEF n
    <3> QED
      BY <2>2, <2>3
  <2> QED
    BY <1>1, <2>4
<1>3. ASSUME size < n, n <= 2 * size
      PROVE  Page(all, 0, size) \o Page(all, size, size) = all
  <2>1. Page(all, 0, size) = [i \in 1 .. size |-> all[0 + i]]
    <3>1. Min({size, Max({0, n - 0})}) = size
      <4> HIDE DEF n
      <4>1. 0 \in Nat
        OBVIOUS
      <4>2. Min({size, Max({0, n - 0})}) =
              IF n <= 0 THEN 0 ELSE IF n - 0 <= size THEN n - 0 ELSE size
        BY <1>1, <4>1, PageLength
      <4> QED
        BY <1>1, <1>3, <4>2
    <3> QED
      BY <3>1 DEF Page
  <2>2. Page(all, size, size) = [i \in 1 .. n - size |-> all[size + i]]
    <3>1. Min({size, Max({0, n - size})}) = n - size
      <4> HIDE DEF n
      <4>1. Min({size, Max({0, n - size})}) =
              IF n <= size THEN 0 ELSE IF n - size <= size THEN n - size ELSE size
        BY <1>1, PageLength
      <4> QED
        BY <1>1, <1>3, <4>1
    <3> QED
      BY <3>1 DEF Page
  <2> DEFINE first == [i \in 1 .. size |-> all[0 + i]]
             second == [i \in 1 .. n - size |-> all[size + i]]
  <2>3. first \in Seq(S) /\ Len(first) = size /\ \A i \in 1 .. size : first[i] = all[i]
    <3>1. \A i \in 1 .. size : all[0 + i] \in S /\ all[0 + i] = all[i]
      BY <1>1, <1>3
    <3>2. first \in [1 .. size -> S]
      BY <3>1
    <3> QED
      BY <3>1, <3>2
  <2>4. second \in Seq(S) /\ Len(second) = n - size /\ \A i \in 1 .. n - size : second[i] = all[size + i]
    <3>1. \A i \in 1 .. n - size : size + i \in 1 .. n
      BY <1>1, <1>3
    <3>2. \A i \in 1 .. n - size : all[size + i] \in S
      BY <3>1
    <3>3. second \in [1 .. n - size -> S] /\ n - size \in Nat
      BY <1>1, <1>3, <3>2
    <3> QED
      BY <3>3
  <2> HIDE DEF first, second
  <2>5. first \o second \in Seq(S) /\ Len(first \o second) = n
    <3> HIDE DEF n
    <3>1. size + (n - size) = n
      BY <1>1
    <3>2. first \o second \in Seq(S) /\ Len(first \o second) = Len(first) + Len(second)
      BY <2>3, <2>4, Joined
    <3> QED
      BY <2>3, <2>4, <3>1, <3>2
  <2>6. \A i \in 1 .. n : (first \o second)[i] = all[i]
    <3> SUFFICES ASSUME NEW i \in 1 .. n PROVE (first \o second)[i] = all[i]
      OBVIOUS
    <3>1. CASE i <= size
      <4>1. i \in 1 .. size
        BY <3>1
      <4> QED
        BY <1>3, <2>3, <2>4, <4>1
    <3>2. CASE size < i
      <4>1. i - size \in 1 .. n - size /\ size + (i - size) = i
        BY <1>1, <3>2
      <4>2. (first \o second)[i] = second[i - size]
        BY <1>1, <1>3, <2>3, <2>4, <3>2
      <4> QED
        BY <2>4, <4>1, <4>2
    <3>3. i <= size \/ size < i
      OBVIOUS
    <3> QED
      BY <3>1, <3>2, <3>3
  <2>7. first \o second = all
    <3> DEFINE both == first \o second
    <3>1. both \in Seq(S) /\ Len(both) = n /\ \A i \in 1 .. n : both[i] = all[i]
      BY <2>5, <2>6
    <3> HIDE DEF both
    <3>2. both = all
      BY <3>1
    <3> QED
      BY <3>2 DEF both
  <2> QED
    BY <2>1, <2>2, <2>7 DEF first, second
<1> QED
  BY <1>2, <1>3

\* Two pages reach every schema of the filter, each once, in order, if they can hold them:
\* with the length of a page for a token only the second page is where the first one ended.
THEOREM TwoPagesDo == Spec => []TwoPagesSuffice
<1>1. SchemasInv => TwoPagesSuffice
  <2> SUFFICES ASSUME SchemasInv, NEW owner \in Owners, NEW size \in 1 .. Cardinality(Schemas)
               PROVE  LET first  == LiteListSchemas(lite, owner, size, None)
                          second == LiteListSchemas(lite, owner, size, first.token)
                          all    == Ordered(Selected(lite, owner))
                      IN  IF first.token = None THEN first.schemas = all
                          ELSE Len(all) <= 2 * size =>
                                 second.token = None /\ first.schemas \o second.schemas = all
    BY DEF TwoPagesSuffice
  <2> DEFINE S == Selected(lite, owner)
             key == [s \in S |-> s]
             all == Ordered(S)
             first == LiteListSchemas(lite, owner, size, None)
             second == LiteListSchemas(lite, owner, size, first.token)
  <2>1. IsFiniteSet(S) /\ S \subseteq Schemas
    <3>1. S \subseteq Stored
      BY SamePresent DEF Selected, MemGetSchema, Stored
    <3> QED
      BY <3>1, FS_Subset DEF SchemasInv, Stored
  <2>2. \A s \in S : key[s] \in Nat
    BY <2>1, StoresAssumption
  <2>3. all \in Ascending(S, key)
    <3>1. all = CHOOSE q \in Ascending(S, key) : TRUE
      BY DEF Ordered
    <3> HIDE DEF all, S, key
    <3>2. Ascending(S, key) # {}
      BY <2>1, <2>2, Sortable
    <3> QED
      BY <3>1, <3>2
  <2>4. all \in Seq(S)
    <3> HIDE DEF all, S, key
    <3> QED
      BY <2>1, <2>3, SortedHoldsAll
  <2>5. size \in Nat /\ size # None
    BY RowsAreRows
  <2>6. /\ first.schemas = Page(all, 0, size)
        /\ first.token = IF Len(all) > 0 + size THEN size ELSE None
    BY DEF LiteListSchemas
  <2>7. first.token = size => /\ second.schemas = Page(all, size, size)
                              /\ second.token = IF Len(all) > size + size THEN size ELSE None
    BY <2>5 DEF LiteListSchemas
  <2>8. Len(all) \in Nat
    <3> HIDE DEF all, S
    <3> QED
      BY <2>4
  <2>9. /\ Len(all) <= size => Page(all, 0, size) = all
        /\ size < Len(all) /\ Len(all) <= 2 * size =>
             Page(all, 0, size) \o Page(all, size, size) = all
    <3> HIDE DEF all, S
    <3> QED
      BY <2>4, <2>5, PagesHoldAll
  <2> HIDE DEF all, first, second
  <2>10. IF first.token = None THEN first.schemas = all
         ELSE Len(all) <= 2 * size =>
                second.token = None /\ first.schemas \o second.schemas = all
    <3>1. CASE Len(all) <= size
      BY <2>5, <2>6, <2>8, <2>9, <3>1
    <3>2. CASE size < Len(all)
      <4>1. first.token = size
        BY <2>5, <2>6, <2>8, <3>2
      <4>2. Len(all) <= 2 * size => second.token = None
        BY <2>5, <2>7, <2>8, <4>1
      <4>3. Len(all) <= 2 * size => first.schemas \o second.schemas = all
        BY <2>6, <2>7, <2>9, <3>2, <4>1
      <4> QED
        BY <2>5, <4>1, <4>2, <4>3
    <3>3. Len(all) <= size \/ size < Len(all)
      BY <2>5, <2>8
    <3> QED
      BY <3>1, <3>2, <3>3
  <2> QED
    BY <2>10 DEF all, first, second, S
<1> QED
  BY <1>1, ParityHolds, PTL DEF ParityInv

-----------------------------------------------------------------------------
(***************************************************************************)
(* Runs and comparisons.                                                   *)
(***************************************************************************)

\* A time is at or after the start of a second exactly if its second is, and before its end
\* exactly if its second is not a later one.
LEMMA SecondsTell ==
  ASSUME NEW t \in Nat, NEW u \in Nat
  PROVE  /\ Second(u) <= Second(t) <=> Second(u) <= t
         /\ Second(t) <= Second(u) <=> t <= Second(u) + Tick - 1
<1> DEFINE i == t \div Tick
           j == u \div Tick
<1>1. Tick \in Nat /\ Tick > 0
  BY StoresAssumption
<1>2. i \in Nat /\ j \in Nat /\ i * Tick <= t /\ t < i * Tick + Tick
  BY <1>1
<1>3. Second(t) = i * Tick /\ Second(u) = j * Tick
  BY DEF Second
<1> HIDE DEF i, j
<1>4. \A a, b \in Nat : a <= b => a * Tick <= b * Tick
  BY <1>1
<1>5. \A a \in Nat : a * Tick \in Nat /\ (a + 1) * Tick = a * Tick + Tick
  BY <1>1
<1>6. j <= i => j * Tick <= i * Tick
  BY <1>2, <1>4
<1>7. i <= j => i * Tick <= j * Tick
  BY <1>2, <1>4
<1>8. i < j => i * Tick + Tick <= j * Tick
  <2>1. i < j => (i + 1) * Tick <= j * Tick
    BY <1>2, <1>4
  <2> QED
    BY <1>2, <1>5, <2>1
<1>9. j < i => j * Tick + Tick <= i * Tick
  <2>1. j < i => (j + 1) * Tick <= i * Tick
    BY <1>2, <1>4
  <2> QED
    BY <1>2, <1>5, <2>1
<1> DEFINE p == i * Tick
           q == j * Tick
<1>10. p \in Nat /\ q \in Nat
  BY <1>2, <1>5
<1> HIDE DEF p, q
<1>11. /\ i \in Nat /\ j \in Nat /\ p <= t /\ t < p + Tick
       /\ j <= i => q <= p
       /\ i <= j => p <= q
       /\ i < j => p + Tick <= q
       /\ j < i => q + Tick <= p
  BY <1>2, <1>6, <1>7, <1>8, <1>9 DEF p, q
<1>12. (q <= p <=> q <= t) /\ (p <= q <=> t <= q + Tick - 1)
  <2>1. CASE i < j
    BY <1>1, <1>10, <1>11, <2>1
  <2>2. CASE j < i
    BY <1>1, <1>10, <1>11, <2>2
  <2>3. CASE i = j
    BY <1>1, <1>10, <1>11, <2>3
  <2> QED
    BY <1>11, <2>1, <2>2, <2>3
<1> QED
  BY <1>3, <1>12 DEF p, q

\* The smaller of two numbers.
LEMMA Smaller ==
  ASSUME NEW a \in Nat, NEW b \in Nat
  PROVE  Min({a, b}) = IF a <= b THEN a ELSE b
<1> DEFINE least == IF a <= b THEN a ELSE b
<1>1. least \in {a, b} /\ \A y \in {a, b} : least <= y
  OBVIOUS
<1>2. \A x \in {a, b} : (\A y \in {a, b} : x <= y) => x = least
  OBVIOUS
<1> HIDE DEF least
<1>3. Min({a, b}) = least
  BY <1>1, <1>2 DEF Min
<1> QED
  BY <1>3 DEF least

\* Those of a finite set that have fewer than size others before them: as many as asked for
\* or all there are, and with each the ones before it.
Foremost(S, key, size) == {i \in S : Cardinality({j \in S : key[j] < key[i]}) < size}

LEMMA ForemostCounted ==
  ASSUME NEW S, IsFiniteSet(S), NEW key \in [S -> Nat], NEW size \in Nat,
         \A i, j \in S : key[i] = key[j] => i = j
  PROVE  /\ Foremost(S, key, size) \subseteq S
         /\ Cardinality(Foremost(S, key, size)) = Min({size, Cardinality(S)})
         /\ \A i \in Foremost(S, key, size), j \in S : key[j] < key[i] => j \in Foremost(S, key, size)
<1> DEFINE Below(i) == {j \in S : key[j] < key[i]}
           rank == [i \in S |-> Cardinality(Below(i))]
           n == Cardinality(S)
           m == IF size <= n THEN size ELSE n
           T == Foremost(S, key, size)
<1>1. n \in Nat /\ m \in Nat
  BY FS_CardinalityType
<1>2. \A i \in S : IsFiniteSet(Below(i)) /\ rank[i] \in Nat /\ rank[i] < n
  <2> SUFFICES ASSUME NEW i \in S
               PROVE  IsFiniteSet(Below(i)) /\ Cardinality(Below(i)) \in Nat /\ Cardinality(Below(i)) < n
    OBVIOUS
  <2>1. Below(i) \in SUBSET (S \ {i})
    OBVIOUS
  <2> HIDE DEF Below
  <2>2. IsFiniteSet(S \ {i}) /\ Cardinality(S \ {i}) = n - 1
    BY FS_RemoveElement
  <2>3. IsFiniteSet(Below(i)) /\ Cardinality(Below(i)) <= n - 1
    BY <2>1, <2>2, FS_Subset
  <2>4. Cardinality(Below(i)) \in Nat
    BY <2>3, FS_CardinalityType
  <2> QED
    BY <1>1, <2>3, <2>4
<1>3. \A i, j \in S : key[i] < key[j] => rank[i] < rank[j]
  <2> SUFFICES ASSUME NEW i \in S, NEW j \in S, key[i] < key[j]
               PROVE  Cardinality(Below(i)) < Cardinality(Below(j))
    OBVIOUS
  <2>1. Below(i) \cup {i} \in SUBSET Below(j)
    OBVIOUS
  <2>2. i \notin Below(i)
    OBVIOUS
  <2>3. IsFiniteSet(Below(i)) /\ IsFiniteSet(Below(j)) /\ Cardinality(Below(i)) \in Nat /\ Cardinality(Below(j)) \in Nat
    BY <1>2
  <2> HIDE DEF Below
  <2>4. Cardinality(Below(i) \cup {i}) = Cardinality(Below(i)) + 1
    BY <2>2, <2>3, FS_AddElement
  <2>5. Cardinality(Below(i) \cup {i}) <= Cardinality(Below(j))
    BY <2>1, <2>3, FS_Subset
  <2> QED
    BY <2>3, <2>4, <2>5
<1>4. \A i \in S : i \in T <=> rank[i] < size
  BY DEF Foremost
<1>5. T \subseteq S
  BY DEF Foremost
<1> HIDE DEF rank, T, Below
<1>6. \A i, j \in S : rank[i] = rank[j] => i = j
  <2> SUFFICES ASSUME NEW i \in S, NEW j \in S, rank[i] = rank[j] PROVE i = j
    OBVIOUS
  <2>1. key[i] \in Nat /\ key[j] \in Nat /\ rank[i] \in Nat
    BY <1>2
  <2>2. ~(key[i] < key[j]) /\ ~(key[j] < key[i])
    BY <1>3, <2>1
  <2> QED
    BY <2>1, <2>2
<1>7. \A k \in 0 .. n - 1 : \E i \in S : rank[i] = k
  <2> DEFINE r == [i \in S |-> rank[i]]
  <2>1. 0 \in Int /\ n - 1 \in Int
    BY <1>1
  <2>2. IsFiniteSet(0 .. n - 1) /\ Cardinality(0 .. n - 1) = n
    BY <1>1, <2>1, FS_Interval
  <2>3. r \in [S -> 0 .. n - 1]
    BY <1>1, <1>2
  <2>4. r \in Injection(S, 0 .. n - 1)
    BY <1>6, <2>3 DEF Injection, IsInjective
  <2> HIDE DEF n
  <2>5. r \in Surjection(S, 0 .. n - 1)
    <3> HIDE DEF r
    <3> QED
      BY <2>2, <2>4, FS_Injection DEF n
  <2> QED
    BY <2>5 DEF Surjection
<1>8. Cardinality(T) = m
  <2> DEFINE r == [i \in T |-> rank[i]]
  <2>1. 0 \in Int /\ m - 1 \in Int
    BY <1>1
  <2>2. IsFiniteSet(0 .. m - 1) /\ Cardinality(0 .. m - 1) = m
    <3> HIDE DEF m
    <3>1. IsFiniteSet(0 .. m - 1) /\ Cardinality(0 .. m - 1) = IF 0 > m - 1 THEN 0 ELSE (m - 1) - 0 + 1
      BY <2>1, FS_Interval
    <3>2. (IF 0 > m - 1 THEN 0 ELSE (m - 1) - 0 + 1) = m
      BY <1>1
    <3> QED
      BY <3>1, <3>2
  <2>3. \A i \in T : rank[i] \in 0 .. m - 1
    BY <1>1, <1>2, <1>4, <1>5
  <2>4. \A k \in 0 .. m - 1 : \E i \in T : rank[i] = k
    BY <1>1, <1>4, <1>7
  <2> HIDE DEF m
  <2>5. r \in Injection(T, 0 .. m - 1)
    BY <1>5, <1>6, <2>3 DEF Injection, IsInjective
  <2>6. r \in Surjection(T, 0 .. m - 1)
    BY <2>3, <2>4 DEF Surjection
  <2> HIDE DEF r
  <2> QED
    BY <2>2, <2>5, <2>6, FS_Injection
<1>9. Min({size, n}) = m
  <2> HIDE DEF n
  <2> QED
    BY <1>1, Smaller
<1>10. \A i \in T, j \in S : key[j] < key[i] => j \in T
  BY <1>2, <1>3, <1>4, <1>5
<1> QED
  BY <1>5, <1>8, <1>9, <1>10 DEF T

\* What is asked for of the newest can be had, if runs are recorded in the order of their
\* times.
LEMMA NewestExist ==
  ASSUME NEW t, NEW n \in Nat, NEW w, NEW size \in Nat, Matching(t, w) \subseteq 1 .. n,
         \A i \in 1 .. n : t.runs[i].at \in Nat,
         \A i, j \in 1 .. n : i <= j => t.runs[i].at <= t.runs[j].at
  PROVE  Newest(t, w, size) # {}
<1> DEFINE S == Matching(t, w)
           key == [i \in S |-> n - i]
           T == Foremost(S, key, size)
<1>1. IsFiniteSet(S)
  <2>1. IsFiniteSet(1 .. n)
    BY FS_Interval
  <2> QED
    BY <2>1, FS_Subset
<1>2. key \in [S -> Nat] /\ \A i, j \in S : key[i] = key[j] => i = j
  OBVIOUS
<1>3. \A i, j \in S : i # j => i < j \/ key[i] < key[j]
  OBVIOUS
<1> HIDE DEF key
<1>4. /\ T \subseteq S
      /\ Cardinality(T) = Min({size, Cardinality(S)})
      /\ \A i \in T, j \in S : key[j] < key[i] => j \in T
  <2> HIDE DEF S
  <2> QED
    BY <1>1, <1>2, ForemostCounted
<1> HIDE DEF T
<1>5. \A i \in T, j \in S \ T : t.runs[j].at <= t.runs[i].at
  <2> SUFFICES ASSUME NEW i \in T, NEW j \in S \ T PROVE t.runs[j].at <= t.runs[i].at
    OBVIOUS
  <2>1. i \in S /\ i # j /\ ~(key[j] < key[i])
    BY <1>4
  <2>2. j < i
    BY <1>3, <2>1
  <2>3. i \in 1 .. n /\ j \in 1 .. n /\ j <= i
    BY <2>1, <2>2
  <2> QED
    BY <2>3
<1>6. T \in Newest(t, w, size)
  BY <1>4, <1>5 DEF Newest
<1> QED
  BY <1>6

\* How the records of the three stores are related: the same runs in the order of their
\* times, SQLite's in whole seconds, and the same comparisons.
RunsInv ==
    /\ pg.runs = mem.runs
    /\ Len(lite.runs) = Len(mem.runs)
    /\ \A i \in 1 .. Len(mem.runs) :
         /\ lite.runs[i].schema = mem.runs[i].schema
         /\ lite.runs[i].at = Second(mem.runs[i].at)
         /\ mem.runs[i].at < now
    /\ \A i, j \in 1 .. Len(mem.runs) : i < j => mem.runs[i].at < mem.runs[j].at
    /\ lite.comparisons = mem.comparisons /\ pg.comparisons = mem.comparisons

LEMMA RunsInit == Init => RunsInv
BY DEF Init, EmptyTable, RunsInv

\* A run has a time.
LEMMA RunsAreTimed ==
  ASSUME NEW q \in Seq(Runs)
  PROVE  Len(q) \in Nat /\ \A i \in 1 .. Len(q) : q[i].at \in Nat
<1>1. Len(q) \in Nat /\ \A i \in 1 .. Len(q) : q[i] \in Runs
  OBVIOUS
<1> QED
  BY <1>1 DEF Runs

\* The calls on schemas and consumers find the records as they were.
LEMMA RecordsUntouched ==
  ASSUME SchemasInv, RunsInv, SchemaCall \/ ConsumerCall \/ UNCHANGED vars
  PROVE  RunsInv'
<1> DEFINE Same(t, u) == u.runs = t.runs /\ u.comparisons = t.comparisons
           Stay == Same(mem, mem') /\ Same(lite, lite') /\ Same(pg, pg') /\ now' \in {now, now + 1}
<1>1. /\ mem = [rows |-> mem.rows, ids |-> mem.ids, runs |-> mem.runs,
                comparisons |-> mem.comparisons, consumers |-> mem.consumers]
      /\ lite = [rows |-> lite.rows, ids |-> lite.ids, runs |-> lite.runs,
                 comparisons |-> lite.comparisons, consumers |-> lite.consumers]
      /\ pg = [rows |-> pg.rows, ids |-> pg.ids, runs |-> pg.runs,
               comparisons |-> pg.comparisons, consumers |-> pg.consumers]
  BY DEF SchemasInv, TypeOK, Tables
<1>2. ASSUME NEW s, NEW v, NEW doc, NEW flag, NEW own, SetSchema(s, v, doc, flag, own) PROVE Stay
  BY <1>1, <1>2 DEF SetSchema, MemSetSchema, LiteSetSchema, PgSetSchema, SqlSetSchema, Advance
<1>3. ASSUME NEW s, DeleteSchema(s) PROVE Stay
  BY <1>1, <1>3 DEF DeleteSchema, MemDeleteSchema, LiteDeleteSchema, PgDeleteSchema, Advance
<1>4. ASSUME NEW s, NEW v, DeleteSchemaVersion(s, v) PROVE Stay
  BY <1>1, <1>4 DEF DeleteSchemaVersion, MemDeleteSchemaVersion, LiteDeleteSchemaVersion,
                    PgDeleteSchemaVersion, Advance
<1>5. ASSUME NEW k, NEW release, RegisterConsumer(k, release) PROVE Stay
  BY <1>1, <1>5 DEF RegisterConsumer, MemRegisterConsumer, LiteRegisterConsumer,
                    PgRegisterConsumer, Advance
<1>6. ASSUME NEW k, DeregisterConsumer(k) PROVE Stay
  BY <1>1, <1>6 DEF DeregisterConsumer, MemDeregisterConsumer, LiteDeregisterConsumer,
                    PgDeregisterConsumer, Advance
<1>7. ASSUME NEW k, UpdateConsumerValidation(k) PROVE Stay
  BY <1>1, <1>7 DEF UpdateConsumerValidation, MemUpdateConsumerValidation,
                    LiteUpdateConsumerValidation, PgUpdateConsumerValidation, Advance
<1>8. Stay
  BY <1>2, <1>3, <1>4, <1>5, <1>6, <1>7 DEF SchemaCall, ConsumerCall, vars
<1>9. now \in Nat /\ mem.runs \in Seq(Runs)
  BY DEF SchemasInv, TypeOK, Tables
<1>10. \A i \in 1 .. Len(mem.runs) : mem.runs[i].at < now'
  <2>1. \A i \in 1 .. Len(mem.runs) : mem.runs[i].at \in Nat
    BY <1>9, RunsAreTimed
  <2> QED
    BY <1>8, <1>9, <2>1 DEF RunsInv
<1> QED
  BY <1>8, <1>10 DEF RunsInv

\* A run is appended to all three tables, later than those before it.
LEMMA RunAppended ==
  ASSUME SchemasInv, RunsInv, NEW s \in Schemas, NEW errors \in SUBSET Errors, RecordValidation(s, errors)
  PROVE  RunsInv'
<1> DEFINE run == [schema |-> s, valid |-> errors = {}, errors |-> errors, at |-> now]
           written == [run EXCEPT !.at = Second(@)]
           n == Len(mem.runs)
<1>1. mem \in Tables /\ lite \in Tables /\ pg \in Tables /\ now \in Nat
  BY DEF SchemasInv, TypeOK
<1>2. /\ run \in Runs /\ written \in Runs
      /\ run.at = now /\ written.at = Second(run.at) /\ written.schema = run.schema
  BY <1>1, Seconds DEF Runs
<1>3. /\ mem' = [mem EXCEPT !.runs = Append(@, run)]
      /\ lite' = [lite EXCEPT !.runs = Append(@, written)]
      /\ pg' = [pg EXCEPT !.runs = Append(@, run)]
      /\ now' = now + 1
  BY DEF RecordValidation, MemRecordValidation, LiteRecordValidation, PgRecordValidation, Advance
<1> HIDE DEF run, written
<1>4. /\ mem'.runs = Append(mem.runs, run) /\ mem'.comparisons = mem.comparisons
      /\ lite'.runs = Append(lite.runs, written) /\ lite'.comparisons = lite.comparisons
      /\ pg'.runs = Append(pg.runs, run) /\ pg'.comparisons = pg.comparisons
  BY <1>1, <1>3 DEF Tables
<1>5. mem.runs \in Seq(Runs) /\ lite.runs \in Seq(Runs) /\ n \in Nat /\ Len(lite.runs) = n
  BY <1>1 DEF Tables, RunsInv
<1>6. /\ Len(mem'.runs) = n + 1 /\ mem'.runs[n + 1] = run
      /\ \A i \in 1 .. n : mem'.runs[i] = mem.runs[i]
  BY <1>2, <1>4, <1>5
<1>7. /\ Len(lite'.runs) = n + 1 /\ lite'.runs[n + 1] = written
      /\ \A i \in 1 .. n : lite'.runs[i] = lite.runs[i]
  BY <1>2, <1>4, <1>5
<1>8. \A i \in 1 .. n : mem.runs[i].at \in Nat
  BY <1>5, RunsAreTimed
<1>9. /\ \A i \in 1 .. n : /\ lite.runs[i].schema = mem.runs[i].schema
                           /\ lite.runs[i].at = Second(mem.runs[i].at)
                           /\ mem.runs[i].at < now
      /\ \A i, j \in 1 .. n : i < j => mem.runs[i].at < mem.runs[j].at
  BY DEF RunsInv
<1> HIDE DEF n
<1>10. \A i \in 1 .. n + 1 : i \in 1 .. n \/ i = n + 1
  BY <1>5
<1>11. \A i \in 1 .. n + 1 : /\ lite'.runs[i].schema = mem'.runs[i].schema
                             /\ lite'.runs[i].at = Second(mem'.runs[i].at)
  BY <1>2, <1>6, <1>7, <1>9, <1>10
<1>12. \A i \in 1 .. n + 1 : mem'.runs[i].at < now'
  BY <1>1, <1>2, <1>3, <1>6, <1>8, <1>9, <1>10
<1>13. \A i, j \in 1 .. n + 1 : i < j => mem'.runs[i].at < mem'.runs[j].at
  <2> SUFFICES ASSUME NEW i \in 1 .. n + 1, NEW j \in 1 .. n + 1, i < j
               PROVE  mem'.runs[i].at < mem'.runs[j].at
    OBVIOUS
  <2>1. i \in 1 .. n
    BY <1>5
  <2> QED
    BY <1>2, <1>6, <1>9, <1>10, <2>1
<1> QED
  BY <1>4, <1>6, <1>7, <1>11, <1>12, <1>13 DEF RunsInv

LEMMA ComparisonKept ==
  ASSUME SchemasInv, RunsInv, NEW p \in Pairs, NEW verdict \in BOOLEAN, RecordComparison(p, verdict)
  PROVE  RunsInv'
<1>1. mem \in Tables /\ lite \in Tables /\ pg \in Tables /\ now \in Nat /\ mem.runs \in Seq(Runs)
  BY DEF SchemasInv, TypeOK, Tables
<1>2. /\ mem' = [mem EXCEPT !.comparisons[p] = verdict]
      /\ lite' = [lite EXCEPT !.comparisons[p] = verdict]
      /\ pg' = [pg EXCEPT !.comparisons[p] = verdict]
      /\ now' = now + 1
  BY DEF RecordComparison, MemRecordComparison, LiteRecordComparison, PgRecordComparison, Advance
<1>3. \A t \in Tables :
        LET u == [t EXCEPT !.comparisons[p] = verdict]
        IN  u.runs = t.runs /\ u.comparisons = [t.comparisons EXCEPT ![p] = verdict]
  BY DEF Tables
<1>4. /\ mem'.runs = mem.runs /\ lite'.runs = lite.runs /\ pg'.runs = pg.runs
      /\ mem'.comparisons = [mem.comparisons EXCEPT ![p] = verdict]
      /\ lite'.comparisons = [lite.comparisons EXCEPT ![p] = verdict]
      /\ pg'.comparisons = [pg.comparisons EXCEPT ![p] = verdict]
  BY <1>1, <1>2, <1>3
<1>5. \A i \in 1 .. Len(mem.runs) : mem.runs[i].at \in Nat
  BY <1>1, RunsAreTimed
<1>6. \A i \in 1 .. Len(mem.runs) : mem.runs[i].at < now'
  BY <1>1, <1>2, <1>5 DEF RunsInv
<1> QED
  BY <1>4, <1>6 DEF RunsInv

LEMMA RunsHold == Spec => []RunsInv
<1>1. SchemasInv /\ RunsInv /\ [Next]_vars => RunsInv'
  BY RecordsUntouched, RunAppended, ComparisonKept DEF Next, RecordCall
<1>2. ParityInv => SchemasInv
  BY DEF ParityInv
<1> QED
  BY <1>1, <1>2, RunsInit, ParityHolds, PTL DEF Spec

\* What Postgres finds in a window memory finds in it, and what SQLite finds in it memory
\* finds in the window's whole seconds.
LEMMA WindowsAlike ==
  ASSUME SchemasInv, RunsInv, NEW w \in Windows
  PROVE  /\ Matching(pg, w) = Matching(mem, w)
         /\ Matching(lite, LiteWindow(w)) = Matching(mem, Wide(w))
         /\ Matching(mem, w) \subseteq Matching(mem, Wide(w))
         /\ Matching(mem, Wide(w)) \subseteq 1 .. Len(mem.runs)
         /\ Len(mem.runs) \in Nat
<1> DEFINE n == Len(mem.runs)
           at == [i \in 1 .. n |-> mem.runs[i].at]
<1>1. mem.runs \in Seq(Runs) /\ lite.runs \in Seq(Runs)
  BY DEF SchemasInv, TypeOK, Tables
<1>2. /\ n \in Nat /\ DOMAIN mem.runs = 1 .. n /\ DOMAIN lite.runs = 1 .. n
      /\ \A i \in 1 .. n : at[i] \in Nat /\ mem.runs[i].at = at[i]
  BY <1>1, RunsAreTimed DEF RunsInv
<1>3. \A i \in 1 .. n : lite.runs[i].schema = mem.runs[i].schema /\ lite.runs[i].at = Second(at[i])
  BY <1>2 DEF RunsInv
<1> HIDE DEF n, at
<1>4. /\ w \in [schema : Schemas \cup {None}, start : Instants, end : Instants]
      /\ w.start \in Nat \cup {None} /\ w.end \in Nat \cup {None}
  BY ParityAssumption DEF Windows, Instants
<1>5. /\ LiteWindow(w).schema = w.schema
      /\ LiteWindow(w).start = IF w.start = None THEN None ELSE Second(w.start)
      /\ LiteWindow(w).end = IF w.end = None THEN None ELSE Second(w.end)
      /\ Wide(w).schema = w.schema
      /\ Wide(w).start = IF w.start = None THEN None ELSE Second(w.start)
      /\ Wide(w).end = IF w.end = None THEN None ELSE Second(w.end) + Tick - 1
  BY <1>4 DEF LiteWindow, Wide
<1>6. None \notin Nat /\ Tick \in Nat /\ Tick > 0
  BY StoresAssumption
<1>7. ASSUME NEW i \in 1 .. n
      PROVE  /\ InWindow(lite.runs[i], LiteWindow(w)) <=> InWindow(mem.runs[i], Wide(w))
             /\ InWindow(mem.runs[i], w) => InWindow(mem.runs[i], Wide(w))
  <2> DEFINE t == at[i]
             a == w.start
             b == w.end
  <2>1. t \in Nat /\ mem.runs[i].at = t /\ lite.runs[i].at = Second(t)
        /\ lite.runs[i].schema = mem.runs[i].schema
    BY <1>2, <1>3
  <2>2. a # None => /\ a \in Nat /\ Second(a) \in Nat /\ Second(a) <= a
                    /\ Second(t) >= Second(a) <=> t >= Second(a)
    BY <1>4, <2>1, Seconds, SecondsTell
  <2>3. b # None => /\ b \in Nat /\ Second(b) \in Nat /\ b <= Second(b) + Tick - 1
                    /\ Second(t) <= Second(b) <=> t <= Second(b) + Tick - 1
    BY <1>4, <2>1, Seconds, SecondsTell
  <2>4. /\ a # None => Second(a) # None
        /\ b # None => Second(b) # None /\ Second(b) + Tick - 1 # None
    <3>1. b # None => Second(b) + Tick - 1 \in Nat
      BY <1>6, <2>3
    <3> QED
      BY <1>6, <2>2, <2>3, <3>1
  <2> DEFINE start == IF a = None THEN None ELSE Second(a)
             end == IF b = None THEN None ELSE Second(b)
             late == IF b = None THEN None ELSE Second(b) + Tick - 1
  <2>5. InWindow(lite.runs[i], LiteWindow(w)) <=>
          /\ w.schema \in {None, mem.runs[i].schema}
          /\ start = None \/ Second(t) >= start
          /\ end = None \/ Second(t) <= end
    BY <1>5, <2>1 DEF InWindow
  <2>6. InWindow(mem.runs[i], Wide(w)) <=>
          /\ w.schema \in {None, mem.runs[i].schema}
          /\ start = None \/ t >= start
          /\ late = None \/ t <= late
    BY <1>5, <2>1 DEF InWindow
  <2>7. InWindow(mem.runs[i], w) <=>
          /\ w.schema \in {None, mem.runs[i].schema}
          /\ a = None \/ t >= a
          /\ b = None \/ t <= b
    BY <2>1 DEF InWindow
  <2> HIDE DEF t, a, b
  <2>8. (start = None \/ Second(t) >= start) <=> (start = None \/ t >= start)
    BY <2>2, <2>4
  <2>9. (end = None \/ Second(t) <= end) <=> (late = None \/ t <= late)
    BY <2>3, <2>4
  <2>10. (a = None \/ t >= a) => (start = None \/ t >= start)
    BY <2>1, <2>2, <2>4 DEF t
  <2>11. (b = None \/ t <= b) => (late = None \/ t <= late)
    BY <1>6, <2>1, <2>3, <2>4 DEF t
  <2> HIDE DEF start, end, late
  <2> QED
    BY <2>5, <2>6, <2>7, <2>8, <2>9, <2>10, <2>11
<1>8. Matching(pg, w) = Matching(mem, w)
  BY DEF Matching, RunsInv
<1> QED
  BY <1>2, <1>7, <1>8 DEF Matching, n

\* Memory lists the first runs of a window: as many as asked for or all there are.
LEMMA FirstListed ==
  ASSUME NEW t, NEW n \in Nat, NEW w, NEW size \in Nat, Matching(t, w) \subseteq 1 .. n
  PROVE  LET S == Matching(t, w)
             m == MemListValidations(t, w, size)
         IN  /\ IsFiniteSet(S) /\ m \subseteq S
             /\ Cardinality(m) = Min({size, Cardinality(S)})
             /\ \A i \in m, j \in S : j < i => j \in m
<1> DEFINE S == Matching(t, w)
           key == [i \in S |-> i]
           m == MemListValidations(t, w, size)
<1>1. IsFiniteSet(S)
  <2>1. IsFiniteSet(1 .. n)
    BY FS_Interval
  <2> QED
    BY <2>1, FS_Subset
<1>2. key \in [S -> Nat] /\ \A i, j \in S : key[i] = key[j] => i = j
  OBVIOUS
<1>3. m = Foremost(S, key, size)
  <2>1. \A i \in S : {j \in S : key[j] < key[i]} = {j \in S : j < i}
    OBVIOUS
  <2> QED
    BY <2>1 DEF MemListValidations, Foremost
<1>4. \A i, j \in S : j < i => key[j] < key[i]
  OBVIOUS
<1> HIDE DEF m, S, key
<1>5. /\ m \subseteq S
      /\ Cardinality(m) = Min({size, Cardinality(S)})
      /\ \A i \in m, j \in S : key[j] < key[i] => j \in m
  BY <1>1, <1>2, <1>3, ForemostCounted
<1>6. \A i \in m, j \in S : j < i => j \in m
  BY <1>4, <1>5
<1> QED
  BY <1>1, <1>5, <1>6 DEF m, S

\* As many as there are is all of them.
LEMMA AllKept ==
  ASSUME NEW S, IsFiniteSet(S), NEW T \in SUBSET S, NEW size \in Nat,
         Cardinality(T) = Min({size, Cardinality(S)}), Cardinality(S) <= size
  PROVE  T = S
<1>1. Cardinality(S) \in Nat
  BY FS_CardinalityType
<1>2. Min({size, Cardinality(S)}) = Cardinality(S)
  BY <1>1, Smaller
<1> QED
  BY <1>2, FS_Subset

LEMMA ListingsAlike == SchemasInv /\ RunsInv => ListingsAgree
<1> SUFFICES ASSUME SchemasInv, RunsInv, NEW w \in Windows, NEW size \in 1 .. Len(mem.runs) + 1
             PROVE  LET m == MemListValidations(mem, w, size)
                        ofPg == Newest(pg, w, size)
                        ofLite == Newest(lite, LiteWindow(w), size)
                    IN  /\ ofPg # {} /\ ofLite # {}
                        /\ \A p \in ofPg :
                             /\ Cardinality(p) = Cardinality(m)
                             /\ Cardinality(Matching(mem, w)) <= size => p = m
                             /\ \A i \in p \ m, j \in m \ p : mem.runs[j].at < mem.runs[i].at
                        /\ \A l \in ofLite :
                             /\ l \subseteq Matching(mem, Wide(w))
                             /\ Cardinality(l) = Cardinality(MemListValidations(mem, Wide(w), size))
                             /\ Cardinality(Matching(mem, Wide(w))) <= size => m \subseteq l
                             /\ \A i \in l, j \in m \ l : Second(mem.runs[j].at) <= Second(mem.runs[i].at)
  BY DEF ListingsAgree, PgListValidations, LiteListValidations
<1> DEFINE n == Len(mem.runs)
           S == Matching(mem, w)
           W == Matching(mem, Wide(w))
           m == MemListValidations(mem, w, size)
           wide == MemListValidations(mem, Wide(w), size)
<1>1. /\ Matching(pg, w) = S /\ Matching(lite, LiteWindow(w)) = W
      /\ S \subseteq W /\ W \subseteq 1 .. n /\ n \in Nat
  BY WindowsAlike
<1>2. size \in Nat
  BY <1>1
<1>3. \A i \in 1 .. n : /\ mem.runs[i].at \in Nat /\ pg.runs[i] = mem.runs[i]
                        /\ lite.runs[i].at = Second(mem.runs[i].at)
  <2>1. mem.runs \in Seq(Runs)
    BY DEF SchemasInv, TypeOK, Tables
  <2> QED
    BY <2>1, RunsAreTimed DEF RunsInv
<1>4. \A i, j \in 1 .. n : i < j => mem.runs[i].at < mem.runs[j].at
  BY DEF RunsInv
<1> HIDE DEF n, S, W
<1>5. /\ IsFiniteSet(S) /\ m \subseteq S
      /\ Cardinality(m) = Min({size, Cardinality(S)})
      /\ \A i \in m, j \in S : j < i => j \in m
  <2>1. Matching(mem, w) \subseteq 1 .. n
    BY <1>1 DEF S
  <2> QED
    BY <1>1, <1>2, <2>1, FirstListed DEF S
<1>6. IsFiniteSet(W) /\ Cardinality(wide) = Min({size, Cardinality(W)})
  <2>1. Matching(mem, Wide(w)) \subseteq 1 .. n
    BY <1>1 DEF W
  <2> QED
    BY <1>1, <1>2, <2>1, FirstListed DEF W
<1> HIDE DEF m, wide
<1>7. Newest(pg, w, size) # {}
  <2>1. Matching(pg, w) \subseteq 1 .. n
    BY <1>1
  <2>2. \A i \in 1 .. n : pg.runs[i].at \in Nat
    BY <1>3
  <2>3. \A i, j \in 1 .. n : i <= j => pg.runs[i].at <= pg.runs[j].at
    <3> SUFFICES ASSUME NEW i \in 1 .. n, NEW j \in 1 .. n, i <= j
                 PROVE  pg.runs[i].at <= pg.runs[j].at
      OBVIOUS
    <3>1. i < j \/ i = j
      OBVIOUS
    <3>2. pg.runs[i].at = mem.runs[i].at /\ pg.runs[j].at = mem.runs[j].at /\ mem.runs[i].at \in Nat /\ mem.runs[j].at \in Nat
      BY <1>3
    <3>3. i < j => mem.runs[i].at < mem.runs[j].at
      BY <1>4
    <3> QED
      BY <3>1, <3>2, <3>3
  <2> QED
    BY <1>1, <1>2, <2>1, <2>2, <2>3, NewestExist
<1>8. Newest(lite, LiteWindow(w), size) # {}
  <2>1. Matching(lite, LiteWindow(w)) \subseteq 1 .. n
    BY <1>1
  <2>2. \A i \in 1 .. n : lite.runs[i].at \in Nat
    BY <1>3, Seconds
  <2>3. \A i, j \in 1 .. n : i <= j => lite.runs[i].at <= lite.runs[j].at
    <3> SUFFICES ASSUME NEW i \in 1 .. n, NEW j \in 1 .. n, i <= j
                 PROVE  lite.runs[i].at <= lite.runs[j].at
      OBVIOUS
    <3>1. i < j \/ i = j
      OBVIOUS
    <3>2. /\ lite.runs[i].at = Second(mem.runs[i].at) /\ lite.runs[j].at = Second(mem.runs[j].at)
          /\ mem.runs[i].at \in Nat /\ mem.runs[j].at \in Nat
      BY <1>3
    <3>3. mem.runs[i].at <= mem.runs[j].at
      BY <1>4, <3>1, <3>2
    <3> QED
      BY <3>2, <3>3, Seconds
  <2> QED
    BY <1>1, <1>2, <2>1, <2>2, <2>3, NewestExist
<1>9. ASSUME NEW p \in Newest(pg, w, size)
      PROVE  /\ Cardinality(p) = Cardinality(m)
             /\ Cardinality(S) <= size => p = m
             /\ \A i \in p \ m, j \in m \ p : mem.runs[j].at < mem.runs[i].at
  <2>1. /\ p \in SUBSET S /\ Cardinality(p) = Min({size, Cardinality(S)})
        /\ \A i \in p, j \in S \ p : pg.runs[j].at <= pg.runs[i].at
    BY <1>1 DEF Newest
  <2>2. Cardinality(S) <= size => p = S /\ m = S
    BY <1>2, <1>5, <2>1, AllKept
  <2>3. \A i \in p \ m, j \in m \ p : mem.runs[j].at < mem.runs[i].at
    <3> SUFFICES ASSUME NEW i \in p \ m, NEW j \in m \ p PROVE mem.runs[j].at < mem.runs[i].at
      OBVIOUS
    <3>1. i \in S /\ j \in S /\ i # j
      BY <1>5, <2>1
    <3>2. i \in 1 .. n /\ j \in 1 .. n
      BY <1>1, <3>1
    <3>3. ~(i < j)
      BY <1>5, <3>1
    <3>4. j < i
      BY <1>1, <3>1, <3>2, <3>3
    <3> QED
      BY <1>4, <3>2, <3>4
  <2> QED
    BY <1>5, <2>1, <2>2, <2>3
<1>10. ASSUME NEW l \in Newest(lite, LiteWindow(w), size)
       PROVE  /\ l \subseteq W
              /\ Cardinality(l) = Cardinality(wide)
              /\ Cardinality(W) <= size => m \subseteq l
              /\ \A i \in l, j \in m \ l : Second(mem.runs[j].at) <= Second(mem.runs[i].at)
  <2>1. /\ l \in SUBSET W /\ Cardinality(l) = Min({size, Cardinality(W)})
        /\ \A i \in l, j \in W \ l : lite.runs[j].at <= lite.runs[i].at
    BY <1>1 DEF Newest
  <2>2. Cardinality(W) <= size => l = W
    BY <1>2, <1>6, <2>1, AllKept
  <2>3. \A i \in l, j \in m \ l : Second(mem.runs[j].at) <= Second(mem.runs[i].at)
    <3> SUFFICES ASSUME NEW i \in l, NEW j \in m \ l
                 PROVE  Second(mem.runs[j].at) <= Second(mem.runs[i].at)
      OBVIOUS
    <3>1. i \in W /\ j \in W \ l /\ i \in 1 .. n /\ j \in 1 .. n
      BY <1>1, <1>5, <2>1
    <3> QED
      BY <1>3, <2>1, <3>1
  <2> QED
    BY <1>1, <1>5, <1>6, <2>1, <2>2, <2>3
<1> QED
  BY <1>7, <1>8, <1>9, <1>10 DEF m, wide, S, W

LEMMA AnalyticsAlike == SchemasInv /\ RunsInv => AnalyticsAgree
<1> SUFFICES ASSUME SchemasInv, RunsInv, NEW w \in Windows
             PROVE  LET m == Totals(mem, w)
                        p == PgGetValidationAnalytics(pg, w)
                    IN  /\ p = None <=> m.total = 0
                        /\ p # None => p = m
  BY DEF AnalyticsAgree, MemGetValidationAnalytics
<1> DEFINE m == Totals(mem, w)
           S == Matching(mem, w)
<1>1. Matching(pg, w) = S /\ pg.runs = mem.runs /\ IsFiniteSet(S)
  <2>1. Matching(pg, w) = S /\ S \in SUBSET (1 .. Len(mem.runs)) /\ Len(mem.runs) \in Nat
    BY WindowsAlike
  <2>2. IsFiniteSet(1 .. Len(mem.runs))
    BY <2>1, FS_Interval
  <2> QED
    BY <2>1, <2>2, FS_Subset DEF RunsInv
<1>2. Totals(pg, w) = m
  BY <1>1 DEF Totals
<1> HIDE DEF S
<1>3. m.total = Cardinality(S) /\ m \in Analytics
  <2>1. ASSUME NEW T \in SUBSET S PROVE Cardinality(T) \in Nat
    BY <1>1, FS_Subset, FS_CardinalityType
  <2>2. m = [total |-> Cardinality(S),
             pass |-> Cardinality({i \in S : mem.runs[i].valid}),
             fail |-> Cardinality({i \in S : ~mem.runs[i].valid})]
    BY DEF Totals, S
  <2>3. /\ Cardinality(S) \in Nat
        /\ Cardinality({i \in S : mem.runs[i].valid}) \in Nat
        /\ Cardinality({i \in S : ~mem.runs[i].valid}) \in Nat
    BY <2>1
  <2> QED
    BY <2>2, <2>3 DEF Analytics
<1>4. m # None
  BY <1>3, StoresAssumption
<1>5. S = {} <=> Cardinality(S) = 0
  BY <1>1, FS_EmptySet
<1>6. PgGetValidationAnalytics(pg, w) = IF S = {} THEN None ELSE m
  BY <1>1, <1>2 DEF PgGetValidationAnalytics
<1> HIDE DEF m
<1> QED
  BY <1>3, <1>4, <1>5, <1>6 DEF m

LEMMA ComparisonsAlike == RunsInv => ComparisonsAgree
BY DEF RunsInv, ComparisonsAgree, MemGetComparison, LiteGetComparison, PgGetComparison

\* What was recorded of validations and comparisons reads alike from every store, where the
\* store answers and as far as its clock tells: Postgres counts what memory counts, the SQL
\* stores list as many runs as memory does, and none that is older than one they leave out.
THEOREM ObservationsAlike == Spec => []ObservationsAgree
<1>1. ParityInv /\ RunsInv => ObservationsAgree
  BY AnalyticsAlike, ListingsAlike, ComparisonsAlike DEF ParityInv, ObservationsAgree
<1> QED
  BY <1>1, ParityHolds, RunsHold, PTL

=============================================================================
