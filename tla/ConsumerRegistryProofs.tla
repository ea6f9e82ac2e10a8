------------------------ MODULE ConsumerRegistryProofs ------------------------
(***************************************************************************)
(* Proofs about ConsumerRegistry, for every number of handlers, consumers, *)
(* environments, versions and documents.                                   *)
(***************************************************************************)
EXTENDS ConsumerRegistry, FiniteSetTheorems, TLAPS

\* Which request a handler is serving, by where it is.
ControlOK(h) ==
  /\ pc[h] # "idle" => args[h] \in Request
  /\ pc[h] = "lookup" => args[h].op \in {"register", "deploy"}
  /\ pc[h] \in {"cap", "put", "store"} => args[h].op = "register"
  /\ pc[h] \in {"remove", "delete"} => args[h].op = "deregister"
  /\ pc[h] \in {"new", "fallback", "list", "compare"} =>
       args[h].op = "deploy"

Inv == TypeOK /\ \A h \in Handlers : ControlOK(h)

\* Every request acts on a key of the consumer map.
LEMMA KeyOfRequest ==
  ASSUME NEW r \in Request
  PROVE  KeyOf(r) \in ConsumerKeys
<1>1. EnvOf(r) \in Environments
  BY ConsumerAssumption DEF EnvOf, Request
<1> QED
  BY <1>1 DEF KeyOf, ConsumerKeys, Request

\* The empty consumer map is one.
LEMMA NoConsumersType ==
  NoConsumers \in [ConsumerKeys -> ConsumerEntry \cup {NoEntry}]
BY DEF NoConsumers

\* The invariant holds initially.
LEMMA InitInv == Init => Inv
<1> SUFFICES ASSUME Init PROVE Inv
  OBVIOUS
<1>1. TypeOK
  BY NoConsumersType
  DEF Init, Lookup!Init, Lookup!Nothing, Lookup!Keys, TypeOK, Keys, Steps, Replies
<1>2. ASSUME NEW h \in Handlers PROVE ControlOK(h)
  BY DEF Init, ControlOK
<1> QED
  BY <1>1, <1>2 DEF Inv

\* What a step of one handler leaves of the others' control state.
LEMMA ControlKept ==
  ASSUME NEW h \in Handlers, ControlOK(h),
         pc'[h] = pc[h], args'[h] = args[h]
  PROVE  ControlOK(h)'
BY DEF ControlOK

\* Every step preserves the invariant.
LEMMA NextInv == Inv /\ [Next]_vars => Inv'
<1> SUFFICES ASSUME Inv, [Next]_vars PROVE Inv'
  OBVIOUS
<1> USE DEF Inv
<1>1. ASSUME NEW h \in Handlers, Begin(h) PROVE Inv'
  <2>1. PICK r \in Traffic :
          /\ args' = [args EXCEPT ![h] = r]
          /\ Goto(h, IF r.op = "deregister" THEN "remove" ELSE "lookup")
    BY <1>1 DEF Begin
  <2>2. r \in Request
    BY ConsumerAssumption
  <2>3. TypeOK'
    BY <1>1, <2>1, <2>2
    DEF TypeOK, Begin, Goto, Registered, deploy, Steps
  <2>4. ControlOK(h)'
    BY <2>1, <2>2 DEF TypeOK, ControlOK, Goto, Request
  <2>5. ASSUME NEW g \in Handlers \ {h} PROVE ControlOK(g)'
    BY <2>1, ControlKept DEF TypeOK, Goto
  <2> QED
    BY <2>3, <2>4, <2>5
<1>2. ASSUME NEW h \in Handlers, Finish(h) PROVE Inv'
  <2>1. TypeOK'
    BY <1>2, NoConsumersType DEF TypeOK, Finish, Steps, Replies
  <2>2. ControlOK(h)'
    BY <1>2 DEF TypeOK, ControlOK, Finish
  <2>3. ASSUME NEW g \in Handlers \ {h} PROVE ControlOK(g)'
    BY <1>2, ControlKept DEF TypeOK, Finish
  <2> QED
    BY <2>1, <2>2, <2>3
<1>3. ASSUME NEW h \in Handlers, FindSchema(h) PROVE Inv'
  <2>1. TypeOK'
    BY <1>3 DEF TypeOK, FindSchema, Goto, Return, deploy, history,
      Steps, Replies
  <2>2. ControlOK(h)'
    BY <1>3 DEF TypeOK, ControlOK, FindSchema, Goto, Return
  <2>3. ASSUME NEW g \in Handlers \ {h} PROVE ControlOK(g)'
    BY <1>3, ControlKept DEF TypeOK, FindSchema, Goto, Return
  <2> QED
    BY <2>1, <2>2, <2>3
<1>4. ASSUME NEW h \in Handlers, CheckCap(h) PROVE Inv'
  <2>1. TypeOK'
    BY <1>4 DEF TypeOK, CheckCap, Goto, Return, deploy, history,
      Steps, Replies
  <2>2. ControlOK(h)'
    BY <1>4 DEF TypeOK, ControlOK, CheckCap, Goto, Return
  <2>3. ASSUME NEW g \in Handlers \ {h} PROVE ControlOK(g)'
    BY <1>4, ControlKept DEF TypeOK, CheckCap, Goto, Return
  <2> QED
    BY <2>1, <2>2, <2>3
<1>5. ASSUME NEW h \in Handlers, Put(h) PROVE Inv'
  <2>1. args[h] \in Request
    BY <1>5 DEF ControlOK, Put
  <2>2. [version |-> args[h].version, uses |-> args[h].uses] \in ConsumerEntry
    BY <2>1 DEF Request, ConsumerEntry
  <2>3. consumers' \in [ConsumerKeys -> ConsumerEntry \cup {NoEntry}]
    BY <1>5, <2>2 DEF TypeOK, Put
  <2>4. TypeOK'
    BY <1>5, <2>3 DEF TypeOK, Put, Goto, Return, Track, deploy,
      Steps, Replies
  <2>5. ControlOK(h)'
    BY <1>5 DEF TypeOK, ControlOK, Put, Goto, Return
  <2>6. ASSUME NEW g \in Handlers \ {h} PROVE ControlOK(g)'
    BY <1>5, ControlKept DEF TypeOK, Put, Goto, Return
  <2> QED
    BY <2>4, <2>5, <2>6
<1>6. ASSUME NEW h \in Handlers, StorePut(h) PROVE Inv'
  <2>1. args[h] \in Request
    BY <1>6 DEF ControlOK, StorePut
  <2>2. [version |-> args[h].version, uses |-> args[h].uses] \in ConsumerEntry
    BY <2>1 DEF Request, ConsumerEntry
  <2>3. TypeOK'
    BY <1>6, <2>2 DEF TypeOK, StorePut, Return, deploy, history,
      Steps, Replies
  <2>4. ControlOK(h)'
    BY <1>6 DEF TypeOK, ControlOK, StorePut, Return
  <2>5. ASSUME NEW g \in Handlers \ {h} PROVE ControlOK(g)'
    BY <1>6, ControlKept DEF TypeOK, StorePut, Return
  <2> QED
    BY <2>3, <2>4, <2>5
<1>7. ASSUME NEW h \in Handlers, Remove(h) PROVE Inv'
  <2>1. consumers' \in [ConsumerKeys -> ConsumerEntry \cup {NoEntry}]
    BY <1>7 DEF TypeOK, Remove
  <2>2. TypeOK'
    BY <1>7, <2>1 DEF TypeOK, Remove, Goto, Return, Track, deploy,
      Steps, Replies
  <2>3. ControlOK(h)'
    BY <1>7 DEF TypeOK, ControlOK, Remove, Goto, Return
  <2>4. ASSUME NEW g \in Handlers \ {h} PROVE ControlOK(g)'
    BY <1>7, ControlKept DEF TypeOK, Remove, Goto, Return
  <2> QED
    BY <2>2, <2>3, <2>4
<1>8. ASSUME NEW h \in Handlers, StoreDelete(h) PROVE Inv'
  <2>1. TypeOK'
    BY <1>8 DEF TypeOK, StoreDelete, Return, deploy, history, Steps,
      Replies
  <2>2. ControlOK(h)'
    BY <1>8 DEF TypeOK, ControlOK, StoreDelete, Return
  <2>3. ASSUME NEW g \in Handlers \ {h} PROVE ControlOK(g)'
    BY <1>8, ControlKept DEF TypeOK, StoreDelete, Return
  <2> QED
    BY <2>1, <2>2, <2>3
<1>9. ASSUME NEW h \in Handlers, StoreFails(h) PROVE Inv'
  <2>1. TypeOK'
    BY <1>9 DEF TypeOK, StoreFails, Return, deploy, Steps, Replies
  <2>2. ControlOK(h)'
    BY <1>9 DEF TypeOK, ControlOK, StoreFails, Return
  <2>3. ASSUME NEW g \in Handlers \ {h} PROVE ControlOK(g)'
    BY <1>9, ControlKept DEF TypeOK, StoreFails, Return
  <2> QED
    BY <2>1, <2>2, <2>3
<1>10. ASSUME NEW h \in Handlers, FindNewVersion(h) PROVE Inv'
  <2>1. args[h].version \in Keys
    BY <1>10 DEF ControlOK, FindNewVersion, Request
  <2>2. TypeOK'
    BY <1>10, <2>1 DEF TypeOK, FindNewVersion, Goto, history, Steps
  <2>3. ControlOK(h)'
    BY <1>10 DEF TypeOK, ControlOK, FindNewVersion, Goto
  <2>4. ASSUME NEW g \in Handlers \ {h} PROVE ControlOK(g)'
    BY <1>10, ControlKept DEF TypeOK, FindNewVersion, Goto
  <2> QED
    BY <2>2, <2>3, <2>4
<1>11. ASSUME NEW h \in Handlers, FallBack(h) PROVE Inv'
  <2>1. TypeOK'
    BY <1>11 DEF TypeOK, FallBack, Goto, Return, history, Steps,
      Replies, Keys
  <2>2. ControlOK(h)'
    BY <1>11 DEF TypeOK, ControlOK, FallBack, Goto, Return
  <2>3. ASSUME NEW g \in Handlers \ {h} PROVE ControlOK(g)'
    BY <1>11, ControlKept DEF TypeOK, FallBack, Goto, Return
  <2> QED
    BY <2>1, <2>2, <2>3
<1>12. ASSUME NEW h \in Handlers, ListEnvironment(h) PROVE Inv'
  <2> DEFINE listed == [k \in ConsumerKeys |->
               IF k \in In(EnvOf(args[h])) THEN consumers[k] ELSE NoEntry]
  <2>1. listed \in [ConsumerKeys -> ConsumerEntry \cup {NoEntry}]
    BY DEF TypeOK
  <2>2. /\ pc[h] = "list"
        /\ snapshot' = [snapshot EXCEPT ![h] = listed]
        /\ IF listed = NoConsumers THEN Return(h, "safe") ELSE Goto(h, "compare")
        /\ UNCHANGED <<consumers, rows, entries, args, newDoc, affected,
                       willBreak, history>>
    BY <1>12 DEF ListEnvironment
  <2> HIDE DEF listed
  <2>3. TypeOK'
    BY <2>1, <2>2 DEF TypeOK, Goto, Return, history, Steps, Replies
  <2>4. ControlOK(h)'
    BY <2>2 DEF TypeOK, ControlOK, Goto, Return
  <2>5. ASSUME NEW g \in Handlers \ {h} PROVE ControlOK(g)'
    BY <2>2, ControlKept DEF TypeOK, Goto, Return
  <2> QED
    BY <2>3, <2>4, <2>5
<1>13. ASSUME NEW h \in Handlers, CompareOne(h) PROVE Inv'
  <2>1. PICK k \in ConsumerKeys :
          /\ snapshot' = [snapshot EXCEPT ![h][k] = NoEntry]
          /\ affected' = [affected EXCEPT ![h] = @ \cup {k}]
          /\ \/ willBreak' = willBreak
             \/ willBreak' = [willBreak EXCEPT ![h] = @ \cup {k}]
    BY <1>13 DEF CompareOne
  <2>2. TypeOK'
    BY <1>13, <2>1 DEF TypeOK, CompareOne, history
  <2>3. ASSUME NEW g \in Handlers PROVE ControlOK(g)'
    BY <1>13, ControlKept DEF TypeOK, CompareOne
  <2> QED
    BY <2>2, <2>3
<1>14. ASSUME NEW h \in Handlers, Conclude(h) PROVE Inv'
  <2>1. TypeOK'
    BY <1>14 DEF TypeOK, Conclude, Return, deploy, history, Steps,
      Replies
  <2>2. ControlOK(h)'
    BY <1>14 DEF TypeOK, ControlOK, Conclude, Return
  <2>3. ASSUME NEW g \in Handlers \ {h} PROVE ControlOK(g)'
    BY <1>14, ControlKept DEF TypeOK, Conclude, Return
  <2> QED
    BY <2>1, <2>2, <2>3
<1>15. ASSUME NEW k \in Keys, NEW d \in Docs, Set(k, d) PROVE Inv'
  <2>1. TypeOK'
    BY <1>15 DEF TypeOK, Set, Lookup!Set, Track, deploy
  <2>2. ASSUME NEW g \in Handlers PROVE ControlOK(g)'
    BY <1>15, ControlKept DEF Set
  <2> QED
    BY <2>1, <2>2
<1>16. ASSUME NEW k \in Keys, Forget(k) PROVE Inv'
  <2>1. TypeOK'
    BY <1>16 DEF TypeOK, Forget, Lookup!Forget, Track, deploy
  <2>2. ASSUME NEW g \in Handlers PROVE ControlOK(g)'
    BY <1>16, ControlKept DEF Forget
  <2> QED
    BY <2>1, <2>2
<1>17. CASE Restart
  <2>1. TypeOK'
    BY <1>17, NoConsumersType
    DEF TypeOK, Restart, Lookup!Restart, Lookup!Nothing, Keys, Lookup!Keys, Steps, Replies
  <2>2. ASSUME NEW g \in Handlers PROVE ControlOK(g)'
    BY <1>17 DEF Restart, ControlOK
  <2> QED
    BY <2>1, <2>2
<1>18. CASE UNCHANGED vars
  <2>1. TypeOK'
    BY <1>18 DEF TypeOK, vars, deploy, history
  <2>2. ASSUME NEW g \in Handlers PROVE ControlOK(g)'
    BY <1>18, ControlKept DEF vars
  <2> QED
    BY <2>1, <2>2
<1> QED
  BY <1>1, <1>2, <1>3, <1>4, <1>5, <1>6, <1>7, <1>8, <1>9, <1>10, <1>11,
     <1>12, <1>13, <1>14, <1>15, <1>16, <1>17, <1>18
  DEF Next, Serve

\* The invariant holds in every reachable state.
LEMMA InvAlways == Spec => []Inv
BY InitInv, NextInv, PTL DEF Spec

\* Type correctness of the consumer side, whatever the traffic.
THEOREM ConsumerTypeCorrect == Spec => []TypeOK
<1>1. Inv => TypeOK
  BY DEF Inv
<1> QED
  BY <1>1, InvAlways, PTL

-----------------------------------------------------------------------------
(* The soft cap.  A handler between the count and the write is one         *)
(* registration that the count of a racing handler does not see yet, so    *)
(* the inductive bound counts both.                                        *)

Putting == {h \in Handlers : pc[h] = "put"}

CapInv ==
  Cardinality(Registered) + Cardinality(Putting)
    < MaxConsumersPerSchema + Cardinality(Handlers)

\* The two sets are finite, and no more handlers are putting than there are.
LEMMA CapFinite ==
  /\ IsFiniteSet(Registered) /\ IsFiniteSet(Putting)
  /\ Cardinality(Registered) \in Nat /\ Cardinality(Putting) \in Nat
  /\ Cardinality(Handlers) \in Nat
  /\ Cardinality(Putting) <= Cardinality(Handlers)
<1>1. Registered \subseteq ConsumerKeys /\ Putting \subseteq Handlers
  BY DEF Registered, Putting
<1> QED
  BY <1>1, FS_Subset, FS_CardinalityType, ConsumerAssumption

\* The same of the successor state.
LEMMA CapFiniteNext ==
  /\ IsFiniteSet(Registered') /\ IsFiniteSet(Putting')
  /\ Cardinality(Registered') \in Nat /\ Cardinality(Putting') \in Nat
  /\ Cardinality(Putting') <= Cardinality(Handlers)
<1>1. Registered' \subseteq ConsumerKeys /\ Putting' \subseteq Handlers
  BY DEF Registered, Putting
<1> QED
  BY <1>1, FS_Subset, FS_CardinalityType, ConsumerAssumption

\* A step that adds no consumer and sends no handler to the write.
LEMMA CapKept ==
  ASSUME CapInv, Registered' \subseteq Registered, Putting' \subseteq Putting
  PROVE  CapInv'
<1>1. /\ Cardinality(Registered') <= Cardinality(Registered)
      /\ Cardinality(Putting') <= Cardinality(Putting)
  BY CapFinite, FS_Subset
<1> QED
  BY <1>1, CapFinite, CapFiniteNext, ConsumerAssumption DEF CapInv

\* The bound holds initially.
LEMMA CapInit == Init => CapInv
<1> SUFFICES ASSUME Init PROVE CapInv
  OBVIOUS
<1>1. Registered = {} /\ Putting = {}
  BY DEF Init, NoConsumers, Registered, Putting
<1> QED
  BY <1>1, FS_EmptySet, CapFinite, ConsumerAssumption DEF CapInv

\* Every step preserves the bound.
LEMMA CapNext == Inv /\ CapInv /\ [Next]_vars => CapInv'
<1> SUFFICES ASSUME Inv, CapInv, [Next]_vars PROVE CapInv'
  OBVIOUS
<1> USE DEF Inv
<1>1. ASSUME NEW h \in Handlers, CheckCap(h) PROVE CapInv'
  <2>1. Registered' = Registered
    BY <1>1 DEF CheckCap, Registered
  <2>2. CASE Cardinality(Registered) >= MaxConsumersPerSchema
    <3>1. Putting' \subseteq Putting
      BY <1>1, <2>2 DEF CheckCap, Return, Putting, TypeOK
    <3> QED
      BY <2>1, <3>1, CapKept
  <2>3. CASE ~(Cardinality(Registered) >= MaxConsumersPerSchema)
    BY <2>1, <2>3, CapFinite, CapFiniteNext, ConsumerAssumption DEF CapInv
  <2> QED
    BY <2>2, <2>3
<1>2. ASSUME NEW h \in Handlers, Put(h) PROVE CapInv'
  <2> DEFINE k == KeyOf(args[h])
  <2>1. h \in Putting
    BY <1>2 DEF Put, Putting
  <2>2. Putting' = Putting \ {h}
    BY <1>2 DEF Put, Goto, Return, Putting, TypeOK
  <2>3. Cardinality(Putting') = Cardinality(Putting) - 1
    BY <2>1, <2>2, CapFinite, FS_RemoveElement
  <2>4. Registered' \subseteq Registered \cup {k}
    BY <1>2 DEF Put, Registered, TypeOK
  <2> HIDE DEF k
  <2>5. Cardinality(Registered') <= Cardinality(Registered) + 1
    <3>0. Cardinality(Registered \cup {k}) =
            IF k \in Registered THEN Cardinality(Registered)
                                ELSE Cardinality(Registered) + 1
      BY CapFinite, FS_AddElement
    <3>1. /\ IsFiniteSet(Registered \cup {k})
          /\ Cardinality(Registered \cup {k}) <= Cardinality(Registered) + 1
      BY <3>0, CapFinite, FS_AddElement
    <3>2. Cardinality(Registered') <= Cardinality(Registered \cup {k})
      BY <2>4, <3>1, FS_Subset
    <3>3. Cardinality(Registered \cup {k}) \in Nat
      BY <3>1, FS_CardinalityType
    <3> QED
      BY <3>1, <3>2, <3>3, CapFinite, CapFiniteNext
  <2> QED
    BY <2>3, <2>5, CapFinite, CapFiniteNext, ConsumerAssumption DEF CapInv
<1>3. ASSUME NEW h \in Handlers,
             Begin(h) \/ Finish(h) \/ FindSchema(h) \/ StorePut(h)
               \/ StoreDelete(h) \/ StoreFails(h) \/ FindNewVersion(h)
               \/ FallBack(h) \/ Conclude(h)
      PROVE CapInv'
  <2>1. consumers' = consumers
    BY <1>3 DEF Begin, Finish, FindSchema, StorePut, StoreDelete, StoreFails,
      FindNewVersion, FallBack, Conclude
  <2>2. \E l \in Steps \ {"put"} : pc' = [pc EXCEPT ![h] = l]
    BY <1>3 DEF Begin, Finish, FindSchema, StorePut, StoreDelete, StoreFails,
      FindNewVersion, FallBack, Conclude, Goto, Return, Steps
  <2>3. Registered' = Registered /\ Putting' \subseteq Putting
    BY <2>1, <2>2 DEF Registered, Putting, TypeOK
  <2> QED
    BY <2>3, CapKept
<1>4. ASSUME NEW h \in Handlers, Remove(h) PROVE CapInv'
  <2>1. Registered' \subseteq Registered
    BY <1>4 DEF Remove, Registered, TypeOK
  <2>2. Putting' \subseteq Putting
    BY <1>4 DEF Remove, Goto, Return, Putting, TypeOK
  <2> QED
    BY <2>1, <2>2, CapKept
<1>5. ASSUME NEW h \in Handlers, ListEnvironment(h) PROVE CapInv'
  <2>1. consumers' = consumers
    BY <1>5 DEF ListEnvironment
  <2>2. \E l \in Steps \ {"put"} : pc' = [pc EXCEPT ![h] = l]
    <3>1. \/ Return(h, "safe")
          \/ Goto(h, "compare")
      BY <1>5 DEF ListEnvironment
    <3> QED
      BY <3>1 DEF Goto, Return, Steps
  <2>3. Registered' = Registered /\ Putting' \subseteq Putting
    BY <2>1, <2>2 DEF Registered, Putting, TypeOK
  <2> QED
    BY <2>3, CapKept
<1>6. ASSUME NEW h \in Handlers, CompareOne(h) PROVE CapInv'
  <2>1. Registered' = Registered /\ Putting' = Putting
    BY <1>6 DEF CompareOne, Registered, Putting
  <2> QED
    BY <2>1, CapKept
<1>7. CASE (\E k \in Keys, d \in Docs : Set(k, d)) \/ (\E k \in Keys : Forget(k))
             \/ UNCHANGED vars
  <2>1. consumers' = consumers /\ pc' = pc
    BY <1>7 DEF Set, Forget, vars
  <2>2. Registered' = Registered /\ Putting' = Putting
    BY <2>1 DEF Registered, Putting
  <2> QED
    BY <2>2, CapKept
<1>8. CASE Restart
  <2>1. Registered' = {} /\ Putting' = {}
    BY <1>8 DEF Restart, NoConsumers, Registered, Putting
  <2> QED
    BY <2>1, CapKept
<1> QED
  BY <1>1, <1>2, <1>3, <1>4, <1>5, <1>6, <1>7, <1>8 DEF Next, Serve

\* The soft cap on registrations is overshot by fewer consumers than there
\* are handlers, for any cap and any number of handlers.
THEOREM CapOvershoot == Spec => []CapOvershootBounded
<1>1. CapInv => CapOvershootBounded
  BY CapFinite, ConsumerAssumption DEF CapInv, CapOvershootBounded
<1> QED
  BY <1>1, CapInit, CapNext, InvAlways, PTL DEF Spec

-----------------------------------------------------------------------------
(* CanIDeploy.  A call compares a snapshot of the consumers with versions  *)
(* looked up later; the invariant says what each of its local variables    *)
(* still tells about the consumers and keys that did not change meanwhile. *)

\* What the history records was found at the start, and still is.
SeenOK(h) ==
  /\ \A k \in standing[h] : consumers[k] # NoEntry
  /\ \A k \in steady[h] : entries[k] # NoDoc

\* The document under examination is the one asked for, if that is steady.
DocOK(h) ==
  /\ pc[h] = "fallback" => args[h].version \notin steady[h]
  /\ pc[h] \in {"list", "compare"} /\ args[h].version \in steady[h] =>
       newDoc[h] = entries[args[h].version]

\* Consumers still to be compared are listed as they are, and none is lost.
ListOK(h) ==
  pc[h] = "compare" =>
    \A k \in standing[h] :
      /\ snapshot[h][k] \in {NoEntry, consumers[k]}
      /\ k \in In(EnvOf(args[h])) =>
           k \in affected[h] \/ snapshot[h][k] # NoEntry

FreshOK(h) ==
  pc[h] \notin {"compare", "done"} => affected[h] = {} /\ willBreak[h] = {}

\* Who has been compared and not marked is not broken.
ClearedOK(h) ==
  Deploying(h) /\ args[h].version \in steady[h] =>
    \A k \in (standing[h] \cap affected[h]) \ willBreak[h] :
      consumers[k].version \in steady[h] \ {Latest, args[h].version} =>
        Relevant(entries[consumers[k].version], entries[args[h].version],
                 consumers[k].uses) = {}

\* Who has been marked is broken.
BrokenOK(h) ==
  Deploying(h) /\ args[h].version \in steady[h] =>
    \A k \in willBreak[h] \cap standing[h] :
      consumers[k].version \in steady[h] =>
        Relevant(entries[consumers[k].version], entries[args[h].version],
                 consumers[k].uses) # {}

\* A "safe" answer has left nobody out.
SafeOK(h) ==
  reply[h] = "safe" =>
    /\ pc[h] = "done"
    /\ standing[h] \cap In(EnvOf(args[h])) \subseteq affected[h] \ willBreak[h]

VerdictOK(h) ==
  /\ SeenOK(h) /\ DocOK(h) /\ ListOK(h) /\ FreshOK(h)
  /\ ClearedOK(h) /\ BrokenOK(h) /\ SafeOK(h)

VerdictInv == \A h \in Handlers : VerdictOK(h)

\* A call survives the steps of others: they can only shrink what stood
\* still, and what still stands has its old value.
LEMMA Undisturbed ==
  ASSUME NEW h \in Handlers, VerdictOK(h),
         pc'[h] = pc[h], args'[h] = args[h], newDoc'[h] = newDoc[h],
         snapshot'[h] = snapshot[h], affected'[h] = affected[h],
         willBreak'[h] = willBreak[h], reply'[h] = reply[h],
         standing'[h] \subseteq standing[h], steady'[h] \subseteq steady[h],
         \A k \in standing'[h] : consumers'[k] = consumers[k],
         \A k \in steady'[h] : entries'[k] = entries[k]
  PROVE  VerdictOK(h)'
<1> USE DEF VerdictOK
<1>1. SeenOK(h)' /\ DocOK(h)' /\ FreshOK(h)'
  BY DEF SeenOK, DocOK, FreshOK
<1>2. ListOK(h)'
  BY DEF ListOK
<1>3. ClearedOK(h)'
  BY DEF ClearedOK, Deploying
<1>4. BrokenOK(h)'
  BY DEF BrokenOK, Deploying
<1>5. SafeOK(h)'
  BY DEF SafeOK
<1> QED
  BY <1>1, <1>2, <1>3, <1>4, <1>5

\* A step that writes the consumer map or the registry, and moves no call.
LEMMA UndisturbedByTrack ==
  ASSUME NEW h \in Handlers, VerdictOK(h), Track, Inv,
         pc'[h] = pc[h], args'[h] = args[h], reply'[h] = reply[h],
         UNCHANGED deploy
  PROVE  VerdictOK(h)'
<1>1. /\ standing'[h] \subseteq standing[h] /\ steady'[h] \subseteq steady[h]
      /\ \A k \in standing'[h] : consumers'[k] = consumers[k]
      /\ \A k \in steady'[h] : entries'[k] = entries[k]
  BY DEF Track, Inv, TypeOK
<1> QED
  BY <1>1, Undisturbed DEF deploy

\* The invariant holds initially.
LEMMA VerdictInit == Init => VerdictInv
BY DEF Init, VerdictInv, VerdictOK, SeenOK, DocOK, ListOK, FreshOK, ClearedOK,
  BrokenOK, SafeOK, Deploying

\* One comparison: the consumer taken from the list is judged rightly.
LEMMA VerdictCompareOne ==
  ASSUME Inv, VerdictInv, NEW h \in Handlers, CompareOne(h)
  PROVE  VerdictOK(h)'
<1> USE DEF Inv, VerdictInv, VerdictOK
<1>1. PICK k \in ConsumerKeys :
        /\ snapshot[h][k] # NoEntry
        /\ snapshot' = [snapshot EXCEPT ![h][k] = NoEntry]
        /\ affected' = [affected EXCEPT ![h] = @ \cup {k}]
        /\ willBreak' =
             IF Breaks(entries[snapshot[h][k].version], newDoc[h],
                       snapshot[h][k], args[h].version)
               THEN [willBreak EXCEPT ![h] = @ \cup {k}]
               ELSE willBreak
  BY DEF CompareOne
<1>2. /\ pc[h] = "compare" /\ args[h].op = "deploy"
      /\ UNCHANGED <<consumers, entries, pc, reply, args, newDoc, standing,
                     steady>>
  BY DEF CompareOne, ControlOK, history
<1>3. /\ affected'[h] = affected[h] \cup {k}
      /\ \A j \in ConsumerKeys :
           snapshot'[h][j] = IF j = k THEN NoEntry ELSE snapshot[h][j]
      /\ willBreak'[h] \in {willBreak[h], willBreak[h] \cup {k}}
      /\ k \in willBreak'[h] \ willBreak[h] =>
           Breaks(entries[snapshot[h][k].version], newDoc[h], snapshot[h][k],
                  args[h].version)
      /\ k \notin willBreak'[h] =>
           ~Breaks(entries[snapshot[h][k].version], newDoc[h], snapshot[h][k],
                   args[h].version)
  BY <1>1 DEF TypeOK
<1>4. k \in standing[h] => snapshot[h][k] = consumers[k]
  BY <1>1, <1>2 DEF ListOK
<1>5. SeenOK(h)' /\ DocOK(h)' /\ FreshOK(h)'
  BY <1>2 DEF SeenOK, DocOK, FreshOK
<1>6. ListOK(h)'
  BY <1>2, <1>3 DEF ListOK, TypeOK
<1>7. args[h].version \in steady[h] => newDoc[h] = entries[args[h].version]
  BY <1>2 DEF DocOK
<1>8. ASSUME k \in standing[h], k \notin willBreak'[h],
             args[h].version \in steady[h],
             consumers[k].version \in steady[h] \ {Latest, args[h].version}
      PROVE  Relevant(entries[consumers[k].version], entries[args[h].version],
                      consumers[k].uses) = {}
  BY <1>3, <1>4, <1>7, <1>8 DEF Breaks
<1>9. ASSUME k \in standing[h], k \in willBreak'[h] \ willBreak[h],
             args[h].version \in steady[h], consumers[k].version \in steady[h]
      PROVE  Relevant(entries[consumers[k].version], entries[args[h].version],
                      consumers[k].uses) # {}
  BY <1>3, <1>4, <1>7, <1>9 DEF Breaks, SeenOK
<1>10. ClearedOK(h)'
  <2> SUFFICES ASSUME args[h].version \in steady[h],
                      NEW j \in (standing[h] \cap affected'[h]) \ willBreak'[h],
                      consumers[j].version \in
                        steady[h] \ {Latest, args[h].version}
               PROVE  Relevant(entries[consumers[j].version],
                               entries[args[h].version], consumers[j].uses) = {}
    BY <1>2 DEF ClearedOK
  <2>1. CASE j = k
    BY <2>1, <1>8
  <2>2. CASE j # k
    BY <2>2, <1>2, <1>3 DEF ClearedOK, Deploying
  <2> QED
    BY <2>1, <2>2
<1>11. BrokenOK(h)'
  <2> SUFFICES ASSUME args[h].version \in steady[h],
                      NEW j \in willBreak'[h] \cap standing[h],
                      consumers[j].version \in steady[h]
               PROVE  Relevant(entries[consumers[j].version],
                               entries[args[h].version], consumers[j].uses) # {}
    BY <1>2 DEF BrokenOK
  <2>1. CASE j \in willBreak[h]
    BY <2>1, <1>2 DEF BrokenOK, Deploying
  <2>2. CASE j \notin willBreak[h]
    <3>1. j = k
      BY <2>2, <1>3
    <3> QED
      BY <3>1, <2>2, <1>9
  <2> QED
    BY <2>1, <2>2
<1>12. SafeOK(h)'
  BY <1>2 DEF SafeOK
<1> QED
  BY <1>5, <1>6, <1>10, <1>11, <1>12

\* A step of one handler that touches neither the map nor the registry
\* leaves the other calls alone.
LEMMA OthersUndisturbed ==
  ASSUME Inv, VerdictInv, NEW h \in Handlers, NEW g \in Handlers \ {h},
         \/ Begin(h) \/ Finish(h) \/ FindSchema(h) \/ CheckCap(h)
         \/ StorePut(h) \/ StoreDelete(h) \/ StoreFails(h)
         \/ FindNewVersion(h) \/ FallBack(h) \/ ListEnvironment(h)
         \/ CompareOne(h) \/ Conclude(h)
  PROVE  VerdictOK(g)'
<1> USE DEF Inv, TypeOK
<1>1. /\ pc'[g] = pc[g] /\ reply'[g] = reply[g]
  <2>1. CASE Begin(h)
    BY <2>1 DEF Begin, Goto
  <2>2. CASE ListEnvironment(h)
    <3>1. Return(h, "safe") \/ Goto(h, "compare")
      BY <2>2 DEF ListEnvironment
    <3> QED
      BY <3>1 DEF Goto, Return
  <2>3. CASE CompareOne(h)
    BY <2>3 DEF CompareOne
  <2> QED
    BY <2>1, <2>2, <2>3 DEF Finish, FindSchema, CheckCap, StorePut,
      StoreDelete, StoreFails, FindNewVersion, FallBack, Conclude, Goto, Return
<1>2. args'[g] = args[g]
  BY DEF Begin, Finish, FindSchema, CheckCap, StorePut, StoreDelete,
    StoreFails, FindNewVersion, FallBack, ListEnvironment, CompareOne, Conclude
<1>3. newDoc'[g] = newDoc[g] /\ snapshot'[g] = snapshot[g]
  <2>1. CASE ListEnvironment(h)
    <3>1. newDoc' = newDoc
      BY <2>1 DEF ListEnvironment
    <3>2. snapshot' = [snapshot EXCEPT ![h] =
                        [k \in ConsumerKeys |->
                          IF k \in In(EnvOf(args[h])) THEN consumers[k]
                                                      ELSE NoEntry]]
      BY <2>1 DEF ListEnvironment
    <3> QED
      BY <3>1, <3>2
  <2>2. CASE CompareOne(h)
    BY <2>2 DEF CompareOne
  <2> QED
    BY <2>1, <2>2 DEF Begin, Finish, FindSchema, CheckCap, StorePut,
      StoreDelete, StoreFails, FindNewVersion, FallBack, Conclude, deploy
<1>4. affected'[g] = affected[g] /\ willBreak'[g] = willBreak[g]
  <2>1. CASE CompareOne(h)
    BY <2>1 DEF CompareOne
  <2> QED
    BY <2>1 DEF Begin, Finish, FindSchema, CheckCap, StorePut, StoreDelete,
      StoreFails, FindNewVersion, FallBack, ListEnvironment, Conclude, deploy
<1>5. /\ standing'[g] = standing[g] /\ steady'[g] = steady[g]
      /\ consumers' = consumers /\ entries' = entries
  BY DEF Begin, Finish, FindSchema, CheckCap, StorePut, StoreDelete,
    StoreFails, FindNewVersion, FallBack, ListEnvironment, CompareOne, Conclude,
    history
<1> QED
  BY <1>1, <1>2, <1>3, <1>4, <1>5, Undisturbed DEF VerdictInv

\* Every step preserves the invariant.
LEMMA VerdictNext == Inv /\ Inv' /\ VerdictInv /\ [Next]_vars => VerdictInv'
<1> SUFFICES ASSUME Inv, Inv', VerdictInv, [Next]_vars PROVE VerdictInv'
  OBVIOUS
<1> USE DEF Inv, VerdictInv
<1>1. ASSUME NEW h \in Handlers, Begin(h) PROVE VerdictInv'
  <2>1. /\ affected'[h] = {} /\ willBreak'[h] = {}
        /\ pc'[h] \in {"remove", "lookup"} /\ reply'[h] = reply[h]
        /\ reply[h] # "safe"
        /\ standing'[h] = Registered
        /\ steady'[h] = {k \in Keys : entries[k] # NoDoc}
        /\ consumers' = consumers /\ entries' = entries
    <3>1. affected[h] = {} /\ willBreak[h] = {} /\ reply[h] # "safe"
      BY <1>1 DEF Begin, VerdictOK, FreshOK, SafeOK
    <3>2. pc'[h] \in {"remove", "lookup"}
      BY <1>1 DEF Begin, Goto, TypeOK
    <3>3. UNCHANGED <<affected, willBreak, reply, consumers, entries>>
      BY <1>1 DEF Begin, Goto, deploy
    <3>4. standing \in [Handlers -> SUBSET ConsumerKeys]
      BY DEF TypeOK
    <3>5. standing'[h] = Registered
      BY <1>1, <3>4 DEF Begin
    <3>6. steady \in [Handlers -> SUBSET Keys]
      BY DEF TypeOK
    <3>7. steady'[h] = {k \in Keys : entries[k] # NoDoc}
      BY <1>1, <3>6 DEF Begin
    <3> QED
      BY <3>1, <3>2, <3>3, <3>5, <3>7
  <2>2. SeenOK(h)' /\ DocOK(h)' /\ ListOK(h)' /\ SafeOK(h)'
    BY <2>1 DEF SeenOK, DocOK, ListOK, SafeOK, Registered
  <2>3. ClearedOK(h)' /\ BrokenOK(h)' /\ FreshOK(h)'
    BY <2>1 DEF ClearedOK, BrokenOK, FreshOK
  <2> QED
    BY <1>1, <2>2, <2>3, OthersUndisturbed DEF VerdictOK
<1>2. ASSUME NEW h \in Handlers, Finish(h) PROVE VerdictInv'
  <2>1. /\ pc'[h] = "idle" /\ reply'[h] = "none"
        /\ affected'[h] = {} /\ willBreak'[h] = {}
        /\ standing'[h] = {} /\ steady'[h] = {}
    BY <1>2 DEF Finish, TypeOK
  <2>2. SeenOK(h)' /\ DocOK(h)' /\ ListOK(h)' /\ SafeOK(h)'
    BY <2>1 DEF SeenOK, DocOK, ListOK, SafeOK
  <2>3. ClearedOK(h)' /\ BrokenOK(h)' /\ FreshOK(h)'
    BY <2>1 DEF ClearedOK, BrokenOK, FreshOK, Deploying
  <2> QED
    BY <1>2, <2>2, <2>3, OthersUndisturbed DEF VerdictOK
<1>3. ASSUME NEW h \in Handlers, FindSchema(h) PROVE VerdictInv'
  <2>1. /\ affected'[h] = {} /\ willBreak'[h] = {}
        /\ pc'[h] \in {"done", "new", "cap"} /\ reply'[h] # "safe"
        /\ UNCHANGED <<consumers, entries, standing, steady>>
    BY <1>3 DEF FindSchema, Goto, Return, TypeOK, VerdictOK, FreshOK, SafeOK,
      deploy, history
  <2>2. SeenOK(h)' /\ DocOK(h)' /\ ListOK(h)' /\ SafeOK(h)'
    BY <2>1 DEF VerdictOK, SeenOK, DocOK, ListOK, SafeOK
  <2>3. ClearedOK(h)' /\ BrokenOK(h)' /\ FreshOK(h)'
    BY <2>1 DEF ClearedOK, BrokenOK, FreshOK
  <2> QED
    BY <1>3, <2>2, <2>3, OthersUndisturbed DEF VerdictOK
<1>4. ASSUME NEW h \in Handlers,
             CheckCap(h) \/ StorePut(h) \/ StoreDelete(h) \/ StoreFails(h)
      PROVE  VerdictInv'
  <2>1. /\ affected'[h] = {} /\ willBreak'[h] = {}
        /\ pc'[h] \in {"done", "put"} /\ reply'[h] # "safe"
        /\ UNCHANGED <<consumers, entries, standing, steady>>
    <3>1. /\ pc[h] \notin {"compare", "done"}
          /\ UNCHANGED <<affected, willBreak, consumers, entries, standing,
                         steady>>
      BY <1>4 DEF CheckCap, StorePut, StoreDelete, StoreFails, deploy, history
    <3>2. affected[h] = {} /\ willBreak[h] = {}
      BY <3>1 DEF VerdictOK, FreshOK
    <3>3. reply[h] # "safe"
      BY <3>1 DEF VerdictOK, SafeOK
    <3>4. Goto(h, "put") \/ Return(h, "refused") \/ Return(h, "ok")
      BY <1>4 DEF CheckCap, StorePut, StoreDelete, StoreFails
    <3>5. pc'[h] \in {"done", "put"} /\ reply'[h] # "safe"
      BY <3>3, <3>4 DEF Goto, Return, TypeOK
    <3> QED
      BY <3>1, <3>2, <3>5
  <2>2. SeenOK(h)' /\ DocOK(h)' /\ ListOK(h)' /\ SafeOK(h)'
    BY <2>1 DEF VerdictOK, SeenOK, DocOK, ListOK, SafeOK
  <2>3. ClearedOK(h)' /\ BrokenOK(h)' /\ FreshOK(h)'
    BY <2>1 DEF ClearedOK, BrokenOK, FreshOK
  <2> QED
    BY <1>4, <2>2, <2>3, OthersUndisturbed DEF VerdictOK
<1>5. ASSUME NEW h \in Handlers, Put(h) \/ Remove(h) PROVE VerdictInv'
  <2>1. Track /\ UNCHANGED <<args, deploy>>
    BY <1>5 DEF Put, Remove
  <2>2. /\ affected'[h] = {} /\ willBreak'[h] = {}
        /\ pc'[h] \in {"done", "store", "delete"} /\ reply'[h] # "safe"
    <3>1. affected[h] = {} /\ willBreak[h] = {} /\ reply[h] # "safe"
      BY <1>5 DEF Put, Remove, VerdictOK, FreshOK, SafeOK
    <3>2. CASE Put(h)
      BY <3>1, <3>2 DEF Put, Goto, Return, TypeOK, deploy
    <3>3. CASE Remove(h)
      BY <3>1, <3>3 DEF Remove, Goto, Return, TypeOK, deploy
    <3> QED
      BY <1>5, <3>2, <3>3
  <2>3. /\ \A k \in standing'[h] :
             k \in standing[h] /\ consumers'[k] = consumers[k]
        /\ \A k \in steady'[h] : k \in steady[h] /\ entries'[k] = entries[k]
    BY <2>1 DEF Track, TypeOK
  <2>4. SeenOK(h)' /\ DocOK(h)' /\ ListOK(h)' /\ SafeOK(h)'
    BY <2>2, <2>3 DEF VerdictOK, SeenOK, DocOK, ListOK, SafeOK
  <2>5. ClearedOK(h)' /\ BrokenOK(h)' /\ FreshOK(h)'
    BY <2>2 DEF ClearedOK, BrokenOK, FreshOK
  <2>6. ASSUME NEW g \in Handlers \ {h} PROVE VerdictOK(g)'
    <3>1. pc'[g] = pc[g] /\ reply'[g] = reply[g]
      BY <1>5 DEF Put, Remove, Goto, Return, TypeOK
    <3> QED
      BY <3>1, <2>1, UndisturbedByTrack
  <2> QED
    BY <2>4, <2>5, <2>6 DEF VerdictOK
<1>6. ASSUME NEW h \in Handlers, FindNewVersion(h) PROVE VerdictInv'
  <2>1. /\ affected'[h] = {} /\ willBreak'[h] = {} /\ reply'[h] # "safe"
        /\ newDoc'[h] = entries[args[h].version]
        /\ pc'[h] = IF newDoc'[h] = NoDoc THEN "fallback" ELSE "list"
        /\ UNCHANGED <<args, consumers, entries, standing, steady>>
    BY <1>6 DEF FindNewVersion, Goto, TypeOK, VerdictOK, FreshOK, SafeOK, history
  <2>2. SeenOK(h)' /\ DocOK(h)' /\ ListOK(h)' /\ SafeOK(h)'
    BY <2>1 DEF VerdictOK, SeenOK, DocOK, ListOK, SafeOK
  <2>3. ClearedOK(h)' /\ BrokenOK(h)' /\ FreshOK(h)'
    BY <2>1 DEF ClearedOK, BrokenOK, FreshOK
  <2> QED
    BY <1>6, <2>2, <2>3, OthersUndisturbed DEF VerdictOK
<1>7. ASSUME NEW h \in Handlers, FallBack(h) PROVE VerdictInv'
  <2>1. /\ affected'[h] = {} /\ willBreak'[h] = {} /\ reply'[h] # "safe"
        /\ args[h].version \notin steady[h]
        /\ pc'[h] \in {"done", "list"}
        /\ UNCHANGED <<args, consumers, entries, standing, steady>>
    <3>1. /\ affected[h] = {} /\ willBreak[h] = {} /\ reply[h] # "safe"
          /\ args[h].version \notin steady[h]
      BY <1>7 DEF FallBack, VerdictOK, DocOK, FreshOK, SafeOK
    <3> QED
      BY <1>7, <3>1 DEF FallBack, Goto, Return, TypeOK, history
  <2>2. SeenOK(h)' /\ DocOK(h)' /\ ListOK(h)' /\ SafeOK(h)'
    BY <2>1 DEF VerdictOK, SeenOK, DocOK, ListOK, SafeOK
  <2>3. ClearedOK(h)' /\ BrokenOK(h)' /\ FreshOK(h)'
    BY <2>1 DEF ClearedOK, BrokenOK, FreshOK
  <2> QED
    BY <1>7, <2>2, <2>3, OthersUndisturbed DEF VerdictOK
<1>8. ASSUME NEW h \in Handlers, ListEnvironment(h) PROVE VerdictInv'
  <2> DEFINE listed == [k \in ConsumerKeys |->
               IF k \in In(EnvOf(args[h])) THEN consumers[k] ELSE NoEntry]
  <2>1. /\ pc[h] = "list"
        /\ snapshot' = [snapshot EXCEPT ![h] = listed]
        /\ IF listed = NoConsumers THEN Return(h, "safe") ELSE Goto(h, "compare")
        /\ UNCHANGED <<args, consumers, entries, newDoc, affected, willBreak,
                       standing, steady>>
    BY <1>8 DEF ListEnvironment, history
  <2>2. \A k \in standing[h] :
          /\ k \in ConsumerKeys
          /\ listed[k] \in {NoEntry, consumers[k]}
          /\ k \in In(EnvOf(args[h])) => listed[k] # NoEntry
    BY DEF TypeOK, VerdictOK, SeenOK
  <2>3. listed = NoConsumers => standing[h] \cap In(EnvOf(args[h])) = {}
    BY <2>2 DEF NoConsumers
  <2> HIDE DEF listed
  <2>4. /\ affected'[h] = {} /\ willBreak'[h] = {}
        /\ snapshot'[h] = listed
        /\ reply[h] # "safe"
        /\ \/ /\ listed = NoConsumers /\ pc'[h] = "done"
           \/ /\ pc'[h] = "compare" /\ reply'[h] = reply[h]
    <3>1. affected'[h] = {} /\ willBreak'[h] = {} /\ reply[h] # "safe"
      BY <2>1 DEF VerdictOK, FreshOK, SafeOK
    <3>2. snapshot'[h] = listed
      BY <2>1 DEF TypeOK
    <3>3. CASE listed = NoConsumers
      BY <2>1, <3>1, <3>2, <3>3 DEF Return, TypeOK
    <3>4. CASE listed # NoConsumers
      BY <2>1, <3>1, <3>2, <3>4 DEF Goto, TypeOK
    <3> QED
      BY <3>3, <3>4
  <2>5. SeenOK(h)' /\ DocOK(h)'
    <3>1. SeenOK(h) /\ DocOK(h) /\ VerdictOK(h)
      BY DEF VerdictOK
    <3>2. SeenOK(h)'
      BY <2>1, <3>1 DEF SeenOK
    <3>3. DocOK(h)'
      BY <2>1, <2>4, <3>1 DEF DocOK
    <3> QED
      BY <3>2, <3>3
  <2>6. ListOK(h)'
    BY <2>1, <2>2, <2>4 DEF ListOK
  <2>7. SafeOK(h)'
    BY <2>1, <2>3, <2>4 DEF SafeOK
  <2>8. ClearedOK(h)' /\ BrokenOK(h)' /\ FreshOK(h)'
    BY <2>4 DEF ClearedOK, BrokenOK, FreshOK
  <2> QED
    BY <1>8, <2>5, <2>6, <2>7, <2>8, OthersUndisturbed DEF VerdictOK
<1>9. ASSUME NEW h \in Handlers, CompareOne(h) PROVE VerdictInv'
  BY <1>9, VerdictCompareOne, OthersUndisturbed
<1>10. ASSUME NEW h \in Handlers, Conclude(h) PROVE VerdictInv'
  <2>1. /\ pc[h] = "compare" /\ pc'[h] = "done"
        /\ snapshot[h] = NoConsumers
        /\ reply'[h] = "safe" => willBreak[h] = {}
        /\ UNCHANGED <<args, consumers, entries, deploy, standing, steady>>
    BY <1>10 DEF Conclude, Return, TypeOK, history
  <2>2. SeenOK(h)' /\ DocOK(h)' /\ ListOK(h)' /\ FreshOK(h)'
    BY <2>1 DEF VerdictOK, SeenOK, DocOK, ListOK, FreshOK
  <2>3. ClearedOK(h)' /\ BrokenOK(h)'
    BY <2>1 DEF VerdictOK, ClearedOK, BrokenOK, Deploying, deploy
  <2>4. \A k \in standing[h] : snapshot[h][k] = NoEntry
    BY <2>1 DEF TypeOK, NoConsumers
  <2>5. SafeOK(h)'
    BY <2>1, <2>4 DEF VerdictOK, ListOK, SafeOK, deploy
  <2> QED
    BY <1>10, <2>2, <2>3, <2>5, OthersUndisturbed DEF VerdictOK
<1>11. CASE (\E k \in Keys, d \in Docs : Set(k, d)) \/ (\E k \in Keys : Forget(k))
  <2>1. Track /\ UNCHANGED <<pc, args, deploy, reply>>
    BY <1>11 DEF Set, Forget
  <2> QED
    BY <2>1, UndisturbedByTrack
<1>12. CASE Restart
  BY <1>12 DEF Restart, VerdictOK, SeenOK, DocOK, ListOK, FreshOK, ClearedOK,
    BrokenOK, SafeOK, Deploying
<1>13. CASE UNCHANGED vars
  BY <1>13, Undisturbed DEF vars, deploy, history
<1> QED
  BY <1>1, <1>2, <1>3, <1>4, <1>5, <1>6, <1>7, <1>8, <1>9, <1>10, <1>11,
     <1>12, <1>13
  DEF Next, Serve

\* The invariant holds in every reachable state.
LEMMA VerdictAlways == Spec => []VerdictInv
BY VerdictInit, VerdictNext, InvAlways, PTL DEF Spec

\* CanIDeploy never answers "safe" while breaking a consumer that stood all
\* through the call, for any number of racing registrations and versions.
THEOREM SafeVerdict == Spec => []SafeVerdictIsSound
<1>1. Inv /\ VerdictInv => SafeVerdictIsSound
  BY DEF VerdictInv, VerdictOK, SafeOK, ClearedOK, SafeVerdictIsSound, Deploying
<1> QED
  BY <1>1, InvAlways, VerdictAlways, PTL

\* Nobody who stood all through the call is left out of a "safe" answer.
THEOREM SafeComplete == Spec => []SafeVerdictIsComplete
<1>1. VerdictInv => SafeVerdictIsComplete
  BY DEF VerdictInv, VerdictOK, SafeOK, SafeVerdictIsComplete, Deploying
<1> QED
  BY <1>1, VerdictAlways, PTL

\* A breakage reported about things that stood still is real.
THEOREM BreakageReal == Spec => []BreakageIsReal
<1>1. VerdictInv => BreakageIsReal
  BY DEF VerdictInv, VerdictOK, BrokenOK, BreakageIsReal, Deploying
<1> QED
  BY <1>1, VerdictAlways, PTL

=============================================================================
