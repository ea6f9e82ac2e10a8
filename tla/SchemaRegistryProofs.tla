------------------------ MODULE SchemaRegistryProofs ------------------------
(***************************************************************************)
(* Proofs about SchemaRegistry for every set of schemas, calls, documents  *)
(* and requests, every backend and every plugin.                           *)
(*                                                                         *)
(* CallOK says what a handler's program counter implies about its locals.  *)
(* It is what makes TypeOK inductive, and the other invariants rest on it. *)
(***************************************************************************)
EXTENDS SchemaRegistry, TLAPS

Writing == {"setBare", "setRequested", "setVersioned", "mirror", "persist",
            "respond"}

Looking == {"lookup", "ask", "read"}

CallOK ==
  \A c \in Calls :
    /\ pc[c] # "idle" => args[c] \in Request
    /\ pc[c] = "idle" => ~Register(c) /\ args[c].op # "fixture"
    /\ pc[c] = "lock" => Register(c) /\ args[c].check
    /\ pc[c] \in Looking /\ Register(c) => args[c].check
    /\ pc[c] \in Writing => entry[c] \in Docs
    /\ pc[c] \in Writing /\ source[c] = "request" =>
         Register(c) /\ entry[c] = args[c].doc
    /\ pc[c] \in Writing /\ Register(c) /\ source[c] # "request" =>
         args[c].check
    /\ pc[c] = "setRequested" =>
         PluginBound /\ source[c] = "plugin" /\ args[c].version \in Versions
    /\ pc[c] \in {"persist", "respond"} => source[c] = "request"
    /\ pc[c] = "generate" => args[c].op = "fixture"

LatestRowsExist ==
  \A s \in Schemas : \A v \in latestRows[s] : rows[s][v] # NoDoc

Inv == TypeOK /\ CallOK /\ LatestRowsExist

-----------------------------------------------------------------------------
(* Facts about requests                                                    *)

\* The fields of a request have the types the handlers rely on.
LEMMA RequestFields ==
  ASSUME NEW r \in Request
  PROVE  /\ r.op \in {"register", "get", "fixture"}
         /\ r.schema \in Schemas
         /\ r.version \in Keys
         /\ r.check \in BOOLEAN
         /\ r.op = "register" => r.doc \in Docs /\ r.version = Latest
         /\ r.op # "register" => r.check = FALSE
         /\ r.op = "fixture" => r.version = Latest
  BY DEF Request, Keys

\* The request of a call that has not started names no registration.
LEMMA NoRequestFields ==
  NoRequest.op = "none"
  BY DEF NoRequest

-----------------------------------------------------------------------------

\* Initially every handler is idle and every container empty.
LEMMA InitInv == Init => Inv
  BY NoRequestFields
  DEF Init, Inv, TypeOK, CallOK, LatestRowsExist, Register, EmptyCache, NoRows,
      Keys, Steps, Replies, Writing, Looking

\* A request in flight has the fields of a request.
LEMMA CallFields ==
  ASSUME Inv, NEW c \in Calls, pc[c] # "idle"
  PROVE  /\ args[c] \in Request
         /\ args[c].schema \in Schemas
         /\ args[c].version \in Keys
         /\ args[c].op \in {"register", "get", "fixture"}
         /\ args[c].op = "fixture" => args[c].version = Latest
         /\ Register(c) => args[c].doc \in Docs /\ args[c].version = Latest
  <1>1. args[c] \in Request
    BY DEF Inv, CallOK
  <1>2. QED
    BY <1>1, RequestFields DEF Register

\* What a handler is writing is filed under a version.
LEMMA LabelTyped ==
  ASSUME Inv, NEW c \in Calls, pc[c] \in Writing
  PROVE  Label(c) \in Versions
  <1>1. args[c].version \in Keys /\ entry[c] \in Docs
    BY CallFields DEF Inv, CallOK, Writing
  <1>2. QED
    BY <1>1, DocsAssumption DEF Label, Keys

\* The ways out of Mirror.
LEMMA MirrorWays ==
  ASSUME NEW c \in Calls, Mirror(c)
  PROVE  /\ pc[c] = "mirror"
         /\ UNCHANGED <<cache, tracked, disk, args, fault, past>>
         /\ \/ \E l \in {"respond", "persist", "generate"} :
                  Goto(c, l) /\ UNCHANGED <<compatLock, locals, reply>>
            \/ Register(c) /\ Commit(c, entry[c]) /\ UNCHANGED <<compatLock, reply>>
            \/ args[c].op = "get" /\ Return(c, "ok") /\ UNCHANGED locals
  BY DEF Mirror

\* Writing a version's key leaves the bare one alone.
LEMMA VersionLeavesBare ==
  ASSUME Inv, NEW c \in Calls, SetVersioned(c)
  PROVE  \A s \in Schemas : cache'[s][Latest] = cache[s][Latest]
  <1>1. Label(c) \in Versions
    BY LabelTyped DEF SetVersioned, Writing
  <1>2. Label(c) # Latest
    BY <1>1, DocsAssumption
  <1>3. QED
    BY <1>2 DEF SetVersioned, WriteVersion, Inv, TypeOK

\* A crossing is of a version, over a schema.
LEMMA CrossTyped ==
  ASSUME Inv, NEW c \in Calls, pc[c] \in Writing, Cross(c)
  PROVE  crossed' \in [Schemas -> SUBSET Versions]
  <1>1. Label(c) \in Versions
    BY LabelTyped
  <1>2. crossed \in [Schemas -> SUBSET Versions]
    BY DEF Inv, TypeOK
  <1>3. QED
    BY <1>1, <1>2 DEF Cross

-----------------------------------------------------------------------------

\* The types of a handler's local variables.
LocalsTyped ==
  /\ entry \in [Calls -> Docs \cup {NoDoc}]
  /\ prior \in [Calls -> Docs \cup {NoDoc}]
  /\ source \in [Calls -> {"none", "cache", "plugin", "store", "request"}]
  /\ drawn \in [Calls -> Docs \cup {NoDoc}]

\* Moving on, answering and committing keep the types of what they set.
LEMMA GotoTyped ==
  ASSUME TypeOK, NEW c \in Calls, NEW l \in Steps, Goto(c, l)
  PROVE  pc' \in [Calls -> Steps]
BY DEF TypeOK, Goto

LEMMA ReturnTyped ==
  ASSUME TypeOK, NEW c \in Calls, NEW r \in Replies, Return(c, r)
  PROVE  /\ pc' \in [Calls -> Steps]
         /\ reply' \in [Calls -> Replies]
         /\ compatLock' \in [Schemas -> Calls \cup {Free}]
  <1>1. pc' \in [Calls -> Steps]
    BY DEF TypeOK, Return, Goto, Steps
  <1>2. reply' \in [Calls -> Replies]
    BY DEF TypeOK, Return
  <1>3. compatLock' \in [Schemas -> Calls \cup {Free}]
    BY DEF TypeOK, Return, Unlock
  <1> QED
    BY <1>1, <1>2, <1>3

LEMMA CommitTyped ==
  ASSUME TypeOK, NEW c \in Calls, NEW p \in Docs \cup {NoDoc},
         args[c].doc \in Docs, Commit(c, p)
  PROVE  LocalsTyped' /\ pc' \in [Calls -> Steps]
BY DEF TypeOK, LocalsTyped, Commit, Take, Goto, Steps

\* A lookup in the cache keeps the types, whichever way it turns.
LEMMA LookupTyped ==
  ASSUME Inv, NEW c \in Calls, LookupCache(c)
  PROVE  TypeOK'
  <1>0. TypeOK /\ LocalsTyped /\ pc \in [Calls -> Steps]
        /\ reply \in [Calls -> Replies]
        /\ compatLock \in [Schemas -> Calls \cup {Free}]
    BY DEF Inv, TypeOK, LocalsTyped
  <1> DEFINE Typed == /\ LocalsTyped' /\ pc' \in [Calls -> Steps]
                      /\ reply' \in [Calls -> Replies]
                      /\ compatLock' \in [Schemas -> Calls \cup {Free}]
  <1> SUFFICES Typed
    <2>1. UNCHANGED <<memory, disk, args, fault, past>>
      BY DEF LookupCache
    <2> QED
      BY <1>0, <2>1 DEF TypeOK, LocalsTyped, memory, disk, past
  <1>1. /\ args[c] \in Request
        /\ args[c].schema \in Schemas
        /\ args[c].version \in Keys
        /\ Register(c) => args[c].doc \in Docs
    BY CallFields DEF LookupCache
  <1> DEFINE hit == cache[args[c].schema][args[c].version]
  <1>2. hit \in Docs \cup {NoDoc}
    BY <1>0, <1>1 DEF TypeOK
  <1>3. \/ Goto(c, "ask") /\ UNCHANGED <<compatLock, locals, reply>>
        \/ Register(c) /\ Commit(c, hit) /\ UNCHANGED <<compatLock, reply>>
        \/ /\ Take(c, hit, "cache") /\ Return(c, "ok")
           /\ UNCHANGED <<prior, drawn>>
        \/ /\ Take(c, hit, "cache") /\ Goto(c, "generate")
           /\ UNCHANGED <<compatLock, prior, drawn, reply>>
    BY DEF LookupCache
  <1> HIDE DEF hit
  <1>4. CASE Goto(c, "ask") /\ UNCHANGED <<compatLock, locals, reply>>
    BY <1>0, <1>4, GotoTyped DEF LocalsTyped, locals, Steps
  <1>5. CASE Register(c) /\ Commit(c, hit) /\ UNCHANGED <<compatLock, reply>>
    BY <1>0, <1>1, <1>2, <1>5, CommitTyped
  <1>6. CASE /\ Take(c, hit, "cache") /\ Return(c, "ok")
             /\ UNCHANGED <<prior, drawn>>
    <2>1. LocalsTyped'
      BY <1>0, <1>2, <1>6 DEF LocalsTyped, Take
    <2> QED
      BY <1>0, <1>6, <2>1, ReturnTyped DEF Replies
  <1>7. CASE /\ Take(c, hit, "cache") /\ Goto(c, "generate")
             /\ UNCHANGED <<compatLock, prior, drawn, reply>>
    <2>1. LocalsTyped'
      BY <1>0, <1>2, <1>7 DEF LocalsTyped, Take
    <2> QED
      BY <1>0, <1>7, <2>1, GotoTyped DEF Steps
  <1> QED
    BY <1>3, <1>4, <1>5, <1>6, <1>7

\* So does a lookup that has no store to turn to.
LEMMA NoStoreTyped ==
  ASSUME Inv, NEW c \in Calls, NoStore(c)
  PROVE  TypeOK'
  <1>0. TypeOK /\ LocalsTyped /\ pc \in [Calls -> Steps]
        /\ reply \in [Calls -> Replies]
        /\ compatLock \in [Schemas -> Calls \cup {Free}]
    BY DEF Inv, TypeOK, LocalsTyped
  <1> DEFINE Typed == /\ LocalsTyped' /\ pc' \in [Calls -> Steps]
                      /\ reply' \in [Calls -> Replies]
                      /\ compatLock' \in [Schemas -> Calls \cup {Free}]
  <1> SUFFICES Typed
    <2>1. UNCHANGED <<memory, disk, args, fault, past>>
      BY DEF NoStore
    <2> QED
      BY <1>0, <2>1 DEF TypeOK, LocalsTyped, memory, disk, past
  <1>1. /\ args[c] \in Request
        /\ args[c].schema \in Schemas
        /\ args[c].version \in Keys
        /\ Register(c) => args[c].doc \in Docs
    BY CallFields DEF NoStore
  <1>2. CASE Register(c) /\ Commit(c, NoDoc) /\ UNCHANGED <<compatLock, reply>>
    BY <1>0, <1>1, <1>2, CommitTyped
  <1>3. CASE GiveUp(c) /\ UNCHANGED locals
    <2>1. \E r \in Replies : Return(c, r)
      BY <1>3 DEF GiveUp, Replies
    <2>2. LocalsTyped'
      BY <1>0, <1>3 DEF LocalsTyped, locals
    <2> QED
      BY <1>0, <2>1, <2>2, ReturnTyped
  <1> QED
    BY <1>2, <1>3 DEF NoStore

\* So does the registration with the generator.
LEMMA MirrorTyped ==
  ASSUME Inv, NEW c \in Calls, Mirror(c)
  PROVE  TypeOK'
  <1>0. TypeOK /\ LocalsTyped /\ pc \in [Calls -> Steps]
        /\ reply \in [Calls -> Replies]
        /\ compatLock \in [Schemas -> Calls \cup {Free}]
    BY DEF Inv, TypeOK, LocalsTyped
  <1> DEFINE Typed == /\ LocalsTyped' /\ pc' \in [Calls -> Steps]
                      /\ reply' \in [Calls -> Replies]
                      /\ compatLock' \in [Schemas -> Calls \cup {Free}]
  <1> SUFFICES Typed
    <2>1. /\ generator' = [generator EXCEPT ![args[c].schema] = entry[c]]
          /\ UNCHANGED <<cache, tracked, disk, args, fault, past>>
      BY DEF Mirror
    <2>2. generator' \in [Schemas -> Docs \cup {NoDoc}]
      BY <1>0, <2>1 DEF TypeOK, LocalsTyped
    <2> QED
      BY <1>0, <2>1, <2>2 DEF TypeOK, LocalsTyped, disk, past
  <1>1. /\ args[c] \in Request
        /\ args[c].schema \in Schemas
        /\ args[c].version \in Keys
        /\ Register(c) => args[c].doc \in Docs
    BY CallFields DEF Mirror
  <1>2. CASE /\ \E l \in Steps : Goto(c, l)
             /\ UNCHANGED <<compatLock, locals, reply>>
    BY <1>0, <1>2, GotoTyped DEF LocalsTyped, locals
  <1>3. CASE Register(c) /\ Commit(c, entry[c]) /\ UNCHANGED <<compatLock, reply>>
    <2>1. entry[c] \in Docs \cup {NoDoc}
      BY <1>0 DEF LocalsTyped
    <2> QED
      BY <1>0, <1>1, <1>3, <2>1, CommitTyped
  <1>4. CASE Return(c, "ok") /\ UNCHANGED locals
    <2>1. LocalsTyped'
      BY <1>0, <1>4 DEF LocalsTyped, locals
    <2> QED
      BY <1>0, <1>4, <2>1, ReturnTyped DEF Replies
  <1> QED
    BY <1>2, <1>3, <1>4 DEF Mirror, Steps

\* Every step of every handler, and of the environment, keeps Inv.
LEMMA NextInv == Inv /\ [Next]_vars => Inv'
  <1> SUFFICES ASSUME Inv, [Next]_vars
               PROVE  Inv'
    OBVIOUS
  <1> USE DocsAssumption, TrafficAssumption, DeploymentAssumption
  <1> USE DEF TypeOK, CallOK, LatestRowsExist, Register, Writing, Looking,
              Keys, memory, disk, locals, past
  <1>1. ASSUME NEW c \in Calls, Begin(c)
        PROVE  Inv'
    <2>1. PICK r \in Traffic :
            /\ args' = [args EXCEPT ![c] = r]
            /\ \/ /\ r.op # "register"
                  /\ Goto(c, "lookup")
                  /\ UNCHANGED <<entry, source>>
               \/ /\ r.op = "register" /\ r.check
                  /\ Goto(c, "lock")
                  /\ UNCHANGED <<entry, source>>
               \/ /\ r.op = "register" /\ ~r.check
                  /\ Goto(c, "setBare")
                  /\ Take(c, r.doc, "request")
      BY <1>1 DEF Begin
    <2>2. /\ r \in Request
          /\ r.op = "register" => r.doc \in Docs
          /\ r.check \in BOOLEAN
      BY RequestFields
    <2>3. UNCHANGED <<memory, compatLock, disk, prior, drawn, reply, fault, past>>
      BY <1>1 DEF Begin
    <2>4. TypeOK'
      BY <2>1, <2>2, <2>3 DEF Inv, Goto, Take, Steps
    <2>5. CallOK'
      BY <2>1, <2>2, <2>3 DEF Inv, Goto, Take
    <2>6. LatestRowsExist'
      BY <2>3 DEF Inv
    <2>7. QED
      BY <2>4, <2>5, <2>6 DEF Inv
  <1>2. ASSUME NEW c \in Calls, Reject(c)
        PROVE  Inv'
    <2>1. PICK r \in Request : args' = [args EXCEPT ![c] = r]
      BY <1>2 DEF Reject
    <2>2. TypeOK'
      BY <1>2, <2>1 DEF Inv, Reject, Return, Unlock, Goto, Steps, Replies
    <2>3. CallOK'
      BY <1>2, <2>1 DEF Inv, Reject, Return, Unlock, Goto
    <2>4. LatestRowsExist'
      BY <1>2 DEF Inv, Reject
    <2>5. QED
      BY <2>2, <2>3, <2>4 DEF Inv
  <1>3. ASSUME NEW c \in Calls, AcquireCompatLock(c)
        PROVE  Inv'
    <2>1. /\ args[c] \in Request
          /\ args[c].schema \in Schemas
          /\ args[c].version \in Keys
          /\ args[c].op \in {"register", "get", "fixture"}
          /\ args[c].op = "fixture" => args[c].version = Latest
          /\ Register(c) => args[c].doc \in Docs /\ args[c].version = Latest
      BY <1>3, CallFields DEF AcquireCompatLock
    <2>2. TypeOK'
      BY <1>3, <2>1 DEF Inv, AcquireCompatLock, Goto, Steps, Replies
    <2>3. CallOK'
      BY <1>3, <2>1 DEF Inv, AcquireCompatLock, Goto
    <2>4. LatestRowsExist'
      BY <1>3, <2>1 DEF Inv, AcquireCompatLock, Goto
    <2>5. QED
      BY <2>2, <2>3, <2>4 DEF Inv
  <1>4. ASSUME NEW c \in Calls, LookupCache(c)
        PROVE  Inv'
    <2>1. /\ args[c] \in Request
          /\ args[c].schema \in Schemas
          /\ args[c].version \in Keys
          /\ args[c].op \in {"register", "get", "fixture"}
          /\ args[c].op = "fixture" => args[c].version = Latest
          /\ Register(c) => args[c].doc \in Docs /\ args[c].version = Latest
      BY <1>4, CallFields DEF LookupCache
    <2>2. cache[args[c].schema][args[c].version] \in Docs \cup {NoDoc}
      BY <2>1 DEF Inv
    <2>3. TypeOK'
      BY <1>4, LookupTyped
    <2>4. CallOK'
      BY <1>4, <2>1, <2>2, <2>3 DEF Inv, LookupCache, Goto, Take, Commit, Return, Unlock
    <2>5. LatestRowsExist'
      BY <1>4, <2>1, <2>2, <2>3 DEF Inv, LookupCache, Goto, Take, Commit, Return, Unlock
    <2>6. QED
      BY <2>3, <2>4, <2>5 DEF Inv
  <1>5. ASSUME NEW c \in Calls, PluginSilent(c)
        PROVE  Inv'
    <2>1. /\ args[c] \in Request
          /\ args[c].schema \in Schemas
          /\ args[c].version \in Keys
          /\ args[c].op \in {"register", "get", "fixture"}
          /\ args[c].op = "fixture" => args[c].version = Latest
          /\ Register(c) => args[c].doc \in Docs /\ args[c].version = Latest
      BY <1>5, CallFields DEF PluginSilent
    <2>2. TypeOK'
      BY <1>5, <2>1 DEF Inv, PluginSilent, Goto, Steps, Replies
    <2>3. CallOK'
      BY <1>5, <2>1 DEF Inv, PluginSilent, Goto
    <2>4. LatestRowsExist'
      BY <1>5, <2>1 DEF Inv, PluginSilent, Goto
    <2>5. QED
      BY <2>2, <2>3, <2>4 DEF Inv
  <1>6. ASSUME NEW c \in Calls, PluginFails(c)
        PROVE  Inv'
    <2>1. /\ args[c] \in Request
          /\ args[c].schema \in Schemas
          /\ args[c].version \in Keys
          /\ args[c].op \in {"register", "get", "fixture"}
          /\ args[c].op = "fixture" => args[c].version = Latest
          /\ Register(c) => args[c].doc \in Docs /\ args[c].version = Latest
      BY <1>6, CallFields DEF PluginFails
    <2>2. TypeOK'
      BY <1>6, <2>1 DEF Inv, PluginFails, GiveUp, Return, Unlock, Goto, Steps, Replies
    <2>3. CallOK'
      BY <1>6, <2>1 DEF Inv, PluginFails, GiveUp, Return, Unlock, Goto
    <2>4. LatestRowsExist'
      BY <1>6, <2>1 DEF Inv, PluginFails, GiveUp, Return, Unlock, Goto
    <2>5. QED
      BY <2>2, <2>3, <2>4 DEF Inv
  <1>7. ASSUME NEW c \in Calls, PluginAnswers(c)
        PROVE  Inv'
    <2>1. /\ args[c] \in Request
          /\ args[c].schema \in Schemas
          /\ args[c].version \in Keys
          /\ args[c].op \in {"register", "get", "fixture"}
          /\ args[c].op = "fixture" => args[c].version = Latest
          /\ Register(c) => args[c].doc \in Docs /\ args[c].version = Latest
      BY <1>7, CallFields DEF PluginAnswers
    <2>2. PICK d \in Docs :
            /\ entry' = [entry EXCEPT ![c] = d]
            /\ source' = [source EXCEPT ![c] = "plugin"]
      BY <1>7, <2>1 DEF PluginAnswers, Take
    <2>3. TypeOK'
      BY <1>7, <2>1, <2>2 DEF Inv, PluginAnswers, Take, Goto, Steps, Replies
    <2>4. CallOK'
      BY <1>7, <2>1, <2>2 DEF Inv, PluginAnswers, Take, Goto
    <2>5. LatestRowsExist'
      BY <1>7, <2>1, <2>2 DEF Inv, PluginAnswers, Take, Goto
    <2>6. QED
      BY <2>3, <2>4, <2>5 DEF Inv
  <1>8. ASSUME NEW c \in Calls, NoStore(c)
        PROVE  Inv'
    <2>1. /\ args[c] \in Request
          /\ args[c].schema \in Schemas
          /\ args[c].version \in Keys
          /\ args[c].op \in {"register", "get", "fixture"}
          /\ args[c].op = "fixture" => args[c].version = Latest
          /\ Register(c) => args[c].doc \in Docs /\ args[c].version = Latest
      BY <1>8, CallFields DEF NoStore
    <2>2. TypeOK'
      BY <1>8, NoStoreTyped
    <2>3. CallOK'
      BY <1>8, <2>1, <2>2 DEF Inv, NoStore, Commit, Take, GiveUp, Return, Unlock, Goto
    <2>4. LatestRowsExist'
      BY <1>8, <2>1, <2>2 DEF Inv, NoStore, Commit, Take, GiveUp, Return, Unlock, Goto
    <2>5. QED
      BY <2>2, <2>3, <2>4 DEF Inv
  <1>9. ASSUME NEW c \in Calls, ReadMisses(c)
        PROVE  Inv'
    <2>1. /\ args[c] \in Request
          /\ args[c].schema \in Schemas
          /\ args[c].version \in Keys
          /\ args[c].op \in {"register", "get", "fixture"}
          /\ args[c].op = "fixture" => args[c].version = Latest
          /\ Register(c) => args[c].doc \in Docs /\ args[c].version = Latest
      BY <1>9, CallFields DEF ReadMisses
    <2>2. TypeOK'
      BY <1>9, <2>1 DEF Inv, ReadMisses, GiveUp, Return, Unlock, Goto, Steps, Replies
    <2>3. CallOK'
      BY <1>9, <2>1 DEF Inv, ReadMisses, GiveUp, Return, Unlock, Goto
    <2>4. LatestRowsExist'
      BY <1>9, <2>1 DEF Inv, ReadMisses, GiveUp, Return, Unlock, Goto
    <2>5. QED
      BY <2>2, <2>3, <2>4 DEF Inv
  <1>10. ASSUME NEW c \in Calls, ReadFails(c)
        PROVE  Inv'
    <2>1. /\ args[c] \in Request
          /\ args[c].schema \in Schemas
          /\ args[c].version \in Keys
          /\ args[c].op \in {"register", "get", "fixture"}
          /\ args[c].op = "fixture" => args[c].version = Latest
          /\ Register(c) => args[c].doc \in Docs /\ args[c].version = Latest
      BY <1>10, CallFields DEF ReadFails
    <2>2. TypeOK'
      BY <1>10, <2>1 DEF Inv, ReadFails, GiveUp, Return, Unlock, Goto, Steps, Replies
    <2>3. CallOK'
      BY <1>10, <2>1 DEF Inv, ReadFails, GiveUp, Return, Unlock, Goto
    <2>4. LatestRowsExist'
      BY <1>10, <2>1 DEF Inv, ReadFails, GiveUp, Return, Unlock, Goto
    <2>5. QED
      BY <2>2, <2>3, <2>4 DEF Inv
  <1>11. ASSUME NEW c \in Calls, ReadHits(c)
        PROVE  Inv'
    <2>1. /\ args[c] \in Request
          /\ args[c].schema \in Schemas
          /\ args[c].version \in Keys
          /\ args[c].op \in {"register", "get", "fixture"}
          /\ args[c].op = "fixture" => args[c].version = Latest
          /\ Register(c) => args[c].doc \in Docs /\ args[c].version = Latest
      BY <1>11, CallFields DEF ReadHits
    <2>2. PICK d \in Selected(args[c].schema, args[c].version) :
            \/ Register(c) /\ Commit(c, d)
            \/ /\ ~Register(c)
               /\ Take(c, d, "store")
               /\ Goto(c, IF args[c].version = Latest THEN "setBare"
                                                      ELSE "setVersioned")
               /\ UNCHANGED <<prior, drawn>>
      BY <1>11 DEF ReadHits
    <2>3. d \in Docs
      BY <2>1 DEF Inv, Selected
    <2>4. UNCHANGED <<memory, compatLock, disk, args, reply, fault, past>>
      BY <1>11 DEF ReadHits
    <2>5. TypeOK'
      <3>1. CASE Register(c) /\ Commit(c, d)
        BY <2>1, <2>3, <2>4, <3>1 DEF Inv, Commit, Take, Goto, Steps
      <3>2. CASE ~Register(c) /\ Take(c, d, "store") /\ UNCHANGED <<prior, drawn>>
        BY <2>2, <2>3, <2>4, <3>2 DEF Inv, Take, Goto, Steps
      <3>3. QED
        BY <2>2, <3>1, <3>2
    <2>6. CallOK'
      BY <1>11, <2>1, <2>2, <2>3, <2>4 DEF Inv, ReadHits, Commit, Take, Goto
    <2>7. LatestRowsExist'
      BY <2>4 DEF Inv
    <2>8. QED
      BY <2>5, <2>6, <2>7 DEF Inv
  <1>12. ASSUME NEW c \in Calls, RouterFails(c)
        PROVE  Inv'
    <2>1. /\ args[c] \in Request
          /\ args[c].schema \in Schemas
          /\ args[c].version \in Keys
          /\ args[c].op \in {"register", "get", "fixture"}
          /\ args[c].op = "fixture" => args[c].version = Latest
          /\ Register(c) => args[c].doc \in Docs /\ args[c].version = Latest
      BY <1>12, CallFields DEF RouterFails
    <2>2. TypeOK'
      BY <1>12, <2>1 DEF Inv, RouterFails, Return, Unlock, Goto, Steps, Replies
    <2>3. CallOK'
      BY <1>12, <2>1 DEF Inv, RouterFails, Return, Unlock, Goto
    <2>4. LatestRowsExist'
      BY <1>12, <2>1 DEF Inv, RouterFails, Return, Unlock, Goto
    <2>5. QED
      BY <2>2, <2>3, <2>4 DEF Inv
  <1>13. ASSUME NEW c \in Calls, SetBare(c)
        PROVE  Inv'
    <2>1. /\ args[c] \in Request
          /\ args[c].schema \in Schemas
          /\ args[c].version \in Keys
          /\ args[c].op \in {"register", "get", "fixture"}
          /\ args[c].op = "fixture" => args[c].version = Latest
          /\ Register(c) => args[c].doc \in Docs /\ args[c].version = Latest
      BY <1>13, CallFields DEF SetBare
    <2>2. TypeOK'
      BY <1>13, <2>1 DEF Inv, SetBare, Goto, Steps, Replies
    <2>3. CallOK'
      BY <1>13, <2>1 DEF Inv, SetBare, Goto
    <2>4. LatestRowsExist'
      BY <1>13, <2>1 DEF Inv, SetBare, Goto
    <2>5. QED
      BY <2>2, <2>3, <2>4 DEF Inv
  <1>14. ASSUME NEW c \in Calls, SetRequested(c)
        PROVE  Inv'
    <2>1. /\ args[c] \in Request
          /\ args[c].schema \in Schemas
          /\ args[c].version \in Keys
          /\ args[c].op \in {"register", "get", "fixture"}
          /\ args[c].op = "fixture" => args[c].version = Latest
          /\ Register(c) => args[c].doc \in Docs /\ args[c].version = Latest
      BY <1>14, CallFields DEF SetRequested
    <2>2. TypeOK'
      BY <1>14, <2>1 DEF Inv, SetRequested, WriteVersion, Goto, Steps, Replies
    <2>3. CallOK'
      BY <1>14, <2>1 DEF Inv, SetRequested, WriteVersion, Goto
    <2>4. LatestRowsExist'
      BY <1>14, <2>1 DEF Inv, SetRequested, WriteVersion, Goto
    <2>5. QED
      BY <2>2, <2>3, <2>4 DEF Inv
  <1>15. ASSUME NEW c \in Calls, SetVersioned(c)
        PROVE  Inv'
    <2>1. /\ args[c] \in Request
          /\ args[c].schema \in Schemas
          /\ args[c].version \in Keys
          /\ args[c].op \in {"register", "get", "fixture"}
          /\ args[c].op = "fixture" => args[c].version = Latest
          /\ Register(c) => args[c].doc \in Docs /\ args[c].version = Latest
      BY <1>15, CallFields DEF SetVersioned
    <2>2. entry[c] \in Docs /\ Label(c) \in Versions
      BY <1>15, LabelTyped DEF Inv, SetVersioned, Writing
    <2>0. crossed' \in [Schemas -> SUBSET Versions]
      BY <1>15, CrossTyped DEF SetVersioned, Writing
    <2>3. TypeOK'
      BY <1>15, <2>0, <2>1, <2>2 DEF Inv, SetVersioned, WriteVersion, Goto, Steps, Replies
    <2>4. CallOK'
      BY <1>15, <2>1, <2>2 DEF Inv, SetVersioned, WriteVersion, Goto
    <2>5. LatestRowsExist'
      BY <1>15, <2>1, <2>2 DEF Inv, SetVersioned, WriteVersion, Goto
    <2>6. QED
      BY <2>3, <2>4, <2>5 DEF Inv
  <1>16. ASSUME NEW c \in Calls, Mirror(c)
        PROVE  Inv'
    <2>1. /\ args[c] \in Request
          /\ args[c].schema \in Schemas
          /\ args[c].version \in Keys
          /\ args[c].op \in {"register", "get", "fixture"}
          /\ args[c].op = "fixture" => args[c].version = Latest
          /\ Register(c) => args[c].doc \in Docs /\ args[c].version = Latest
      BY <1>16, CallFields DEF Mirror
    <2>2. TypeOK'
      BY <1>16, MirrorTyped
    <2>3. CallOK'
      BY <1>16, <2>1, <2>2 DEF Inv, Mirror, Commit, Take, Return, Unlock, Goto
    <2>4. LatestRowsExist'
      BY <1>16, <2>1, <2>2 DEF Inv, Mirror, Commit, Take, Return, Unlock, Goto
    <2>5. QED
      BY <2>2, <2>3, <2>4 DEF Inv
  <1>17. ASSUME NEW c \in Calls, Persist(c)
        PROVE  Inv'
    <2>1. /\ args[c] \in Request
          /\ args[c].schema \in Schemas
          /\ args[c].version \in Keys
          /\ args[c].op \in {"register", "get", "fixture"}
          /\ args[c].op = "fixture" => args[c].version = Latest
          /\ Register(c) => args[c].doc \in Docs /\ args[c].version = Latest
      BY <1>17, CallFields DEF Persist
    <2>2. entry[c] \in Docs /\ VersionOf[entry[c]] \in Versions
      BY <1>17 DEF Inv, Persist
    <2>0. crossed' \in [Schemas -> SUBSET Versions]
      BY <1>17, CrossTyped DEF Persist, Writing
    <2>3. TypeOK'
      BY <1>17, <2>0, <2>1, <2>2 DEF Inv, Persist, SetSchema, Goto, Steps, Replies
    <2>4. CallOK'
      BY <1>17, <2>1, <2>2 DEF Inv, Persist, SetSchema, Goto
    <2>5. LatestRowsExist'
      BY <1>17, <2>1, <2>2 DEF Inv, Persist, SetSchema, Goto
    <2>6. QED
      BY <2>3, <2>4, <2>5 DEF Inv
  <1>18. ASSUME NEW c \in Calls, PersistFails(c)
        PROVE  Inv'
    <2>1. /\ args[c] \in Request
          /\ args[c].schema \in Schemas
          /\ args[c].version \in Keys
          /\ args[c].op \in {"register", "get", "fixture"}
          /\ args[c].op = "fixture" => args[c].version = Latest
          /\ Register(c) => args[c].doc \in Docs /\ args[c].version = Latest
      BY <1>18, CallFields DEF PersistFails
    <2>2. TypeOK'
      BY <1>18, <2>1 DEF Inv, PersistFails, Goto, Steps, Replies
    <2>3. CallOK'
      BY <1>18, <2>1 DEF Inv, PersistFails, Goto
    <2>4. LatestRowsExist'
      BY <1>18, <2>1 DEF Inv, PersistFails, Goto
    <2>5. QED
      BY <2>2, <2>3, <2>4 DEF Inv
  <1>19. ASSUME NEW c \in Calls, Respond(c)
        PROVE  Inv'
    <2>1. /\ args[c] \in Request
          /\ args[c].schema \in Schemas
          /\ args[c].version \in Keys
          /\ args[c].op \in {"register", "get", "fixture"}
          /\ args[c].op = "fixture" => args[c].version = Latest
          /\ Register(c) => args[c].doc \in Docs /\ args[c].version = Latest
      BY <1>19, CallFields DEF Respond
    <2>2. TypeOK'
      BY <1>19, <2>1 DEF Inv, Respond, Return, Unlock, Goto, Steps, Replies
    <2>3. CallOK'
      BY <1>19, <2>1 DEF Inv, Respond, Return, Unlock, Goto
    <2>4. LatestRowsExist'
      BY <1>19, <2>1 DEF Inv, Respond, Return, Unlock, Goto
    <2>5. QED
      BY <2>2, <2>3, <2>4 DEF Inv
  <1>20. ASSUME NEW c \in Calls, Generate(c)
        PROVE  Inv'
    <2>1. /\ args[c] \in Request
          /\ args[c].schema \in Schemas
          /\ args[c].version \in Keys
          /\ args[c].op \in {"register", "get", "fixture"}
          /\ args[c].op = "fixture" => args[c].version = Latest
          /\ Register(c) => args[c].doc \in Docs /\ args[c].version = Latest
      BY <1>20, CallFields DEF Generate
    <2>2. TypeOK'
      BY <1>20, <2>1 DEF Inv, Generate, Return, Unlock, Goto, Steps, Replies
    <2>3. CallOK'
      BY <1>20, <2>1 DEF Inv, Generate, Return, Unlock, Goto
    <2>4. LatestRowsExist'
      BY <1>20, <2>1 DEF Inv, Generate, Return, Unlock, Goto
    <2>5. QED
      BY <2>2, <2>3, <2>4 DEF Inv
  <1>21. ASSUME NEW s \in Schemas, NEW k \in Keys, Evict(s, k)
        PROVE  Inv'
    BY <1>21 DEF Inv, Evict
  <1>22. CASE Restart
    <2>1. TypeOK'
      BY <1>22 DEF Inv, Restart, EmptyCache, NoRows, Steps, Replies
    <2>2. CallOK'
      BY <1>22 DEF Inv, Restart
    <2>3. LatestRowsExist'
      BY <1>22 DEF Inv, Restart, NoRows
    <2>4. QED
      BY <2>1, <2>2, <2>3 DEF Inv
  <1>23. CASE UNCHANGED vars
    BY <1>23 DEF Inv, vars
  <1>24. QED
    BY <1>1, <1>2, <1>3, <1>4, <1>5, <1>6, <1>7, <1>8, <1>9, <1>10, <1>11, <1>12, <1>13, <1>14, <1>15, <1>16, <1>17, <1>18, <1>19, <1>20, <1>21, <1>22, <1>23 DEF Next, Handler

\* TypeOK is an invariant: every document, version and request the registry
\* keeps is of the declared kind, on every path through the handlers.
THEOREM TypeCorrect == Spec => []TypeOK
  <1>1. Inv => TypeOK
    BY DEF Inv
  <1>2. QED
    BY InitInv, NextInv, <1>1, PTL DEF Spec

-----------------------------------------------------------------------------
(* The compatibility mutex                                                 *)

\* LockIsHeldByItsCheck is inductive relative to Inv: only the checked
\* registrations of CallOK pass through the critical section.
LEMMA LockStep ==
  Inv /\ LockIsHeldByItsCheck /\ [Next]_vars => LockIsHeldByItsCheck'
  <1> SUFFICES ASSUME Inv, LockIsHeldByItsCheck, [Next]_vars
               PROVE  LockIsHeldByItsCheck'
    OBVIOUS
  <1> USE TrafficAssumption
  <1> USE DEF Inv, TypeOK, CallOK, LockIsHeldByItsCheck, InCheck, Register,
              Writing, Looking, Steps, memory, disk, locals, past
  <1>1. ASSUME NEW c \in Calls, Begin(c)
        PROVE  LockIsHeldByItsCheck'
    BY <1>1 DEF Begin, Goto, Take
  <1>2. ASSUME NEW c \in Calls, Reject(c)
        PROVE  LockIsHeldByItsCheck'
    BY <1>2 DEF Reject, Return, Unlock, Goto
  <1>3. ASSUME NEW c \in Calls, AcquireCompatLock(c)
        PROVE  LockIsHeldByItsCheck'
    BY <1>3 DEF AcquireCompatLock, Goto
  <1>4. ASSUME NEW c \in Calls, LookupCache(c)
        PROVE  LockIsHeldByItsCheck'
    BY <1>4 DEF LookupCache, Goto, Take, Commit, Return, Unlock
  <1>5. ASSUME NEW c \in Calls, PluginSilent(c)
        PROVE  LockIsHeldByItsCheck'
    BY <1>5 DEF PluginSilent, Goto
  <1>6. ASSUME NEW c \in Calls, PluginFails(c)
        PROVE  LockIsHeldByItsCheck'
    BY <1>6 DEF PluginFails, GiveUp, Return, Unlock, Goto
  <1>7. ASSUME NEW c \in Calls, PluginAnswers(c)
        PROVE  LockIsHeldByItsCheck'
    BY <1>7 DEF PluginAnswers, Goto
  <1>8. ASSUME NEW c \in Calls, NoStore(c)
        PROVE  LockIsHeldByItsCheck'
    <2>1. CASE Commit(c, NoDoc) /\ UNCHANGED compatLock
      BY <1>8, <2>1 DEF NoStore, Commit, Goto
    <2>2. CASE ~Register(c) /\ GiveUp(c)
      BY <1>8, <2>2 DEF NoStore, GiveUp, Return, Unlock, Goto
    <2> QED
      BY <1>8, <2>1, <2>2 DEF NoStore
  <1>9. ASSUME NEW c \in Calls, ReadMisses(c)
        PROVE  LockIsHeldByItsCheck'
    BY <1>9 DEF ReadMisses, GiveUp, Return, Unlock, Goto
  <1>10. ASSUME NEW c \in Calls, ReadFails(c)
        PROVE  LockIsHeldByItsCheck'
    BY <1>10 DEF ReadFails, GiveUp, Return, Unlock, Goto
  <1>11. ASSUME NEW c \in Calls, ReadHits(c)
        PROVE  LockIsHeldByItsCheck'
    <2>1. PICK l \in {"setBare", "setVersioned"} : pc' = [pc EXCEPT ![c] = l]
      BY <1>11 DEF ReadHits, Commit, Goto
    <2>2. pc[c] = "read" /\ UNCHANGED <<compatLock, args>>
      BY <1>11 DEF ReadHits
    <2>3. QED
      BY <2>1, <2>2
  <1>12. ASSUME NEW c \in Calls, RouterFails(c)
        PROVE  LockIsHeldByItsCheck'
    BY <1>12 DEF RouterFails, Return, Unlock, Goto
  <1>13. ASSUME NEW c \in Calls, SetBare(c)
        PROVE  LockIsHeldByItsCheck'
    BY <1>13 DEF SetBare, Goto
  <1>14. ASSUME NEW c \in Calls, SetRequested(c)
        PROVE  LockIsHeldByItsCheck'
    BY <1>14 DEF SetRequested, WriteVersion, Goto
  <1>15. ASSUME NEW c \in Calls, SetVersioned(c)
        PROVE  LockIsHeldByItsCheck'
    BY <1>15 DEF SetVersioned, WriteVersion, Goto
  <1>16. ASSUME NEW c \in Calls, Mirror(c)
        PROVE  LockIsHeldByItsCheck'
    <2>1. pc[c] = "mirror" /\ UNCHANGED args
      BY <1>16, MirrorWays
    <2>2. ASSUME NEW l \in {"setBare", "respond", "persist", "generate"},
                 Goto(c, l), UNCHANGED compatLock
          PROVE  LockIsHeldByItsCheck'
      BY <2>1, <2>2 DEF Goto
    <2>3. CASE Return(c, "ok")
      BY <2>1, <2>3 DEF Return, Unlock, Goto
    <2> QED
      BY <1>16, <2>2, <2>3, MirrorWays DEF Commit
  <1>17. ASSUME NEW c \in Calls, Persist(c)
        PROVE  LockIsHeldByItsCheck'
    BY <1>17 DEF Persist, Goto
  <1>18. ASSUME NEW c \in Calls, PersistFails(c)
        PROVE  LockIsHeldByItsCheck'
    BY <1>18 DEF PersistFails, Goto
  <1>19. ASSUME NEW c \in Calls, Respond(c)
        PROVE  LockIsHeldByItsCheck'
    BY <1>19 DEF Respond, Return, Unlock, Goto
  <1>20. ASSUME NEW c \in Calls, Generate(c)
        PROVE  LockIsHeldByItsCheck'
    BY <1>20 DEF Generate, Return, Unlock, Goto
  <1>21. ASSUME NEW s \in Schemas, NEW k \in Keys, Evict(s, k)
        PROVE  LockIsHeldByItsCheck'
    BY <1>21 DEF Evict
  <1>22. CASE Restart
    BY <1>22 DEF Restart
  <1>23. CASE UNCHANGED vars
    BY <1>23 DEF vars
  <1>24. QED
    BY <1>1, <1>2, <1>3, <1>4, <1>5, <1>6, <1>7, <1>8, <1>9, <1>10, <1>11, <1>12, <1>13, <1>14, <1>15, <1>16, <1>17, <1>18, <1>19, <1>20, <1>21, <1>22, <1>23 DEF Next, Handler

\* Initially every mutex is free and no call is in its critical section.
LEMMA InitLock == Init => LockIsHeldByItsCheck
  <1> SUFFICES ASSUME Init, NEW c \in Calls, NEW s \in Schemas
               PROVE  compatLock[s] # c /\ ~InCheck(c)
    BY DEF LockIsHeldByItsCheck
  <1>1. compatLock[s] # c
    BY TrafficAssumption DEF Init
  <1>2. ~InCheck(c)
    BY DEF Init, InCheck
  <1>3. QED
    BY <1>1, <1>2

\* The mutex of a schema is held exactly by the checked registration inside
\* its critical section, so two checks of one schema never overlap and no
\* return leaves the mutex locked.
THEOREM LockHeld == Spec => []LockIsHeldByItsCheck
  <1>1. QED
    BY InitInv, NextInv, InitLock, LockStep, PTL DEF Spec

-----------------------------------------------------------------------------
(* What is kept under a version                                            *)

\* A row is of its own version, and so is what a reader takes from it.
LabelsHonest ==
  /\ \A s \in Schemas, v \in Versions :
       rows[s][v] # NoDoc => VersionOf[rows[s][v]] = v
  /\ \A c \in Calls :
       pc[c] \in Writing /\ source[c] = "store" /\ args[c].version # Latest =>
         VersionOf[entry[c]] = args[c].version

\* So the version an entry is filed under is its document's.
LEMMA LabelIsVersion ==
  ASSUME LabelsHonest, NEW c \in Calls, pc[c] \in Writing
  PROVE  Label(c) = VersionOf[entry[c]]
  BY DEF LabelsHonest, Label

\* Only Persist writes a row, only ReadHits takes one.
LEMMA LabelStep == Inv /\ LabelsHonest /\ [Next]_vars => LabelsHonest'
  <1> SUFFICES ASSUME Inv, LabelsHonest, [Next]_vars
               PROVE  LabelsHonest'
    OBVIOUS
  <1> USE DocsAssumption, CallFields
  <1> USE DEF Inv, TypeOK, CallOK, LabelsHonest, Register,
              Writing, Looking, Keys, memory, disk, locals, past
  <1>1. ASSUME NEW c \in Calls, Begin(c)
        PROVE  LabelsHonest'
    BY <1>1 DEF Begin, Goto, Take
  <1>2. ASSUME NEW c \in Calls, Reject(c)
        PROVE  LabelsHonest'
    BY <1>2 DEF Reject, Return, Unlock, Goto
  <1>3. ASSUME NEW c \in Calls, AcquireCompatLock(c)
        PROVE  LabelsHonest'
    BY <1>3 DEF AcquireCompatLock, Goto
  <1>4. ASSUME NEW c \in Calls, LookupCache(c)
        PROVE  LabelsHonest'
    BY <1>4 DEF LookupCache, Goto, Take, Commit, Return, Unlock
  <1>5. ASSUME NEW c \in Calls, PluginSilent(c)
        PROVE  LabelsHonest'
    BY <1>5 DEF PluginSilent, Goto
  <1>6. ASSUME NEW c \in Calls, PluginFails(c)
        PROVE  LabelsHonest'
    BY <1>6 DEF PluginFails, GiveUp, Return, Unlock, Goto
  <1>7. ASSUME NEW c \in Calls, PluginAnswers(c)
        PROVE  LabelsHonest'
    BY <1>7 DEF PluginAnswers, Take, Goto
  <1>8. ASSUME NEW c \in Calls, NoStore(c)
        PROVE  LabelsHonest'
    <2>1. pc[c] = "read" /\ UNCHANGED <<disk, args>>
      BY <1>8 DEF NoStore
    <2>2. CASE Register(c) /\ Commit(c, NoDoc)
      BY <2>1, <2>2 DEF Commit, Take, Goto
    <2>3. CASE GiveUp(c) /\ UNCHANGED locals
      BY <2>1, <2>3 DEF GiveUp, Return, Goto
    <2> QED
      BY <1>8, <2>2, <2>3 DEF NoStore
  <1>9. ASSUME NEW c \in Calls, ReadMisses(c)
        PROVE  LabelsHonest'
    BY <1>9 DEF ReadMisses, GiveUp, Return, Unlock, Goto
  <1>10. ASSUME NEW c \in Calls, ReadFails(c)
        PROVE  LabelsHonest'
    BY <1>10 DEF ReadFails, GiveUp, Return, Unlock, Goto
  <1>11. ASSUME NEW c \in Calls, ReadHits(c)
        PROVE  LabelsHonest'
    <2>1. PICK d \in Selected(args[c].schema, args[c].version) :
            \/ Register(c) /\ Commit(c, d)
            \/ Take(c, d, "store") /\ (\E l \in Steps : Goto(c, l))
      BY <1>11 DEF ReadHits, Steps
    <2>2. /\ pc[c] = "read" /\ args[c].schema \in Schemas /\ args[c].version \in Keys
          /\ UNCHANGED <<memory, disk, args>>
      BY <1>11 DEF ReadHits
    <2>3. args[c].version # Latest => VersionOf[d] = args[c].version
      BY <2>1, <2>2 DEF Selected
    <2>4. CASE Register(c) /\ Commit(c, d)
      BY <2>2, <2>4 DEF Commit, Take, Goto
    <2>5. CASE Take(c, d, "store") /\ (\E l \in Steps : Goto(c, l))
      BY <2>2, <2>3, <2>5 DEF Take, Goto
    <2> QED
      BY <2>1, <2>4, <2>5
  <1>12. ASSUME NEW c \in Calls, RouterFails(c)
        PROVE  LabelsHonest'
    BY <1>12 DEF RouterFails, Return, Unlock, Goto
  <1>13. ASSUME NEW c \in Calls, SetBare(c)
        PROVE  LabelsHonest'
    BY <1>13 DEF SetBare, Goto
  <1>14. ASSUME NEW c \in Calls, SetRequested(c)
        PROVE  LabelsHonest'
    BY <1>14 DEF SetRequested, WriteVersion, Goto
  <1>15. ASSUME NEW c \in Calls, SetVersioned(c)
        PROVE  LabelsHonest'
    BY <1>15 DEF SetVersioned, WriteVersion, Goto
  <1>16. ASSUME NEW c \in Calls, Mirror(c)
        PROVE  LabelsHonest'
    <2>1. pc[c] = "mirror" /\ UNCHANGED <<disk, args>>
      BY <1>16, MirrorWays
    <2>2. ASSUME NEW l \in {"respond", "persist", "generate"},
                 Goto(c, l), UNCHANGED locals
          PROVE  LabelsHonest'
      BY <2>1, <2>2 DEF Goto
    <2>3. CASE Register(c) /\ Commit(c, entry[c])
      BY <2>1, <2>3 DEF Commit, Take, Goto
    <2>4. CASE Return(c, "ok") /\ UNCHANGED locals
      BY <2>1, <2>4 DEF Return, Goto
    <2> QED
      BY <1>16, <2>2, <2>3, <2>4, MirrorWays
  <1>17. ASSUME NEW c \in Calls, Persist(c)
        PROVE  LabelsHonest'
    BY <1>17 DEF Persist, SetSchema, Goto
  <1>18. ASSUME NEW c \in Calls, PersistFails(c)
        PROVE  LabelsHonest'
    BY <1>18 DEF PersistFails, Goto
  <1>19. ASSUME NEW c \in Calls, Respond(c)
        PROVE  LabelsHonest'
    BY <1>19 DEF Respond, Return, Unlock, Goto
  <1>20. ASSUME NEW c \in Calls, Generate(c)
        PROVE  LabelsHonest'
    BY <1>20 DEF Generate, Return, Unlock, Goto
  <1>21. ASSUME NEW s \in Schemas, NEW k \in Keys, Evict(s, k)
        PROVE  LabelsHonest'
    BY <1>21 DEF Evict
  <1>22. CASE Restart
    BY <1>22 DEF Restart, EmptyCache, NoRows
  <1>23. CASE UNCHANGED vars
    BY <1>23 DEF vars
  <1>24. QED
    BY <1>1, <1>2, <1>3, <1>4, <1>5, <1>6, <1>7, <1>8, <1>9, <1>10, <1>11, <1>12, <1>13, <1>14, <1>15, <1>16, <1>17, <1>18, <1>19, <1>20, <1>21, <1>22, <1>23 DEF Next, Handler

\* With no plugin, what is kept for a version is a document of that version.
VersionedKeysHonest ==
  ~PluginBound =>
    \A s \in Schemas, v \in Versions :
      \A d \in {cache[s][v], rows[s][v]} \ {NoDoc} : VersionOf[d] = v

\* No fill and no store write puts a document under another version's key.
LEMMA HonestStep ==
  Inv /\ LabelsHonest /\ VersionedKeysHonest /\ [Next]_vars => VersionedKeysHonest'
  <1> SUFFICES ASSUME Inv, LabelsHonest, VersionedKeysHonest, [Next]_vars
               PROVE  VersionedKeysHonest'
    OBVIOUS
  <1> USE DocsAssumption, CallFields
  <1> USE DEF Inv, TypeOK, CallOK, VersionedKeysHonest, Register,
              Writing, Keys, memory, disk, locals, past
  <1>1. ASSUME NEW c \in Calls, Begin(c)
        PROVE  VersionedKeysHonest'
    BY <1>1 DEF Begin, Goto, Take
  <1>2. ASSUME NEW c \in Calls, Reject(c)
        PROVE  VersionedKeysHonest'
    BY <1>2 DEF Reject, Return, Unlock, Goto
  <1>3. ASSUME NEW c \in Calls, AcquireCompatLock(c)
        PROVE  VersionedKeysHonest'
    BY <1>3 DEF AcquireCompatLock, Goto
  <1>4. ASSUME NEW c \in Calls, LookupCache(c)
        PROVE  VersionedKeysHonest'
    BY <1>4 DEF LookupCache, Goto, Take, Commit, Return, Unlock
  <1>5. ASSUME NEW c \in Calls, PluginSilent(c)
        PROVE  VersionedKeysHonest'
    BY <1>5 DEF PluginSilent, Goto
  <1>6. ASSUME NEW c \in Calls, PluginFails(c)
        PROVE  VersionedKeysHonest'
    BY <1>6 DEF PluginFails, GiveUp, Return, Unlock, Goto
  <1>7. ASSUME NEW c \in Calls, PluginAnswers(c)
        PROVE  VersionedKeysHonest'
    BY <1>7 DEF PluginAnswers, Goto
  <1>8. ASSUME NEW c \in Calls, NoStore(c)
        PROVE  VersionedKeysHonest'
    BY <1>8 DEF NoStore, Commit, GiveUp, Return, Unlock, Goto
  <1>9. ASSUME NEW c \in Calls, ReadMisses(c)
        PROVE  VersionedKeysHonest'
    BY <1>9 DEF ReadMisses, GiveUp, Return, Unlock, Goto
  <1>10. ASSUME NEW c \in Calls, ReadFails(c)
        PROVE  VersionedKeysHonest'
    BY <1>10 DEF ReadFails, GiveUp, Return, Unlock, Goto
  <1>11. ASSUME NEW c \in Calls, ReadHits(c)
        PROVE  VersionedKeysHonest'
    BY <1>11 DEF ReadHits, Commit, Goto
  <1>12. ASSUME NEW c \in Calls, RouterFails(c)
        PROVE  VersionedKeysHonest'
    BY <1>12 DEF RouterFails, Return, Unlock, Goto
  <1>13. ASSUME NEW c \in Calls, SetBare(c)
        PROVE  VersionedKeysHonest'
    BY <1>13 DEF SetBare, Goto
  <1>14. ASSUME NEW c \in Calls, SetRequested(c)
        PROVE  VersionedKeysHonest'
    BY <1>14 DEF SetRequested, WriteVersion, Goto
  <1>15. ASSUME NEW c \in Calls, SetVersioned(c)
        PROVE  VersionedKeysHonest'
    BY <1>15, LabelIsVersion DEF SetVersioned, WriteVersion, Goto
  <1>16. ASSUME NEW c \in Calls, Mirror(c)
        PROVE  VersionedKeysHonest'
    BY <1>16 DEF Mirror, Commit, Return, Unlock, Goto
  <1>17. ASSUME NEW c \in Calls, Persist(c)
        PROVE  VersionedKeysHonest'
    BY <1>17 DEF Persist, SetSchema, Goto
  <1>18. ASSUME NEW c \in Calls, PersistFails(c)
        PROVE  VersionedKeysHonest'
    BY <1>18 DEF PersistFails, Goto
  <1>19. ASSUME NEW c \in Calls, Respond(c)
        PROVE  VersionedKeysHonest'
    BY <1>19 DEF Respond, Return, Unlock, Goto
  <1>20. ASSUME NEW c \in Calls, Generate(c)
        PROVE  VersionedKeysHonest'
    BY <1>20 DEF Generate, Return, Unlock, Goto
  <1>21. ASSUME NEW s \in Schemas, NEW k \in Keys, Evict(s, k)
        PROVE  VersionedKeysHonest'
    BY <1>21 DEF Evict
  <1>22. CASE Restart
    BY <1>22 DEF Restart, EmptyCache, NoRows
  <1>23. CASE UNCHANGED vars
    BY <1>23 DEF vars
  <1>24. QED
    BY <1>1, <1>2, <1>3, <1>4, <1>5, <1>6, <1>7, <1>8, <1>9, <1>10, <1>11, <1>12, <1>13, <1>14, <1>15, <1>16, <1>17, <1>18, <1>19, <1>20, <1>21, <1>22, <1>23 DEF Next, Handler

\* Initially nothing is kept or read.
LEMMA InitHonest == Init => LabelsHonest /\ VersionedKeysHonest
  BY DEF Init, LabelsHonest, VersionedKeysHonest, EmptyCache, NoRows, Keys, Writing

-----------------------------------------------------------------------------
(* What the store keeps                                                    *)

\* A registration about to be acknowledged without the warning, or so
\* acknowledged, has its row; an unanswered call has no reply.
StoredWhenAnswered ==
  \A c \in Calls :
    /\ pc[c] # "done" => reply[c] = "none"
    /\ /\ Backend = "sql"
       /\ Register(c)
       /\ (pc[c] = "respond" /\ ~fault[c]) \/ reply[c] = "ok"
       => rows[args[c].schema][VersionOf[args[c].doc]] # NoDoc

\* Rows are overwritten but never emptied, and only Persist leads a
\* registration to a clean answer.
LEMMA StoredStep ==
  Inv /\ StoredWhenAnswered /\ [Next]_vars => StoredWhenAnswered'
  <1> SUFFICES ASSUME Inv, StoredWhenAnswered, [Next]_vars
               PROVE  StoredWhenAnswered'
    OBVIOUS
  <1> USE DocsAssumption, DeploymentAssumption, CallFields
  <1> USE DEF Inv, TypeOK, CallOK, StoredWhenAnswered, Register,
              Writing, memory, disk, locals, past
  <1>1. ASSUME NEW c \in Calls, Begin(c)
        PROVE  StoredWhenAnswered'
    BY <1>1 DEF Begin, Goto, Take
  <1>2. ASSUME NEW c \in Calls, Reject(c)
        PROVE  StoredWhenAnswered'
    BY <1>2 DEF Reject, Return, Unlock, Goto
  <1>3. ASSUME NEW c \in Calls, AcquireCompatLock(c)
        PROVE  StoredWhenAnswered'
    BY <1>3 DEF AcquireCompatLock, Goto
  <1>4. ASSUME NEW c \in Calls, LookupCache(c)
        PROVE  StoredWhenAnswered'
    <2>1. \A b \in Calls : b # c => pc'[b] = pc[b] /\ reply'[b] = reply[b]
      BY <1>4 DEF LookupCache, Goto, Commit, Return
    <2>2. pc'[c] # "respond" /\ (Register(c) => reply'[c] # "ok")
      BY <1>4 DEF LookupCache, Goto, Commit, Return
    <2>3. pc'[c] # "done" => reply'[c] = "none"
      BY <1>4 DEF LookupCache, Goto, Commit, Return
    <2>4. UNCHANGED <<rows, args, fault>>
      BY <1>4 DEF LookupCache
    <2> QED
      BY <2>1, <2>2, <2>3, <2>4
  <1>5. ASSUME NEW c \in Calls, PluginSilent(c)
        PROVE  StoredWhenAnswered'
    BY <1>5 DEF PluginSilent, Goto
  <1>6. ASSUME NEW c \in Calls, PluginFails(c)
        PROVE  StoredWhenAnswered'
    BY <1>6 DEF PluginFails, GiveUp, Return, Unlock, Goto
  <1>7. ASSUME NEW c \in Calls, PluginAnswers(c)
        PROVE  StoredWhenAnswered'
    BY <1>7 DEF PluginAnswers, Goto
  <1>8. ASSUME NEW c \in Calls, NoStore(c)
        PROVE  StoredWhenAnswered'
    BY <1>8 DEF NoStore, Commit, GiveUp, Return, Unlock, Goto
  <1>9. ASSUME NEW c \in Calls, ReadMisses(c)
        PROVE  StoredWhenAnswered'
    BY <1>9 DEF ReadMisses, GiveUp, Return, Unlock, Goto
  <1>10. ASSUME NEW c \in Calls, ReadFails(c)
        PROVE  StoredWhenAnswered'
    BY <1>10 DEF ReadFails, GiveUp, Return, Unlock, Goto
  <1>11. ASSUME NEW c \in Calls, ReadHits(c)
        PROVE  StoredWhenAnswered'
    BY <1>11 DEF ReadHits, Commit, Goto
  <1>12. ASSUME NEW c \in Calls, RouterFails(c)
        PROVE  StoredWhenAnswered'
    BY <1>12 DEF RouterFails, Return, Unlock, Goto
  <1>13. ASSUME NEW c \in Calls, SetBare(c)
        PROVE  StoredWhenAnswered'
    BY <1>13 DEF SetBare, Goto
  <1>14. ASSUME NEW c \in Calls, SetRequested(c)
        PROVE  StoredWhenAnswered'
    BY <1>14 DEF SetRequested, WriteVersion, Goto
  <1>15. ASSUME NEW c \in Calls, SetVersioned(c)
        PROVE  StoredWhenAnswered'
    BY <1>15 DEF SetVersioned, WriteVersion, Goto
  <1>16. ASSUME NEW c \in Calls, Mirror(c)
        PROVE  StoredWhenAnswered'
    BY <1>16 DEF Mirror, Commit, Return, Unlock, Goto
  <1>17. ASSUME NEW c \in Calls, Persist(c)
        PROVE  StoredWhenAnswered'
    BY <1>17 DEF Persist, SetSchema, Goto
  <1>18. ASSUME NEW c \in Calls, PersistFails(c)
        PROVE  StoredWhenAnswered'
    BY <1>18 DEF PersistFails, Goto
  <1>19. ASSUME NEW c \in Calls, Respond(c)
        PROVE  StoredWhenAnswered'
    BY <1>19 DEF Respond, Return, Unlock, Goto
  <1>20. ASSUME NEW c \in Calls, Generate(c)
        PROVE  StoredWhenAnswered'
    BY <1>20 DEF Generate, Return, Unlock, Goto
  <1>21. ASSUME NEW s \in Schemas, NEW k \in Keys, Evict(s, k)
        PROVE  StoredWhenAnswered'
    BY <1>21 DEF Evict
  <1>22. CASE Restart
    BY <1>22 DEF Restart, EmptyCache, NoRows
  <1>23. CASE UNCHANGED vars
    BY <1>23 DEF vars
  <1>24. QED
    BY <1>1, <1>2, <1>3, <1>4, <1>5, <1>6, <1>7, <1>8, <1>9, <1>10, <1>11, <1>12, <1>13, <1>14, <1>15, <1>16, <1>17, <1>18, <1>19, <1>20, <1>21, <1>22, <1>23 DEF Next, Handler

\* With a SQL store every registration acknowledged without the warning has
\* its version in the store from then on, through every restart.
THEOREM AcknowledgedStored == Spec => []AcknowledgedIsStored
  <1>1. Init => StoredWhenAnswered
    BY DEF Init, StoredWhenAnswered
  <1>2. StoredWhenAnswered => AcknowledgedIsStored
    BY DEF StoredWhenAnswered, AcknowledgedIsStored
  <1>3. QED
    BY InitInv, NextInv, StoredStep, <1>1, <1>2, PTL DEF Spec

\* Only Persist writes a row, and it writes the document its call submitted.
LEMMA RegisteredStep ==
  Inv /\ StoreHoldsOnlyRegistrations /\ [Next]_vars => StoreHoldsOnlyRegistrations'
  <1> SUFFICES ASSUME Inv, StoreHoldsOnlyRegistrations, [Next]_vars
               PROVE  StoreHoldsOnlyRegistrations'
    OBVIOUS
  <1> USE DocsAssumption, CallFields
  <1> USE DEF Inv, TypeOK, CallOK, StoreHoldsOnlyRegistrations, Register,
              Writing, memory, disk, locals, past
  <1>1. ASSUME NEW c \in Calls, Begin(c)
        PROVE  StoreHoldsOnlyRegistrations'
    <2>1. ~Register(c) /\ rows' = rows
      BY <1>1 DEF Begin
    <2>2. \A b \in Calls \ {c} : args'[b] = args[b]
      BY <1>1 DEF Begin
    <2>3. SUFFICES ASSUME NEW s \in Schemas, NEW v \in Versions,
                          rows[s][v] # NoDoc
                   PROVE  \E b \in Calls : /\ args'[b].op = "register"
                                           /\ args'[b].schema = s
                                           /\ args'[b].doc = rows[s][v]
      BY <2>1
    <2>4. PICK b \in Calls : /\ Register(b)
                             /\ args[b].schema = s
                             /\ args[b].doc = rows[s][v]
      BY <2>3
    <2>5. args'[b] = args[b]
      BY <2>1, <2>2, <2>4
    <2>6. QED
      BY <2>4, <2>5
  <1>2. ASSUME NEW c \in Calls, Reject(c)
        PROVE  StoreHoldsOnlyRegistrations'
    <2>1. ~Register(c) /\ rows' = rows
      BY <1>2 DEF Reject
    <2>2. \A b \in Calls \ {c} : args'[b] = args[b]
      BY <1>2 DEF Reject
    <2>3. SUFFICES ASSUME NEW s \in Schemas, NEW v \in Versions,
                          rows[s][v] # NoDoc
                   PROVE  \E b \in Calls : /\ args'[b].op = "register"
                                           /\ args'[b].schema = s
                                           /\ args'[b].doc = rows[s][v]
      BY <2>1
    <2>4. PICK b \in Calls : /\ Register(b)
                             /\ args[b].schema = s
                             /\ args[b].doc = rows[s][v]
      BY <2>3
    <2>5. args'[b] = args[b]
      BY <2>1, <2>2, <2>4
    <2>6. QED
      BY <2>4, <2>5
  <1>3. ASSUME NEW c \in Calls, AcquireCompatLock(c)
        PROVE  StoreHoldsOnlyRegistrations'
    BY <1>3 DEF AcquireCompatLock, Goto
  <1>4. ASSUME NEW c \in Calls, LookupCache(c)
        PROVE  StoreHoldsOnlyRegistrations'
    BY <1>4 DEF LookupCache, Goto, Take, Commit, Return, Unlock
  <1>5. ASSUME NEW c \in Calls, PluginSilent(c)
        PROVE  StoreHoldsOnlyRegistrations'
    BY <1>5 DEF PluginSilent, Goto
  <1>6. ASSUME NEW c \in Calls, PluginFails(c)
        PROVE  StoreHoldsOnlyRegistrations'
    BY <1>6 DEF PluginFails, GiveUp, Return, Unlock, Goto
  <1>7. ASSUME NEW c \in Calls, PluginAnswers(c)
        PROVE  StoreHoldsOnlyRegistrations'
    BY <1>7 DEF PluginAnswers, Goto
  <1>8. ASSUME NEW c \in Calls, NoStore(c)
        PROVE  StoreHoldsOnlyRegistrations'
    BY <1>8 DEF NoStore, Commit, GiveUp, Return, Unlock, Goto
  <1>9. ASSUME NEW c \in Calls, ReadMisses(c)
        PROVE  StoreHoldsOnlyRegistrations'
    BY <1>9 DEF ReadMisses, GiveUp, Return, Unlock, Goto
  <1>10. ASSUME NEW c \in Calls, ReadFails(c)
        PROVE  StoreHoldsOnlyRegistrations'
    BY <1>10 DEF ReadFails, GiveUp, Return, Unlock, Goto
  <1>11. ASSUME NEW c \in Calls, ReadHits(c)
        PROVE  StoreHoldsOnlyRegistrations'
    BY <1>11 DEF ReadHits, Commit, Goto
  <1>12. ASSUME NEW c \in Calls, RouterFails(c)
        PROVE  StoreHoldsOnlyRegistrations'
    BY <1>12 DEF RouterFails, Return, Unlock, Goto
  <1>13. ASSUME NEW c \in Calls, SetBare(c)
        PROVE  StoreHoldsOnlyRegistrations'
    BY <1>13 DEF SetBare, Goto
  <1>14. ASSUME NEW c \in Calls, SetRequested(c)
        PROVE  StoreHoldsOnlyRegistrations'
    BY <1>14 DEF SetRequested, WriteVersion, Goto
  <1>15. ASSUME NEW c \in Calls, SetVersioned(c)
        PROVE  StoreHoldsOnlyRegistrations'
    BY <1>15 DEF SetVersioned, WriteVersion, Goto
  <1>16. ASSUME NEW c \in Calls, Mirror(c)
        PROVE  StoreHoldsOnlyRegistrations'
    BY <1>16 DEF Mirror, Commit, Return, Unlock, Goto
  <1>17. ASSUME NEW c \in Calls, Persist(c)
        PROVE  StoreHoldsOnlyRegistrations'
    <2>1. /\ Register(c)
          /\ entry[c] = args[c].doc
          /\ args' = args
          /\ rows' = [rows EXCEPT ![args[c].schema][VersionOf[entry[c]]] =
                                    entry[c]]
      BY <1>17 DEF Persist, SetSchema
    <2>2. SUFFICES ASSUME NEW s \in Schemas, NEW v \in Versions,
                          rows'[s][v] # NoDoc
                   PROVE  \E b \in Calls : /\ Register(b)
                                           /\ args[b].schema = s
                                           /\ args[b].doc = rows'[s][v]
      BY <2>1
    <2>3. CASE s = args[c].schema /\ v = VersionOf[entry[c]]
      BY <2>1, <2>3
    <2>4. CASE ~(s = args[c].schema /\ v = VersionOf[entry[c]])
      BY <2>1, <2>2, <2>4
    <2>5. QED
      BY <2>3, <2>4
  <1>18. ASSUME NEW c \in Calls, PersistFails(c)
        PROVE  StoreHoldsOnlyRegistrations'
    BY <1>18 DEF PersistFails, Goto
  <1>19. ASSUME NEW c \in Calls, Respond(c)
        PROVE  StoreHoldsOnlyRegistrations'
    BY <1>19 DEF Respond, Return, Unlock, Goto
  <1>20. ASSUME NEW c \in Calls, Generate(c)
        PROVE  StoreHoldsOnlyRegistrations'
    BY <1>20 DEF Generate, Return, Unlock, Goto
  <1>21. ASSUME NEW s \in Schemas, NEW k \in Keys, Evict(s, k)
        PROVE  StoreHoldsOnlyRegistrations'
    BY <1>21 DEF Evict
  <1>22. CASE Restart
    BY <1>22 DEF Restart, EmptyCache, NoRows
  <1>23. CASE UNCHANGED vars
    BY <1>23 DEF vars
  <1>24. QED
    BY <1>1, <1>2, <1>3, <1>4, <1>5, <1>6, <1>7, <1>8, <1>9, <1>10, <1>11, <1>12, <1>13, <1>14, <1>15, <1>16, <1>17, <1>18, <1>19, <1>20, <1>21, <1>22, <1>23 DEF Next, Handler

\* Whatever the plugin answers, each stored document was submitted by a
\* registration of its schema.
THEOREM StoreRegistered == Spec => []StoreHoldsOnlyRegistrations
  <1>1. Init => StoreHoldsOnlyRegistrations
    BY DEF Init, StoreHoldsOnlyRegistrations, NoRows
  <1>2. QED
    BY InitInv, NextInv, RegisteredStep, <1>1, PTL DEF Spec

-----------------------------------------------------------------------------
(* What an unversioned lookup finds                                        *)

\* A handler changes the disk by writing to the store, and in no other way.
LEMMA DiskStep ==
  ASSUME [Next]_vars
  PROVE  UNCHANGED disk \/ Restart \/ \E c \in Calls : Persist(c)
  <1>1. ASSUME NEW c \in Calls, Handler(c)
        PROVE  UNCHANGED disk \/ Persist(c)
    BY <1>1
    DEF Handler, Begin, Reject, AcquireCompatLock, LookupCache, PluginSilent, PluginFails,
        PluginAnswers, NoStore, ReadMisses, ReadFails, ReadHits, RouterFails, SetBare,
        SetRequested, SetVersioned, WriteVersion, Mirror, PersistFails, Respond, Generate
  <1>2. ASSUME NEW s \in Schemas, NEW k \in Keys, Evict(s, k)
        PROVE  UNCHANGED disk
    BY <1>2 DEF Evict
  <1>3. CASE UNCHANGED vars
    BY <1>3 DEF vars
  <1> QED
    BY <1>1, <1>2, <1>3 DEF Next

\* The memory store has a latest row wherever it has a row.
LatestIsMarked ==
  Backend = "memory" =>
    \A s \in Schemas, v \in Versions : rows[s][v] # NoDoc => latestRows[s] # {}

LEMMA MarkedStep ==
  Inv /\ LatestIsMarked /\ [Next]_vars => LatestIsMarked'
  <1> SUFFICES ASSUME Inv, LatestIsMarked, [Next]_vars, Backend = "memory",
                      NEW s \in Schemas, NEW v \in Versions, rows'[s][v] # NoDoc
               PROVE  latestRows'[s] # {}
    BY DEF LatestIsMarked
  <1>1. CASE UNCHANGED disk
    BY <1>1 DEF disk, LatestIsMarked
  <1>2. CASE Restart
    BY <1>2 DEF Restart, NoRows
  <1>3. ASSUME NEW c \in Calls, Persist(c)
        PROVE  latestRows'[s] # {}
    <2>1. args[c].schema \in Schemas
      BY <1>3, CallFields DEF Persist
    <2>2. entry[c] \in Docs
      BY <1>3 DEF Persist, Inv, CallOK, Writing
    <2>3. /\ rows' = [rows EXCEPT ![args[c].schema][VersionOf[entry[c]]] = entry[c]]
          /\ latestRows' = [latestRows EXCEPT ![args[c].schema] = {VersionOf[entry[c]]}]
      BY <1>3 DEF Persist, SetSchema
    <2>4. rows \in [Schemas -> [Versions -> Docs \cup {NoDoc}]] /\ latestRows \in [Schemas -> SUBSET Versions]
      BY DEF Inv, TypeOK
    <2>5. CASE s = args[c].schema
      BY <2>3, <2>4, <2>5
    <2>6. CASE s # args[c].schema
      BY <2>1, <2>3, <2>4, <2>6 DEF LatestIsMarked
    <2> QED
      BY <2>5, <2>6
  <1> QED
    BY <1>1, <1>2, <1>3, DiskStep

\* With the memory store an unversioned lookup misses only a schema of which nothing is
\* stored: it marks a latest row by itself, which the SQL stores leave to a flag that
\* RegisterSchema never sets.
THEOREM LatestFound ==
  ASSUME Backend = "memory"
  PROVE  Spec => LatestFoundIfStored
  <1>1. Init => LatestIsMarked
    BY DEF Init, LatestIsMarked, NoRows
  <1>2. Inv /\ LatestIsMarked =>
          \A c \in Calls : ReadMisses(c) /\ args[c].version = Latest =>
            \A v \in Versions : rows[args[c].schema][v] = NoDoc
    <2> SUFFICES ASSUME Inv, LatestIsMarked, NEW c \in Calls, ReadMisses(c),
                        args[c].version = Latest, NEW v \in Versions
                 PROVE  rows[args[c].schema][v] = NoDoc
      OBVIOUS
    <2>1. args[c].schema \in Schemas
      BY CallFields DEF ReadMisses
    <2>2. latestRows[args[c].schema] = {}
      BY DEF ReadMisses, Selected
    <2> QED
      BY <2>1, <2>2 DEF LatestIsMarked
  <1>3. QED
    BY InitInv, NextInv, MarkedStep, <1>1, <1>2, PTL DEF Spec, LatestFoundIfStored

-----------------------------------------------------------------------------
(* What the cache holds ahead of the store                                 *)

\* With a SQL store and no plugin, what a handler is about to cache is what
\* its client submitted or a row the store has.
FromStore ==
  Backend = "sql" /\ ~PluginBound =>
    \A c \in Calls :
      pc[c] \in {"setBare", "setVersioned", "mirror"} =>
        \/ source[c] = "request"
        \/ ~Register(c) /\ rows[args[c].schema][VersionOf[entry[c]]] # NoDoc

\* A row read from the store is under its own version, and rows are never
\* emptied.
LEMMA FromStoreStep ==
  Inv /\ VersionedKeysHonest /\ FromStore /\ [Next]_vars => FromStore'
  <1> SUFFICES ASSUME Inv, VersionedKeysHonest, FromStore, [Next]_vars,
                      Backend = "sql", ~PluginBound
               PROVE  FromStore'
    BY DEF FromStore
  <1> USE DocsAssumption, DeploymentAssumption, CallFields
  <1> USE DEF Inv, TypeOK, CallOK, FromStore, Register, Writing, memory, disk,
              locals, past
  <1>1. ASSUME NEW c \in Calls, Begin(c)
        PROVE  FromStore'
    BY <1>1 DEF Begin, Goto, Take
  <1>2. ASSUME NEW c \in Calls, Reject(c)
        PROVE  FromStore'
    BY <1>2 DEF Reject, Return, Unlock, Goto
  <1>3. ASSUME NEW c \in Calls, AcquireCompatLock(c)
        PROVE  FromStore'
    BY <1>3 DEF AcquireCompatLock, Goto
  <1>4. ASSUME NEW c \in Calls, LookupCache(c)
        PROVE  FromStore'
    BY <1>4 DEF LookupCache, Goto, Take, Commit, Return, Unlock
  <1>5. ASSUME NEW c \in Calls, PluginSilent(c)
        PROVE  FromStore'
    BY <1>5 DEF PluginSilent, Goto
  <1>6. ASSUME NEW c \in Calls, PluginFails(c)
        PROVE  FromStore'
    BY <1>6 DEF PluginFails, GiveUp, Return, Unlock, Goto
  <1>7. ASSUME NEW c \in Calls, PluginAnswers(c)
        PROVE  FromStore'
    BY <1>7 DEF PluginAnswers, Goto
  <1>8. ASSUME NEW c \in Calls, NoStore(c)
        PROVE  FromStore'
    BY <1>8 DEF NoStore, Commit, Take, GiveUp, Return, Unlock, Goto
  <1>9. ASSUME NEW c \in Calls, ReadMisses(c)
        PROVE  FromStore'
    BY <1>9 DEF ReadMisses, GiveUp, Return, Unlock, Goto
  <1>10. ASSUME NEW c \in Calls, ReadFails(c)
        PROVE  FromStore'
    BY <1>10 DEF ReadFails, GiveUp, Return, Unlock, Goto
  <1>11. ASSUME NEW c \in Calls, ReadHits(c)
        PROVE  FromStore'
    <2>1. PICK d \in Selected(args[c].schema, args[c].version) :
            \/ Register(c) /\ Commit(c, d)
            \/ /\ ~Register(c)
               /\ Take(c, d, "store")
               /\ Goto(c, IF args[c].version = Latest THEN "setBare"
                                                      ELSE "setVersioned")
      BY <1>11 DEF ReadHits
    <2>2. rows[args[c].schema][VersionOf[d]] # NoDoc
      <3>1. PICK v \in Versions : d = rows[args[c].schema][v] /\ d # NoDoc
        <4>1. args[c].schema \in Schemas /\ args[c].version \in Keys
          BY <1>11 DEF ReadHits
        <4>2. CASE args[c].version = Latest
          BY <2>1, <4>1, <4>2 DEF Selected, LatestRowsExist
        <4>3. CASE args[c].version # Latest
          <5>1. d \in {rows[args[c].schema][args[c].version]} \ {NoDoc}
            BY <2>1, <4>3 DEF Selected
          <5>2. args[c].version \in Versions
            BY <4>1, <4>3 DEF Keys
          <5> QED
            BY <5>1, <5>2
        <4> QED
          BY <4>2, <4>3
      <3>2. VersionOf[d] = v
        BY <1>11, <3>1 DEF ReadHits, VersionedKeysHonest
      <3> QED
        BY <3>1, <3>2
    <2>3. UNCHANGED <<rows, args>>
      BY <1>11 DEF ReadHits
    <2>4. \A b \in Calls \ {c} : UNCHANGED <<pc[b], source[b], entry[b]>>
      BY <2>1 DEF Commit, Take, Goto
    <2>5. pc'[c] \in {"setBare", "setVersioned", "mirror"} =>
            source'[c] = "request" \/ (~Register(c) /\ entry'[c] = d)
      BY <2>1 DEF Commit, Take
    <2> QED
      BY <2>2, <2>3, <2>4, <2>5
  <1>12. ASSUME NEW c \in Calls, RouterFails(c)
        PROVE  FromStore'
    BY <1>12 DEF RouterFails, Return, Unlock, Goto
  <1>13. ASSUME NEW c \in Calls, SetBare(c)
        PROVE  FromStore'
    BY <1>13 DEF SetBare, Goto
  <1>14. ASSUME NEW c \in Calls, SetRequested(c)
        PROVE  FromStore'
    BY <1>14 DEF SetRequested, WriteVersion, Goto
  <1>15. ASSUME NEW c \in Calls, SetVersioned(c)
        PROVE  FromStore'
    BY <1>15 DEF SetVersioned, WriteVersion, Goto
  <1>16. ASSUME NEW c \in Calls, Mirror(c)
        PROVE  FromStore'
    BY <1>16 DEF Mirror, Commit, Take, Return, Unlock, Goto
  <1>17. ASSUME NEW c \in Calls, Persist(c)
        PROVE  FromStore'
    BY <1>17 DEF Persist, SetSchema, Goto
  <1>18. ASSUME NEW c \in Calls, PersistFails(c)
        PROVE  FromStore'
    BY <1>18 DEF PersistFails, Goto
  <1>19. ASSUME NEW c \in Calls, Respond(c)
        PROVE  FromStore'
    BY <1>19 DEF Respond, Return, Unlock, Goto
  <1>20. ASSUME NEW c \in Calls, Generate(c)
        PROVE  FromStore'
    BY <1>20 DEF Generate, Return, Unlock, Goto
  <1>21. ASSUME NEW s \in Schemas, NEW k \in Keys, Evict(s, k)
        PROVE  FromStore'
    BY <1>21 DEF Evict
  <1>22. CASE Restart
    BY <1>22 DEF Restart, EmptyCache, NoRows
  <1>23. CASE UNCHANGED vars
    BY <1>23 DEF vars
  <1>24. QED
    BY <1>1, <1>2, <1>3, <1>4, <1>5, <1>6, <1>7, <1>8, <1>9, <1>10, <1>11, <1>12, <1>13, <1>14, <1>15, <1>16, <1>17, <1>18, <1>19, <1>20, <1>21, <1>22, <1>23 DEF Next, Handler

\* A step keeps every excuse: it empties no row, forgets no fault, and a
\* registration that leaves its way to the store has reached it or failed.
LEMMA ExcuseKept ==
  ASSUME CachedIsStored, Backend = "sql", ~PluginBound,
         \A s \in Schemas, v \in Versions :
           /\ cache'[s][v] # NoDoc => cache[s][v] # NoDoc
           /\ rows[s][v] # NoDoc => rows'[s][v] # NoDoc,
         \A c \in Calls : Register(c) =>
           /\ args'[c] = args[c]
           /\ fault[c] => fault'[c]
           /\ pc[c] \in {"mirror", "persist"} =>
                \/ pc'[c] \in {"mirror", "persist"} \/ fault'[c]
                \/ rows'[args[c].schema][VersionOf[args[c].doc]] # NoDoc
  PROVE  CachedIsStored'
BY DEF CachedIsStored, StillToStore, Register

\* A version enters the cache from the store or on its way there.
LEMMA BackedStep ==
  Inv /\ LabelsHonest /\ FromStore /\ CachedIsStored /\ [Next]_vars => CachedIsStored'
  <1> SUFFICES ASSUME Inv, LabelsHonest, FromStore, CachedIsStored, [Next]_vars,
                      Backend = "sql", ~PluginBound
               PROVE  CachedIsStored'
    BY DEF CachedIsStored
  <1> USE DocsAssumption, DeploymentAssumption, CallFields
  <1> USE DEF Inv, TypeOK, CallOK, FromStore, Register, Writing, Keys, memory,
              disk, locals, past
  <1>1. ASSUME NEW c \in Calls, Begin(c)
        PROVE  CachedIsStored'
    <2>1. \A s \in Schemas, v \in Versions :
            /\ cache'[s][v] # NoDoc => cache[s][v] # NoDoc
            /\ rows[s][v] # NoDoc => rows'[s][v] # NoDoc
      BY <1>1 DEF Begin, Goto, Take
    <2>2. \A b \in Calls : Register(b) =>
            /\ args'[b] = args[b]
            /\ fault[b] => fault'[b]
            /\ pc[b] \in {"mirror", "persist"} =>
                 \/ pc'[b] \in {"mirror", "persist"} \/ fault'[b]
                 \/ rows'[args[b].schema][VersionOf[args[b].doc]] # NoDoc
      BY <1>1 DEF Begin, Goto, Take
    <2> QED
      BY ExcuseKept, <2>1, <2>2
  <1>2. ASSUME NEW c \in Calls, Reject(c)
        PROVE  CachedIsStored'
    <2>1. \A s \in Schemas, v \in Versions :
            /\ cache'[s][v] # NoDoc => cache[s][v] # NoDoc
            /\ rows[s][v] # NoDoc => rows'[s][v] # NoDoc
      BY <1>2 DEF Reject, Return, Unlock, Goto
    <2>2. \A b \in Calls : Register(b) =>
            /\ args'[b] = args[b]
            /\ fault[b] => fault'[b]
            /\ pc[b] \in {"mirror", "persist"} =>
                 \/ pc'[b] \in {"mirror", "persist"} \/ fault'[b]
                 \/ rows'[args[b].schema][VersionOf[args[b].doc]] # NoDoc
      BY <1>2 DEF Reject, Return, Unlock, Goto
    <2> QED
      BY ExcuseKept, <2>1, <2>2
  <1>3. ASSUME NEW c \in Calls, AcquireCompatLock(c)
        PROVE  CachedIsStored'
    <2>1. \A s \in Schemas, v \in Versions :
            /\ cache'[s][v] # NoDoc => cache[s][v] # NoDoc
            /\ rows[s][v] # NoDoc => rows'[s][v] # NoDoc
      BY <1>3 DEF AcquireCompatLock, Goto
    <2>2. \A b \in Calls : Register(b) =>
            /\ args'[b] = args[b]
            /\ fault[b] => fault'[b]
            /\ pc[b] \in {"mirror", "persist"} =>
                 \/ pc'[b] \in {"mirror", "persist"} \/ fault'[b]
                 \/ rows'[args[b].schema][VersionOf[args[b].doc]] # NoDoc
      BY <1>3 DEF AcquireCompatLock, Goto
    <2> QED
      BY ExcuseKept, <2>1, <2>2
  <1>4. ASSUME NEW c \in Calls, LookupCache(c)
        PROVE  CachedIsStored'
    <2>1. \A s \in Schemas, v \in Versions :
            /\ cache'[s][v] # NoDoc => cache[s][v] # NoDoc
            /\ rows[s][v] # NoDoc => rows'[s][v] # NoDoc
      BY <1>4 DEF LookupCache, Goto, Take, Commit, Return
    <2>2. \A b \in Calls : Register(b) =>
            /\ args'[b] = args[b]
            /\ fault[b] => fault'[b]
            /\ pc[b] \in {"mirror", "persist"} =>
                 \/ pc'[b] \in {"mirror", "persist"} \/ fault'[b]
                 \/ rows'[args[b].schema][VersionOf[args[b].doc]] # NoDoc
      BY <1>4 DEF LookupCache, Goto, Take, Commit, Return
    <2> QED
      BY ExcuseKept, <2>1, <2>2
  <1>5. ASSUME NEW c \in Calls, PluginSilent(c)
        PROVE  CachedIsStored'
    <2>1. \A s \in Schemas, v \in Versions :
            /\ cache'[s][v] # NoDoc => cache[s][v] # NoDoc
            /\ rows[s][v] # NoDoc => rows'[s][v] # NoDoc
      BY <1>5 DEF PluginSilent, Goto
    <2>2. \A b \in Calls : Register(b) =>
            /\ args'[b] = args[b]
            /\ fault[b] => fault'[b]
            /\ pc[b] \in {"mirror", "persist"} =>
                 \/ pc'[b] \in {"mirror", "persist"} \/ fault'[b]
                 \/ rows'[args[b].schema][VersionOf[args[b].doc]] # NoDoc
      BY <1>5 DEF PluginSilent, Goto
    <2> QED
      BY ExcuseKept, <2>1, <2>2
  <1>6. ASSUME NEW c \in Calls, PluginFails(c)
        PROVE  CachedIsStored'
    BY <1>6 DEF PluginFails
  <1>7. ASSUME NEW c \in Calls, PluginAnswers(c)
        PROVE  CachedIsStored'
    BY <1>7 DEF PluginAnswers
  <1>8. ASSUME NEW c \in Calls, NoStore(c)
        PROVE  CachedIsStored'
    BY <1>8 DEF NoStore
  <1>9. ASSUME NEW c \in Calls, ReadMisses(c)
        PROVE  CachedIsStored'
    <2>1. \A s \in Schemas, v \in Versions :
            /\ cache'[s][v] # NoDoc => cache[s][v] # NoDoc
            /\ rows[s][v] # NoDoc => rows'[s][v] # NoDoc
      BY <1>9 DEF ReadMisses, GiveUp, Return, Goto
    <2>2. \A b \in Calls : Register(b) =>
            /\ args'[b] = args[b]
            /\ fault[b] => fault'[b]
            /\ pc[b] \in {"mirror", "persist"} =>
                 \/ pc'[b] \in {"mirror", "persist"} \/ fault'[b]
                 \/ rows'[args[b].schema][VersionOf[args[b].doc]] # NoDoc
      BY <1>9 DEF ReadMisses, GiveUp, Return, Goto
    <2> QED
      BY ExcuseKept, <2>1, <2>2
  <1>10. ASSUME NEW c \in Calls, ReadFails(c)
        PROVE  CachedIsStored'
    <2>1. \A s \in Schemas, v \in Versions :
            /\ cache'[s][v] # NoDoc => cache[s][v] # NoDoc
            /\ rows[s][v] # NoDoc => rows'[s][v] # NoDoc
      BY <1>10 DEF ReadFails, GiveUp, Return, Goto
    <2>2. \A b \in Calls : Register(b) =>
            /\ args'[b] = args[b]
            /\ fault[b] => fault'[b]
            /\ pc[b] \in {"mirror", "persist"} =>
                 \/ pc'[b] \in {"mirror", "persist"} \/ fault'[b]
                 \/ rows'[args[b].schema][VersionOf[args[b].doc]] # NoDoc
      BY <1>10 DEF ReadFails, GiveUp, Return, Goto
    <2> QED
      BY ExcuseKept, <2>1, <2>2
  <1>11. ASSUME NEW c \in Calls, ReadHits(c)
        PROVE  CachedIsStored'
    <2>1. \A s \in Schemas, v \in Versions :
            /\ cache'[s][v] # NoDoc => cache[s][v] # NoDoc
            /\ rows[s][v] # NoDoc => rows'[s][v] # NoDoc
      BY <1>11 DEF ReadHits, Commit, Take, Goto
    <2>2. \A b \in Calls : Register(b) =>
            /\ args'[b] = args[b]
            /\ fault[b] => fault'[b]
            /\ pc[b] \in {"mirror", "persist"} =>
                 \/ pc'[b] \in {"mirror", "persist"} \/ fault'[b]
                 \/ rows'[args[b].schema][VersionOf[args[b].doc]] # NoDoc
      BY <1>11 DEF ReadHits, Commit, Take, Goto
    <2> QED
      BY ExcuseKept, <2>1, <2>2
  <1>12. ASSUME NEW c \in Calls, RouterFails(c)
        PROVE  CachedIsStored'
    <2>1. \A s \in Schemas, v \in Versions :
            /\ cache'[s][v] # NoDoc => cache[s][v] # NoDoc
            /\ rows[s][v] # NoDoc => rows'[s][v] # NoDoc
      BY <1>12 DEF RouterFails, Return, Goto
    <2>2. \A b \in Calls : Register(b) =>
            /\ args'[b] = args[b]
            /\ fault[b] => fault'[b]
            /\ pc[b] \in {"mirror", "persist"} =>
                 \/ pc'[b] \in {"mirror", "persist"} \/ fault'[b]
                 \/ rows'[args[b].schema][VersionOf[args[b].doc]] # NoDoc
      BY <1>12 DEF RouterFails, Return, Goto
    <2> QED
      BY ExcuseKept, <2>1, <2>2
  <1>13. ASSUME NEW c \in Calls, SetBare(c)
        PROVE  CachedIsStored'
    <2>1. \A s \in Schemas, v \in Versions :
            /\ cache'[s][v] # NoDoc => cache[s][v] # NoDoc
            /\ rows[s][v] # NoDoc => rows'[s][v] # NoDoc
      BY <1>13 DEF SetBare, Goto
    <2>2. \A b \in Calls : Register(b) =>
            /\ args'[b] = args[b]
            /\ fault[b] => fault'[b]
            /\ pc[b] \in {"mirror", "persist"} =>
                 \/ pc'[b] \in {"mirror", "persist"} \/ fault'[b]
                 \/ rows'[args[b].schema][VersionOf[args[b].doc]] # NoDoc
      BY <1>13 DEF SetBare, Goto
    <2> QED
      BY ExcuseKept, <2>1, <2>2
  <1>14. ASSUME NEW c \in Calls, SetRequested(c)
        PROVE  CachedIsStored'
    BY <1>14 DEF SetRequested
  <1>15. ASSUME NEW c \in Calls, SetVersioned(c)
        PROVE  CachedIsStored'
    <2> DEFINE at == args[c].schema
               put == VersionOf[entry[c]]
    <2>1. /\ at \in Schemas /\ put \in Versions
          /\ cache' = [cache EXCEPT ![at][put] = entry[c]]
          /\ UNCHANGED <<rows, args, fault, entry>>
          /\ pc' = [pc EXCEPT ![c] = "mirror"]
      BY <1>15, LabelIsVersion DEF SetVersioned, WriteVersion, Goto
    <2>2. \/ rows[at][put] # NoDoc
          \/ Register(c) /\ entry[c] = args[c].doc
      BY <1>15 DEF SetVersioned
    <2>3. SUFFICES ASSUME NEW s \in Schemas, NEW v \in Versions,
                          cache'[s][v] # NoDoc
                   PROVE  rows'[s][v] # NoDoc
                            \/ \E b \in Calls : StillToStore(b, s, v)'
      BY DEF CachedIsStored
    <2>4. CASE s = at /\ v = put
      BY <2>1, <2>2, <2>4 DEF StillToStore
    <2>5. CASE ~(s = at /\ v = put)
      <3>1. cache[s][v] # NoDoc
        BY <2>1, <2>3, <2>5
      <3>2. \A b \in Calls : StillToStore(b, s, v) => StillToStore(b, s, v)'
        BY <2>1 DEF StillToStore
      <3> QED
        BY <2>1, <3>1, <3>2 DEF CachedIsStored
    <2> QED
      BY <2>4, <2>5
  <1>16. ASSUME NEW c \in Calls, Mirror(c)
        PROVE  CachedIsStored'
    <2>1. \A s \in Schemas, v \in Versions :
            /\ cache'[s][v] # NoDoc => cache[s][v] # NoDoc
            /\ rows[s][v] # NoDoc => rows'[s][v] # NoDoc
      BY <1>16 DEF Mirror, Commit, Take, Return, Goto
    <2>2. \A b \in Calls : Register(b) =>
            /\ args'[b] = args[b]
            /\ fault[b] => fault'[b]
            /\ pc[b] \in {"mirror", "persist"} =>
                 \/ pc'[b] \in {"mirror", "persist"} \/ fault'[b]
                 \/ rows'[args[b].schema][VersionOf[args[b].doc]] # NoDoc
      BY <1>16 DEF Mirror, Commit, Take, Return, Goto
    <2> QED
      BY ExcuseKept, <2>1, <2>2
  <1>17. ASSUME NEW c \in Calls, Persist(c)
        PROVE  CachedIsStored'
    <2>1. \A s \in Schemas, v \in Versions :
            /\ cache'[s][v] # NoDoc => cache[s][v] # NoDoc
            /\ rows[s][v] # NoDoc => rows'[s][v] # NoDoc
      BY <1>17 DEF Persist, SetSchema, Goto
    <2>2. \A b \in Calls : Register(b) =>
            /\ args'[b] = args[b]
            /\ fault[b] => fault'[b]
            /\ pc[b] \in {"mirror", "persist"} =>
                 \/ pc'[b] \in {"mirror", "persist"} \/ fault'[b]
                 \/ rows'[args[b].schema][VersionOf[args[b].doc]] # NoDoc
      BY <1>17 DEF Persist, SetSchema, Goto
    <2> QED
      BY ExcuseKept, <2>1, <2>2
  <1>18. ASSUME NEW c \in Calls, PersistFails(c)
        PROVE  CachedIsStored'
    <2>1. \A s \in Schemas, v \in Versions :
            /\ cache'[s][v] # NoDoc => cache[s][v] # NoDoc
            /\ rows[s][v] # NoDoc => rows'[s][v] # NoDoc
      BY <1>18 DEF PersistFails, Goto
    <2>2. \A b \in Calls : Register(b) =>
            /\ args'[b] = args[b]
            /\ fault[b] => fault'[b]
            /\ pc[b] \in {"mirror", "persist"} =>
                 \/ pc'[b] \in {"mirror", "persist"} \/ fault'[b]
                 \/ rows'[args[b].schema][VersionOf[args[b].doc]] # NoDoc
      BY <1>18 DEF PersistFails, Goto
    <2> QED
      BY ExcuseKept, <2>1, <2>2
  <1>19. ASSUME NEW c \in Calls, Respond(c)
        PROVE  CachedIsStored'
    <2>1. \A s \in Schemas, v \in Versions :
            /\ cache'[s][v] # NoDoc => cache[s][v] # NoDoc
            /\ rows[s][v] # NoDoc => rows'[s][v] # NoDoc
      BY <1>19 DEF Respond, Return, Goto
    <2>2. \A b \in Calls : Register(b) =>
            /\ args'[b] = args[b]
            /\ fault[b] => fault'[b]
            /\ pc[b] \in {"mirror", "persist"} =>
                 \/ pc'[b] \in {"mirror", "persist"} \/ fault'[b]
                 \/ rows'[args[b].schema][VersionOf[args[b].doc]] # NoDoc
      BY <1>19 DEF Respond, Return, Goto
    <2> QED
      BY ExcuseKept, <2>1, <2>2
  <1>20. ASSUME NEW c \in Calls, Generate(c)
        PROVE  CachedIsStored'
    <2>1. \A s \in Schemas, v \in Versions :
            /\ cache'[s][v] # NoDoc => cache[s][v] # NoDoc
            /\ rows[s][v] # NoDoc => rows'[s][v] # NoDoc
      BY <1>20 DEF Generate, Return, Goto
    <2>2. \A b \in Calls : Register(b) =>
            /\ args'[b] = args[b]
            /\ fault[b] => fault'[b]
            /\ pc[b] \in {"mirror", "persist"} =>
                 \/ pc'[b] \in {"mirror", "persist"} \/ fault'[b]
                 \/ rows'[args[b].schema][VersionOf[args[b].doc]] # NoDoc
      BY <1>20 DEF Generate, Return, Goto
    <2> QED
      BY ExcuseKept, <2>1, <2>2
  <1>21. ASSUME NEW s \in Schemas, NEW k \in Keys, Evict(s, k)
        PROVE  CachedIsStored'
    <2>1. \A t \in Schemas, v \in Versions :
            /\ cache'[t][v] # NoDoc => cache[t][v] # NoDoc
            /\ rows[t][v] # NoDoc => rows'[t][v] # NoDoc
      BY <1>21 DEF Evict
    <2>2. \A b \in Calls : Register(b) =>
            /\ args'[b] = args[b]
            /\ fault[b] => fault'[b]
            /\ pc[b] \in {"mirror", "persist"} =>
                 \/ pc'[b] \in {"mirror", "persist"} \/ fault'[b]
                 \/ rows'[args[b].schema][VersionOf[args[b].doc]] # NoDoc
      BY <1>21 DEF Evict
    <2> QED
      BY ExcuseKept, <2>1, <2>2
  <1>22. CASE Restart
    BY <1>22 DEF Restart, EmptyCache, CachedIsStored
  <1>23. CASE UNCHANGED vars
    BY <1>23 DEF vars, CachedIsStored, StillToStore
  <1>24. QED
    BY <1>1, <1>2, <1>3, <1>4, <1>5, <1>6, <1>7, <1>8, <1>9, <1>10, <1>11, <1>12, <1>13, <1>14, <1>15, <1>16, <1>17, <1>18, <1>19, <1>20, <1>21, <1>22, <1>23 DEF Next, Handler

\* With a SQL store and no plugin, whatever is cached for a version is in the
\* store, on its way there, or its client is told that the write failed.
THEOREM CachedStored == Spec => []CachedIsStored
  <1>1. Init => FromStore /\ CachedIsStored
    BY DEF Init, FromStore, CachedIsStored, EmptyCache, Keys
  <1>2. QED
    BY InitInv, NextInv, InitHonest, LabelStep, HonestStep, FromStoreStep, BackedStep,
       <1>1, PTL DEF Spec

-----------------------------------------------------------------------------
(* What the cache keeps, against the store                                 *)

\* What may excuse document d under version v of s.
Excused(s, v, d) ==
  \/ d = rows[s][v]
  \/ v \in crossed[s]
  \/ \E c \in Calls : Unsaved(c) /\ args[c].schema = s /\ args[c].doc = d

\* What a reader is about to cache is excused like what is cached, and a
\* registration on its way to the store finds its document cached, if any.
CurrentInv ==
  Backend = "sql" /\ ~PluginBound =>
    /\ CachedIsCurrent
    /\ \A c \in Calls :
         /\ pc[c] \in {"setBare", "setVersioned"} /\ source[c] # "request" =>
              Excused(args[c].schema, Label(c), entry[c])
         /\ pc[c] \in {"mirror", "persist"} /\ source[c] = "request" =>
              \/ Label(c) \in crossed[args[c].schema]
              \/ cache[args[c].schema][Label(c)] \in {NoDoc, entry[c]}

\* The places of the handlers, and everything that CurrentInv rests on.
Grounds == Inv /\ LabelsHonest /\ VersionedKeysHonest /\ FromStore /\ StoredWhenAnswered

\* A handler's step leaves the other calls alone.
LEMMA Frame ==
  ASSUME Inv, NEW c \in Calls, Handler(c), NEW b \in Calls, b # c
  PROVE  /\ pc'[b] = pc[b] /\ args'[b] = args[b] /\ entry'[b] = entry[b]
         /\ source'[b] = source[b] /\ reply'[b] = reply[b] /\ fault'[b] = fault[b]
  <1> USE DEF Inv, TypeOK, locals
  <1>1. CASE Begin(c) \/ Reject(c) \/ AcquireCompatLock(c)
    BY <1>1 DEF Begin, Reject, AcquireCompatLock, Return, Take, Goto
  <1>2. CASE LookupCache(c)
    BY <1>2 DEF LookupCache, Commit, Return, Take, Goto
  <1>3. CASE PluginSilent(c) \/ PluginFails(c) \/ PluginAnswers(c)
    BY <1>3 DEF PluginSilent, PluginFails, PluginAnswers, GiveUp, Return, Take, Goto
  <1>4. CASE NoStore(c) \/ ReadMisses(c) \/ ReadFails(c)
    BY <1>4 DEF NoStore, ReadMisses, ReadFails, GiveUp, Commit, Return, Take, Goto
  <1>5. CASE ReadHits(c)
    BY <1>5 DEF ReadHits, Commit, Take, Goto
  <1>6. CASE RouterFails(c) \/ SetBare(c) \/ SetRequested(c) \/ SetVersioned(c)
    BY <1>6 DEF RouterFails, SetBare, SetRequested, SetVersioned, WriteVersion, Return, Goto
  <1>7. CASE Mirror(c)
    BY <1>7, MirrorWays DEF Commit, Return, Take, Goto
  <1>8. CASE Persist(c) \/ PersistFails(c) \/ Respond(c) \/ Generate(c)
    BY <1>8 DEF Persist, PersistFails, Respond, Generate, Return, Goto
  <1>9. QED
    BY <1>1, <1>2, <1>3, <1>4, <1>5, <1>6, <1>7, <1>8 DEF Handler

\* A step that writes neither a version's key nor a row keeps the invariant, if
\* it keeps what is unsaved and if whoever comes to carry a document took it
\* from the store.
LEMMA QuietStep ==
  ASSUME CurrentInv, Backend = "sql", ~PluginBound, UNCHANGED <<rows, crossed>>,
         \A s \in Schemas, v \in Versions : cache'[s][v] \in {NoDoc, cache[s][v]},
         \A b \in Calls : Unsaved(b) => Unsaved(b)' /\ args'[b] = args[b],
         \A b \in Calls :
           pc'[b] \in {"setBare", "setVersioned"} /\ source'[b] # "request" =>
             Excused(args'[b].schema, Label(b)', entry'[b]),
         \A b \in Calls :
           pc'[b] \in {"mirror", "persist"} /\ source'[b] = "request" =>
             /\ pc[b] \in {"mirror", "persist"}
             /\ source'[b] = source[b] /\ entry'[b] = entry[b] /\ args'[b] = args[b]
             /\ args[b].schema \in Schemas /\ Label(b) \in Versions
  PROVE  CurrentInv'
  <1>2. CachedIsCurrent'
    <2> SUFFICES ASSUME NEW s \in Schemas, NEW v \in Versions, cache'[s][v] # NoDoc
                 PROVE  Excused(s, v, cache[s][v])'
      BY DEF CachedIsCurrent, Excused
    <2>1. cache'[s][v] = cache[s][v]
      OBVIOUS
    <2>2. Excused(s, v, cache[s][v])
      BY <2>1 DEF CurrentInv, CachedIsCurrent, Excused
    <2> QED
      BY <2>1, <2>2 DEF Excused
  <1>3. ASSUME NEW b \in Calls,
               pc'[b] \in {"setBare", "setVersioned"}, source'[b] # "request"
        PROVE  Excused(args[b].schema, Label(b), entry[b])'
    <2>1. Excused(args'[b].schema, Label(b)', entry'[b])
      BY <1>3
    <2> QED
      BY <2>1 DEF Excused
  <1>4. ASSUME NEW b \in Calls, pc'[b] \in {"mirror", "persist"}, source'[b] = "request"
        PROVE  \/ Label(b)' \in crossed'[args'[b].schema]
               \/ cache'[args'[b].schema][Label(b)'] \in {NoDoc, entry'[b]}
    <2>1. /\ pc[b] \in {"mirror", "persist"} /\ source[b] = "request"
          /\ UNCHANGED <<source[b], entry[b], args[b]>>
          /\ args[b].schema \in Schemas /\ Label(b) \in Versions
      BY <1>4
    <2>2. Label(b)' = Label(b)
      BY <2>1 DEF Label
    <2>3. \/ Label(b) \in crossed[args[b].schema]
          \/ cache[args[b].schema][Label(b)] \in {NoDoc, entry[b]}
      BY <2>1 DEF CurrentInv
    <2> QED
      BY <2>1, <2>2, <2>3
  <1> QED
    BY <1>2, <1>3, <1>4 DEF CurrentInv

\* What is unsaved stays so until it is stored.
LEMMA UnsavedKept ==
  ASSUME Grounds, Backend = "sql", ~PluginBound,
         NEW c \in Calls, Handler(c), NEW b \in Calls, Unsaved(b)
  PROVE  args'[b] = args[b] /\ (Unsaved(b)' \/ (b = c /\ Persist(c)))
  <1>1. CASE b # c
    BY <1>1, Frame DEF Grounds, Unsaved, Register
  <1>2. CASE b = c
    <2>1. Register(c) /\ pc[c] \in {"mirror", "persist", "respond", "done"}
      BY <1>2 DEF Grounds, Unsaved, StoredWhenAnswered
    <2>2. CASE Mirror(c)
      <3>1. source[c] = "request" /\ pc[c] = "mirror" /\ args[c].op = "register"
        BY <2>1, <2>2 DEF Grounds, FromStore, Register, Mirror
      <3> QED
        BY <1>2, <2>2, <3>1 DEF Mirror, Goto, Unsaved, Register, Grounds, Inv, TypeOK
    <2>3. CASE PersistFails(c)
      BY <1>2, <2>1, <2>3 DEF PersistFails, Goto, Unsaved, Register, Grounds, Inv, TypeOK
    <2>4. CASE Respond(c)
      <3>1. fault[c] /\ args' = args
        BY <1>2, <2>4 DEF Unsaved, Respond, Grounds, StoredWhenAnswered
      <3> QED
        BY <1>2, <2>1, <2>4, <3>1
        DEF Respond, Return, Unsaved, Register, Grounds, Inv, TypeOK
    <2>5. CASE Persist(c)
      BY <1>2, <2>5 DEF Persist
    <2> QED
      BY <2>1, <2>2, <2>3, <2>4, <2>5
      DEF Handler, Begin, Reject, AcquireCompatLock, LookupCache, PluginSilent, PluginFails,
          PluginAnswers, NoStore, ReadMisses, ReadFails, ReadHits, RouterFails, SetBare,
          SetRequested, SetVersioned, Generate
  <1> QED
    BY <1>1, <1>2

\* Who comes to carry a document over a quiet step of c is c itself, with a row.
LEMMA QuietHandler ==
  ASSUME Grounds, CurrentInv, Backend = "sql", ~PluginBound,
         NEW c \in Calls, Handler(c), ~SetVersioned(c), ~Persist(c)
  PROVE  CurrentInv'
  <1> USE DEF Grounds, Inv, TypeOK, locals
  <1>1. ~PluginAnswers(c) /\ ~SetRequested(c) /\ ~NoStore(c)
    BY DEF PluginAnswers, SetRequested, NoStore, CallOK
  <1>2. UNCHANGED <<rows, crossed>>
    BY <1>1 DEF Handler, Begin, Reject, AcquireCompatLock, LookupCache, PluginSilent,
                PluginFails, ReadMisses, ReadFails, ReadHits, RouterFails, SetBare, Mirror,
                PersistFails, Respond, Generate, disk, past
  <1>3. \A s \in Schemas, v \in Versions : cache'[s][v] \in {NoDoc, cache[s][v]}
    <2>1. CASE SetBare(c)
      BY <2>1, DocsAssumption DEF SetBare, Keys
    <2>2. CASE ~SetBare(c)
      BY <1>1, <2>2
      DEF Handler, Begin, Reject, AcquireCompatLock, LookupCache, PluginSilent, PluginFails,
          ReadMisses, ReadFails, ReadHits, RouterFails, Mirror, PersistFails, Respond,
          Generate, memory
    <2> QED
      BY <2>1, <2>2
  <1>4. \A b \in Calls : Unsaved(b) => Unsaved(b)' /\ args'[b] = args[b]
    BY UnsavedKept
  <1>5. ASSUME NEW b \in Calls, pc'[b] \in {"setBare", "setVersioned"}, source'[b] # "request"
        PROVE  Excused(args'[b].schema, Label(b)', entry'[b])
    <2>1. CASE /\ pc[b] \in {"setBare", "setVersioned"} /\ source'[b] = source[b]
               /\ args'[b] = args[b] /\ entry'[b] = entry[b]
      <3>1. Label(b)' = Label(b)
        BY <2>1 DEF Label
      <3>2. Excused(args[b].schema, Label(b), entry[b])
        BY <1>5, <2>1 DEF CurrentInv
      <3> QED
        BY <2>1, <3>1, <3>2
    <2>2. CASE b = c /\ SetBare(c)
      <3>1. /\ pc[b] \in {"setBare", "setVersioned"} /\ source'[b] = source[b]
            /\ args'[b] = args[b] /\ entry'[b] = entry[b]
        BY <2>2 DEF SetBare
      <3> QED
        BY <2>1, <3>1
    <2>3. CASE b = c /\ ReadHits(c)
      <3>1. PICK d \in Selected(args[c].schema, args[c].version) :
              \/ Register(c) /\ Commit(c, d)
              \/ Take(c, d, "store")
        BY <2>3 DEF ReadHits
      <3>2. Take(c, d, "store") /\ args' = args /\ pc[c] = "read"
        BY <1>5, <2>3, <3>1 DEF ReadHits, Commit, Take
      <3>3. entry'[b] = d /\ source'[b] = "store" /\ args'[b] = args[b]
        BY <2>3, <3>2 DEF Take
      <3>4. args[c].schema \in Schemas /\ args[c].version \in Keys
        BY <3>2, CallFields
      <3>5. d = rows[args[c].schema][Label(b)']
        <4>1. CASE args[c].version = Latest
          <5>1. PICK w \in latestRows[args[c].schema] : d = rows[args[c].schema][w]
            BY <4>1 DEF Selected
          <5>2. w \in Versions /\ d # NoDoc
            BY <3>4, <5>1 DEF LatestRowsExist
          <5>3. VersionOf[d] = w
            BY <3>4, <5>1, <5>2 DEF LabelsHonest
          <5> QED
            BY <2>3, <3>3, <4>1, <5>1, <5>3 DEF Label
        <4>2. CASE args[c].version # Latest
          BY <2>3, <3>3, <4>2 DEF Label, Selected
        <4> QED
          BY <4>1, <4>2
      <3> QED
        BY <2>3, <3>3, <3>5 DEF Excused
    <2>4. CASE b = c /\ ~SetBare(c) /\ ~ReadHits(c)
      <3>1. CASE LookupCache(c)
        BY <1>5, <2>4, <3>1 DEF LookupCache, Commit, Take, Return, Goto
      <3>2. CASE Mirror(c)
        <4>1. source[c] = "request" \/ ~Register(c)
          BY <3>2 DEF Mirror, FromStore
        <4> QED
          BY <1>5, <2>4, <3>2, <4>1 DEF Mirror, Return, Goto, Register
      <3>3. CASE Begin(c)
        BY <1>5, <2>4, <3>3 DEF Begin, Take, Goto
      <3> QED
        BY <1>1, <1>5, <2>4, <3>1, <3>2, <3>3
        DEF Handler, Reject, AcquireCompatLock, PluginSilent, PluginFails, ReadMisses,
            ReadFails, RouterFails, PersistFails, Respond, Generate, GiveUp, Return, Goto
    <2>5. b # c => /\ pc[b] \in {"setBare", "setVersioned"} /\ source'[b] = source[b]
                   /\ args'[b] = args[b] /\ entry'[b] = entry[b]
      BY <1>5, Frame
    <2> QED
      BY <2>1, <2>2, <2>3, <2>4, <2>5
  <1>6. ASSUME NEW b \in Calls, pc'[b] \in {"mirror", "persist"}, source'[b] = "request"
        PROVE  /\ pc[b] \in {"mirror", "persist"}
               /\ source'[b] = source[b] /\ entry'[b] = entry[b] /\ args'[b] = args[b]
               /\ args[b].schema \in Schemas /\ Label(b) \in Versions
    <2>1. /\ pc[b] \in {"mirror", "persist"}
          /\ source'[b] = source[b] /\ entry'[b] = entry[b] /\ args'[b] = args[b]
      <3>1. CASE b # c
        BY <1>6, <3>1, Frame
      <3>2. CASE b = c /\ Mirror(c)
        BY <1>6, <3>2 DEF Mirror, Commit, Return, Goto
      <3>3. CASE b = c /\ ~Mirror(c)
        <4>1. pc'[c] \notin {"mirror", "persist"}
          BY <1>1, <3>3
          DEF Handler, Begin, Reject, AcquireCompatLock, LookupCache, PluginSilent, PluginFails,
              ReadMisses, ReadFails, ReadHits, RouterFails, SetBare, PersistFails, Respond,
              Generate, GiveUp, Commit, Return, Goto
        <4> QED
          BY <1>6, <3>3, <4>1
      <3> QED
        BY <3>1, <3>2, <3>3
    <2>2. args[b].schema \in Schemas /\ Label(b) \in Versions
      BY <2>1, CallFields, LabelTyped DEF Writing
    <2> QED
      BY <2>1, <2>2
  <1> HIDE DEF Grounds, Inv, TypeOK, locals
  <1> QED
    BY <1>2, <1>3, <1>4, <1>5, <1>6, QuietStep

\* Crossings are only forgotten by a registration, for the version it caches.
LEMMA CrossKeeps ==
  ASSUME Inv, NEW c \in Calls, Cross(c), NEW s \in Schemas, NEW v \in crossed[s]
  PROVE  \/ v \in crossed'[s]
         \/ /\ s = args[c].schema /\ v = Label(c)
            /\ source[c] = "request" /\ pc[c] = "setVersioned"
  BY DEF Cross, Inv, TypeOK

\* Who carries another document of the version written has been crossed.
LEMMA CrossMeets ==
  ASSUME Inv, NEW c \in Calls, Cross(c), args[c].schema \in Schemas,
         NEW b \in Calls, Carries(b, args[c].schema, Label(c)), entry[b] # entry[c]
  PROVE  Label(c) \in crossed'[args[c].schema]
  BY DEF Cross, Inv, TypeOK

\* A version's key is written: with a registration's own document, which is on
\* its way to the store, or with one that was excused when it was carried.
LEMMA CacheStep ==
  ASSUME Grounds, CurrentInv, Backend = "sql", ~PluginBound,
         NEW c \in Calls, SetVersioned(c)
  PROVE  CurrentInv'
  <1> DEFINE at == args[c].schema
             put == Label(c)
  <1>1. /\ at \in Schemas /\ put \in Versions /\ entry[c] \in Docs /\ pc[c] = "setVersioned"
    BY CallFields, LabelTyped DEF SetVersioned, Grounds, Inv, CallOK, Writing
  <1>2. /\ cache' = [cache EXCEPT ![at][put] = entry[c]]
        /\ pc' = [pc EXCEPT ![c] = "mirror"]
        /\ UNCHANGED <<rows, args, entry, source, reply, fault>>
        /\ Cross(c)
    BY DEF SetVersioned, WriteVersion, Goto, disk, locals
  <1>3. /\ pc' = [b \in Calls |-> IF b = c THEN "mirror" ELSE pc[b]]
        /\ \A s \in Schemas, v \in Versions :
             cache'[s][v] = IF s = at /\ v = put THEN entry[c] ELSE cache[s][v]
    BY <1>1, <1>2 DEF Grounds, Inv, TypeOK, Keys
  <1>4. \A b \in Calls : Unsaved(b) => Unsaved(b)'
    BY UnsavedKept, <1>1 DEF Handler, Persist
  <1>5. \A b \in Calls : Label(b)' = Label(b)
    BY <1>2 DEF Label
  <1>6. ASSUME NEW s \in Schemas, NEW v \in Versions, NEW d, Excused(s, v, d),
               ~(s = at /\ v = put) \/ source[c] # "request"
        PROVE  Excused(s, v, d)'
    <2>1. v \in crossed[s] => v \in crossed'[s]
      BY <1>2, <1>6, CrossKeeps DEF Grounds
    <2> QED
      BY <1>2, <1>4, <1>6, <2>1 DEF Excused
  <1>7. \/ entry[c] = rows'[at][put] \/ put \in crossed'[at]
        \/ \E b \in Calls : Unsaved(b)' /\ args'[b].schema = at /\ args'[b].doc = entry[c]
    <2>1. CASE source[c] = "request"
      <3>1. Register(c) /\ entry[c] = args[c].doc
        BY <1>1, <2>1 DEF Grounds, Inv, CallOK, Writing
      <3>2. Unsaved(c)'
        BY <1>2, <1>3, <3>1 DEF Unsaved, Register
      <3> QED
        BY <1>2, <3>1, <3>2
    <2>2. CASE source[c] # "request"
      <3>1. Excused(at, put, entry[c])
        BY <1>1, <2>2 DEF CurrentInv
      <3>2. put \in crossed[at] => put \in crossed'[at]
        BY <1>1, <1>2, <2>2, CrossKeeps DEF Grounds
      <3> QED
        BY <1>2, <1>4, <3>1, <3>2 DEF Excused
    <2> QED
      BY <2>1, <2>2
  <1> HIDE DEF at, put
  <1>8. CachedIsCurrent'
    <2> SUFFICES ASSUME NEW s \in Schemas, NEW v \in Versions, cache'[s][v] # NoDoc
                 PROVE  Excused(s, v, cache[s][v])'
      BY DEF CachedIsCurrent, Excused
    <2>1. CASE s = at /\ v = put
      BY <1>2, <1>3, <1>7, <2>1 DEF Excused
    <2>2. CASE ~(s = at /\ v = put)
      <3>1. cache'[s][v] = cache[s][v]
        BY <1>3, <2>2
      <3>2. Excused(s, v, cache[s][v])
        BY <3>1 DEF CurrentInv, CachedIsCurrent, Excused
      <3> QED
        BY <1>6, <2>2, <3>1, <3>2
    <2> QED
      BY <2>1, <2>2
  <1>9. ASSUME NEW b \in Calls,
               pc'[b] \in {"setBare", "setVersioned"}, source[b] # "request"
        PROVE  Excused(args[b].schema, Label(b), entry[b])'
    <2>1. /\ b # c /\ pc[b] \in {"setBare", "setVersioned"}
      BY <1>3, <1>9
    <2>2. /\ args[b].schema \in Schemas /\ Label(b) \in Versions
      BY <2>1, CallFields, LabelTyped DEF Grounds, Writing
    <2>3. Excused(args[b].schema, Label(b), entry[b])
      BY <1>9, <2>1 DEF CurrentInv
    <2>4. CASE ~(args[b].schema = at /\ Label(b) = put)
      BY <1>2, <1>5, <1>6, <2>2, <2>3, <2>4
    <2>5. CASE args[b].schema = at /\ Label(b) = put /\ entry[b] = entry[c]
      BY <1>2, <1>5, <1>7, <2>5 DEF Excused
    <2>6. CASE args[b].schema = at /\ Label(b) = put /\ entry[b] # entry[c]
      <3>1. Carries(b, at, put)
        BY <2>1, <2>6 DEF Carries
      <3>2. put \in crossed'[at]
        BY <1>1, <1>2, <2>6, <3>1, CrossMeets DEF Grounds, at, put
      <3> QED
        BY <1>2, <1>5, <2>6, <3>2 DEF Excused
    <2> QED
      BY <2>4, <2>5, <2>6
  <1>10. ASSUME NEW b \in Calls, pc'[b] \in {"mirror", "persist"}, source[b] = "request"
         PROVE  \/ Label(b) \in crossed'[args[b].schema]
                \/ cache'[args[b].schema][Label(b)] \in {NoDoc, entry[b]}
    <2>1. CASE b = c
      BY <1>1, <1>3, <2>1 DEF at, put
    <2>2. CASE b # c
      <3>1. pc[b] \in {"mirror", "persist"}
        BY <1>3, <1>10, <2>2
      <3>2. /\ args[b].schema \in Schemas /\ Label(b) \in Versions
        BY <3>1, CallFields, LabelTyped DEF Grounds, Writing
      <3>3. CASE args[b].schema = at /\ Label(b) = put /\ entry[b] # entry[c]
        <4>1. Carries(b, at, put)
          BY <1>10, <3>1, <3>3 DEF Carries
        <4> QED
          BY <1>1, <1>2, <3>3, <4>1, CrossMeets DEF Grounds, at, put
      <3>4. CASE args[b].schema = at /\ Label(b) = put /\ entry[b] = entry[c]
        BY <1>3, <3>2, <3>4
      <3>5. CASE ~(args[b].schema = at /\ Label(b) = put)
        <4>1. \/ Label(b) \in crossed[args[b].schema]
              \/ cache[args[b].schema][Label(b)] \in {NoDoc, entry[b]}
          BY <1>10, <3>1 DEF CurrentInv
        <4>2. CASE Label(b) \in crossed[args[b].schema]
          BY <1>2, <3>2, <3>5, <4>2, CrossKeeps DEF Grounds, at, put
        <4> QED
          BY <1>3, <3>2, <3>5, <4>1, <4>2
      <3> QED
        BY <3>3, <3>4, <3>5
    <2> QED
      BY <2>1, <2>2
  <1> QED
    BY <1>2, <1>5, <1>8, <1>9, <1>10 DEF CurrentInv

\* A row is written: what is cached for the version is the same document, or
\* somebody else put it there while this one was on its way.
LEMMA RowStep ==
  ASSUME Grounds, CurrentInv, Backend = "sql", ~PluginBound,
         NEW c \in Calls, Persist(c)
  PROVE  CurrentInv'
  <1> DEFINE at == args[c].schema
             put == Label(c)
  <1>1. /\ at \in Schemas /\ put \in Versions /\ entry[c] \in Docs /\ pc[c] = "persist"
        /\ source[c] = "request" /\ Register(c) /\ entry[c] = args[c].doc
        /\ put = VersionOf[entry[c]]
    BY CallFields, LabelTyped, LabelIsVersion DEF Persist, Grounds, Inv, CallOK, Writing
  <1>2. /\ rows' = [rows EXCEPT ![at][put] = entry[c]]
        /\ pc' = [pc EXCEPT ![c] = "respond"]
        /\ UNCHANGED <<cache, args, entry, source, reply, fault>>
        /\ Cross(c)
    BY <1>1 DEF Persist, SetSchema, Goto, memory, locals
  <1>3. /\ pc' = [b \in Calls |-> IF b = c THEN "respond" ELSE pc[b]]
        /\ \A s \in Schemas, v \in Versions :
             rows'[s][v] = IF s = at /\ v = put THEN entry[c] ELSE rows[s][v]
    BY <1>1, <1>2 DEF Grounds, Inv, TypeOK
  <1>4. \A b \in Calls \ {c} : Unsaved(b) => Unsaved(b)'
    BY UnsavedKept DEF Handler
  <1>5. \A b \in Calls : Label(b)' = Label(b)
    BY <1>2 DEF Label
  <1>6. \A s \in Schemas : \A v \in crossed[s] : v \in crossed'[s]
    BY <1>1, <1>2, CrossKeeps DEF Grounds
  <1>7. ASSUME NEW s \in Schemas, NEW v \in Versions, NEW d, Excused(s, v, d),
               ~(s = at /\ v = put), VersionOf[d] = v
        PROVE  Excused(s, v, d)'
    <2>1. CASE d = rows[s][v] \/ v \in crossed[s]
      BY <1>3, <1>6, <1>7, <2>1 DEF Excused
    <2>2. CASE \E b \in Calls : Unsaved(b) /\ args[b].schema = s /\ args[b].doc = d
      <3>1. PICK b \in Calls : Unsaved(b) /\ args[b].schema = s /\ args[b].doc = d
        BY <2>2
      <3>2. b # c
        BY <1>1, <1>7, <3>1
      <3> QED
        BY <1>2, <1>4, <3>1, <3>2 DEF Excused
    <2> QED
      BY <1>7, <2>1, <2>2 DEF Excused
  <1> HIDE DEF at, put
  <1>8. CachedIsCurrent'
    <2> SUFFICES ASSUME NEW s \in Schemas, NEW v \in Versions, cache[s][v] # NoDoc
                 PROVE  Excused(s, v, cache[s][v])'
      BY <1>2 DEF CachedIsCurrent, Excused
    <2>1. CASE s = at /\ v = put
      <3>1. put \in crossed[at] \/ cache[at][put] = entry[c]
        BY <1>1, <2>1 DEF CurrentInv, at, put
      <3> QED
        BY <1>1, <1>2, <1>3, <1>6, <2>1, <3>1 DEF Excused
    <2>2. CASE ~(s = at /\ v = put)
      <3>1. VersionOf[cache[s][v]] = v
        BY DEF Grounds, VersionedKeysHonest
      <3>2. Excused(s, v, cache[s][v])
        BY DEF CurrentInv, CachedIsCurrent, Excused
      <3> QED
        BY <1>2, <1>7, <2>2, <3>1, <3>2 DEF Excused
    <2> QED
      BY <2>1, <2>2
  <1>9. ASSUME NEW b \in Calls,
               pc'[b] \in {"setBare", "setVersioned"}, source[b] # "request"
        PROVE  Excused(args[b].schema, Label(b), entry[b])'
    <2>1. /\ b # c /\ pc[b] \in {"setBare", "setVersioned"}
      BY <1>3, <1>9
    <2>2. /\ args[b].schema \in Schemas /\ Label(b) \in Versions
          /\ Label(b) = VersionOf[entry[b]]
      BY <2>1, CallFields, LabelTyped, LabelIsVersion DEF Grounds, Writing
    <2>3. Excused(args[b].schema, Label(b), entry[b])
      BY <1>9, <2>1 DEF CurrentInv
    <2>4. CASE ~(args[b].schema = at /\ Label(b) = put)
      BY <1>2, <1>5, <1>7, <2>2, <2>3, <2>4
    <2>5. CASE args[b].schema = at /\ Label(b) = put /\ entry[b] = entry[c]
      BY <1>1, <1>2, <1>3, <1>5, <2>5 DEF Excused
    <2>6. CASE args[b].schema = at /\ Label(b) = put /\ entry[b] # entry[c]
      <3>1. Carries(b, at, put)
        BY <2>1, <2>6 DEF Carries
      <3>2. put \in crossed'[at]
        BY <1>1, <1>2, <2>6, <3>1, CrossMeets DEF Grounds, at, put
      <3> QED
        BY <1>2, <1>5, <2>6, <3>2 DEF Excused
    <2> QED
      BY <2>4, <2>5, <2>6
  <1>10. ASSUME NEW b \in Calls, pc'[b] \in {"mirror", "persist"}, source[b] = "request"
         PROVE  \/ Label(b) \in crossed'[args[b].schema]
                \/ cache[args[b].schema][Label(b)] \in {NoDoc, entry[b]}
    <2>1. pc[b] \in {"mirror", "persist"}
      BY <1>3, <1>10
    <2>2. args[b].schema \in Schemas
      BY <2>1, CallFields DEF Grounds
    <2> QED
      BY <1>6, <1>10, <2>1, <2>2 DEF CurrentInv
  <1> QED
    BY <1>2, <1>5, <1>8, <1>9, <1>10 DEF CurrentInv

\* With a SQL store and no plugin, a document cached for a version is the one
\* in its row, or unsaved, or calls crossed over that version and no
\* registration has had it to itself since.
THEOREM CachedCurrent == Spec => []CachedIsCurrent
  <1>1. Init => CurrentInv /\ FromStore /\ StoredWhenAnswered
    BY DEF Init, CurrentInv, CachedIsCurrent, FromStore, StoredWhenAnswered, EmptyCache, Keys
  <1>2. Grounds /\ CurrentInv /\ [Next]_vars => CurrentInv'
    <2> SUFFICES ASSUME Grounds, CurrentInv, [Next]_vars, Backend = "sql", ~PluginBound
                 PROVE  CurrentInv'
      BY DEF CurrentInv
    <2>1. ASSUME NEW c \in Calls, Handler(c)
          PROVE  CurrentInv'
      BY <2>1, CacheStep, RowStep, QuietHandler
    <2>2. ASSUME NEW s \in Schemas, NEW k \in Keys, Evict(s, k)
          PROVE  CurrentInv'
      <3>1. /\ UNCHANGED <<rows, crossed, pc, args, entry, source, reply, fault>>
            /\ \A z \in Schemas, v \in Versions : cache'[z][v] \in {NoDoc, cache[z][v]}
        BY <2>2 DEF Evict, disk, locals, past, Grounds, Inv, TypeOK, Keys
      <3>2. \A b \in Calls : Label(b)' = Label(b) /\ Unsaved(b)' = Unsaved(b)
        BY <3>1 DEF Label, Unsaved, Register
      <3>3. \A b \in Calls : pc[b] \in {"mirror", "persist"} =>
              args[b].schema \in Schemas /\ Label(b) \in Versions
        BY CallFields, LabelTyped DEF Grounds, Writing
      <3>4. \A b \in Calls :
              pc[b] \in {"setBare", "setVersioned"} /\ source[b] # "request" =>
                Excused(args[b].schema, Label(b), entry[b])
        BY DEF CurrentInv
      <3> QED
        BY <3>1, <3>2, <3>3, <3>4, QuietStep
    <2>3. CASE Restart
      BY <2>3 DEF Restart, EmptyCache, Keys, CurrentInv, CachedIsCurrent
    <2>4. CASE UNCHANGED vars
      BY <2>4 DEF vars, memory, disk, locals, past, CurrentInv, CachedIsCurrent, Excused,
                  Unsaved, Register, Label
    <2> QED
      BY <2>1, <2>2, <2>3, <2>4 DEF Next
  <1>3. CurrentInv => CachedIsCurrent
    BY DEF CurrentInv, CachedIsCurrent
  <1>4. QED
    BY InitInv, NextInv, InitHonest, LabelStep, HonestStep, FromStoreStep, StoredStep,
       <1>1, <1>2, <1>3, PTL DEF Spec, Grounds

-----------------------------------------------------------------------------
(* What those who look a schema up may assume                              *)

\* Every step changes at most one key of one schema, as SchemaLookup has it.
LEMMA LookupStep ==
  Inv /\ LabelsHonest /\ [Next]_vars => \A s \in Schemas : [Lookup(s)!Next]_(cache[s])
  <1> SUFFICES ASSUME Inv, LabelsHonest, [Next]_vars, NEW s \in Schemas
               PROVE  Lookup(s)!Next \/ cache'[s] = cache[s]
    OBVIOUS
  <1>1. ASSUME NEW c \in Calls, NEW k \in Keys,
               pc[c] \in Writing, pc[c] # "idle",
               PluginBound \/ k \in {Latest, VersionOf[entry[c]]},
               cache' = [cache EXCEPT ![args[c].schema][k] = entry[c]]
        PROVE  Lookup(s)!Next \/ cache'[s] = cache[s]
    <2>1. entry[c] \in Docs /\ args[c].schema \in Schemas
      BY <1>1, CallFields DEF Inv, CallOK
    <2>2. CASE args[c].schema = s
      <3>1. cache'[s] = [cache[s] EXCEPT ![k] = entry[c]]
        BY <1>1, <2>2 DEF Inv, TypeOK
      <3>2. Lookup(s)!Set(k, entry[c])
        BY <1>1, <3>1 DEF Lookup!Set
      <3> QED
        BY <2>1, <3>2 DEF Lookup!Next, Keys, Lookup!Keys
    <2>3. CASE args[c].schema # s
      BY <1>1, <2>3 DEF Inv, TypeOK
    <2> QED
      BY <2>2, <2>3
  <1>2. ASSUME NEW c \in Calls, SetBare(c)
        PROVE  Lookup(s)!Next \/ cache'[s] = cache[s]
    BY <1>1, <1>2 DEF SetBare, Writing, Keys
  <1>3. ASSUME NEW c \in Calls, SetRequested(c)
        PROVE  Lookup(s)!Next \/ cache'[s] = cache[s]
    <2>1. PluginBound /\ args[c].version \in Keys
      BY <1>3, CallFields DEF SetRequested, Inv, CallOK
    <2> QED
      BY <1>1, <1>3, <2>1 DEF SetRequested, WriteVersion, Writing
  <1>4. ASSUME NEW c \in Calls, SetVersioned(c)
        PROVE  Lookup(s)!Next \/ cache'[s] = cache[s]
    <2>1. Label(c) = VersionOf[entry[c]] /\ Label(c) \in Keys
      BY <1>4, LabelIsVersion, LabelTyped DEF SetVersioned, Writing, Keys
    <2> QED
      BY <1>1, <1>4, <2>1 DEF SetVersioned, WriteVersion, Writing
  <1>5. ASSUME NEW z \in Schemas, NEW k \in Keys, Evict(z, k)
        PROVE  Lookup(s)!Next \/ cache'[s] = cache[s]
    <2>1. CASE z = s
      <3>1. Lookup(s)!Forget(k)
        BY <1>5, <2>1 DEF Evict, Lookup!Forget, Inv, TypeOK
      <3> QED
        BY <3>1 DEF Lookup!Next, Keys, Lookup!Keys
    <2>2. CASE z # s
      BY <1>5, <2>2 DEF Evict, Inv, TypeOK
    <2> QED
      BY <2>1, <2>2
  <1>6. CASE Restart
    BY <1>6 DEF Restart, EmptyCache, Keys, Lookup!Next, Lookup!Restart,
                Lookup!Nothing, Lookup!Keys
  <1>7. CASE UNCHANGED cache
    BY <1>7
  <1> QED
    BY <1>2, <1>3, <1>4, <1>5, <1>6, <1>7
    DEF Next, Handler, vars, memory, Begin, Reject, AcquireCompatLock, LookupCache,
        PluginSilent, PluginFails, PluginAnswers, NoStore, ReadMisses, ReadFails,
        ReadHits, RouterFails, Mirror, Persist, PersistFails, Respond, Generate

\* To ConsumerRegistry, which only looks schemas up, the schema registry with
\* all its handlers, fills and evictions is SchemaLookup.
THEOREM LookupsAsAssumed == Spec => LookupsAreAsAssumed
  <1>1. Init => \A s \in Schemas : Lookup(s)!Init
    BY DEF Init, EmptyCache, Keys, Lookup!Init, Lookup!Nothing, Lookup!Keys
  <1>2. Inv /\ LabelsHonest /\ [Next]_vars => [\A s \in Schemas : [Lookup(s)!Next]_(cache[s])]_cache
    BY LookupStep
  <1>3. QED
    BY InitInv, NextInv, InitHonest, LabelStep, <1>1, <1>2, PTL
    DEF Spec, LookupsAreAsAssumed

\* A reader that carries or has answered a version carries that version.
VersionCarried ==
  ~PluginBound =>
    \A c \in Calls :
      /\ args[c].op = "get" /\ args[c].version # Latest /\ pc[c] \in Writing =>
           VersionOf[entry[c]] = args[c].version
      /\ reply[c] = "ok" => pc[c] = "done"
      /\ args[c].op = "get" /\ args[c].version # Latest /\ reply[c] = "ok" =>
           VersionOf[entry[c]] = args[c].version

\* What is read fits what was asked for, and is not replaced on the way.
LEMMA CarriedStep ==
  Inv /\ VersionedKeysHonest /\ VersionCarried /\ [Next]_vars => VersionCarried'
  <1> SUFFICES ASSUME Inv, VersionedKeysHonest, VersionCarried, [Next]_vars, ~PluginBound
               PROVE  VersionCarried'
    BY DEF VersionCarried
  <1> USE DocsAssumption, CallFields
  <1> USE DEF Inv, TypeOK, CallOK, VersionedKeysHonest, VersionCarried, Register,
              Writing, Looking, Keys, memory, disk, locals, past
  <1>1. ASSUME NEW c \in Calls, Begin(c)
        PROVE  VersionCarried'
    BY <1>1 DEF Begin, Goto, Take
  <1>2. ASSUME NEW c \in Calls, Reject(c)
        PROVE  VersionCarried'
    BY <1>2 DEF Reject, Return, Unlock, Goto
  <1>3. ASSUME NEW c \in Calls, AcquireCompatLock(c)
        PROVE  VersionCarried'
    BY <1>3 DEF AcquireCompatLock, Goto
  <1>4. ASSUME NEW c \in Calls, LookupCache(c)
        PROVE  VersionCarried'
    <2> DEFINE hit == cache[args[c].schema][args[c].version]
    <2>1. /\ pc[c] = "lookup" /\ args[c].schema \in Schemas /\ args[c].version \in Keys
          /\ UNCHANGED <<memory, disk, args, fault, past>>
      BY <1>4 DEF LookupCache
    <2>2. hit # NoDoc /\ args[c].version # Latest => VersionOf[hit] = args[c].version
      BY <2>1
    <2>3. \/ Goto(c, "ask") /\ UNCHANGED <<locals, reply>>
          \/ Register(c) /\ Commit(c, hit) /\ UNCHANGED reply
          \/ hit # NoDoc /\ Take(c, hit, "cache") /\ Return(c, "ok")
          \/ hit # NoDoc /\ Take(c, hit, "cache") /\ Goto(c, "generate") /\ UNCHANGED reply
      BY <1>4 DEF LookupCache
    <2> HIDE DEF hit
    <2>4. CASE Goto(c, "ask") /\ UNCHANGED <<locals, reply>>
      BY <2>1, <2>4 DEF Goto
    <2>5. CASE Register(c) /\ Commit(c, hit) /\ UNCHANGED reply
      BY <2>1, <2>5 DEF Commit, Take, Goto
    <2>6. CASE hit # NoDoc /\ Take(c, hit, "cache") /\ Return(c, "ok")
      BY <2>1, <2>2, <2>6 DEF Take, Return, Goto
    <2>7. CASE hit # NoDoc /\ Take(c, hit, "cache") /\ Goto(c, "generate") /\ UNCHANGED reply
      BY <2>1, <2>2, <2>7 DEF Take, Goto
    <2> QED
      BY <2>3, <2>4, <2>5, <2>6, <2>7
  <1>5. ASSUME NEW c \in Calls, PluginSilent(c)
        PROVE  VersionCarried'
    BY <1>5 DEF PluginSilent, Goto
  <1>6. ASSUME NEW c \in Calls, PluginFails(c)
        PROVE  VersionCarried'
    BY <1>6 DEF PluginFails, GiveUp, Return, Unlock, Goto
  <1>7. ASSUME NEW c \in Calls, PluginAnswers(c)
        PROVE  VersionCarried'
    BY <1>7 DEF PluginAnswers, Goto, Take
  <1>8. ASSUME NEW c \in Calls, NoStore(c)
        PROVE  VersionCarried'
    <2>1. pc[c] = "read" /\ UNCHANGED <<memory, disk, args, fault, past>>
      BY <1>8 DEF NoStore
    <2>2. CASE Register(c) /\ Commit(c, NoDoc) /\ UNCHANGED reply
      BY <2>1, <2>2 DEF Commit, Take, Goto
    <2>3. CASE GiveUp(c) /\ UNCHANGED locals
      BY <2>1, <2>3 DEF GiveUp, Return, Goto
    <2> QED
      BY <1>8, <2>2, <2>3 DEF NoStore
  <1>9. ASSUME NEW c \in Calls, ReadMisses(c)
        PROVE  VersionCarried'
    BY <1>9 DEF ReadMisses, GiveUp, Return, Unlock, Goto
  <1>10. ASSUME NEW c \in Calls, ReadFails(c)
        PROVE  VersionCarried'
    BY <1>10 DEF ReadFails, GiveUp, Return, Unlock, Goto
  <1>11. ASSUME NEW c \in Calls, ReadHits(c)
        PROVE  VersionCarried'
    <2>1. PICK d \in Selected(args[c].schema, args[c].version) :
            \/ Register(c) /\ Commit(c, d)
            \/ /\ Take(c, d, "store")
               /\ Goto(c, IF args[c].version = Latest THEN "setBare"
                                                      ELSE "setVersioned")
      BY <1>11 DEF ReadHits
    <2>2. /\ pc[c] = "read" /\ args[c].schema \in Schemas /\ args[c].version \in Keys
          /\ UNCHANGED <<memory, disk, args, reply>>
      BY <1>11 DEF ReadHits
    <2>3. args[c].version # Latest => VersionOf[d] = args[c].version
      <3> SUFFICES ASSUME args[c].version # Latest PROVE VersionOf[d] = args[c].version
        OBVIOUS
      <3>1. d = rows[args[c].schema][args[c].version] /\ d # NoDoc
        BY <2>1 DEF Selected
      <3> QED
        BY <2>2, <3>1
    <2>4. CASE Register(c) /\ Commit(c, d)
      BY <2>2, <2>4 DEF Commit, Take, Goto
    <2>5. CASE /\ Take(c, d, "store")
               /\ Goto(c, IF args[c].version = Latest THEN "setBare"
                                                      ELSE "setVersioned")
      BY <2>2, <2>3, <2>5 DEF Take, Goto
    <2> QED
      BY <2>1, <2>4, <2>5
  <1>12. ASSUME NEW c \in Calls, RouterFails(c)
        PROVE  VersionCarried'
    BY <1>12 DEF RouterFails, Return, Unlock, Goto
  <1>13. ASSUME NEW c \in Calls, SetBare(c)
        PROVE  VersionCarried'
    BY <1>13 DEF SetBare, Goto
  <1>14. ASSUME NEW c \in Calls, SetRequested(c)
        PROVE  VersionCarried'
    BY <1>14 DEF SetRequested, WriteVersion, Goto
  <1>15. ASSUME NEW c \in Calls, SetVersioned(c)
        PROVE  VersionCarried'
    BY <1>15 DEF SetVersioned, WriteVersion, Goto
  <1>16. ASSUME NEW c \in Calls, Mirror(c)
        PROVE  VersionCarried'
    <2>1. pc[c] = "mirror" /\ UNCHANGED <<args, past>>
      BY <1>16 DEF Mirror
    <2>2. args[c].op = "get" /\ args[c].version # Latest =>
            VersionOf[entry[c]] = args[c].version
      BY <2>1
    <2>3. \/ \E l \in {"respond", "persist", "generate"} :
               Goto(c, l) /\ UNCHANGED <<locals, reply>>
          \/ Register(c) /\ Commit(c, entry[c]) /\ UNCHANGED reply
          \/ args[c].op = "get" /\ Return(c, "ok") /\ UNCHANGED locals
      BY <1>16 DEF Mirror
    <2>4. ASSUME NEW l \in {"respond", "persist", "generate"},
                 Goto(c, l), UNCHANGED <<locals, reply>>
          PROVE  VersionCarried'
      BY <2>1, <2>4 DEF Goto
    <2>5. CASE Register(c) /\ Commit(c, entry[c]) /\ UNCHANGED reply
      BY <2>1, <2>5 DEF Commit, Take, Goto
    <2>6. CASE args[c].op = "get" /\ Return(c, "ok") /\ UNCHANGED locals
      BY <2>1, <2>2, <2>6 DEF Return, Goto
    <2> QED
      BY <2>3, <2>4, <2>5, <2>6
  <1>17. ASSUME NEW c \in Calls, Persist(c)
        PROVE  VersionCarried'
    BY <1>17 DEF Persist, SetSchema, Goto
  <1>18. ASSUME NEW c \in Calls, PersistFails(c)
        PROVE  VersionCarried'
    BY <1>18 DEF PersistFails, Goto
  <1>19. ASSUME NEW c \in Calls, Respond(c)
        PROVE  VersionCarried'
    BY <1>19 DEF Respond, Return, Unlock, Goto
  <1>20. ASSUME NEW c \in Calls, Generate(c)
        PROVE  VersionCarried'
    BY <1>20 DEF Generate, Return, Unlock, Goto
  <1>21. ASSUME NEW s \in Schemas, NEW k \in Keys, Evict(s, k)
        PROVE  VersionCarried'
    BY <1>21 DEF Evict
  <1>22. CASE Restart
    BY <1>22 DEF Restart
  <1>23. CASE UNCHANGED vars
    BY <1>23 DEF vars
  <1>24. QED
    BY <1>1, <1>2, <1>3, <1>4, <1>5, <1>6, <1>7, <1>8, <1>9, <1>10, <1>11, <1>12,
       <1>13, <1>14, <1>15, <1>16, <1>17, <1>18, <1>19, <1>20, <1>21, <1>22, <1>23
    DEF Next, Handler

\* Without a plugin, nobody is answered with a document of another version
\* than the one asked for.
THEOREM VersionsAnswered == Spec => []VersionIsAnswered
  <1>1. Init => VersionCarried
    BY DEF Init, VersionCarried, NoRequest, Writing
  <1>2. VersionCarried => VersionIsAnswered
    BY DEF VersionCarried, VersionIsAnswered
  <1>3. QED
    BY InitInv, NextInv, InitHonest, LabelStep, HonestStep, CarriedStep, <1>1, <1>2, PTL
    DEF Spec

-----------------------------------------------------------------------------
(***************************************************************************)
(* The refinement.  When every registration asks for the compatibility     *)
(* check, the locked sequence lookup, compare, cache.Set of RegisterSchema *)
(* implements one atomic step of AtomicRegistry.  The deployment assumed   *)
(* is a real one: no store or a SQL store (whose rows are never marked     *)
(* latest), and if a fetch_schema plugin is bound, no readers that fetch   *)
(* concurrently.                                                           *)
(***************************************************************************)

Deployment ==
  /\ \A r \in Traffic : r.op = "register" => r.check
  /\ Backend \in {"none", "sql"}
  /\ PluginBound => \A r \in Traffic : r.op = "register"

\* Nothing is marked latest; the bare key holds the end of the line or
\* nothing; a registration about to publish compared with it or with nothing;
\* one that adopted a plugin's document still sees it at the end of the line;
\* and a published registration is past SetBare.
LineOK ==
  /\ \A s \in Schemas : latestRows[s] = {}
  /\ \A s \in Schemas : cache[s][Latest] \in {NoDoc, last[s]}
  /\ \A c \in Calls :
       /\ pc[c] # "idle" => args[c] \in Traffic
       /\ pc[c] = "setBare" => source[c] \in {"request", "plugin"}
       /\ pc[c] \in Writing =>
            source[c] \in {"request", "plugin", "store"}
       /\ source[c] = "plugin" => PluginBound
       /\ pc[c] = "setBare" /\ source[c] = "request" =>
            prior[c] \in {NoDoc, last[args[c].schema]}
       /\ pc[c] \in {"setVersioned", "mirror"} /\ source[c] = "plugin"
          /\ Register(c) => entry[c] = last[args[c].schema]
       /\ pc[c] \in {"setVersioned", "mirror"} /\ source[c] = "store" =>
            ~Register(c)
       /\ c \in published =>
            \/ pc[c] = "done"
            \/ /\ pc[c] \in {"setVersioned", "mirror", "persist", "respond"}
               /\ source[c] = "request"

LineInv == Inv /\ LockIsHeldByItsCheck /\ LineOK

-----------------------------------------------------------------------------

\* Nothing has been published, cached or started.
LEMMA InitLine == Init => LineOK
  BY DEF Init, LineOK, EmptyCache, Keys, Writing

\* A registration that is looking for its baseline or writing it is alone in
\* the critical section of its schema.
LEMMA Alone ==
  ASSUME Deployment, LineInv,
         NEW b \in Calls, NEW c \in Calls, b # c,
         pc[b] \in Looking \cup Writing, Register(b),
         pc[c] \in Looking \cup Writing, Register(c)
  PROVE  args[b].schema # args[c].schema
  <1>1. args[b] \in Traffic /\ args[c] \in Traffic
    BY DEF LineInv, LineOK, Looking, Writing
  <1>2. args[b].check /\ args[c].check
    BY <1>1 DEF Deployment, Register
  <1>3. InCheck(b) /\ InCheck(c)
    BY <1>2 DEF InCheck, Looking, Writing, Steps
  <1>4. args[b].schema \in Schemas
    BY CallFields DEF LineInv, Looking, Writing
  <1>5. QED
    BY <1>3, <1>4 DEF LineInv, LockIsHeldByItsCheck

\* A step that stops handlers and at most empties the cache.
LEMMA LineStops ==
  ASSUME LineOK,
         \A s \in Schemas : latestRows'[s] = {},
         \A s \in Schemas : cache'[s][Latest] \in {NoDoc, last'[s]},
         UNCHANGED <<args, entry, source, prior, published>>,
         \A c \in Calls :
           \/ pc'[c] = "done" /\ pc[c] # "idle"
           \/ pc'[c] = "idle" /\ pc[c] = "idle"
           \/ pc'[c] = pc[c] /\ last' = last
  PROVE  LineOK'
<1>1. ASSUME NEW c \in Calls, pc'[c] \in {"idle", "done"},
             pc[c] = "idle" => pc'[c] = "idle"
      PROVE  /\ pc'[c] # "idle" => args'[c] \in Traffic
             /\ source'[c] = "plugin" => PluginBound
             /\ c \in published' => pc'[c] = "done"
  BY <1>1 DEF LineOK
<1>2. ASSUME NEW c \in Calls, pc'[c] = pc[c], last' = last
      PROVE  /\ pc[c] # "idle" => args[c] \in Traffic
             /\ UNCHANGED <<args, entry, source, prior, published, last>>
  BY <1>2 DEF LineOK
<1> QED
  BY <1>1, <1>2 DEF LineOK, Writing, Register

\* A restart empties the line.
LEMMA LineRestart ==
  ASSUME LineOK, Restart
  PROVE  LineOK'
<1>1. \A s \in Schemas : cache'[s][Latest] = NoDoc
  <2>1. Latest \in Keys /\ cache' = EmptyCache
    BY DEF Restart, Keys
  <2> QED
    BY <2>1 DEF EmptyCache
<1>2. \A s \in Schemas : latestRows'[s] = {}
  BY DEF Restart, LineOK, disk
<1>3. /\ UNCHANGED <<args, entry, source, prior, published>>
      /\ \A c \in Calls :
           \/ pc'[c] = "done" /\ pc[c] # "idle"
           \/ pc'[c] = "idle" /\ pc[c] = "idle"
  BY DEF Restart, locals
<1> QED
  BY <1>1, <1>2, <1>3, LineStops

\* LineOK is inductive in such a deployment.
LEMMA LineStep ==
  ASSUME Deployment
  PROVE  LineInv /\ [Next]_vars => LineOK'
  <1> SUFFICES ASSUME LineInv, [Next]_vars
               PROVE  LineOK'
    OBVIOUS
  <1>0. \A b, c \in Calls :
          /\ b # c
          /\ pc[b] \in Looking \cup Writing /\ Register(b)
          /\ pc[c] \in Looking \cup Writing /\ Register(c)
          => args[b].schema # args[c].schema
    BY Alone
  <1> USE Deployment, DocsAssumption, DeploymentAssumption
  <1> USE DEF LineInv, LineOK, Inv, TypeOK, CallOK, Register, Writing, Looking,
              Keys, memory, disk, locals, past
  <1>1. ASSUME NEW c \in Calls, Begin(c)
        PROVE  LineOK'
    BY <1>1, CallFields DEF Begin, Goto, Take, Deployment
  <1>2. ASSUME NEW c \in Calls, Reject(c)
        PROVE  LineOK'
    BY <1>2, CallFields DEF Reject, Return, Unlock, Goto, Deployment
  <1>3. ASSUME NEW c \in Calls, AcquireCompatLock(c)
        PROVE  LineOK'
    BY <1>3, CallFields DEF AcquireCompatLock, Goto, Deployment
  <1>4. ASSUME NEW c \in Calls, LookupCache(c)
        PROVE  LineOK'
    <2>1. Register(c) => args[c].version = Latest
      BY <1>4, CallFields DEF LookupCache
    <2>2. args[c].schema \in Schemas /\ args[c].version \in Keys
      BY <1>4, CallFields DEF LookupCache
    <2>3. pc[c] = "lookup" /\ UNCHANGED <<memory, disk, args, fault, past>>
      BY <1>4 DEF LookupCache
    <2>4. CASE Register(c) /\ Commit(c, cache[args[c].schema][Latest])
      BY <2>1, <2>2, <2>3, <2>4 DEF Commit, Take, Goto
    <2>5. CASE Goto(c, "ask") /\ UNCHANGED locals
      BY <2>3, <2>5 DEF Goto
    <2>6. CASE Take(c, cache[args[c].schema][args[c].version], "cache")
               /\ (Goto(c, "done") \/ Goto(c, "generate"))
               /\ UNCHANGED prior
      BY <2>3, <2>6 DEF Goto, Take
    <2>7. QED
      BY <1>4, <2>1, <2>4, <2>5, <2>6 DEF LookupCache, Return
  <1>5. ASSUME NEW c \in Calls, PluginSilent(c)
        PROVE  LineOK'
    BY <1>5, CallFields DEF PluginSilent, Goto, Deployment
  <1>6. ASSUME NEW c \in Calls, PluginFails(c)
        PROVE  LineOK'
    BY <1>6, CallFields DEF PluginFails, GiveUp, Return, Unlock, Goto, Deployment
  <1>7. ASSUME NEW c \in Calls, PluginAnswers(c)
        PROVE  LineOK'
    BY <1>7, CallFields DEF PluginAnswers, Take, Goto, Deployment
  <1>8. ASSUME NEW c \in Calls, NoStore(c)
        PROVE  LineOK'
    <2>1. pc[c] = "read" /\ UNCHANGED <<memory, disk, args, past>>
      BY <1>8 DEF NoStore
    <2>2. CASE Commit(c, NoDoc)
      BY <2>1, <2>2 DEF Commit, Take, Goto
    <2>3. CASE GiveUp(c) /\ UNCHANGED locals
      BY <2>1, <2>3, LineStops DEF GiveUp, Return, Goto
    <2> QED
      BY <1>8, <2>2, <2>3 DEF NoStore
  <1>9. ASSUME NEW c \in Calls, ReadMisses(c)
        PROVE  LineOK'
    BY <1>9, CallFields DEF ReadMisses, GiveUp, Return, Unlock, Goto, Deployment
  <1>10. ASSUME NEW c \in Calls, ReadFails(c)
        PROVE  LineOK'
    BY <1>10, CallFields DEF ReadFails, GiveUp, Return, Unlock, Goto, Deployment
  <1>11. ASSUME NEW c \in Calls, ReadHits(c)
        PROVE  LineOK'
    <2>1. PICK d \in Selected(args[c].schema, args[c].version) :
            \/ Register(c) /\ Commit(c, d)
            \/ /\ ~Register(c)
               /\ Take(c, d, "store")
               /\ Goto(c, IF args[c].version = Latest THEN "setBare"
                                                      ELSE "setVersioned")
               /\ UNCHANGED <<prior, drawn>>
      BY <1>11 DEF ReadHits
    <2>2. args[c].version # Latest
      <3>1. latestRows[args[c].schema] = {}
        BY <1>11, CallFields DEF ReadHits
      <3>2. QED
        BY <2>1, <3>1 DEF Selected
    <2>3. ~Register(c)
      BY <1>11, <2>2, CallFields DEF ReadHits
    <2>4. pc[c] = "read" /\ UNCHANGED <<memory, disk, args, past>>
      BY <1>11 DEF ReadHits
    <2>5. QED
      BY <2>1, <2>2, <2>3, <2>4 DEF Take, Goto
  <1>12. ASSUME NEW c \in Calls, RouterFails(c)
        PROVE  LineOK'
    <2>1. pc[c] = "setBare" /\ UNCHANGED <<memory, disk, args, locals, past>>
      BY <1>12 DEF RouterFails
    <2>2. pc' = [pc EXCEPT ![c] = "done"]
      BY <1>12 DEF RouterFails, Return, Goto
    <2> QED
      BY <2>1, <2>2, LineStops
  <1>13. ASSUME NEW c \in Calls, SetBare(c)
        PROVE  LineOK'
    <2>1. args[c] \in Traffic /\ args[c].schema \in Schemas
      BY <1>13, CallFields DEF SetBare
    <2>2. Register(c) /\ pc[c] \in Looking \cup Writing
      BY <1>13, <2>1 DEF SetBare, Deployment
    <2>3. \A b \in Calls \ {c} :
            Register(b) /\ pc[b] \in Looking \cup Writing =>
              args[b].schema # args[c].schema
      BY <2>2, <1>0
    <2>4. /\ args' = args /\ source' = source /\ entry' = entry
          /\ prior' = prior /\ latestRows' = latestRows
          /\ cache' = [cache EXCEPT ![args[c].schema][Latest] = entry[c]]
          /\ last' = [last EXCEPT ![args[c].schema] = entry[c]]
          /\ pc' = [pc EXCEPT ![c] = "setVersioned"]
          /\ published' = IF source[c] = "request" THEN published \cup {c}
                                                   ELSE published
      BY <1>13 DEF SetBare, Goto
    <2>5. \A s \in Schemas : cache'[s][Latest] \in {NoDoc, last'[s]}
      BY <2>1, <2>4
    <2>6. \A b \in Calls :
            /\ pc'[b] = "setBare" /\ source[b] = "request" =>
                 prior[b] \in {NoDoc, last'[args[b].schema]}
            /\ pc'[b] \in {"setVersioned", "mirror"} /\ source[b] = "plugin"
               /\ Register(b) => entry[b] = last'[args[b].schema]
      BY <2>1, <2>2, <2>3, <2>4
    <2>7. \A b \in Calls : b \in published' =>
            \/ pc'[b] = "done"
            \/ /\ pc'[b] \in {"setVersioned", "mirror", "persist", "respond"}
               /\ source[b] = "request"
      BY <1>13, <2>4 DEF SetBare
    <2>8. QED
      BY <1>13, <2>2, <2>4, <2>5, <2>6, <2>7 DEF SetBare
  <1>14. ASSUME NEW c \in Calls, SetRequested(c)
        PROVE  LineOK'
    <2>1. PluginBound /\ args[c] \in Traffic /\ args[c].version \in Versions
      BY <1>14 DEF SetRequested
    <2>2. Register(c)
      BY <2>1 DEF Deployment
    <2>3. QED
      BY <1>14, <2>1, <2>2, CallFields DEF SetRequested
  <1>15. ASSUME NEW c \in Calls, SetVersioned(c)
        PROVE  LineOK'
    <2>1. /\ pc[c] = "setVersioned" /\ pc' = [pc EXCEPT ![c] = "mirror"]
          /\ UNCHANGED <<disk, args, locals, published, last>>
      BY <1>15 DEF SetVersioned, WriteVersion, Goto
    <2>2. \A s \in Schemas : cache'[s][Latest] = cache[s][Latest]
      BY <1>15, VersionLeavesBare
    <2> QED
      BY <2>1, <2>2 DEF Deployment
  <1>16. ASSUME NEW c \in Calls, Mirror(c)
        PROVE  LineOK'
    BY <1>16, CallFields DEF Mirror, Commit, Take, Return, Unlock, Goto, Deployment
  <1>17. ASSUME NEW c \in Calls, Persist(c)
        PROVE  LineOK'
    BY <1>17, CallFields DEF Persist, SetSchema, Goto, Deployment
  <1>18. ASSUME NEW c \in Calls, PersistFails(c)
        PROVE  LineOK'
    BY <1>18, CallFields DEF PersistFails, Goto, Deployment
  <1>19. ASSUME NEW c \in Calls, Respond(c)
        PROVE  LineOK'
    BY <1>19, CallFields DEF Respond, Return, Unlock, Goto, Deployment
  <1>20. ASSUME NEW c \in Calls, Generate(c)
        PROVE  LineOK'
    BY <1>20, CallFields DEF Generate, Return, Unlock, Goto, Deployment
  <1>21. ASSUME NEW s \in Schemas, NEW k \in Keys, Evict(s, k)
        PROVE  LineOK'
    BY <1>21 DEF Evict
  <1>22. CASE Restart
    BY <1>22, LineRestart
  <1>23. CASE UNCHANGED vars
    BY <1>23 DEF vars
  <1>24. QED
    BY <1>1, <1>2, <1>3, <1>4, <1>5, <1>6, <1>7, <1>8, <1>9, <1>10, <1>11, <1>12, <1>13, <1>14, <1>15, <1>16, <1>17, <1>18, <1>19, <1>20, <1>21, <1>22, <1>23 DEF Next, Handler

-----------------------------------------------------------------------------

\* The verdict AtomicRegistry sees for each call.
Verdict == [c \in Calls |-> IF c \in published THEN <<prior[c], args[c].doc>>
                                               ELSE <<>>]

\* A step other than SetBare and Restart is invisible to AtomicRegistry.
LEMMA Invisible ==
  ASSUME LineInv, UNCHANGED <<published, last>>,
         \A c \in published : prior'[c] = prior[c] /\ args'[c] = args[c]
  PROVE  UNCHANGED <<last, Verdict>>
  BY DEF Verdict

\* Every step maps to a step of AtomicRegistry or leaves its variables alone.
LEMMA AtomicStep ==
  ASSUME Deployment
  PROVE  LineInv /\ [Next]_vars => [Atomic!Next]_<<last, Verdict>>
  <1> SUFFICES ASSUME LineInv, [Next]_vars
               PROVE  [Atomic!Next]_<<last, Verdict>>
    OBVIOUS
  <1>1. ASSUME NEW c \in Calls, SetBare(c)
        PROVE  Atomic!Next
    <2>1. /\ args[c].schema \in Schemas
          /\ entry[c] \in Docs
      BY <1>1, CallFields DEF SetBare, LineInv, Inv, CallOK, Writing
    <2>2. PICK s \in Schemas, d \in Docs : s = args[c].schema /\ d = entry[c]
      BY <2>1
    <2>3. last' = [last EXCEPT ![s] = d] /\ UNCHANGED <<args, prior>>
      BY <1>1, <2>2 DEF SetBare, locals
    <2>4. CASE source[c] = "request"
      <3>1. c \notin published /\ prior[c] \in {last[s], NoDoc}
        BY <1>1, <2>2, <2>4 DEF SetBare, LineInv, LineOK
      <3>2. d = args[c].doc
        BY <1>1, <2>2, <2>4 DEF SetBare, LineInv, Inv, CallOK, Writing
      <3>3. published' = published \cup {c}
        BY <1>1, <2>4 DEF SetBare
      <3>4. Verdict[c] = <<>> /\ Verdict' = [Verdict EXCEPT ![c] = <<prior[c], d>>]
        BY <2>3, <3>1, <3>2, <3>3 DEF Verdict
      <3>5. Atomic!Publish(c, s, d)
        BY <2>3, <3>1, <3>4 DEF Atomic!Publish, Verdict
      <3>6. QED
        BY <3>5 DEF Atomic!Next
    <2>5. CASE source[c] # "request"
      <3>1. Atomic!Adopt(s, d)
        BY <1>1, <2>3, <2>5 DEF SetBare, Atomic!Adopt, Verdict
      <3>2. QED
        BY <3>1 DEF Atomic!Next
    <2>6. QED
      BY <2>4, <2>5
  <1>2. CASE Restart
    BY <1>2 DEF Restart, Atomic!Next, Atomic!Restart, Verdict, locals
  <1>3. ASSUME NEW s \in Schemas, NEW k \in Keys, Evict(s, k)
        PROVE  UNCHANGED <<last, Verdict>>
    BY <1>3, Invisible DEF Evict, locals, past
  <1>4. CASE UNCHANGED vars
    BY <1>4, Invisible DEF vars, locals, past
  <1>5. ASSUME NEW c \in Calls, Handler(c), ~SetBare(c)
        PROVE  UNCHANGED <<last, Verdict>>
    <2>1. UNCHANGED <<published, last>>
      BY <1>5 DEF past, Handler, Begin, Reject, AcquireCompatLock, LookupCache,
                  PluginSilent, PluginFails, PluginAnswers, NoStore,
                  ReadMisses, ReadFails, ReadHits, RouterFails, SetRequested,
                  SetVersioned, WriteVersion, Mirror, Persist, PersistFails,
                  Respond, Generate
    <2>2. \/ args' = args
          \/ pc[c] = "idle" /\ \A b \in Calls \ {c} : args'[b] = args[b]
      <3>1. CASE Begin(c) \/ Reject(c)
        BY <3>1 DEF Begin, Reject, LineInv, Inv, TypeOK
      <3>2. CASE UNCHANGED args
        BY <3>2
      <3>3. QED
        BY <1>5, <3>1, <3>2
        DEF Handler, AcquireCompatLock, LookupCache, PluginSilent,
            PluginFails, PluginAnswers, NoStore, ReadMisses, ReadFails,
            ReadHits, RouterFails, SetRequested, SetVersioned, WriteVersion,
            Mirror, Persist, PersistFails, Respond, Generate
    <2>3. \/ prior' = prior
          \/ /\ \/ pc[c] \in Looking
                \/ pc[c] = "mirror" /\ source[c] # "request"
             /\ \A b \in Calls \ {c} : prior'[b] = prior[b]
      <3>1. CASE LookupCache(c)
        <4>1. pc[c] \in Looking
          BY <3>1 DEF LookupCache, Looking
        <4>2. \/ prior' = prior
              \/ prior' = [prior EXCEPT
                             ![c] = cache[args[c].schema][args[c].version]]
          BY <3>1 DEF LookupCache, Commit, locals
        <4>3. QED
          BY <4>1, <4>2 DEF LineInv, Inv, TypeOK
      <3>2. CASE NoStore(c)
        <4>1. pc[c] \in Looking
          BY <3>2 DEF NoStore, Looking
        <4>2. prior' = prior \/ prior' = [prior EXCEPT ![c] = NoDoc]
          BY <3>2 DEF NoStore, Commit, locals
        <4>3. QED
          BY <4>1, <4>2 DEF LineInv, Inv, TypeOK
      <3>3. CASE ReadHits(c)
        <4>1. pc[c] \in Looking
          BY <3>3 DEF ReadHits, Looking
        <4>2. PICK d \in Selected(args[c].schema, args[c].version) :
                prior' = prior \/ prior' = [prior EXCEPT ![c] = d]
          BY <3>3 DEF ReadHits, Commit
        <4>3. QED
          BY <4>1, <4>2 DEF LineInv, Inv, TypeOK
      <3>4. CASE Mirror(c)
        BY <3>4 DEF Mirror, Commit, locals, LineInv, Inv, TypeOK
      <3>5. CASE UNCHANGED prior
        BY <3>5
      <3>6. QED
        BY <1>5, <3>1, <3>2, <3>3, <3>4, <3>5
        DEF Handler, Begin, Reject, AcquireCompatLock, PluginSilent,
            PluginFails, PluginAnswers, ReadMisses, ReadFails, RouterFails,
            SetRequested, SetVersioned, WriteVersion, Persist, PersistFails,
            Respond, Generate, locals
    <2>4. c \in published =>
            /\ pc[c] # "idle" /\ pc[c] \notin Looking
            /\ pc[c] = "mirror" => source[c] = "request"
      BY DEF LineInv, LineOK, Looking
    <2>5. \A b \in published : prior'[b] = prior[b] /\ args'[b] = args[b]
      BY <2>2, <2>3, <2>4 DEF LineInv, Inv, TypeOK
    <2>6. QED
      BY <2>1, <2>5, Invisible
  <1>6. QED
    BY <1>1, <1>2, <1>3, <1>4, <1>5 DEF Next

\* In such a deployment the registry implements AtomicRegistry: each checked
\* registration is compared with the document published immediately before
\* its own (or with nothing, when that one has been forgotten), whatever else
\* runs, is evicted, fails or crashes.
THEOREM AtomicChecks ==
  ASSUME Deployment
  PROVE  Spec => ChecksAreAtomic
  <1>1. Init => LineInv
    BY InitLock, InitInv, InitLine DEF LineInv
  <1>2. LineInv /\ [Next]_vars => LineInv'
    BY NextInv, LockStep, LineStep DEF LineInv
  <1>3. Init => Atomic!Init
    BY DEF Init, Atomic!Init
  <1>4. LineInv /\ [Next]_vars => [Atomic!Next]_Atomic!vars
    BY AtomicStep DEF Atomic!vars, Verdict
  <1>5. QED
    BY <1>1, <1>2, <1>3, <1>4, PTL DEF Spec, ChecksAreAtomic, Atomic!Spec

=============================================================================
