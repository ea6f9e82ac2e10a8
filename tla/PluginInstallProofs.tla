------------------------- MODULE PluginInstallProofs -------------------------
(***************************************************************************)
(* Proofs about PluginInstall, for every number of processes, plugins,     *)
(* paths and builds and any commands.                                      *)
(***************************************************************************)
EXTENDS PluginInstall, TLAPS

\* A process under way has a command, and each step belongs to one kind.
ControlOK(p) ==
  /\ pc[p] \notin {"idle", "done"} => args[p] \in Command
  /\ pc[p] = "edit" /\ Installing(p) => ~InPlace(p)
  /\ pc[p] = "hash" => Installing(p)
  /\ pc[p] = "delete" => ~Installing(p)

\* The file lock is held exactly inside the transaction.
LockOK(p) == lock = p <=> pc[p] \in Locked

\* What a process is about to write differs from state.json only at the
\* plugin its command names.
EditOK(p) ==
  /\ pc[p] \in {"edit", "hash"} => next[p] = state
  /\ pc[p] = "write" =>
       \A n \in Names \ {args[p].name} : next[p][n] = state[n]

Inv ==
  /\ TypeOK
  /\ \A p \in Procs : ControlOK(p) /\ LockOK(p) /\ EditOK(p)

\* The lock admits one process.
LEMMA OneHolder ==
  ASSUME Inv, NEW p \in Procs, NEW q \in Procs,
         pc[p] \in Locked, pc[q] \in Locked
  PROVE  p = q
BY DEF Inv, LockOK

\* A command names a plugin; an installation also a path and what to put
\* there.
LEMMA CommandFields ==
  ASSUME NEW c \in Command
  PROVE  /\ c.name \in Names
         /\ c.op \in {"install", "remove"}
         /\ c.op = "install" =>
              c.path \in Paths /\ c.build \in Builds \cup {NoFile}
BY DEF Command

\* The invariant holds initially.
LEMMA InitInv == Init => Inv
<1> SUFFICES ASSUME Init PROVE Inv
  OBVIOUS
<1>1. TypeOK
  BY DEF Init, TypeOK, States, EmptyState, Steps
<1>2. ASSUME NEW p \in Procs PROVE ControlOK(p) /\ LockOK(p) /\ EditOK(p)
  BY PluginAssumption DEF Init, ControlOK, LockOK, EditOK, Locked
<1> QED
  BY <1>1, <1>2 DEF Inv

\* A step of p leaves the control state of the others alone.
LEMMA OthersControl ==
  ASSUME NEW q \in Procs, ControlOK(q),
         pc'[q] = pc[q], args'[q] = args[q]
  PROVE  ControlOK(q)'
BY DEF ControlOK, Installing, InPlace

\* p's taking or giving back the lock leaves the others' hold on it alone.
LEMMA OthersLock ==
  ASSUME Inv, NEW p \in Procs, NEW q \in Procs \ {p}, pc'[q] = pc[q],
         \/ lock' = lock
         \/ lock = Free /\ lock' = p
         \/ lock = p /\ lock' = Free
  PROVE  LockOK(q)'
BY PluginAssumption DEF Inv, LockOK

\* The others' edits stay in step with state.json while it is not written.
LEMMA OthersEdit ==
  ASSUME NEW q \in Procs, EditOK(q), pc'[q] = pc[q],
         args'[q] = args[q], next'[q] = next[q], state' = state
  PROVE  EditOK(q)'
BY DEF EditOK

\* Every step preserves the invariant.
LEMMA NextInv == Inv /\ [Next]_vars => Inv'
<1> SUFFICES ASSUME Inv, [Next]_vars PROVE Inv'
  OBVIOUS
<1> USE DEF Inv
<1>1. ASSUME NEW p \in Procs, Begin(p) PROVE Inv'
  <2>1. PICK c \in Commands :
          args' = [args EXCEPT ![p] = c]
    BY <1>1 DEF Begin
  <2>2. c \in Command
    BY PluginAssumption
  <2>3. TypeOK'
    BY <1>1, <2>1, <2>2 DEF TypeOK, Begin, Goto, Steps
  <2>4. ControlOK(p)' /\ LockOK(p)' /\ EditOK(p)'
    BY <1>1, <2>1, <2>2
    DEF TypeOK, Begin, Goto, ControlOK, LockOK, EditOK, Locked
  <2>5. ASSUME NEW q \in Procs \ {p}
        PROVE  ControlOK(q)' /\ LockOK(q)' /\ EditOK(q)'
    BY <1>1, <2>1, OthersControl, OthersLock, OthersEdit
    DEF TypeOK, Begin, Goto
  <2> QED
    BY <2>3, <2>4, <2>5
<1>2. ASSUME NEW p \in Procs, Reject(p) PROVE Inv'
  <2>1. TypeOK'
    BY <1>2 DEF TypeOK, Reject, Return, Steps
  <2>2. ControlOK(p)' /\ LockOK(p)' /\ EditOK(p)'
    BY <1>2 DEF TypeOK, Reject, Return, ControlOK, LockOK, EditOK, Locked
  <2>3. ASSUME NEW q \in Procs \ {p}
        PROVE  ControlOK(q)' /\ LockOK(q)' /\ EditOK(q)'
    BY <1>2, OthersControl, OthersLock, OthersEdit
    DEF TypeOK, Reject, Return
  <2> QED
    BY <2>1, <2>2, <2>3
<1>3. ASSUME NEW p \in Procs, AcquireLock(p) PROVE Inv'
  <2>1. TypeOK'
    BY <1>3 DEF TypeOK, AcquireLock, Goto, Steps, Locked
  <2>2. ControlOK(p)' /\ LockOK(p)' /\ EditOK(p)'
    BY <1>3 DEF TypeOK, AcquireLock, Goto, ControlOK, LockOK, EditOK, Locked,
      Installing, InPlace
  <2>3. ASSUME NEW q \in Procs \ {p}
        PROVE  ControlOK(q)' /\ LockOK(q)' /\ EditOK(q)'
    BY <1>3, OthersControl, OthersLock, OthersEdit
    DEF TypeOK, AcquireLock, Goto
  <2> QED
    BY <2>1, <2>2, <2>3
<1>4. ASSUME NEW p \in Procs, Refuse(p) PROVE Inv'
  <2>1. lock = p
    BY <1>4 DEF Refuse, LockOK, Locked
  <2>2. TypeOK'
    BY <1>4 DEF TypeOK, Refuse, Return, Unlock, Steps
  <2>3. ControlOK(p)' /\ LockOK(p)' /\ EditOK(p)'
    BY <1>4, <2>1, PluginAssumption
    DEF TypeOK, Refuse, Return, Unlock, ControlOK, LockOK, EditOK, Locked
  <2>4. ASSUME NEW q \in Procs \ {p}
        PROVE  ControlOK(q)' /\ LockOK(q)' /\ EditOK(q)'
    BY <1>4, <2>1, OthersControl, OthersLock, OthersEdit
    DEF TypeOK, Refuse, Return, Unlock
  <2> QED
    BY <2>2, <2>3, <2>4
<1>5. ASSUME NEW p \in Procs, Copy(p) PROVE Inv'
  <2>1. args[p] \in Command
    BY <1>5 DEF Copy, ControlOK
  <2>2. files' \in [Paths -> Builds \cup {NoFile}]
    BY <1>5, <2>1, CommandFields DEF TypeOK, Copy, Installing
  <2>3. TypeOK'
    BY <1>5, <2>2 DEF TypeOK, Copy, Goto, Steps, Locked
  <2>4. ControlOK(p)' /\ LockOK(p)' /\ EditOK(p)'
    BY <1>5 DEF TypeOK, Copy, Goto, ControlOK, LockOK, EditOK, Locked,
      Installing, InPlace
  <2>5. ASSUME NEW q \in Procs \ {p}
        PROVE  ControlOK(q)' /\ LockOK(q)' /\ EditOK(q)'
    BY <1>5, OthersControl, OthersLock, OthersEdit DEF TypeOK, Copy, Goto
  <2> QED
    BY <2>3, <2>4, <2>5
<1>6. ASSUME NEW p \in Procs, Hash(p) PROVE Inv'
  <2>1. args[p] \in Command /\ Installing(p)
    BY <1>6 DEF Hash, ControlOK
  <2>2. args[p].path \in Paths
    BY <2>1, CommandFields DEF Installing
  <2>3. files[args[p].path] \in Builds
    BY <1>6, <2>2 DEF TypeOK, Hash
  <2>4. [path |-> args[p].path, sum |-> files[args[p].path]]
          \in InstalledPlugin
    BY <2>2, <2>3 DEF InstalledPlugin
  <2>5. next' \in [Procs -> States]
    BY <1>6, <2>4 DEF TypeOK, Hash, States
  <2>6. TypeOK'
    BY <1>6, <2>5 DEF TypeOK, Hash, Goto, Steps, Locked
  <2>7. ControlOK(p)' /\ LockOK(p)'
    BY <1>6, <2>1 DEF TypeOK, Hash, Goto, ControlOK, LockOK, Locked
  <2>8. EditOK(p)'
    BY <1>6 DEF TypeOK, Hash, Goto, EditOK, States
  <2>9. ASSUME NEW q \in Procs \ {p}
        PROVE  ControlOK(q)' /\ LockOK(q)' /\ EditOK(q)'
    BY <1>6, OthersControl, OthersLock, OthersEdit DEF TypeOK, Hash, Goto
  <2> QED
    BY <2>6, <2>7, <2>8, <2>9
<1>7. ASSUME NEW p \in Procs, HashFails(p) PROVE Inv'
  <2>1. lock = p /\ args[p] \in Command
    BY <1>7 DEF HashFails, LockOK, Locked, ControlOK
  <2>2. TypeOK'
    BY <1>7, <2>1, CommandFields DEF TypeOK, HashFails, Return, Unlock, Steps
  <2>3. ControlOK(p)' /\ LockOK(p)' /\ EditOK(p)'
    BY <1>7, <2>1, PluginAssumption
    DEF TypeOK, HashFails, Return, Unlock, ControlOK, LockOK, EditOK, Locked
  <2>4. ASSUME NEW q \in Procs \ {p}
        PROVE  ControlOK(q)' /\ LockOK(q)' /\ EditOK(q)'
    BY <1>7, <2>1, OthersControl, OthersLock, OthersEdit
    DEF TypeOK, HashFails, Return, Unlock
  <2> QED
    BY <2>2, <2>3, <2>4
<1>8. ASSUME NEW p \in Procs, Forget(p) PROVE Inv'
  <2>1. args[p].name \in Names
    BY <1>8, CommandFields DEF Forget, ControlOK
  <2>2. next[p][args[p].name] \in InstalledPlugin
    BY <1>8, <2>1 DEF TypeOK, Forget, States
  <2>3. next[p][args[p].name].path \in Paths
    BY <2>2 DEF InstalledPlugin
  <2>4. next' \in [Procs -> States]
    BY <1>8 DEF TypeOK, Forget, States
  <2>5. TypeOK'
    BY <1>8, <2>3, <2>4 DEF TypeOK, Forget, Goto, Steps, Locked
  <2>6. ControlOK(p)' /\ LockOK(p)'
    BY <1>8 DEF TypeOK, Forget, Goto, ControlOK, LockOK, Locked
  <2>7. EditOK(p)'
    BY <1>8 DEF TypeOK, Forget, Goto, EditOK, States
  <2>8. ASSUME NEW q \in Procs \ {p}
        PROVE  ControlOK(q)' /\ LockOK(q)' /\ EditOK(q)'
    BY <1>8, OthersControl, OthersLock, OthersEdit DEF TypeOK, Forget, Goto
  <2> QED
    BY <2>5, <2>6, <2>7, <2>8
<1>9. ASSUME NEW p \in Procs, Write(p) PROVE Inv'
  <2>1. TypeOK'
    BY <1>9 DEF TypeOK, Write, Goto, Steps, Locked
  <2>2. ControlOK(p)' /\ LockOK(p)' /\ EditOK(p)'
    BY <1>9 DEF TypeOK, Write, Goto, ControlOK, LockOK, EditOK, Locked
  <2>3. ASSUME NEW q \in Procs \ {p}
        PROVE  ControlOK(q)' /\ LockOK(q)' /\ EditOK(q)'
    <3>1. pc'[q] = pc[q] /\ pc[q] \notin Locked
      BY <1>9, OneHolder DEF TypeOK, Write, Goto, Locked
    <3>2. EditOK(q)'
      BY <3>1 DEF EditOK, Locked
    <3> QED
      BY <1>9, <3>1, <3>2, OthersControl, OthersLock DEF Write
  <2> QED
    BY <2>1, <2>2, <2>3
<1>10. ASSUME NEW p \in Procs, Release(p) PROVE Inv'
  <2>1. lock = p
    BY <1>10 DEF Release, LockOK, Locked
  <2>2. TypeOK'
    BY <1>10 DEF TypeOK, Release, Goto, Return, Unlock, Steps
  <2>3. ControlOK(p)' /\ LockOK(p)' /\ EditOK(p)'
    BY <1>10, <2>1, PluginAssumption
    DEF TypeOK, Release, Goto, Return, Unlock, ControlOK, LockOK, EditOK,
      Locked, Installing, InPlace
  <2>4. ASSUME NEW q \in Procs \ {p}
        PROVE  ControlOK(q)' /\ LockOK(q)' /\ EditOK(q)'
    BY <1>10, <2>1, OthersControl, OthersLock, OthersEdit
    DEF TypeOK, Release, Goto, Return, Unlock
  <2> QED
    BY <2>2, <2>3, <2>4
<1>11. ASSUME NEW p \in Procs, Delete(p) PROVE Inv'
  <2>1. TypeOK'
    BY <1>11 DEF TypeOK, Delete, Return, Steps
  <2>2. ControlOK(p)' /\ LockOK(p)' /\ EditOK(p)'
    BY <1>11 DEF TypeOK, Delete, Return, ControlOK, LockOK, EditOK, Locked
  <2>3. ASSUME NEW q \in Procs \ {p}
        PROVE  ControlOK(q)' /\ LockOK(q)' /\ EditOK(q)'
    BY <1>11, OthersControl, OthersLock, OthersEdit
    DEF TypeOK, Delete, Return
  <2> QED
    BY <2>1, <2>2, <2>3
<1>12. ASSUME NEW p \in Procs, Abort(p) \/ Crash(p) PROVE Inv'
  <2>1. /\ pc[p] \notin {"idle", "done"}
        /\ Unlock(p)
        /\ \E r \in {"refused", "failed", "lost"} : Return(p, r)
        /\ cut' = IF Replacing(p) THEN cut \cup {args[p].name} ELSE cut
        /\ UNCHANGED <<files, state, args, next, target>>
    BY <1>12 DEF Abort, Crash
  <2>2. args[p].name \in Names
    BY <2>1, CommandFields DEF ControlOK
  <2>3. TypeOK'
    BY <2>1, <2>2 DEF TypeOK, Return, Unlock, Steps
  <2>4. ControlOK(p)' /\ LockOK(p)' /\ EditOK(p)'
    BY <2>1, PluginAssumption
    DEF TypeOK, Return, Unlock, ControlOK, LockOK, EditOK, Locked
  <2>5. ASSUME NEW q \in Procs \ {p}
        PROVE  ControlOK(q)' /\ LockOK(q)' /\ EditOK(q)'
    BY <2>1, OthersControl, OthersLock, OthersEdit DEF TypeOK, Return, Unlock
  <2> QED
    BY <2>3, <2>4, <2>5
<1>13. CASE UNCHANGED vars
  BY <1>13 DEF vars, TypeOK, ControlOK, LockOK, EditOK, Installing,
    InPlace
<1> QED
  BY <1>1, <1>2, <1>3, <1>4, <1>5, <1>6, <1>7, <1>8, <1>9, <1>10, <1>11,
    <1>12, <1>13 DEF Next, Run

\* The invariant always holds.
LEMMA Invariance == Spec => []Inv
BY InitInv, NextInv, PTL DEF Spec

\* Every variable has its type, for any processes, plugins and commands.
THEOREM InstallTypeCorrect == Spec => []TypeOK
<1>1. Inv => TypeOK
  BY DEF Inv
<1> QED
  BY <1>1, Invariance, PTL

\* Every mutation of state.json changes at most the entry of the plugin its
\* command names, however the commands interleave: the read-modify-write
\* under the file lock loses no update.
THEOREM EntriesKept == Spec => EntriesAreNotClobbered
<1> DEFINE Named ==
      \A n \in Names :
        state'[n] # state[n] => \E p \in Procs : Write(p) /\ args[p].name = n
<1>1. Inv /\ [Next]_vars => [Named]_vars
  <2> SUFFICES ASSUME Inv, [Next]_vars, NEW n \in Names,
                      state'[n] # state[n]
               PROVE  \E p \in Procs : Write(p) /\ args[p].name = n
    OBVIOUS
  <2>1. PICK p \in Procs : Write(p)
    BY DEF Next, Run, Begin, Reject, AcquireLock, Refuse, Copy, Hash,
      HashFails, Forget, Release, Delete, Abort, Crash, vars
  <2>2. EditOK(p) /\ state' = next[p] /\ pc[p] = "write"
    BY <2>1 DEF Inv, Write
  <2> QED
    BY <2>1, <2>2 DEF EditOK
<1> QED
  BY <1>1, Invariance, PTL DEF Spec, EntriesAreNotClobbered

-----------------------------------------------------------------------------
(* Binaries and recorded hashes                                            *)

\* What a process is about to record is the hash of what it installed,
\* unless a late removal has struck it.
RecordOK(p) ==
  /\ pc[p] = "write" /\ Installing(p) =>
       /\ next[p][args[p].name] # NoRecord
       /\ next[p][args[p].name].path = args[p].path
       /\ files[args[p].path] # next[p][args[p].name].sum =>
            args[p].name \in cut
  /\ pc[p] = "write" /\ ~Installing(p) => next[p][args[p].name] = NoRecord

CauseInv == MismatchHasCause /\ \A p \in Procs : RecordOK(p)

\* No plugin is recorded at first.
LEMMA InitCause == Init => CauseInv
BY DEF Init, CauseInv, MismatchHasCause, Mismatch, EmptyState, RecordOK

\* A step that leaves files, state.json and the history alone, and no
\* replacement half done, keeps every cause.
LEMMA CausesKept ==
  ASSUME MismatchHasCause, UNCHANGED <<files, state>>, cut \subseteq cut',
         \A q \in Procs : Replacing(q) =>
           args[q].name \in cut' \/ (Replacing(q)' /\ args'[q] = args[q])
  PROVE  MismatchHasCause'
BY DEF MismatchHasCause, Mismatch

\* What the others are about to record stays right while neither files nor
\* their own state change.
LEMMA RecordKept ==
  ASSUME NEW q \in Procs, RecordOK(q), pc'[q] = pc[q], args'[q] = args[q],
         next'[q] = next[q], files' = files, cut \subseteq cut'
  PROVE  RecordOK(q)'
BY DEF RecordOK, Installing

\* A process that is not writing has nothing to record.
LEMMA RecordVoid ==
  ASSUME NEW q \in Procs, pc'[q] # "write"
  PROVE  RecordOK(q)'
BY DEF RecordOK

\* A step of p that touches neither files nor state.json, in which p neither
\* starts to write nor gives up a replacement.
LEMMA QuietStep ==
  ASSUME Inv, CauseInv, NEW p \in Procs,
         UNCHANGED <<files, state>>, cut \subseteq cut', pc'[p] # "write",
         Replacing(p) => args[p].name \in cut',
         \A q \in Procs \ {p} :
           pc'[q] = pc[q] /\ args'[q] = args[q] /\ next'[q] = next[q]
  PROVE  CauseInv'
<1>1. ASSUME NEW q \in Procs, Replacing(q)
      PROVE  args[q].name \in cut' \/ (Replacing(q)' /\ args'[q] = args[q])
  <2>1. CASE q = p
    BY <1>1, <2>1 DEF Replacing, Installing, InPlace
  <2>2. CASE q # p
    <3>1. pc'[q] = pc[q] /\ args'[q] = args[q]
      BY <2>2
    <3> QED
      BY <1>1, <3>1 DEF Replacing, Installing, InPlace
  <2> QED
    BY <2>1, <2>2
<1>2. MismatchHasCause'
  BY <1>1, CausesKept DEF CauseInv
<1>3. ASSUME NEW q \in Procs PROVE RecordOK(q)'
  BY RecordVoid, RecordKept DEF CauseInv
<1> QED
  BY <1>2, <1>3 DEF CauseInv

\* Every step keeps it.
LEMMA NextCause == Inv /\ CauseInv /\ [Next]_vars => CauseInv'
<1> SUFFICES ASSUME Inv, CauseInv, [Next]_vars PROVE CauseInv'
  OBVIOUS
<1>1. ASSUME NEW p \in Procs, Begin(p) PROVE CauseInv'
  BY <1>1, QuietStep DEF Begin, Goto, Replacing, Inv, TypeOK
<1>2. ASSUME NEW p \in Procs, Reject(p) PROVE CauseInv'
  BY <1>2, QuietStep DEF Reject, Return, Replacing, Inv, TypeOK
<1>3. ASSUME NEW p \in Procs, AcquireLock(p) PROVE CauseInv'
  BY <1>3, QuietStep DEF AcquireLock, Goto, Replacing, Inv, TypeOK
<1>4. ASSUME NEW p \in Procs, Refuse(p) PROVE CauseInv'
  BY <1>4, QuietStep DEF Refuse, Return, Replacing, Inv, TypeOK
<1>5. ASSUME NEW p \in Procs, Copy(p) PROVE CauseInv'
  <2>1. args[p] \in Command /\ next[p] = state /\ pc'[p] = "hash"
    BY <1>5 DEF Copy, Goto, Inv, TypeOK, ControlOK, EditOK
  <2>2. args[p].path \in Paths /\ args[p].build \in Builds \cup {NoFile}
    BY <1>5, <2>1, CommandFields DEF Copy, Installing
  <2>3. \A x \in Paths \ {args[p].path} : files'[x] = files[x]
    BY <1>5, <2>2 DEF Copy, Inv, TypeOK
  <2>4. ASSUME NEW q \in Procs, Replacing(q)
        PROVE  q # p /\ Replacing(q)' /\ args'[q] = args[q]
    BY <1>5, <2>4 DEF Copy, Goto, Replacing, Installing, InPlace, Inv, TypeOK
  <2>5. ASSUME NEW n \in Names, Mismatch(n)',
               ~ \E q \in Procs : Replacing(q)' /\ args'[q].name = n
        PROVE  n \in cut'
    <3>1. CASE n = args[p].name
      <4>1. InPlace(p)
        BY <1>5, <2>1, <2>5, <3>1
        DEF Copy, Replacing, Installing, InPlace
      <4> QED
        BY <1>5, <4>1 DEF Copy, Inv, ControlOK
    <3>2. CASE n # args[p].name
      <4>1. state[n] \in InstalledPlugin
        BY <1>5, <2>5 DEF Mismatch, Copy, Inv, TypeOK, States
      <4>2. state[n].path # args[p].path
        BY <1>5, <2>1, <3>2, <4>1, PluginAssumption DEF Copy, Collides
      <4>3. Mismatch(n)
        BY <1>5, <2>3, <2>5, <4>1, <4>2 DEF Copy, Mismatch, InstalledPlugin
      <4> QED
        BY <1>5, <2>4, <2>5, <4>3 DEF CauseInv, MismatchHasCause, Copy
    <3> QED
      BY <3>1, <3>2
  <2>6. MismatchHasCause'
    BY <2>5 DEF MismatchHasCause
  <2>7. ASSUME NEW q \in Procs PROVE RecordOK(q)'
    <3>1. pc'[q] # "write"
      BY <1>5, OneHolder DEF Copy, Goto, Inv, TypeOK, Locked
    <3> QED
      BY <3>1, RecordVoid
  <2> QED
    BY <2>6, <2>7 DEF CauseInv
<1>6. ASSUME NEW p \in Procs, Hash(p) PROVE CauseInv'
  <2>1. args[p] \in Command /\ Installing(p) /\ pc'[p] = "write"
    BY <1>6 DEF Hash, Goto, Inv, TypeOK, ControlOK
  <2>2. args[p].path \in Paths /\ args[p].name \in Names
    BY <2>1, CommandFields DEF Installing
  <2>3. next'[p][args[p].name] =
          [path |-> args[p].path, sum |-> files[args[p].path]]
    BY <1>6, <2>2 DEF Hash, Inv, TypeOK, States
  <2>4. files[args[p].path] \in Builds
    BY <1>6, <2>2 DEF Hash, Inv, TypeOK
  <2>5. next'[p][args[p].name] # NoRecord
    BY <2>2, <2>3, <2>4, PluginAssumption DEF InstalledPlugin
  <2>6. ASSUME NEW q \in Procs, Replacing(q)
        PROVE  Replacing(q)' /\ args'[q] = args[q]
    BY <1>6, <2>1, <2>6
    DEF Hash, Goto, Replacing, Installing, InPlace, Inv, TypeOK
  <2>7. MismatchHasCause'
    BY <1>6, <2>6, CausesKept DEF Hash, CauseInv
  <2>8. ASSUME NEW q \in Procs PROVE RecordOK(q)'
    <3>1. CASE q = p
      BY <1>6, <2>1, <2>3, <2>5, <3>1 DEF Hash, RecordOK, Installing
    <3>2. CASE q # p
      BY <1>6, <3>2, RecordKept DEF Hash, Goto, CauseInv, Inv, TypeOK
    <3> QED
      BY <3>1, <3>2
  <2> QED
    BY <2>7, <2>8 DEF CauseInv
<1>7. ASSUME NEW p \in Procs, HashFails(p) PROVE CauseInv'
  BY <1>7, QuietStep DEF HashFails, Return, Replacing, Inv, TypeOK
<1>8. ASSUME NEW p \in Procs, Forget(p) PROVE CauseInv'
  <2>1. args[p].name \in Names
    BY <1>8, CommandFields DEF Forget, Inv, ControlOK
  <2>2. ASSUME NEW q \in Procs, Replacing(q)
        PROVE  Replacing(q)' /\ args'[q] = args[q]
    BY <1>8, <2>2 DEF Forget, Goto, Replacing, Installing, InPlace, Inv, TypeOK
  <2>3. MismatchHasCause'
    BY <1>8, <2>2, CausesKept DEF Forget, CauseInv
  <2>4. ASSUME NEW q \in Procs PROVE RecordOK(q)'
    <3>1. CASE q = p
      BY <1>8, <2>1, <3>1
      DEF Forget, Goto, RecordOK, Installing, Inv, TypeOK, States
    <3>2. CASE q # p
      BY <1>8, <3>2, RecordKept DEF Forget, Goto, CauseInv, Inv, TypeOK
    <3> QED
      BY <3>1, <3>2
  <2> QED
    BY <2>3, <2>4 DEF CauseInv
<1>9. ASSUME NEW p \in Procs, Write(p) PROVE CauseInv'
  <2>1. args[p].name \in Names /\ RecordOK(p) /\ EditOK(p)
    BY <1>9, CommandFields DEF Write, Inv, ControlOK, CauseInv
  <2>2. ASSUME NEW n \in Names, Mismatch(n)'
        PROVE  \/ n \in cut'
               \/ \E q \in Procs : Replacing(q)' /\ args'[q].name = n
    <3>1. CASE n = args[p].name
      <4>1. next[p][n] # NoRecord /\ files[next[p][n].path] # next[p][n].sum
        BY <1>9, <2>2 DEF Write, Mismatch
      <4>2. n \in cut
        BY <1>9, <2>1, <3>1, <4>1 DEF RecordOK, Write
      <4> QED
        BY <1>9, <3>1, <4>1, <4>2 DEF Write
    <3>2. CASE n # args[p].name
      <4>1. state'[n] = state[n]
        BY <1>9, <2>1, <3>2 DEF Write, EditOK
      <4>2. Mismatch(n)
        BY <1>9, <2>2, <4>1 DEF Write, Mismatch
      <4>3. CASE n \in cut
        BY <1>9, <3>2, <4>3 DEF Write
      <4>4. CASE n \notin cut
        <5>1. PICK q \in Procs : Replacing(q) /\ args[q].name = n
          BY <4>2, <4>4 DEF CauseInv, MismatchHasCause
        <5>2. Replacing(q)' /\ args'[q] = args[q]
          BY <1>9, <3>2, <5>1
          DEF Write, Goto, Replacing, Installing, InPlace, Inv, TypeOK
        <5> QED
          BY <5>1, <5>2
      <4> QED
        BY <4>3, <4>4
    <3> QED
      BY <3>1, <3>2
  <2>3. MismatchHasCause'
    BY <2>2 DEF MismatchHasCause
  <2>4. ASSUME NEW q \in Procs PROVE RecordOK(q)'
    <3>1. pc'[q] # "write"
      BY <1>9, OneHolder DEF Write, Goto, Inv, TypeOK, Locked
    <3> QED
      BY <3>1, RecordVoid
  <2> QED
    BY <2>3, <2>4 DEF CauseInv
<1>10. ASSUME NEW p \in Procs, Release(p) PROVE CauseInv'
  BY <1>10, QuietStep DEF Release, Goto, Return, Replacing, Inv, TypeOK
<1>11. ASSUME NEW p \in Procs, Delete(p) PROVE CauseInv'
  <2>1. /\ cut \subseteq cut'
        /\ \A n \in Names : state[n] # NoRecord /\ state[n].path = target[p]
             => n \in cut'
        /\ \A q \in Procs :
             pc[q] = "write" /\ Installing(q) /\ args[q].path = target[p]
               /\ args[q].name \in Names
             => args[q].name \in cut'
    BY <1>11 DEF Delete
  <2>2. \A x \in Paths : x # target[p] => files'[x] = files[x]
    BY <1>11 DEF Delete, Inv, TypeOK
  <2>3. ASSUME NEW q \in Procs, Replacing(q)
        PROVE  Replacing(q)' /\ args'[q] = args[q]
    BY <1>11, <2>3
    DEF Delete, Return, Replacing, Installing, InPlace, Inv, TypeOK
  <2>4. ASSUME NEW n \in Names, Mismatch(n)', n \notin cut'
        PROVE  \E q \in Procs : Replacing(q)' /\ args'[q].name = n
    <3>1. state[n] # NoRecord /\ state' = state
      BY <1>11, <2>4 DEF Delete, Mismatch
    <3>2. state[n].path # target[p] /\ state[n].path \in Paths
      BY <2>1, <2>4, <3>1 DEF Inv, TypeOK, States, InstalledPlugin
    <3>3. Mismatch(n)
      BY <2>2, <2>4, <3>1, <3>2 DEF Mismatch
    <3> QED
      BY <2>1, <2>3, <2>4, <3>3 DEF CauseInv, MismatchHasCause
  <2>5. MismatchHasCause'
    BY <2>4 DEF MismatchHasCause
  <2>6. ASSUME NEW q \in Procs PROVE RecordOK(q)'
    <3>1. CASE pc'[q] # "write"
      BY <3>1, RecordVoid
    <3>2. CASE pc'[q] = "write"
      <4>1. q # p /\ pc[q] = "write" /\ RecordOK(q) /\ args[q] \in Command
        BY <1>11, <3>2
        DEF Delete, Return, CauseInv, Inv, TypeOK, ControlOK
      <4>2. UNCHANGED <<next, args>>
        BY <1>11 DEF Delete
      <4>3. CASE Installing(q)
        <5>1. args[q].path \in Paths /\ args[q].name \in Names
          BY <4>1, <4>3, CommandFields DEF Installing
        <5>2. files'[args[q].path] # next[q][args[q].name].sum
                => args[q].name \in cut'
          BY <2>1, <2>2, <4>1, <4>3, <5>1 DEF RecordOK
        <5> QED
          BY <4>1, <4>2, <4>3, <5>2 DEF RecordOK, Installing
      <4>4. CASE ~Installing(q)
        BY <4>1, <4>2, <4>4 DEF RecordOK, Installing
      <4> QED
        BY <4>3, <4>4
    <3> QED
      BY <3>1, <3>2
  <2> QED
    BY <2>5, <2>6 DEF CauseInv
<1>12. ASSUME NEW p \in Procs, Abort(p) PROVE CauseInv'
  BY <1>12, QuietStep DEF Abort, Return, Replacing, Inv, TypeOK
<1>13. ASSUME NEW p \in Procs, Crash(p) PROVE CauseInv'
  BY <1>13, QuietStep DEF Crash, Return, Replacing, Inv, TypeOK
<1>14. CASE UNCHANGED vars
  BY <1>14
  DEF vars, CauseInv, MismatchHasCause, Mismatch, RecordOK, Replacing,
    Installing, InPlace
<1> QED
  BY <1>1, <1>2, <1>3, <1>4, <1>5, <1>6, <1>7, <1>8, <1>9, <1>10, <1>11,
    <1>12, <1>13, <1>14 DEF Next, Run

\* No successful command leaves a recorded plugin that fails its hash check,
\* except a removal that deletes late: for every number of processes,
\* plugins and paths, and with any process failing or dying at any step.
THEOREM MismatchExplained == Spec => []MismatchHasCause
<1>1. CauseInv => MismatchHasCause
  BY DEF CauseInv
<1> QED
  BY <1>1, InitCause, NextCause, Invariance, PTL DEF Spec

=============================================================================
