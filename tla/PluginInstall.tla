---------------------------- MODULE PluginInstall ----------------------------
(***************************************************************************)
(* `cvt plugins install` and `cvt plugins remove` (internal/pluginmgr/     *)
(* state.go), run by any number of CLI processes over one plugin           *)
(* directory: the binaries and state.json, which records each plugin's     *)
(* binary path and SHA256.  state.json is rewritten under an exclusive     *)
(* file lock; both it and the binaries are replaced by an atomic rename.   *)
(* Any process may fail or die between two steps, and a dead process's     *)
(* lock is released by the kernel.                                         *)
(***************************************************************************)
CONSTANTS
  Procs,    \* CLI processes, each running one command
  Names,    \* valid plugin names
  Paths,    \* binary paths under the plugin root
  Builds,   \* contents of a binary; its SHA256 stands for it
  Commands, \* the commands users may give, a subset of Command
  NoFile,   \* no file at a path; as a command's build: installed in place
  NoRecord, \* no entry in state.json
  Free      \* nobody holds the file lock

InstalledPlugin == [path : Paths, sum : Builds]

Command ==
  [op : {"install"}, name : Names, path : Paths, build : Builds \cup {NoFile}]
    \cup
  [op : {"remove"}, name : Names]

ASSUME PluginAssumption ==
  /\ Commands \subseteq Command
  /\ NoFile \notin Builds
  /\ NoRecord \notin InstalledPlugin
  /\ NoRecord \notin Command
  /\ Free \notin Procs

VARIABLES
  files,  \* the plugin directory
  state,  \* state.json
  lock,   \* holder of state.json.lock
  pc,     \* where each process is
  args,   \* its command
  next,   \* the contents it read, then those it is about to write
  target, \* Remove: the binary to delete
  reply,  \* what the user saw
  \* history, read by no action
  cut     \* plugins whose binary an unfinished or late step has touched

vars == <<files, state, lock, pc, args, next, target, reply, cut>>

States == [Names -> InstalledPlugin \cup {NoRecord}]

\* The steps of withStateLock's callback and write.
Locked == {"edit", "hash", "write", "unlock"}

Steps == {"idle", "lock", "delete", "done"} \cup Locked

TypeOK ==
  /\ files \in [Paths -> Builds \cup {NoFile}]
  /\ state \in States
  /\ lock \in Procs \cup {Free}
  /\ pc \in [Procs -> Steps]
  /\ args \in [Procs -> Command \cup {NoRecord}]
  /\ next \in [Procs -> States]
  /\ target \in [Procs -> Paths \cup {NoFile}]
  /\ reply \in [Procs -> {"none", "ok", "refused", "failed", "lost"}]
  /\ cut \subseteq Names

\* emptyState: what ReadState makes of a missing file.
EmptyState == [n \in Names |-> NoRecord]

Init ==
  /\ files \in [Paths -> Builds \cup {NoFile}]
  /\ state = EmptyState
  /\ lock = Free
  /\ pc = [p \in Procs |-> "idle"]
  /\ args = [p \in Procs |-> NoRecord]
  /\ next = [p \in Procs |-> EmptyState]
  /\ target = [p \in Procs |-> NoFile]
  /\ reply = [p \in Procs |-> "none"]
  /\ cut = {}

-----------------------------------------------------------------------------
(* Helpers                                                                 *)

Goto(p, l) == pc' = [pc EXCEPT ![p] = l] /\ UNCHANGED reply

Return(p, r) ==
  /\ pc' = [pc EXCEPT ![p] = "done"]
  /\ reply' = [reply EXCEPT ![p] = r]

Unlock(p) == lock' = IF lock = p THEN Free ELSE lock

Installing(p) == args[p].op = "install"

\* The source lies inside the plugin root and is registered where it is.
InPlace(p) == args[p].build = NoFile

\* p has put its binary in place and not yet recorded its hash.
Replacing(p) == pc[p] \in {"hash", "write"} /\ Installing(p) /\ ~InPlace(p)

-----------------------------------------------------------------------------
(* The transaction under the lock                                          *)

\* A command that passes its checks: valid name, and a source that is a
\* plain file.
Begin(p) ==
  /\ pc[p] = "idle"
  /\ \E c \in Commands :
       /\ c.op = "install" /\ c.build = NoFile => files[c.path] # NoFile
       /\ args' = [args EXCEPT ![p] = c]
  /\ Goto(p, "lock")
  /\ UNCHANGED <<files, state, lock, next, target, cut>>

Reject(p) ==
  /\ pc[p] = "idle"
  /\ Return(p, "refused")
  /\ UNCHANGED <<files, state, lock, args, next, target, cut>>

\* flockExclusive, and ReadState under it.
AcquireLock(p) ==
  /\ pc[p] = "lock"
  /\ lock = Free
  /\ lock' = p
  /\ next' = [next EXCEPT ![p] = state]
  /\ Goto(p, IF Installing(p) /\ InPlace(p) THEN "hash" ELSE "edit")
  /\ UNCHANGED <<files, state, args, target, cut>>

\* Mutant of Collides: compares with the plugin's own entry only.
CollidesWithSelf(p) ==
  \E n \in Names \cap {args[p].name} :
    next[p][n] # NoRecord /\ next[p][n].path # args[p].path

\* Another plugin is registered at the destination.
Collides(p) ==
  \E n \in Names \ {args[p].name} :
    next[p][n] # NoRecord /\ next[p][n].path = args[p].path

Refuse(p) ==
  /\ pc[p] = "edit"
  /\ IF Installing(p) THEN Collides(p) ELSE next[p][args[p].name] = NoRecord
  /\ Return(p, "refused")
  /\ Unlock(p)
  /\ UNCHANGED <<files, state, args, next, target, cut>>

\* atomicCopyFile.
Copy(p) ==
  /\ pc[p] = "edit"
  /\ Installing(p)
  /\ ~Collides(p)
  /\ files' = [files EXCEPT ![args[p].path] = args[p].build]
  /\ Goto(p, "hash")
  /\ UNCHANGED <<state, lock, args, next, target, cut>>

\* Mutant of Hash: the new entry goes into an empty state.
HashIntoEmpty(p) ==
  /\ pc[p] = "hash"
  /\ files[args[p].path] # NoFile
  /\ next' = [next EXCEPT ![p] =
                [EmptyState EXCEPT ![args[p].name] =
                  [path |-> args[p].path, sum |-> files[args[p].path]]]]
  /\ Goto(p, "write")
  /\ UNCHANGED <<files, state, lock, args, target, cut>>

\* The hash is taken from the destination, which a removal may have emptied.
Hash(p) ==
  /\ pc[p] = "hash"
  /\ files[args[p].path] # NoFile
  /\ next' = [next EXCEPT ![p][args[p].name] =
                [path |-> args[p].path, sum |-> files[args[p].path]]]
  /\ Goto(p, "write")
  /\ UNCHANGED <<files, state, lock, args, target, cut>>

\* sha256File finds nothing to open.
HashFails(p) ==
  /\ pc[p] = "hash"
  /\ files[args[p].path] = NoFile
  /\ Return(p, "refused")
  /\ Unlock(p)
  /\ cut' = IF InPlace(p) THEN cut ELSE cut \cup {args[p].name}
  /\ UNCHANGED <<files, state, args, next, target>>

\* Remove's callback.
Forget(p) ==
  /\ pc[p] = "edit"
  /\ ~Installing(p)
  /\ next[p][args[p].name] # NoRecord
  /\ target' = [target EXCEPT ![p] = next[p][args[p].name].path]
  /\ next' = [next EXCEPT ![p][args[p].name] = NoRecord]
  /\ Goto(p, "write")
  /\ UNCHANGED <<files, state, lock, args, cut>>

\* The temporary file replaces state.json.
Write(p) ==
  /\ pc[p] = "write"
  /\ state' = next[p]
  /\ LET n == args[p].name IN
       cut' = IF next[p][n] = NoRecord \/ files[next[p][n].path] = next[p][n].sum
                THEN cut \ {n}
                ELSE cut
  /\ Goto(p, "unlock")
  /\ UNCHANGED <<files, lock, args, next, target>>

Release(p) ==
  /\ pc[p] = "unlock"
  /\ Unlock(p)
  /\ IF Installing(p) THEN Return(p, "ok") ELSE Goto(p, "delete")
  /\ UNCHANGED <<files, state, args, next, target, cut>>

-----------------------------------------------------------------------------
(* After the lock, and around it                                           *)

\* Remove deletes the binary it saw, which by now may be another's.
Delete(p) ==
  /\ pc[p] = "delete"
  /\ files' = [files EXCEPT ![target[p]] = NoFile]
  /\ cut' = cut \cup {n \in Names : state[n] # NoRecord
                                      /\ state[n].path = target[p]}
                \cup {n \in Names : \E q \in Procs :
                        /\ pc[q] = "write" /\ Installing(q)
                        /\ args[q].name = n /\ args[q].path = target[p]}
  /\ Return(p, "ok")
  /\ UNCHANGED <<state, lock, args, next, target>>

\* Mutant of Abort: the lock file's descriptor leaks.
AbortHoldingLock(p) ==
  /\ \/ pc[p] \in {"lock", "edit", "hash", "write"} /\ Return(p, "refused")
     \/ pc[p] = "delete" /\ Return(p, "failed")
  /\ UNCHANGED lock
  /\ cut' = IF Replacing(p) THEN cut \cup {args[p].name} ELSE cut
  /\ UNCHANGED <<files, state, args, next, target>>

\* An I/O error: opening the lock or state.json, the copy, the hash or the
\* write fails and nothing is recorded; or the final delete fails, with the
\* state already updated.
Abort(p) ==
  /\ \/ pc[p] \in {"lock", "edit", "hash", "write"} /\ Return(p, "refused")
     \/ pc[p] = "delete" /\ Return(p, "failed")
  /\ Unlock(p)
  /\ cut' = IF Replacing(p) THEN cut \cup {args[p].name} ELSE cut
  /\ UNCHANGED <<files, state, args, next, target>>

\* The process dies.
Crash(p) ==
  /\ pc[p] \notin {"idle", "done"}
  /\ Return(p, "lost")
  /\ Unlock(p)
  /\ cut' = IF Replacing(p) THEN cut \cup {args[p].name} ELSE cut
  /\ UNCHANGED <<files, state, args, next, target>>

-----------------------------------------------------------------------------

Run(p) ==
  \/ AcquireLock(p) \/ Refuse(p) \/ Copy(p) \/ Hash(p) \/ HashFails(p)
  \/ Forget(p) \/ Write(p) \/ Release(p) \/ Delete(p)

Next ==
  \E p \in Procs : Begin(p) \/ Reject(p) \/ Run(p) \/ Abort(p) \/ Crash(p)

Spec == Init /\ [][Next]_vars

\* A process that has started keeps running, and no process waits for ever
\* for a lock that is free.  No error and no death is ever assumed.
Fairness == \A p \in Procs : WF_vars(Run(p))

FairSpec == Spec /\ Fairness

-----------------------------------------------------------------------------
(* Properties                                                              *)

Mismatch(n) == state[n] # NoRecord /\ files[state[n].path] # state[n].sum

\* A recorded plugin that would fail VerifyInstalled has a known cause: its
\* binary is being replaced right now, or a reinstall of it broke off, or a
\* removal deleted the file late.  No successful command, of whatever plugin,
\* leaves another one broken except that late deletion.
MismatchHasCause ==
  \A n \in Names :
    Mismatch(n) =>
      n \in cut \/ \E p \in Procs : Replacing(p) /\ args[p].name = n

\* "Two simultaneous `cvt plugins install` calls no longer race to clobber
\* each other's entries": an entry changes only when a command naming that
\* plugin is written.
EntriesAreNotClobbered ==
  [][\A n \in Names :
       state'[n] # state[n] =>
         \E p \in Procs : Write(p) /\ args[p].name = n]_vars

\* Every command ends, whatever fails or dies while it waits for the lock.
CommandsEnd ==
  \A p \in Procs : pc[p] # "idle" ~> pc[p] = "done"

=============================================================================
