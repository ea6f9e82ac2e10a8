----------------------------- MODULE MockServer -----------------------------
(***************************************************************************)
(* `cvt mock`: a server that answers from the documents it has loaded, and *)
(* with --watch loads all of them again when a file changes.  An event of  *)
(* the file watcher (re)arms a timer; when it fires, the reload runs in a  *)
(* goroutine of its own and, if every document can be read and parsed,     *)
(* replaces the handler as a whole.  Requests take the handler once.       *)
(*                                                                         *)
(* A document is abstracted to the number of the edit that wrote it.       *)
(***************************************************************************)
EXTENDS Naturals, Sequences, FiniteSets

CONSTANTS
    Paths,      \* the --schema arguments, in order
    Urls,       \* those of them that are URLs
    Reloads,    \* reload goroutines
    Requests,   \* connections that send requests
    MaxEdits,   \* edits of the documents in a behaviour
    None

Docs == {Paths[i] : i \in DOMAIN Paths}

ASSUME MockAssumption ==
    /\ Paths \in Seq(Docs) /\ Paths /= << >>
    /\ Urls \subseteq Docs
    /\ MaxEdits \in Nat
    /\ None \notin [Docs -> 0 .. MaxEdits] /\ None /= "ok"

VARIABLES
    disk,       \* for every document, the edit that wrote it
    spoiled,    \* the edits that removed a document or left one that does not parse
    edits,      \* edits so far
    main,       \* where Start is
    watching,   \* the watcher's loop runs
    events,     \* events of watched files the loop has not taken
    timer,      \* the debounce timer is armed
    done,       \* the watcher's done channel is closed
    reload,     \* the reload goroutines
    handler,    \* the documents of the handler in use
    exit,       \* what Start returned
    request,    \* the requests under way
    answered,   \* history: the newest document an answer was made from
    excused     \* history: why the documents in use may be old for good

serverVars == <<main, handler, exit>>
watchVars == <<watching, events, timer, done, reload>>
diskVars == <<disk, spoiled, edits>>
vars == <<diskVars, serverVars, watchVars, request, answered, excused>>

Contents == [Docs -> 0 .. MaxEdits]
Idle == [pc |-> "idle", next |-> 1, read |-> [d \in Docs |-> 0]]
NoRequest == [pc |-> "idle", floor |-> [d \in Docs |-> 0], handler |-> None]

Init ==
    /\ disk = [d \in Docs |-> 0] /\ spoiled = {} /\ edits = 0
    /\ main = "load" /\ handler = None /\ exit = None
    /\ watching = FALSE /\ events = 0 /\ timer = FALSE /\ done = FALSE
    /\ reload = [r \in Reloads |-> Idle]
    /\ request = [q \in Requests |-> NoRequest]
    /\ answered = [d \in Docs |-> 0]
    /\ excused = {}

Running == main /= "stopped"
Parses(d) == disk[d] \notin spoiled

-----------------------------------------------------------------------------
(***************************************************************************)
(* The documents.  A removed file has no content and its event no match in *)
(* the operations the loop reacts to; a URL has no events at all.          *)
(***************************************************************************)

Seen(d, op) == watching /\ d \notin Urls /\ op /= "remove"

Edit(d, op) ==
    /\ Running /\ edits < MaxEdits
    /\ edits' = edits + 1
    /\ disk' = [disk EXCEPT ![d] = edits']
    /\ spoiled' = IF op = "write" THEN spoiled ELSE spoiled \cup {edits'}
    /\ events' = IF Seen(d, op) THEN events + 1 ELSE events
    /\ excused' = IF Seen(d, op) THEN excused ELSE excused \cup {"unseen"}
    /\ UNCHANGED <<serverVars, watching, timer, done, reload, request, answered>>

-----------------------------------------------------------------------------
(***************************************************************************)
(* Start, up to serving.                                                   *)
(***************************************************************************)

\* The first load: nothing runs beside it, but the documents may be edited meanwhile.
\* It is one step: the watcher sees none of the edits that come before it exists.
LoadFirst ==
    /\ main = "load"
    /\ IF \A d \in Docs : Parses(d)
       THEN main' = "watch" /\ handler' = disk /\ UNCHANGED exit
       ELSE main' = "stopped" /\ exit' = "error" /\ UNCHANGED handler
    /\ UNCHANGED <<diskVars, watchVars, request, answered, excused>>

\* --watch, and there is a file to watch, and the watcher could be made.
Watch ==
    /\ main = "watch"
    /\ main' = "listen"
    /\ watching' \in IF Docs \subseteq Urls THEN {FALSE} ELSE BOOLEAN
    /\ UNCHANGED <<diskVars, handler, exit, events, timer, done, reload, request, answered,
                   excused>>

Listen ==
    /\ main = "listen"
    /\ \/ main' = "serving" /\ UNCHANGED exit
       \/ main' = "closing" /\ exit' = "error"
    /\ UNCHANGED <<diskVars, handler, watchVars, request, answered, excused>>

-----------------------------------------------------------------------------
(***************************************************************************)
(* The watcher.                                                            *)
(***************************************************************************)

\* Mutant of TakeEvent: an event that comes while a reload runs is dropped.
TakeEventWhenQuiet ==
    /\ watching /\ events > 0
    /\ events' = events - 1
    /\ timer' = (timer \/ \A r \in Reloads : reload[r].pc = "idle")
    /\ UNCHANGED <<diskVars, serverVars, watching, done, reload, request, answered, excused>>

\* The loop stops the timer and arms a new one.
TakeEvent ==
    /\ watching /\ events > 0
    /\ events' = events - 1
    /\ timer' = TRUE
    /\ UNCHANGED <<diskVars, serverVars, watching, done, reload, request, answered, excused>>

\* AfterFunc starts a goroutine; stopping the timer no longer stops it.
Fire(r) ==
    /\ Running /\ timer
    /\ reload[r].pc = "idle"
    /\ timer' = FALSE
    /\ reload' = [reload EXCEPT ![r].pc = "begin"]
    /\ UNCHANGED <<diskVars, serverVars, watching, events, done, request, answered, excused>>

Loading(r) == reload[r].pc \in {"read", "store"}

BeginReload(r) ==
    /\ Running /\ reload[r].pc = "begin"
    /\ reload' = [reload EXCEPT ![r] = IF done THEN Idle ELSE [Idle EXCEPT !.pc = "read"]]
    /\ excused' = IF ~done /\ \E o \in Reloads \ {r} : Loading(o)
                  THEN excused \cup {"overlapped"} ELSE excused
    /\ UNCHANGED <<diskVars, serverVars, watching, events, timer, done, request, answered>>

\* Mutant of ReadDoc: a document that does not parse is taken as it is.
ReadDocUnparsed(r) ==
    LET d == Paths[reload[r].next]
    IN  /\ Running /\ reload[r].pc = "read"
        /\ reload' = [reload EXCEPT ![r].read[d] = disk[d], ![r].next = @ + 1,
                                    ![r].pc = IF reload[r].next = Len(Paths) THEN "store" ELSE "read"]
        /\ UNCHANGED <<diskVars, serverVars, watching, events, timer, done, request, answered,
                       excused>>

\* Mutant of ReadDoc: a document that cannot be read is taken as it was at the start.
ReadDocOrFirst(r) ==
    LET d == Paths[reload[r].next]
    IN  /\ Running /\ reload[r].pc = "read"
        /\ reload' = [reload EXCEPT
               ![r].read[d] = IF Parses(d) THEN disk[d] ELSE 0, ![r].next = @ + 1,
               ![r].pc = IF reload[r].next = Len(Paths) THEN "store" ELSE "read"]
        /\ UNCHANGED <<diskVars, serverVars, watching, events, timer, done, request, answered,
                       excused>>

\* loadSchemas reads and parses one document after the other and gives up at the first
\* that fails: the documents in use stay.
ReadDoc(r) ==
    LET d == Paths[reload[r].next]
    IN  /\ Running /\ reload[r].pc = "read"
        /\ \/ /\ Parses(d)
              /\ reload' = [reload EXCEPT
                     ![r].read[d] = disk[d], ![r].next = @ + 1,
                     ![r].pc = IF reload[r].next = Len(Paths) THEN "store" ELSE "read"]
              /\ UNCHANGED excused
           \/ /\ ~Parses(d)
              /\ reload' = [reload EXCEPT ![r] = Idle]
              /\ UNCHANGED excused
           \/ /\ d \in Urls
              /\ reload' = [reload EXCEPT ![r] = Idle]
              /\ excused' = excused \cup {"unreachable"}
        /\ UNCHANGED <<diskVars, serverVars, watching, events, timer, done, request, answered>>

StoreHandler(r) ==
    /\ Running /\ reload[r].pc = "store"
    /\ handler' = reload[r].read
    /\ reload' = [reload EXCEPT ![r] = Idle]
    /\ UNCHANGED <<diskVars, main, exit, watching, events, timer, done, request, answered,
                   excused>>

-----------------------------------------------------------------------------
(***************************************************************************)
(* Requests.                                                               *)
(***************************************************************************)

Receive(q) ==
    /\ main = "serving"
    /\ request[q].pc = "idle"
    /\ request' = [request EXCEPT ![q] = [pc |-> "delegate", floor |-> answered, handler |-> None]]
    /\ UNCHANGED <<diskVars, serverVars, watchVars, answered, excused>>

\* The delegating handler loads the pointer once; latency comes after it.
Delegate(q) ==
    /\ Running
    /\ request[q].pc = "delegate"
    /\ request' = [request EXCEPT ![q].pc = "answer", ![q].handler = handler]
    /\ UNCHANGED <<diskVars, serverVars, watchVars, answered, excused>>

Newer(c1, c2) == [d \in Docs |-> IF c1[d] >= c2[d] THEN c1[d] ELSE c2[d]]

Answer(q) ==
    /\ Running
    /\ request[q].pc = "answer"
    /\ request' = [request EXCEPT ![q] = NoRequest]
    /\ answered' = Newer(answered, request[q].handler)
    /\ UNCHANGED <<diskVars, serverVars, watchVars, excused>>

-----------------------------------------------------------------------------
(***************************************************************************)
(* Shutdown.                                                               *)
(***************************************************************************)

Signal ==
    /\ main = "serving"
    /\ main' = "shutdown"
    /\ UNCHANGED <<diskVars, handler, exit, watchVars, request, answered, excused>>

ServeFails ==
    /\ main = "serving"
    /\ main' = "closing" /\ exit' = "error"
    /\ UNCHANGED <<diskVars, handler, watchVars, request, answered, excused>>

Answering == {q \in Requests : request[q].pc /= "idle"}

\* Mutant of Shutdown: it returns without waiting for the handlers.
ShutdownAtOnce ==
    /\ main = "shutdown"
    /\ main' = "closing" /\ exit' = "ok"
    /\ UNCHANGED <<diskVars, handler, watchVars, request, answered, excused>>

Shutdown ==
    /\ main = "shutdown"
    /\ Answering = {}
    /\ main' = "closing" /\ exit' = "ok"
    /\ UNCHANGED <<diskVars, handler, watchVars, request, answered, excused>>

\* Mutant of ShutdownTimesOut: a context without a deadline.
ShutdownNeverTimesOut ==
    /\ FALSE
    /\ UNCHANGED vars

\* Five seconds for the requests under way.
ShutdownTimesOut ==
    /\ main = "shutdown"
    /\ Answering /= {}
    /\ main' = "closing" /\ exit' = "error"
    /\ UNCHANGED <<diskVars, handler, watchVars, request, answered, excused>>

\* Watcher.Close, deferred: close(done), then the timer is stopped under the mutex, so
\* the loop may arm it again.
CloseWatcher ==
    /\ main = "closing"
    /\ done' = watching
    /\ main' = "unarm"
    /\ UNCHANGED <<diskVars, handler, exit, watching, events, timer, reload, request, answered,
                   excused>>

StopTimer ==
    /\ main = "unarm"
    /\ timer' = FALSE
    /\ main' = "wait"
    /\ UNCHANGED <<diskVars, handler, exit, watching, events, done, reload, request, answered,
                   excused>>

\* The loop may take one more event rather than done; reloads are not waited for.
LoopEnds ==
    /\ done /\ watching
    /\ watching' = FALSE
    /\ UNCHANGED <<diskVars, serverVars, events, timer, done, reload, request, answered, excused>>

Stopped ==
    /\ main = "wait"
    /\ ~watching
    /\ main' = "stopped"
    /\ UNCHANGED <<diskVars, handler, exit, watchVars, request, answered, excused>>

Main ==
    \/ LoadFirst \/ Watch \/ Listen \/ Shutdown \/ ShutdownTimesOut
    \/ CloseWatcher \/ StopTimer \/ Stopped

Reload(r) == BeginReload(r) \/ ReadDoc(r) \/ StoreHandler(r)

Next ==
    \/ Main \/ Signal \/ ServeFails
    \/ TakeEvent \/ LoopEnds
    \/ \E d \in Docs, op \in {"write", "spoil", "remove"} : Edit(d, op)
    \/ \E r \in Reloads : Fire(r) \/ Reload(r)
    \/ \E q \in Requests : Receive(q) \/ Delegate(q) \/ Answer(q)

\* Start, the loop, the timer and the reloads run on; a request may take any time.
Fairness ==
    /\ WF_vars(Main)
    /\ WF_vars(TakeEvent) /\ WF_vars(LoopEnds)
    /\ \A r \in Reloads : WF_vars(Fire(r)) /\ WF_vars(Reload(r))

Spec == Init /\ [][Next]_vars /\ Fairness

-----------------------------------------------------------------------------
(***************************************************************************)
(* Properties.                                                             *)
(***************************************************************************)

TypeOK ==
    /\ edits \in 0 .. MaxEdits
    /\ disk \in [Docs -> 0 .. edits]
    /\ spoiled \subseteq 1 .. edits
    /\ main \in {"load", "watch", "listen", "serving", "shutdown", "closing", "unarm", "wait",
                 "stopped"}
    /\ handler \in Contents \cup {None}
    /\ exit \in {None, "ok", "error"}
    /\ watching \in BOOLEAN /\ timer \in BOOLEAN /\ done \in BOOLEAN
    /\ events \in 0 .. MaxEdits
    /\ \A r \in Reloads :
         /\ reload[r].pc \in {"idle", "begin", "read", "store"}
         /\ reload[r].next \in 1 .. Len(Paths) + 1
         /\ reload[r].read \in Contents
    /\ \A q \in Requests :
         /\ request[q].pc \in {"idle", "delegate", "answer"}
         /\ request[q].floor \in Contents
         /\ request[q].handler \in Contents \cup {None}
         /\ request[q].pc = "answer" => request[q].handler /= None
    /\ answered \in Contents
    /\ excused \subseteq {"unseen", "overlapped", "unreachable"}

\* What is served was read from documents that all parsed: an edit that spoils one of
\* several leaves every document in use as it was.
ParsedServed == handler /= None => \A d \in Docs : handler[d] \notin spoiled

\* A client that was answered from a document is not answered from an older one later,
\* unless two reloads ran at once: with one reload at a time the handler only moves on.
MonotonicAnswers ==
    "overlapped" \in excused \/
        \A q \in Requests : request[q].pc = "answer" =>
            \A d \in Docs : request[q].handler[d] >= request[q].floor[d]

\* A shutdown that reports no error has answered every request it took.
CleanStopAnswers == main = "stopped" /\ exit = "ok" => Answering = {}

UpToDate == handler = disk

\* With --watch, an edit the watcher can see is served in the end, also one that comes
\* while a reload of an earlier one runs; unless a document does not parse, a URL could
\* not be read, or two reloads ran at once.
EditsServed ==
    main = "serving" /\ watching ~>
        \/ UpToDate
        \/ main /= "serving" \/ excused /= {}
        \/ \E d \in Docs : ~Parses(d)

\* A server that begins to stop does, however long its requests take.
StopEnds == main = "shutdown" ~> main = "stopped"

-----------------------------------------------------------------------------
(***************************************************************************)
(* A statement of the repository that the code does not keep.              *)
(***************************************************************************)

\* "the server watches schema files on disk for changes and automatically reloads them
\* without restart": a file that parses and is left alone is served in the end.
WatchedIsServed ==
    Urls = {} =>
        (main = "serving" /\ watching ~>
            UpToDate \/ main /= "serving" \/ \E d \in Docs : ~Parses(d))

=============================================================================
