--------------------------- MODULE MockServerProofs ---------------------------
(***************************************************************************)
(* Proofs about MockServer, for any documents, edits, reload goroutines    *)
(* and requests.                                                           *)
(***************************************************************************)
EXTENDS MockServer, TLAPS

ReloadRecord == [pc : {"idle", "begin", "read", "store"}, next : 1 .. Len(Paths) + 1, read : Contents]
RequestRecord == [pc : {"idle", "delegate", "answer"}, floor : Contents, handler : Contents \cup {None}]

Typed ==
    /\ edits \in 0 .. MaxEdits
    /\ disk \in Contents /\ \A d \in Docs : disk[d] <= edits
    /\ spoiled \subseteq 1 .. edits
    /\ handler \in Contents \cup {None}
    /\ reload \in [Reloads -> ReloadRecord]
    /\ \A r \in Reloads :
         /\ reload[r].pc = "read" => reload[r].next <= Len(Paths)
         /\ reload[r].pc = "store" => reload[r].next = Len(Paths) + 1
    /\ request \in [Requests -> RequestRecord]
    /\ \A q \in Requests : request[q].pc = "answer" => request[q].handler # None
    /\ answered \in Contents

\* What has not happened yet where Start is, and what will not happen again.
Progress ==
    /\ main = "load" => handler = None
    /\ main \in {"load", "watch"} => ~watching /\ ~timer /\ \A r \in Reloads : reload[r].pc = "idle"
    /\ main \in {"watch", "listen", "serving", "shutdown"} => handler # None
    /\ main \in {"load", "watch", "listen", "serving", "shutdown"} => exit = None
    /\ handler = None =>
         /\ \A d \in Docs : answered[d] = 0
         /\ \A q \in Requests : request[q].pc = "idle"
    /\ exit = "ok" => \A q \in Requests : request[q].pc = "idle"

\* What was read parses, and is not newer than what is on the disk.
ReadFromDisk(content) == \A d \in Docs : content[d] \notin spoiled /\ content[d] <= disk[d]

Parsed ==
    /\ handler # None => ReadFromDisk(handler)
    /\ \A r \in Reloads : ReadFromDisk(reload[r].read)

AtLeast(c1, c2) == \A d \in Docs : c1[d] >= c2[d]

\* With one reload at a time, what it has read so far is not older than what is served, and
\* what is served is not older than what was.
Monotone ==
    "overlapped" \notin excused =>
        /\ \A r, o \in Reloads : Loading(r) /\ Loading(o) => r = o
        /\ \A r \in Reloads :
             Loading(r) /\ handler # None =>
                 \A i \in 1 .. reload[r].next - 1 : reload[r].read[Paths[i]] >= handler[Paths[i]]
        /\ handler # None => AtLeast(handler, answered)
        /\ \A q \in Requests :
             /\ request[q].pc = "delegate" => AtLeast(handler, request[q].floor)
             /\ request[q].pc = "answer" => /\ AtLeast(request[q].handler, request[q].floor)
                                            /\ AtLeast(handler, request[q].handler)

Inv == Typed /\ Progress /\ Parsed /\ Monotone
-----------------------------------------------------------------------------

\* The documents are those of the sequence.
LEMMA EveryDoc ==
  /\ Len(Paths) \in Nat /\ Len(Paths) >= 1 /\ DOMAIN Paths = 1 .. Len(Paths)
  /\ \A i \in 1 .. Len(Paths) : Paths[i] \in Docs
  /\ \A d \in Docs : \E i \in 1 .. Len(Paths) : d = Paths[i]
BY MockAssumption DEF Docs

\* The content of every document before the first edit.
LEMMA FirstContent == [d \in Docs |-> 0] \in Contents /\ MaxEdits \in Nat
BY MockAssumption DEF Contents

\* What is not a content is not served.
LEMMA NotNone == \A content \in Contents : content # None
BY MockAssumption DEF Contents

\* The types hold at first.
LEMMA TypedInit == Init => Typed
<1> SUFFICES ASSUME Init PROVE Typed
  OBVIOUS
<1> USE FirstContent, EveryDoc
<1>1. Idle \in ReloadRecord
  BY DEF Idle, ReloadRecord
<1>2. NoRequest \in RequestRecord
  BY DEF NoRequest, RequestRecord
<1> QED
  BY <1>1, <1>2 DEF Init, Typed, Idle, NoRequest

\* Each step preserves the types.
LEMMA TypedNext == Typed /\ Progress /\ [Next]_vars => Typed'
<1> SUFFICES ASSUME Typed, Progress, [Next]_vars PROVE Typed'
  OBVIOUS
<1> USE FirstContent, EveryDoc DEF Typed
<1>i. Idle \in ReloadRecord /\ NoRequest \in RequestRecord
  BY DEF Idle, NoRequest, ReloadRecord, RequestRecord
<1>1. ASSUME UNCHANGED <<diskVars, handler, reload, request, answered>> PROVE Typed'
  BY <1>1 DEF diskVars
<1>2. ASSUME NEW d \in Docs, NEW op, Edit(d, op) PROVE Typed'
  <2>1. /\ edits' = edits + 1 /\ edits < MaxEdits /\ disk' = [disk EXCEPT ![d] = edits']
        /\ spoiled' \subseteq spoiled \cup {edits'}
        /\ UNCHANGED <<handler, reload, request, answered>>
    BY <1>2 DEF Edit, serverVars
  <2> QED
    BY <2>1 DEF Contents
<1>3. CASE LoadFirst
  BY <1>3 DEF LoadFirst, watchVars, diskVars
<1>4. ASSUME NEW r \in Reloads, Fire(r) PROVE Typed'
  <2>1. reload' = [reload EXCEPT ![r].pc = "begin"] /\ UNCHANGED <<diskVars, handler, request, answered>>
    BY <1>4 DEF Fire, serverVars
  <2>2. reload' \in [Reloads -> ReloadRecord]
    BY <2>1 DEF ReloadRecord
  <2>3. \A o \in Reloads : reload'[o].pc \in {"read", "store"} => reload'[o] = reload[o]
    BY <2>1 DEF ReloadRecord
  <2> QED
    BY <2>1, <2>2, <2>3 DEF diskVars
<1>5. ASSUME NEW r \in Reloads, BeginReload(r) PROVE Typed'
  <2>1. /\ reload' = [reload EXCEPT ![r] = IF done THEN Idle ELSE [Idle EXCEPT !.pc = "read"]]
        /\ UNCHANGED <<diskVars, handler, request, answered>>
    BY <1>5 DEF BeginReload, serverVars
  <2>2. [Idle EXCEPT !.pc = "read"] \in ReloadRecord
    BY <1>i DEF ReloadRecord
  <2> QED
    BY <1>i, <2>1, <2>2 DEF diskVars, Idle
<1>6. ASSUME NEW r \in Reloads, ReadDoc(r) PROVE Typed'
  <2> DEFINE d == Paths[reload[r].next]
             next == [reload[r] EXCEPT !.read[d] = disk[d], !.next = @ + 1,
                          !.pc = IF reload[r].next = Len(Paths) THEN "store" ELSE "read"]
  <2>1. UNCHANGED <<diskVars, handler, request, answered>>
    BY <1>6 DEF ReadDoc, serverVars
  <2>2. reload' = [reload EXCEPT ![r] = next] \/ reload' = [reload EXCEPT ![r] = Idle]
    BY <1>6 DEF ReadDoc
  <2>3. CASE reload' = [reload EXCEPT ![r] = Idle]
    BY <1>i, <2>1, <2>3 DEF diskVars, Idle
  <2>4. CASE reload' = [reload EXCEPT ![r] = next]
    <3>1. reload[r].pc = "read" /\ reload[r] \in ReloadRecord
      BY <1>6 DEF ReadDoc
    <3>2. reload[r].next \in 1 .. Len(Paths) /\ d \in Docs
      <4>1. reload[r].next <= Len(Paths)
        BY <3>1
      <4>2. reload[r].next \in 1 .. Len(Paths) + 1
        BY <3>1, Zenon DEF ReloadRecord
      <4>3. reload[r].next \in 1 .. Len(Paths)
        BY <4>1, <4>2
      <4> QED
        BY <4>3
    <3>3. [reload[r].read EXCEPT ![d] = disk[d]] \in Contents
      BY <3>1, <3>2 DEF ReloadRecord, Contents
    <3>4. /\ next.read = [reload[r].read EXCEPT ![d] = disk[d]]
          /\ next.next = reload[r].next + 1
          /\ next.pc = IF reload[r].next = Len(Paths) THEN "store" ELSE "read"
      BY <3>1 DEF ReloadRecord
    <3>5. next \in ReloadRecord
      <4>1. reload[r].next + 1 \in 1 .. Len(Paths) + 1
        BY <3>2
      <4> HIDE DEF d
      <4> QED
        BY <3>1, <3>3, <4>1 DEF ReloadRecord
    <3> HIDE DEF next
    <3> QED
      BY <2>1, <2>4, <3>2, <3>4, <3>5 DEF diskVars
  <2> QED
    BY <2>2, <2>3, <2>4
<1>7. ASSUME NEW r \in Reloads, StoreHandler(r) PROVE Typed'
  <2>1. /\ handler' = reload[r].read /\ reload' = [reload EXCEPT ![r] = Idle]
        /\ UNCHANGED <<diskVars, request, answered>>
    BY <1>7 DEF StoreHandler
  <2>2. reload[r].read \in Contents
    BY DEF ReloadRecord
  <2> QED
    BY <1>i, <2>1, <2>2 DEF diskVars, Idle
<1>8. ASSUME NEW q \in Requests, Receive(q) PROVE Typed'
  BY <1>8 DEF Receive, RequestRecord, diskVars, serverVars, watchVars
<1>9. ASSUME NEW q \in Requests, Delegate(q) PROVE Typed'
  <2>1. handler # None
    BY <1>9 DEF Delegate, Progress
  <2> QED
    BY <1>9, <2>1 DEF Delegate, RequestRecord, diskVars, serverVars, watchVars
<1>10. ASSUME NEW q \in Requests, Answer(q) PROVE Typed'
  <2>1. /\ request' = [request EXCEPT ![q] = NoRequest]
        /\ answered' = Newer(answered, request[q].handler)
        /\ UNCHANGED <<diskVars, handler, reload>>
        /\ request[q].handler \in Contents
    BY <1>10 DEF Answer, serverVars, watchVars, RequestRecord
  <2>2. answered' \in Contents
    BY <2>1 DEF Newer, Contents
  <2> QED
    BY <1>i, <2>1, <2>2 DEF diskVars, NoRequest
<1> QED
  BY <1>1, <1>2, <1>3, <1>4, <1>5, <1>6, <1>7, <1>8, <1>9, <1>10
  DEF Next, Main, Reload, vars, Watch, Listen, Shutdown, ShutdownTimesOut, CloseWatcher, StopTimer,
      Stopped, Signal, ServeFails, TakeEvent, LoopEnds, serverVars, watchVars
\* Where Start is decides what has happened.
LEMMA ProgressNext == Typed /\ Progress /\ [Next]_vars => Progress'
<1> SUFFICES ASSUME Typed, Progress, [Next]_vars PROVE Progress'
  OBVIOUS
<1> USE DEF Progress
<1>1. ASSUME UNCHANGED <<main, handler, exit, watching, timer, reload, request, answered>>
      PROVE  Progress'
  BY <1>1
<1>2. ASSUME NEW d, NEW op, Edit(d, op) PROVE Progress'
  BY <1>1, <1>2 DEF Edit, serverVars
<1>3. CASE LoadFirst
  <2>1. UNCHANGED <<watching, timer, reload, request, answered>> /\ main = "load"
    BY <1>3 DEF LoadFirst, watchVars
  <2>2. \/ main' = "watch" /\ handler' \in Contents /\ exit' = exit
        \/ main' = "stopped" /\ exit' = "error" /\ handler' = handler
    BY <1>3 DEF LoadFirst, Typed
  <2> QED
    BY <2>1, <2>2, NotNone
<1>4. CASE Watch \/ Listen \/ Signal \/ ServeFails \/ Shutdown \/ ShutdownTimesOut
           \/ CloseWatcher \/ StopTimer \/ Stopped \/ LoopEnds \/ TakeEvent
  BY <1>4
  DEF Watch, Listen, Signal, ServeFails, Shutdown, ShutdownTimesOut, CloseWatcher, StopTimer, Stopped,
      LoopEnds, TakeEvent, Answering, watchVars, serverVars
<1>5. ASSUME NEW r \in Reloads, Fire(r) PROVE Progress'
  BY <1>5 DEF Fire, serverVars
<1>6. ASSUME NEW r \in Reloads, BeginReload(r) \/ ReadDoc(r) PROVE Progress'
  <2>1. reload[r].pc # "idle" /\ UNCHANGED <<serverVars, watching, timer, request, answered>>
    BY <1>6 DEF BeginReload, ReadDoc
  <2> QED
    BY <2>1 DEF serverVars
<1>7. ASSUME NEW r \in Reloads, StoreHandler(r) PROVE Progress'
  <2>1. reload[r].pc # "idle" /\ UNCHANGED <<main, exit, watching, timer, request, answered>>
    BY <1>7 DEF StoreHandler
  <2>2. handler' \in Contents
    BY <1>7 DEF StoreHandler, Typed, ReloadRecord
  <2> QED
    BY <2>1, <2>2, NotNone
<1>8. ASSUME NEW q \in Requests, Receive(q) PROVE Progress'
  BY <1>8, MockAssumption DEF Receive, serverVars, watchVars
<1>9. ASSUME NEW q \in Requests, Delegate(q) \/ Answer(q) PROVE Progress'
  <2>1. request[q].pc # "idle" /\ UNCHANGED <<serverVars, watchVars>>
    BY <1>9 DEF Delegate, Answer
  <2> QED
    BY <2>1 DEF serverVars, watchVars
<1> QED
  BY <1>1, <1>2, <1>3, <1>4, <1>5, <1>6, <1>7, <1>8, <1>9
  DEF Next, Main, Reload, vars, serverVars, watchVars

\* An edit is newer than all that was read before it, so it spoils nothing that was.
LEMMA ParsedNext == Typed /\ Parsed /\ [Next]_vars => Parsed'
<1> SUFFICES ASSUME Typed, Parsed, [Next]_vars PROVE Parsed'
  OBVIOUS
<1> USE FirstContent
<1>1. ASSUME UNCHANGED <<disk, spoiled, handler, reload>> PROVE Parsed'
  BY <1>1 DEF Parsed, ReadFromDisk
<1>2. ASSUME NEW d \in Docs, NEW op, Edit(d, op) PROVE Parsed'
  <2>1. /\ disk' = [disk EXCEPT ![d] = edits + 1] /\ spoiled' \subseteq spoiled \cup {edits + 1}
        /\ UNCHANGED <<handler, reload>>
    BY <1>2 DEF Edit, serverVars
  <2>2. \A content \in Contents : ReadFromDisk(content) => ReadFromDisk(content)'
    <3> SUFFICES ASSUME NEW content \in Contents, ReadFromDisk(content), NEW e \in Docs
                 PROVE  content[e] \notin spoiled' /\ content[e] <= disk'[e]
      BY DEF ReadFromDisk
    <3>1. content[e] \in Nat /\ disk[e] \in Nat /\ edits \in Nat
      BY DEF Typed, Contents
    <3>2. content[e] <= disk[e] /\ disk[e] <= edits /\ content[e] \notin spoiled
      BY DEF Typed, ReadFromDisk
    <3>3. disk'[e] = IF e = d THEN edits + 1 ELSE disk[e]
      BY <2>1 DEF Typed, Contents
    <3> QED
      BY <2>1, <3>1, <3>2, <3>3
  <2>3. \A r \in Reloads : reload[r].read \in Contents
    BY DEF Typed, ReloadRecord
  <2>4. handler # None => handler \in Contents
    BY DEF Typed
  <2>5. handler' # None => ReadFromDisk(handler)'
    BY <2>1, <2>2, <2>4 DEF Parsed
  <2>6. \A r \in Reloads : ReadFromDisk(reload[r].read)'
    BY <2>1, <2>2, <2>3 DEF Parsed, ReadFromDisk
  <2> QED
    BY <2>5, <2>6 DEF Parsed
<1>3. CASE LoadFirst
  <2>1. UNCHANGED <<disk, spoiled, reload>> /\ (handler' = handler \/ (handler' = disk /\ \A d \in Docs : Parses(d)))
    <3>1. UNCHANGED diskVars /\ UNCHANGED watchVars
      BY <1>3 DEF LoadFirst
    <3>2. handler' = handler \/ (handler' = disk /\ \A d \in Docs : Parses(d))
      <4>1. CASE \A d \in Docs : Parses(d)
        BY <1>3, <4>1, Zenon DEF LoadFirst
      <4>2. CASE ~\A d \in Docs : Parses(d)
        BY <1>3, <4>2 DEF LoadFirst
      <4> QED
        BY <4>1, <4>2
    <3> QED
      BY <3>1, <3>2 DEF diskVars, watchVars
  <2> QED
    BY <2>1 DEF Parsed, ReadFromDisk, Parses, Typed, Contents
<1>i. ASSUME UNCHANGED <<disk, spoiled>> PROVE ReadFromDisk(Idle.read)'
  BY <1>i DEF Idle, Typed, Contents, ReadFromDisk
<1>4. ASSUME NEW r \in Reloads, Fire(r) PROVE Parsed'
  <2>1. UNCHANGED <<disk, spoiled, handler>> /\ reload' = [reload EXCEPT ![r].pc = "begin"]
    BY <1>4 DEF Fire, diskVars, serverVars
  <2>2. \A o \in Reloads : reload'[o].read = reload[o].read
    BY <2>1 DEF Typed, ReloadRecord
  <2> QED
    BY <2>1, <2>2 DEF Parsed, ReadFromDisk
<1>5. ASSUME NEW r \in Reloads, BeginReload(r) PROVE Parsed'
  <2>1. UNCHANGED <<disk, spoiled, handler>>
    BY <1>5 DEF BeginReload, diskVars, serverVars
  <2>2. \A o \in Reloads : reload'[o].read = reload[o].read \/ reload'[o].read = Idle.read
    BY <1>5 DEF BeginReload, Typed, Idle
  <2> QED
    BY <1>i, <2>1, <2>2 DEF Parsed, ReadFromDisk
<1>6. ASSUME NEW r \in Reloads, ReadDoc(r) PROVE Parsed'
  <2> DEFINE d == Paths[reload[r].next]
  <2>1. UNCHANGED <<disk, spoiled, handler>>
    BY <1>6 DEF ReadDoc, diskVars, serverVars
  <2>2. CASE reload' = [reload EXCEPT ![r] = Idle]
    <3>1. \A o \in Reloads : reload'[o].read = reload[o].read \/ reload'[o].read = Idle.read
      BY <2>2 DEF Typed
    <3> QED
      BY <1>i, <2>1, <3>1 DEF Parsed, ReadFromDisk
  <2>3. CASE /\ Parses(d)
             /\ reload' = [reload EXCEPT ![r].read[d] = disk[d], ![r].next = @ + 1,
                                 ![r].pc = IF reload[r].next = Len(Paths) THEN "store" ELSE "read"]
    <3>1. reload'[r].read = [reload[r].read EXCEPT ![d] = disk[d]]
      BY <2>3 DEF Typed, ReloadRecord
    <3>2. \A o \in Reloads \ {r} : reload'[o].read = reload[o].read
      BY <2>3 DEF Typed
    <3>3. reload[r].read \in Contents /\ disk \in Contents
      BY DEF Typed, ReloadRecord
    <3>4. ReadFromDisk(reload[r].read)'
      BY <2>1, <2>3, <3>1, <3>3 DEF Parsed, ReadFromDisk, Parses, Contents
    <3> QED
      BY <2>1, <3>2, <3>4 DEF Parsed, ReadFromDisk
  <2> QED
    BY <1>6, <2>2, <2>3 DEF ReadDoc
<1>7. ASSUME NEW r \in Reloads, StoreHandler(r) PROVE Parsed'
  <2>1. UNCHANGED <<disk, spoiled>> /\ handler' = reload[r].read
        /\ reload' = [reload EXCEPT ![r] = Idle]
    BY <1>7 DEF StoreHandler, diskVars
  <2>2. \A o \in Reloads : reload'[o].read = reload[o].read \/ reload'[o].read = Idle.read
    BY <2>1 DEF Typed
  <2> QED
    BY <1>i, <2>1, <2>2 DEF Parsed, ReadFromDisk
<1>8. ASSUME NEW q \in Requests, Receive(q) \/ Delegate(q) \/ Answer(q) PROVE Parsed'
  BY <1>1, <1>8 DEF Receive, Delegate, Answer, diskVars, serverVars, watchVars
<1> QED
  BY <1>1, <1>2, <1>3, <1>4, <1>5, <1>6, <1>7, <1>8
  DEF Next, Main, Reload, vars, Watch, Listen, Shutdown, ShutdownTimesOut, CloseWatcher, StopTimer,
      Stopped, Signal, ServeFails, TakeEvent, LoopEnds, serverVars, watchVars, diskVars
\* With one reload at a time the handler only moves on.
LEMMA MonotoneNext == Typed /\ Progress /\ Parsed /\ Monotone /\ [Next]_vars => Monotone'
<1> SUFFICES ASSUME Typed, Progress, Parsed, Monotone, [Next]_vars PROVE Monotone'
  OBVIOUS
<1> USE FirstContent
<1>1. ASSUME UNCHANGED <<reload, handler, request, answered>>, excused \subseteq excused'
      PROVE  Monotone'
  BY <1>1 DEF Monotone, Loading, AtLeast
<1>2. CASE LoadFirst
  <2>1. UNCHANGED <<reload, request, answered, excused>> /\ handler' \in {handler, disk} /\ main = "load"
    BY <1>2 DEF LoadFirst, watchVars
  <2>2. /\ handler = None /\ \A d \in Docs : answered[d] = 0
        /\ \A q \in Requests : request[q].pc = "idle"
        /\ \A r \in Reloads : reload[r].pc = "idle"
    BY <2>1 DEF Progress
  <2>3. handler' # None => AtLeast(handler', answered)
    BY <2>1, <2>2 DEF AtLeast, Typed, Contents
  <2> QED
    BY <2>1, <2>2, <2>3 DEF Monotone, Loading, AtLeast
<1>3. ASSUME NEW r \in Reloads, Fire(r) PROVE Monotone'
  <2>1. /\ UNCHANGED <<handler, request, answered, excused>> /\ reload[r].pc = "idle"
        /\ \A o \in Reloads \ {r} : reload'[o] = reload[o]
        /\ reload'[r].pc = "begin"
    BY <1>3 DEF Fire, serverVars, Typed, ReloadRecord
  <2> QED
    BY <2>1 DEF Monotone, Loading, AtLeast
<1>4. ASSUME NEW r \in Reloads, BeginReload(r) PROVE Monotone'
  <2>1. /\ UNCHANGED <<handler, request, answered>> /\ excused \subseteq excused'
        /\ "overlapped" \notin excused' => done \/ ~\E o \in Reloads \ {r} : Loading(o)
        /\ reload[r].pc = "begin"
    BY <1>4 DEF BeginReload, serverVars
  <2>2. /\ \A o \in Reloads \ {r} : reload'[o] = reload[o]
        /\ reload'[r].next = 1 /\ (done => reload'[r].pc = "idle")
    BY <1>4 DEF BeginReload, Typed, Idle
  <2> QED
    BY <2>1, <2>2 DEF Monotone, Loading, AtLeast
<1>5. ASSUME NEW r \in Reloads, ReadDoc(r) PROVE Monotone'
  <2> DEFINE d == Paths[reload[r].next]
  <2>1. UNCHANGED <<handler, request, answered>> /\ excused \subseteq excused' /\ Loading(r)
    BY <1>5 DEF ReadDoc, serverVars, Loading
  <2>2. \A o \in Reloads \ {r} : reload'[o] = reload[o]
    BY <1>5 DEF ReadDoc, Typed
  <2>3. CASE reload' = [reload EXCEPT ![r] = Idle]
    <3>1. reload'[r].pc = "idle"
      BY <2>3 DEF Typed, Idle
    <3> QED
      BY <2>1, <2>2, <3>1 DEF Monotone, Loading, AtLeast
  <2>4. CASE reload' = [reload EXCEPT ![r].read[d] = disk[d], ![r].next = @ + 1,
                            ![r].pc = IF reload[r].next = Len(Paths) THEN "store" ELSE "read"]
    <3>1. /\ reload'[r].read = [reload[r].read EXCEPT ![d] = disk[d]]
          /\ reload'[r].next = reload[r].next + 1
          /\ reload[r].next \in 1 .. Len(Paths) + 1
          /\ reload[r].read \in Contents
      BY <2>4 DEF Typed, ReloadRecord
    <3>2. reload[r].next <= Len(Paths)
      BY <1>5 DEF ReadDoc, Typed
    <3> DEFINE n == reload[r].next
    <3>3. n \in 1 .. Len(Paths)
      BY <3>1, <3>2, EveryDoc
    <3>4. ASSUME "overlapped" \notin excused, handler # None, NEW i \in 1 .. n
          PROVE  reload'[r].read[Paths[i]] >= handler[Paths[i]]
      <4>1. Paths[i] \in Docs /\ d \in Docs
        BY <3>3, EveryDoc
      <4>2. reload'[r].read[Paths[i]] = IF Paths[i] = d THEN disk[d] ELSE reload[r].read[Paths[i]]
        BY <3>1, <4>1 DEF Contents
      <4>3. handler[d] <= disk[d] /\ handler[d] \in Nat /\ disk[d] \in Nat
        BY <3>4, <4>1 DEF Parsed, ReadFromDisk, Typed, Contents
      <4>4. CASE Paths[i] = d
        BY <4>2, <4>3, <4>4
      <4>5. CASE Paths[i] # d
        <5>1. i # n
          BY <4>5
        <5>2. i \in 1 .. n - 1
          BY <3>3, <5>1
        <5>3. reload[r].read[Paths[i]] >= handler[Paths[i]]
          BY <2>1, <3>4, <5>2 DEF Monotone
        <5> QED
          BY <4>2, <4>5, <5>3
      <4> QED
        BY <4>4, <4>5
    <3>5. reload'[r].next - 1 = n
      BY <3>1, <3>3
    <3> QED
      BY <2>1, <2>2, <3>4, <3>5 DEF Monotone, Loading, AtLeast
  <2> QED
    BY <1>5, <2>3, <2>4 DEF ReadDoc
<1>6. ASSUME NEW r \in Reloads, StoreHandler(r) PROVE Monotone'
  <2>1. /\ UNCHANGED <<request, answered, excused>> /\ reload[r].pc = "store" /\ Loading(r)
        /\ handler' = reload[r].read /\ reload' = [reload EXCEPT ![r] = Idle]
    BY <1>6 DEF StoreHandler, Loading
  <2>2. /\ reload'[r].pc = "idle" /\ \A o \in Reloads \ {r} : reload'[o] = reload[o]
        /\ reload[r].next = Len(Paths) + 1
    BY <2>1 DEF Typed, Idle
  <2> SUFFICES ASSUME "overlapped" \notin excused PROVE Monotone'
    BY <2>1 DEF Monotone
  <2>3. \A o \in Reloads \ {r} : ~Loading(o)
    BY <2>1 DEF Monotone
  <2>4. handler # None => AtLeast(handler', handler)
    <3> SUFFICES ASSUME handler # None, NEW d \in Docs PROVE handler'[d] >= handler[d]
      BY DEF AtLeast
    <3>1. PICK i \in 1 .. Len(Paths) : d = Paths[i]
      BY EveryDoc
    <3>2. i \in 1 .. reload[r].next - 1
      BY <2>2, <3>1, EveryDoc
    <3> QED
      BY <2>1, <3>1, <3>2 DEF Monotone
  <2>5. handler' \in Contents /\ (handler # None => handler \in Contents)
    BY <2>1 DEF Typed, ReloadRecord
  <2>6. ASSUME NEW content \in Contents, handler # None, AtLeast(handler, content)
        PROVE  AtLeast(handler', content)
    <3> SUFFICES ASSUME NEW d \in Docs PROVE handler'[d] >= content[d]
      BY DEF AtLeast
    <3>1. handler'[d] \in Nat /\ handler[d] \in Nat /\ content[d] \in Nat
      BY <2>5, <2>6 DEF Contents
    <3>2. handler'[d] >= handler[d] /\ handler[d] >= content[d]
      BY <2>4, <2>6 DEF AtLeast
    <3> QED
      BY <3>1, <3>2
  <2>7. AtLeast(handler', answered)
    <3>1. CASE handler = None
      BY <2>5, <3>1 DEF Progress, AtLeast, Contents
    <3>2. CASE handler # None
      BY <2>6, <3>2 DEF Typed, Monotone
    <3> QED
      BY <3>1, <3>2
  <2>8. ASSUME NEW q \in Requests
        PROVE  /\ request[q].pc = "delegate" => AtLeast(handler', request[q].floor)
               /\ request[q].pc = "answer" => AtLeast(handler', request[q].handler)
    <3>1. request[q].pc # "idle" => handler # None
      BY DEF Progress
    <3>2. request[q].floor \in Contents /\ (request[q].pc = "answer" => request[q].handler \in Contents)
      BY DEF Typed, RequestRecord
    <3> QED
      BY <2>6, <3>1, <3>2 DEF Monotone
  <2> QED
    BY <2>1, <2>2, <2>3, <2>7, <2>8 DEF Monotone, Loading, AtLeast
<1>7. ASSUME NEW q \in Requests, Receive(q) PROVE Monotone'
  <2>1. /\ UNCHANGED <<handler, reload, answered, excused>> /\ handler # None
        /\ \A o \in Requests \ {q} : request'[o] = request[o]
        /\ request'[q].pc = "delegate" /\ request'[q].floor = answered
    BY <1>7 DEF Receive, serverVars, watchVars, Progress, Typed
  <2> QED
    BY <2>1 DEF Monotone, Loading, AtLeast
<1>8. ASSUME NEW q \in Requests, Delegate(q) PROVE Monotone'
  <2>1. /\ UNCHANGED <<handler, reload, answered, excused>> /\ request[q].pc = "delegate"
        /\ \A o \in Requests \ {q} : request'[o] = request[o]
        /\ request'[q].pc = "answer" /\ request'[q].handler = handler
        /\ request'[q].floor = request[q].floor
    BY <1>8 DEF Delegate, serverVars, watchVars, Typed, RequestRecord
  <2>2. AtLeast(handler, handler)
    <3>1. handler \in Contents
      BY <2>1 DEF Progress, Typed
    <3> QED
      BY <3>1 DEF AtLeast, Contents
  <2> QED
    BY <2>1, <2>2 DEF Monotone, Loading, AtLeast
<1>9. ASSUME NEW q \in Requests, Answer(q) PROVE Monotone'
  <2>1. /\ UNCHANGED <<handler, reload, excused>> /\ request[q].pc = "answer"
        /\ \A o \in Requests \ {q} : request'[o] = request[o]
        /\ request'[q].pc = "idle"
        /\ answered' = Newer(answered, request[q].handler)
    BY <1>9 DEF Answer, serverVars, watchVars, Typed, NoRequest
  <2>2. "overlapped" \notin excused /\ handler # None => AtLeast(handler, answered')
    BY <2>1 DEF Monotone, AtLeast, Newer
  <2> QED
    BY <2>1, <2>2 DEF Monotone, Loading, AtLeast
<1>10. ASSUME NEW d, NEW op, Edit(d, op) PROVE Monotone'
  <2>1. UNCHANGED <<reload, handler, request, answered>> /\ excused \subseteq excused'
    BY <1>10 DEF Edit, serverVars
  <2> QED
    BY <1>1, <2>1
<1> QED
  BY <1>1, <1>2, <1>3, <1>4, <1>5, <1>6, <1>7, <1>8, <1>9, <1>10
  DEF Next, Main, Reload, vars, Watch, Listen, Shutdown, ShutdownTimesOut, CloseWatcher, StopTimer,
      Stopped, Signal, ServeFails, TakeEvent, LoopEnds, serverVars, watchVars, diskVars

-----------------------------------------------------------------------------

\* The invariant holds at first.
LEMMA InvInit == Init => Inv
<1> SUFFICES ASSUME Init PROVE Inv
  OBVIOUS
<1>1. Progress
  BY MockAssumption DEF Init, Progress, Idle, NoRequest
<1>2. Parsed
  BY FirstContent DEF Init, Parsed, ReadFromDisk, Idle
<1>3. Monotone
  BY DEF Init, Monotone, Loading, Idle, NoRequest
<1> QED
  BY <1>1, <1>2, <1>3, TypedInit DEF Inv

\* The invariant holds throughout.
LEMMA InvHolds == Spec => []Inv
<1>1. Inv /\ [Next]_vars => Inv'
  BY TypedNext, ProgressNext, ParsedNext, MonotoneNext DEF Inv
<1> QED
  BY <1>1, InvInit, PTL DEF Spec

\* No document that does not parse is ever served, whatever the edits and reloads do.
THEOREM OnlyParsedIsServed == Spec => []ParsedServed
<1>1. Inv => ParsedServed
  BY DEF Inv, Parsed, ReadFromDisk, ParsedServed
<1> QED
  BY <1>1, InvHolds, PTL

\* Unless two reloads ran at once, no client is answered from an older document than one it
\* was answered from before.
THEOREM AnswersMoveOn == Spec => []MonotonicAnswers
<1>1. Inv => MonotonicAnswers
  BY DEF Inv, Monotone, AtLeast, MonotonicAnswers
<1> QED
  BY <1>1, InvHolds, PTL

\* A shutdown that reports no error has answered every request it took.
THEOREM CleanStopIsClean == Spec => []CleanStopAnswers
<1>1. Inv => CleanStopAnswers
  BY DEF Inv, Progress, CleanStopAnswers, Answering
<1> QED
  BY <1>1, InvHolds, PTL

=============================================================================
