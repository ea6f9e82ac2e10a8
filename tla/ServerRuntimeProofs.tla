-------------------------- MODULE ServerRuntimeProofs --------------------------
(***************************************************************************)
(* Proofs about ServerRuntime, for any plugins, configuration files and    *)
(* callers.                                                                *)
(***************************************************************************)
EXTENDS ServerRuntime, TLAPS

-----------------------------------------------------------------------------
(***************************************************************************)
(* The plugins and the process.                                            *)
(***************************************************************************)

\* A plugin has a process from the fork to the kill.
Forked == {"handshake", "info", "config", "services", "publish", "started"}

PluginTyped ==
    /\ Configured \subseteq Names
    /\ worker \in [Names -> Stages]
    /\ process \in [Names -> Processes]
    /\ \A p \in Names :
         /\ worker[p] \in Forked <=> process[p] \in {"running", "crashed"}
         /\ p \notin Configured => worker[p] = "idle"
    /\ up = {p \in Names : worker[p] = "started"}
    /\ info = up

\* The phases in which the plugins are all there.
Full == {"open", "migrate", "listen", "serving", "draining", "closing", "stopping"}

PhaseInv ==
    /\ phase \in Phases
    /\ phase = "bootstrap" => \A p \in Names : worker[p] = "idle"
    /\ phase = "rollback" => \A p \in Configured : worker[p] \in {"started", "failed", "idle"}
    /\ phase \in Full => \A p \in Configured : worker[p] = "started"
    /\ phase = "killing" => \A p \in Names : worker[p] \in {"started", "idle"}
    /\ phase = "exited" => \A p \in Names : worker[p] \in {"failed", "idle"}
    /\ phase # "dead" => handles = IF phase \in Full THEN Configured ELSE {}

StoreInv ==
    /\ phase \in {"bootstrap", "starting", "rollback", "open"} => store = "none"
    /\ phase = "migrate" => StoreEnabled /\ store = "open"
    /\ phase \in {"listen", "serving", "draining", "closing"} =>
         store = IF StoreEnabled THEN "open" ELSE "none"
    /\ phase \in {"stopping", "killing", "exited"} => store # "open"

\* Nobody is in a server that has not asked for signals, which it has done when it serves;
\* after a signal it goes on only when nobody is in it.
HealthInv ==
    /\ notified \in BOOLEAN
    /\ ~notified => Quiet /\ health # "NOT_SERVING"
    /\ phase \in {"serving", "draining"} => notified
    /\ phase \in {"bootstrap", "starting", "rollback", "open", "migrate", "listen", "dead"} => ~notified
    /\ health = "NOT_SERVING" =>
         phase = "draining" \/ (phase \in {"closing", "stopping", "killing", "exited"} /\ Quiet)

RuntimeInv == PluginTyped /\ PhaseInv /\ StoreInv /\ HealthInv

-----------------------------------------------------------------------------
(***************************************************************************)
(* The calls of the hooks.                                                 *)
(***************************************************************************)

CallRecord ==
    [pc : {"idle", "bound", "rpc", "audit", "back"}, id : Nat, hook : Hooks \cup {None},
     plugin : Names \cup {None}, code : Codes \cup {None},
     result : {"noop", "reply", "error", None}]

\* What the audit log has of a call.
Records(c) ==
    /\ call[c].pc # "idle" => call[c].id \in 1 .. calls
    /\ call[c].plugin # None => call[c].pc # "idle" /\ call[c].plugin \in Configured
    /\ call[c].pc \in {"bound", "rpc", "audit"} => audited[call[c].id] = << >>
    /\ call[c].pc = "back" /\ call[c].plugin # None =>
         /\ audited[call[c].id] = <<OutcomeOf(call[c].code)>>
         /\ call[c].result = ResultOf(call[c].plugin, call[c].code)

CallInv ==
    /\ calls \in 0 .. MaxCalls
    /\ call \in [Callers -> CallRecord]
    /\ audited \in [1 .. MaxCalls -> Seq(Outcomes)]
    /\ \A i \in calls + 1 .. MaxCalls : audited[i] = << >>
    /\ \A c \in Callers : Records(c)
    /\ \A c, d \in Callers : c # d /\ call[c].pc # "idle" /\ call[d].pc # "idle" =>
         call[c].id # call[d].id
    /\ phase = "bootstrap" => fellThrough = {} /\ \A c \in Callers : call[c].pc = "idle"

\* What the loader promises of the configuration.
ConfigInv ==
    /\ \A p \in Configured : cfg.plugins[p].on_error \in Policies
    /\ \A h \in Hooks : cfg.hooks[h] \in Configured \cup {None}

Inv == RuntimeInv /\ ConfigInv /\ CallInv /\ RefusalIsFinal

-----------------------------------------------------------------------------
(***************************************************************************)
(* What the loader accepts.                                                *)
(***************************************************************************)

\* An accepted configuration has plugins of valid names, policies that exist, and hooks that
\* are bound to its plugins.
LEMMA LoadedConfig ==
  ASSUME NEW f, Load(f) # None
  PROVE  /\ DOMAIN Load(f).plugins \subseteq Names
         /\ \A p \in DOMAIN Load(f).plugins : Load(f).plugins[p].on_error \in Policies
         /\ \A h \in Hooks : Load(f).hooks[h] \in DOMAIN Load(f).plugins \cup {None}
<1>1. CASE Load(f) = EmptyConfig
  BY <1>1 DEF EmptyConfig
<1>2. CASE /\ Accepted(f)
           /\ Load(f) = [plugins |-> [p \in DOMAIN f.plugins |-> WithDefaults(f.plugins[p])],
                         hooks   |-> f.hooks]
  <2>1. \A p \in DOMAIN f.plugins : p \in Names /\ f.plugins[p].on_error \in Policies \cup {"absent"}
    BY <1>2, ConfigAssumption DEF Accepted, StanzaAllowed
  <2>2. \A p \in DOMAIN f.plugins : WithDefaults(f.plugins[p]).on_error \in Policies
    BY <2>1 DEF WithDefaults, Policies
  <2>3. \A h \in Hooks : f.hooks[h] \in DOMAIN f.plugins \cup {None}
    BY <1>2 DEF Accepted, HooksDeclared
  <2> QED
    BY <1>2, <2>1, <2>2, <2>3
<1> QED
  BY <1>1, <1>2 DEF Load

\* No configuration is an empty one.
LEMMA NoConfig ==
  /\ DOMAIN EmptyConfig.plugins = {}
  /\ \A h \in Hooks : EmptyConfig.hooks[h] = None
BY DEF EmptyConfig

-----------------------------------------------------------------------------
(***************************************************************************)
(* Steps of the plugins.                                                   *)
(***************************************************************************)

\* A process that is killed is not there, if it ever was.
LEMMA Killed ==
  ASSUME process \in [Names -> Processes], NEW p \in Names, Kill(p)
  PROVE  /\ process' \in [Names -> Processes]
         /\ process'[p] \in {"none", "killed"}
         /\ \A o \in Names \ {p} : process'[o] = process[o]
BY DEF Kill, Processes

\* A step of startOne keeps worker, process and metrics in agreement.
LEMMA StartOneTyped ==
  ASSUME PluginTyped, NEW p \in Names, StartOne(p), UNCHANGED cfg
  PROVE  PluginTyped'
<1> USE DEF PluginTyped, Configured
<1>0. ASSUME NEW from, NEW to, Advance(p, from, to)
      PROVE  worker[p] = from /\ worker'[p] = to /\ \A o \in Names \ {p} : worker'[o] = worker[o]
  BY <1>0 DEF Advance
<1>1. ASSUME NEW from \in Forked, NEW to \in Forked \ {"started"}, from # "started",
             Advance(p, from, to), UNCHANGED <<process, up, info>>
      PROVE  PluginTyped'
  BY <1>1 DEF Advance, Forked, Stages
<1>2. CASE Verify(p)
  BY <1>2 DEF Verify, Advance, Forked, Stages
<1>3. CASE Connect(p)
  BY <1>3 DEF Connect, Advance, Forked, Stages, Processes
<1>4. CASE DispenseHandshake(p)
  BY <1>1, <1>4 DEF DispenseHandshake, Forked
<1>5. CASE Info(p)
  BY <1>1, <1>5 DEF Info, Forked
<1>6. CASE SetConfig(p)
  BY <1>1, <1>6 DEF SetConfig, Forked
<1>7. CASE DispenseServices(p)
  BY <1>1, <1>7 DEF DispenseServices, Forked
<1>8. CASE Publish(p)
  BY <1>8 DEF Publish, Advance, Forked, Stages
<1>9. CASE StartFails(p)
  <2>1. /\ worker' = [worker EXCEPT ![p] = "failed"]
        /\ worker[p] \in {"connect", "handshake", "info", "config", "services"}
        /\ UNCHANGED <<up, info>>
    BY <1>9 DEF StartFails
  <2>2. /\ process' \in [Names -> Processes] /\ process'[p] \in {"none", "killed"}
        /\ \A o \in Names \ {p} : process'[o] = process[o]
    BY <1>9, Killed DEF StartFails
  <2> QED
    BY <2>1, <2>2 DEF Forked, Stages
<1> QED
  BY <1>2, <1>3, <1>4, <1>5, <1>6, <1>7, <1>8, <1>9 DEF StartOne

\* A plugin that is torn down leaves neither a process nor a series.
LEMMA TearDownTyped ==
  ASSUME PluginTyped, NEW p \in Names, TearDown(p), worker' = [worker EXCEPT ![p] = "idle"],
         UNCHANGED cfg
  PROVE  PluginTyped'
<1>1. /\ process' \in [Names -> Processes] /\ process'[p] \in {"none", "killed"}
      /\ \A o \in Names \ {p} : process'[o] = process[o]
  BY Killed DEF TearDown, PluginTyped
<1> QED
  BY <1>1 DEF PluginTyped, TearDown, Configured, Forked, Stages

\* A crash is not noticed.
LEMMA CrashTyped ==
  ASSUME PluginTyped, NEW p \in Names, Crash(p), UNCHANGED cfg
  PROVE  PluginTyped'
BY DEF PluginTyped, Crash, Alive, Configured, Processes

-----------------------------------------------------------------------------
(***************************************************************************)
(* Steps of the process.                                                   *)
(***************************************************************************)

\* The runtime's part of the invariant holds at first.
LEMMA RuntimeInit == Init => RuntimeInv
<1> SUFFICES ASSUME Init PROVE RuntimeInv
  OBVIOUS
<1>1. PluginTyped
  BY NoConfig DEF Init, PluginInit, PluginTyped, Configured, Stages, Processes, Forked
<1>2. PhaseInv /\ StoreInv
  BY DEF Init, PluginInit, PhaseInv, StoreInv, Phases, Full
<1>3. HealthInv
  BY DEF Init, PluginInit, HealthInv, Quiet, At, NoCall
<1> QED
  BY <1>1, <1>2, <1>3 DEF RuntimeInv

\* A step that starts, stops or loses a plugin.
LEMMA PluginStepInv ==
  ASSUME RuntimeInv, NEW p \in Names, StartPlugin(p) \/ RollBack(p) \/ KillPlugin(p) \/ PluginCrash(p)
  PROVE  RuntimeInv'
<1>1. UNCHANGED <<cfg, phase, handles, store, health, watching, notified, call>>
  BY DEF StartPlugin, RollBack, KillPlugin, PluginCrash, rest, callVars, StartOne, Verify, Connect,
         DispenseHandshake, Info, SetConfig, DispenseServices, Publish, StartFails, Crash, Advance
<1>2. PluginTyped'
  BY <1>1, StartOneTyped, TearDownTyped, CrashTyped
  DEF RuntimeInv, StartPlugin, RollBack, KillPlugin, PluginCrash
<1>3. StartPlugin(p) => PhaseInv'
  BY <1>1 DEF RuntimeInv, PhaseInv, StartPlugin, Configured, Full
<1>4. RollBack(p) => PhaseInv'
  BY <1>1 DEF RuntimeInv, PluginTyped, PhaseInv, RollBack, Configured, Full
<1>5. KillPlugin(p) => PhaseInv'
  BY <1>1 DEF RuntimeInv, PluginTyped, PhaseInv, KillPlugin, Configured, Full
<1>6. PluginCrash(p) => PhaseInv'
  BY <1>1 DEF RuntimeInv, PhaseInv, PluginCrash, Crash, Configured
<1>7. PhaseInv'
  BY <1>3, <1>4, <1>5, <1>6
<1>8. StoreInv' /\ HealthInv'
  BY <1>1 DEF RuntimeInv, StoreInv, HealthInv, Quiet, At
<1> QED
  BY <1>2, <1>7, <1>8 DEF RuntimeInv
\* The configuration is taken as a whole or not at all.
LEMMA BootstrapInv ==
  ASSUME RuntimeInv, Bootstrap
  PROVE  RuntimeInv' /\ ConfigInv'
<1> DEFINE loaded == Load(file)
           usable == loaded # None /\ DOMAIN loaded.plugins # {}
<1>1. /\ phase = "bootstrap" /\ UNCHANGED <<process, handles, up, info, store, health, watching, notified, call>>
      /\ cfg' = IF usable THEN loaded ELSE EmptyConfig
      /\ phase' = IF usable THEN "starting" ELSE "open"
      /\ worker' = [p \in Names |-> IF usable /\ p \in DOMAIN loaded.plugins THEN "verify" ELSE "idle"]
  BY DEF Bootstrap, callVars, rest
<1>2. /\ DOMAIN cfg'.plugins \subseteq Names
      /\ \A p \in DOMAIN cfg'.plugins : cfg'.plugins[p].on_error \in Policies
      /\ \A h \in Hooks : cfg'.hooks[h] \in DOMAIN cfg'.plugins \cup {None}
  BY <1>1, LoadedConfig, NoConfig
<1>3. ~usable => DOMAIN cfg'.plugins = {}
  BY <1>1, NoConfig
<1>4. usable => cfg' = loaded
  BY <1>1
<1> HIDE DEF usable, loaded
<1>5. PluginTyped'
  BY <1>1, <1>2, <1>3, <1>4 DEF RuntimeInv, PluginTyped, PhaseInv, Configured, Forked, Stages
<1>6. PhaseInv'
  BY <1>1, <1>3 DEF RuntimeInv, PhaseInv, Phases, Full, Configured
<1>7. StoreInv' /\ HealthInv'
  BY <1>1 DEF RuntimeInv, StoreInv, HealthInv, Quiet, At
<1> QED
  BY <1>2, <1>5, <1>6, <1>7 DEF RuntimeInv, ConfigInv, Configured

\* A step of main that leaves the plugins alone.
LEMMA MainStepInv ==
  ASSUME RuntimeInv,
         Started \/ StartRefused \/ OpenStore \/ Migrate \/ Listen \/ Signal \/ SignalKills \/ ServeFails
           \/ Drained \/ CloseService \/ StopPlugins \/ Exit
  PROVE  RuntimeInv' /\ UNCHANGED <<cfg, call, calls, audited, fellThrough>>
<1>1. UNCHANGED <<cfg, worker, process, up, info, call, calls, audited, fellThrough, watching>>
  BY DEF Started, StartRefused, OpenStore, Migrate, Listen, Signal, SignalKills, ServeFails, Drained,
         CloseService, StopPlugins, Exit, pluginVars, callVars, rest
<1>2. PluginTyped'
  BY <1>1 DEF RuntimeInv, PluginTyped, Configured
<1>3. UNCHANGED Configured
  BY <1>1 DEF Configured
<1>4. CASE Started
  <2>1. PhaseInv'
    BY <1>1, <1>3, <1>4
    DEF Started, RuntimeInv, PluginTyped, PhaseInv, Phases, Full, AllReported, SomeFailed
  <2>2. StoreInv' /\ HealthInv'
    BY <1>1, <1>4 DEF Started, RuntimeInv, StoreInv, HealthInv, Quiet, At
  <2> QED
    BY <1>1, <1>2, <2>1, <2>2 DEF RuntimeInv
<1>5. CASE StartRefused
  <2>1. PhaseInv'
    BY <1>1, <1>3, <1>5 DEF StartRefused, RuntimeInv, PluginTyped, PhaseInv, Phases, Full, pluginVars
  <2>2. StoreInv' /\ HealthInv'
    BY <1>1, <1>5 DEF StartRefused, RuntimeInv, StoreInv, HealthInv, Quiet, At, rest
  <2> QED
    BY <1>1, <1>2, <2>1, <2>2 DEF RuntimeInv
<1>6. CASE OpenStore \/ Migrate \/ Listen \/ Signal \/ ServeFails \/ Drained \/ CloseService
  <2>1. phase \in Full /\ phase' \in Full /\ UNCHANGED handles
    BY <1>6 DEF OpenStore, Migrate, Listen, Signal, ServeFails, Drained, CloseService, Full, pluginVars
  <2>2. PhaseInv'
    BY <1>1, <1>3, <2>1 DEF RuntimeInv, PhaseInv, Phases, Full
  <2>3. StoreInv'
    BY <1>6, ServerAssumption DEF OpenStore, Migrate, Listen, Signal, ServeFails, Drained, CloseService, RuntimeInv,
               StoreInv, rest
  <2>4. HealthInv'
    <3>1. Quiet' = Quiet
      BY <1>1 DEF Quiet, At
    <3>2. CASE OpenStore \/ Migrate \/ CloseService
      BY <3>1, <3>2 DEF OpenStore, Migrate, CloseService, RuntimeInv, HealthInv
    <3>3. CASE Listen
      BY <3>1, <3>3 DEF Listen, RuntimeInv, HealthInv
    <3>4. CASE Signal \/ ServeFails \/ Drained
      BY <3>1, <3>4 DEF Signal, ServeFails, Drained, RuntimeInv, HealthInv, rest
    <3> QED
      BY <1>6, <3>2, <3>3, <3>4
  <2> QED
    BY <1>1, <1>2, <2>2, <2>3, <2>4 DEF RuntimeInv
<1>7. CASE StopPlugins \/ Exit
  <2>1. PhaseInv'
    BY <1>1, <1>3, <1>7 DEF StopPlugins, Exit, RuntimeInv, PluginTyped, PhaseInv, Phases, Full, pluginVars
  <2>2. StoreInv' /\ HealthInv'
    BY <1>1, <1>7 DEF StopPlugins, Exit, RuntimeInv, StoreInv, HealthInv, Quiet, At, rest
  <2> QED
    BY <1>1, <1>2, <2>1, <2>2 DEF RuntimeInv
<1>8. CASE SignalKills
  <2>1. phase' = "dead" /\ UNCHANGED <<store, health, notified>> /\ ~notified
    BY <1>8 DEF SignalKills, rest
  <2>2. PhaseInv' /\ StoreInv'
    BY <2>1 DEF PhaseInv, StoreInv, Phases, Full
  <2>3. HealthInv'
    BY <1>1, <2>1 DEF RuntimeInv, HealthInv, Quiet, At
  <2> QED
    BY <1>1, <1>2, <2>2, <2>3 DEF RuntimeInv
<1> QED
  BY <1>4, <1>5, <1>6, <1>7, <1>8

\* A step of a caller or of a client that watches: it needs a server that serves to begin.
LEMMA ClientStepInv ==
  ASSUME RuntimeInv, UNCHANGED <<cfg, pluginVars, phase, store, health, notified>>,
         phase # "serving" => (Quiet => Quiet')
  PROVE  RuntimeInv'
<1>1. PluginTyped' /\ PhaseInv' /\ StoreInv'
  BY DEF RuntimeInv, PluginTyped, PhaseInv, StoreInv, Configured, pluginVars
<1>2. HealthInv'
  BY DEF RuntimeInv, HealthInv
<1> QED
  BY <1>1, <1>2 DEF RuntimeInv
-----------------------------------------------------------------------------
(***************************************************************************)
(* Steps of the calls.                                                     *)
(***************************************************************************)

\* What is known of a call when nothing that is known of it changes.
LEMMA RecordsKept ==
  ASSUME NEW c \in Callers, Records(c), call'[c] = call[c], UNCHANGED cfg, calls' \in Nat, calls \in Nat,
         calls' >= calls, call[c].pc # "idle" => audited'[call[c].id] = audited[call[c].id]
  PROVE  Records(c)'
BY DEF Records, Configured, ResultOf, ApplyOnError

\* No call is made before the configuration is loaded.
LEMMA CallInit == Init => CallInv
<1> SUFFICES ASSUME Init PROVE CallInv
  OBVIOUS
<1>1. NoCall \in CallRecord
  BY DEF NoCall, CallRecord
<1>2. call = [c \in Callers |-> NoCall] /\ calls = 0 /\ audited = [n \in 1 .. MaxCalls |-> << >>]
  BY DEF Init, PluginInit
<1>3. \A c \in Callers : Records(c)
  BY <1>2 DEF Records, NoCall
<1>4. audited \in [1 .. MaxCalls -> Seq(Outcomes)]
  BY <1>2
<1> QED
  BY <1>1, <1>2, <1>3, <1>4, NoConfig, RuntimeAssumption DEF CallInv, Init, PluginInit, Configured, NoCall

\* A new call has a number of its own.
LEMMA BeginCall ==
  ASSUME CallInv, ConfigInv, Configured \subseteq Names,
         NEW c \in Callers, NEW hook \in ServerHooks, Begin(c, hook)
  PROVE  CallInv'
<1> DEFINE p == IF hooked THEN cfg.hooks[hook] ELSE None
           r == [pc |-> IF p = None THEN "back" ELSE "bound", id |-> calls + 1, hook |-> hook,
                 plugin |-> p, code |-> None, result |-> "noop"]
<1>1. /\ calls < MaxCalls /\ calls' = calls + 1 /\ call' = [call EXCEPT ![c] = r]
      /\ call[c].pc = "idle" /\ phase = "serving" /\ UNCHANGED <<audited, cfg, phase, fellThrough>>
  BY DEF Begin, BeginHook, At, rest
<1>2. hook \in Hooks /\ p \in Configured \cup {None}
  BY DEF ConfigInv, ServerHooks, Hooks
<1>3. calls \in Nat /\ MaxCalls \in Nat /\ calls' \in 0 .. MaxCalls /\ calls + 1 \in calls + 1 .. MaxCalls
  BY <1>1, RuntimeAssumption DEF CallInv
<1>4. r \in CallRecord
  BY <1>2, <1>3 DEF CallRecord
<1> HIDE DEF p
<1>5. call' \in [Callers -> CallRecord] /\ call'[c] = r /\ \A d \in Callers \ {c} : call'[d] = call[d]
  BY <1>1, <1>4 DEF CallInv
<1>6. audited[calls + 1] = << >>
  BY <1>3 DEF CallInv
<1>7. Records(c)'
  BY <1>1, <1>2, <1>3, <1>5, <1>6 DEF Records, Configured
<1>8. ASSUME NEW d \in Callers, d # c PROVE Records(d)'
  <2>1. Records(d)
    BY DEF CallInv
  <2> QED
    BY <1>1, <1>3, <1>5, <1>8, <2>1, RecordsKept
<1>9. \A d, e \in Callers : d # e /\ call'[d].pc # "idle" /\ call'[e].pc # "idle" =>
          call'[d].id # call'[e].id
  <2>1. \A d \in Callers \ {c} : call[d].pc # "idle" => call[d].id # calls + 1
    <3> SUFFICES ASSUME NEW d \in Callers, call[d].pc # "idle" PROVE call[d].id # calls + 1
      OBVIOUS
    <3>1. call[d].id \in 1 .. calls
      BY DEF CallInv, Records
    <3> QED
      BY <1>3, <3>1
  <2>2. \A d, e \in Callers : d # e /\ call[d].pc # "idle" /\ call[e].pc # "idle" =>
            call[d].id # call[e].id
    BY DEF CallInv
  <2>3. call'[c].id = calls + 1
    BY <1>5
  <2> QED
    BY <1>5, <2>1, <2>2, <2>3
<1>10. \A n \in calls' + 1 .. MaxCalls : audited'[n] = << >>
  BY <1>1, <1>3 DEF CallInv
<1> QED
  BY <1>1, <1>3, <1>5, <1>7, <1>8, <1>9, <1>10 DEF CallInv, Configured

\* A call that moves without a word to the audit log.
LEMMA MoveCall ==
  ASSUME CallInv, phase # "bootstrap", NEW c \in Callers, NEW r \in CallRecord,
         call' = [call EXCEPT ![c] = r], UNCHANGED <<calls, audited, cfg, phase>>,
         r.pc # "idle" => /\ call[c].pc \in {"bound", "rpc"} /\ r.pc \in {"rpc", "audit"}
                         /\ r.id = call[c].id,
         r.plugin = IF r.pc = "idle" THEN None ELSE call[c].plugin
  PROVE  CallInv'
<1>1. call' \in [Callers -> CallRecord] /\ call'[c] = r /\ \A d \in Callers \ {c} : call'[d] = call[d]
  BY DEF CallInv
<1>2. Records(c)'
  BY <1>1 DEF CallInv, Records, Configured
<1>3. ASSUME NEW d \in Callers, d # c PROVE Records(d)'
  BY <1>1, <1>3, RecordsKept DEF CallInv
<1>4. \A d, e \in Callers : d # e /\ call'[d].pc # "idle" /\ call'[e].pc # "idle" =>
          call'[d].id # call'[e].id
  BY <1>1 DEF CallInv
<1> QED
  BY <1>1, <1>2, <1>3, <1>4 DEF CallInv, Configured

\* A call that comes back is audited once.
LEMMA AuditCall ==
  ASSUME CallInv, phase # "bootstrap", NEW c \in Callers, Audit(c), UNCHANGED <<cfg, phase>>
  PROVE  CallInv'
<1> DEFINE outcome == OutcomeOf(call[c].code)
           result == ResultOf(call[c].plugin, call[c].code)
           r == [call[c] EXCEPT !.pc = "back", !.result = result]
<1>1. /\ call[c].pc = "audit" /\ call[c] \in CallRecord /\ calls' = calls
      /\ audited' = [audited EXCEPT ![call[c].id] = Append(@, outcome)]
  BY DEF Audit, At, CallInv
<1>2. call' = [call EXCEPT ![c] = r]
  BY DEF Audit, CallInv
<1>3. outcome \in Outcomes /\ result \in {"noop", "reply", "error"}
  BY DEF OutcomeOf, Outcomes, ResultOf, ApplyOnError
<1> HIDE DEF outcome, result
<1>4. r \in CallRecord /\ r.pc = "back" /\ r.id = call[c].id /\ r.plugin = call[c].plugin
      /\ r.code = call[c].code /\ r.result = result
  BY <1>1, <1>3 DEF CallRecord
<1> HIDE DEF r
<1>5. call[c].id \in 1 .. calls /\ call[c].id \in 1 .. MaxCalls /\ audited[call[c].id] = << >>
  <2>1. call[c].id \in 1 .. calls /\ audited[call[c].id] = << >> /\ calls \in 0 .. MaxCalls
    BY <1>1 DEF CallInv, Records
  <2> QED
    BY <2>1, RuntimeAssumption
<1>6. /\ audited'[call[c].id] = <<outcome>>
      /\ \A n \in 1 .. MaxCalls : n # call[c].id => audited'[n] = audited[n]
      /\ audited' \in [1 .. MaxCalls -> Seq(Outcomes)]
  <2>1. Append(<< >>, outcome) = <<outcome>> /\ <<outcome>> \in Seq(Outcomes)
    BY <1>3
  <2> QED
    BY <1>1, <1>5, <2>1 DEF CallInv
<1>7. call' \in [Callers -> CallRecord] /\ call'[c] = r /\ \A d \in Callers \ {c} : call'[d] = call[d]
  BY <1>2, <1>4 DEF CallInv
<1>8. Records(c)'
  <2>1. Records(c) /\ UNCHANGED Configured
    BY DEF CallInv, Configured
  <2>2. ResultOf(call[c].plugin, call[c].code)' = ResultOf(call'[c].plugin, call'[c].code)
    BY <1>4, <1>7 DEF ResultOf, ApplyOnError
  <2>3. call'[c].result = ResultOf(call'[c].plugin, call'[c].code)
    BY <1>4, <1>7 DEF result
  <2>4. audited'[call'[c].id] = <<OutcomeOf(call'[c].code)>>
    BY <1>4, <1>6, <1>7 DEF outcome
  <2>5. /\ call'[c].pc = "back" /\ call'[c].id \in 1 .. calls'
        /\ call'[c].plugin # None => call'[c].plugin \in Configured'
    BY <1>1, <1>4, <1>5, <1>7, <2>1 DEF Records
  <2> QED
    BY <2>2, <2>3, <2>4, <2>5 DEF Records, ResultOf, ApplyOnError
<1>9. ASSUME NEW d \in Callers, d # c PROVE Records(d)'
  <2>1. Records(d) /\ (call[d].pc # "idle" => call[d].id # call[c].id /\ call[d].id \in 1 .. calls)
    BY <1>1, <1>9 DEF CallInv, Records
  <2>2. calls \in Nat /\ calls <= MaxCalls
    BY RuntimeAssumption DEF CallInv
  <2>3. call[d].pc # "idle" => audited'[call[d].id] = audited[call[d].id]
    BY <1>6, <2>1, <2>2, RuntimeAssumption
  <2> QED
    BY <1>1, <1>7, <1>9, <2>1, <2>2, <2>3, RecordsKept
<1>10. \A d, e \in Callers : d # e /\ call'[d].pc # "idle" /\ call'[e].pc # "idle" =>
          call'[d].id # call'[e].id
  BY <1>1, <1>4, <1>7 DEF CallInv
<1>11. \A n \in calls + 1 .. MaxCalls : audited'[n] = << >>
  <2> SUFFICES ASSUME NEW n \in calls + 1 .. MaxCalls PROVE audited'[n] = << >>
    OBVIOUS
  <2>1. calls \in Nat /\ MaxCalls \in Nat
    BY RuntimeAssumption DEF CallInv
  <2>2. n \in 1 .. MaxCalls /\ n # call[c].id
    BY <1>5, <2>1
  <2>3. audited[n] = << >>
    BY DEF CallInv
  <2> QED
    BY <1>6, <2>2, <2>3
<1> QED
  BY <1>1, <1>6, <1>7, <1>8, <1>9, <1>10, <1>11 DEF CallInv, Configured
-----------------------------------------------------------------------------
(***************************************************************************)
(* The invariant, and what it is for.                                      *)
(***************************************************************************)

\* The invariant holds at first.
LEMMA InvInit == Init => Inv
<1> SUFFICES ASSUME Init PROVE Inv
  OBVIOUS
<1>1. ConfigInv
  BY NoConfig DEF Init, PluginInit, ConfigInv, Configured
<1>2. RefusalIsFinal
  BY DEF Init, RefusalIsFinal
<1> QED
  BY <1>1, <1>2, RuntimeInit, CallInit DEF Inv

\* A handler that goes on to the store had no answer, or one its policy lets pass.
LEMMA RespondInv ==
  ASSUME Inv, NEW c \in Callers, Respond(c)
  PROVE  RefusalIsFinal'
<1> DEFINE fall == [plugin |-> call[c].plugin, code |-> call[c].code]
<1>1. /\ call[c].pc = "back" /\ UNCHANGED cfg
      /\ \/ fellThrough' = fellThrough
         \/ call[c].result \in {"noop", "reply"} /\ fellThrough' = fellThrough \cup {fall}
  BY DEF Respond, At
<1>2. ASSUME call[c].result \in {"noop", "reply"}, call[c].plugin # None
      PROVE  call[c].code \in {"OK", "Nil", "Unimplemented"} \/ cfg.plugins[call[c].plugin].on_error = "fail_open"
  <2>1. call[c].plugin \in Configured /\ ResultOf(call[c].plugin, call[c].code) \in {"noop", "reply"}
    BY <1>1, <1>2 DEF Inv, CallInv, Records
  <2>2. cfg.plugins[call[c].plugin].on_error \in Policies
    BY <2>1 DEF Inv, ConfigInv
  <2> QED
    BY <2>1, <2>2 DEF ResultOf, ApplyOnError, Policies
<1> QED
  BY <1>1, <1>2 DEF Inv, RefusalIsFinal

\* A step of a caller.
LEMMA CallerInv ==
  ASSUME Inv, NEW c \in Callers,
         Step(c) \/ Respond(c) \/ \E hook \in ServerHooks : Begin(c, hook)
  PROVE  Inv'
<1>0. /\ RuntimeInv /\ ConfigInv /\ CallInv /\ RefusalIsFinal
      /\ call \in [Callers -> CallRecord] /\ call[c] \in CallRecord
  BY DEF Inv, CallInv
<1>1. UNCHANGED <<cfg, pluginVars, phase, store, health, watching, notified>>
  BY DEF Step, Respond, Begin, rest
<1>2. ConfigInv'
  BY <1>0, <1>1 DEF ConfigInv, Configured
<1>3. ASSUME NEW hook \in ServerHooks, Begin(c, hook) PROVE Inv'
  <2>1. CallInv'
    BY <1>0, <1>3, BeginCall DEF RuntimeInv, PluginTyped
  <2>2. phase = "serving" /\ UNCHANGED fellThrough
    BY <1>3 DEF Begin, rest
  <2>3. RuntimeInv'
    BY <1>0, <1>1, <2>2, ClientStepInv
  <2> QED
    BY <1>0, <1>1, <1>2, <2>1, <2>2, <2>3 DEF Inv, RefusalIsFinal
<1>4. ASSUME Respond(c) PROVE Inv'
  <2>1. call' = [call EXCEPT ![c] = NoCall] /\ UNCHANGED <<calls, audited>> /\ call[c].pc = "back"
    BY <1>4 DEF Respond, At
  <2>2. NoCall \in CallRecord /\ NoCall.pc = "idle" /\ NoCall.plugin = None
    BY DEF NoCall, CallRecord
  <2>3. phase # "bootstrap"
    BY <2>1 DEF Inv, CallInv
  <2>4. CallInv'
    BY <1>0, <1>1, <2>1, <2>2, <2>3, MoveCall
  <2>5. \A d \in Callers : call[d].pc = "idle" => call'[d].pc = "idle"
    BY <1>0, <2>1, <2>2
  <2>6. RuntimeInv'
    BY <1>0, <1>1, <2>5, ClientStepInv DEF Quiet, At
  <2> QED
    BY <1>2, <1>4, <2>4, <2>6, RespondInv DEF Inv
<1>5. ASSUME Step(c) PROVE Inv'
  <2>1. HookStep(c) /\ UNCHANGED fellThrough
    BY <1>5 DEF Step, rest
  <2>2. CallInv' /\ call[c].pc # "idle" /\ \A d \in Callers \ {c} : call'[d] = call[d]
    <3>1. call[c].pc # "idle" /\ phase # "bootstrap"
      BY <2>1 DEF HookStep, LookUpClient, Reply, TimeOut, Audit, At, Inv, CallInv
    <3>2. CASE LookUpClient(c) \/ Reply(c) \/ TimeOut(c)
      <4>1. PICK pc \in {"rpc", "audit"}, code \in Codes \cup {None} :
              call' = [call EXCEPT ![c] = [call[c] EXCEPT !.pc = pc, !.code = code]]
        <5>1. CASE LookUpClient(c)
          BY <1>0, <5>1 DEF LookUpClient, Codes
        <5>2. CASE Reply(c)
          <6>1. PICK code \in Codes : call' = [call EXCEPT ![c].pc = "audit", ![c].code = code]
            BY <5>2 DEF Reply, Codes
          <6> QED
            BY <1>0, <6>1
        <5>3. CASE TimeOut(c)
          BY <1>0, <5>3 DEF TimeOut, Codes
        <5> QED
          BY <3>2, <5>1, <5>2, <5>3
      <4>2. call[c].pc \in {"bound", "rpc"} /\ UNCHANGED <<calls, audited>>
        BY <3>2 DEF LookUpClient, Reply, TimeOut, At
      <4> DEFINE r == [call[c] EXCEPT !.pc = pc, !.code = code]
      <4>3. r \in CallRecord /\ r.pc = pc /\ r.id = call[c].id /\ r.plugin = call[c].plugin
        BY <1>0 DEF CallRecord
      <4> HIDE DEF r
      <4>4. call' = [call EXCEPT ![c] = r]
        BY <4>1 DEF r
      <4>5. CallInv'
        BY <1>0, <1>1, <3>1, <4>2, <4>3, <4>4, MoveCall
      <4> QED
        BY <1>0, <3>1, <4>4, <4>5
    <3>3. CASE Audit(c)
      <4>1. CallInv'
        BY <1>0, <1>1, <3>1, <3>3, AuditCall
      <4>2. \A d \in Callers \ {c} : call'[d] = call[d]
        BY <1>0, <3>3 DEF Audit
      <4> QED
        BY <3>1, <4>1, <4>2
    <3> QED
      BY <2>1, <3>2, <3>3 DEF HookStep
  <2>3. RuntimeInv'
    BY <1>0, <1>1, <2>2, ClientStepInv DEF Quiet, At
  <2> QED
    BY <1>0, <1>1, <1>2, <2>1, <2>2, <2>3 DEF Inv, RefusalIsFinal
<1> QED
  BY <1>3, <1>4, <1>5

\* Each step preserves the invariant.
LEMMA InvNext == Inv /\ [Next]_vars => Inv'
<1> SUFFICES ASSUME Inv, [Next]_vars PROVE Inv'
  OBVIOUS
<1>0. RuntimeInv /\ ConfigInv /\ CallInv /\ RefusalIsFinal
  BY DEF Inv
<1>1. ASSUME UNCHANGED <<cfg, call, calls, audited, fellThrough>>, RuntimeInv',
             phase # "bootstrap" => phase' # "bootstrap"
      PROVE  Inv'
  <2>1. ConfigInv' /\ RefusalIsFinal'
    BY <1>0, <1>1 DEF ConfigInv, Configured, RefusalIsFinal
  <2>2. \A c \in Callers : Records(c)'
    BY <1>0, <1>1 DEF CallInv, Records, Configured, ResultOf, ApplyOnError
  <2>3. CallInv'
    BY <1>0, <1>1, <2>2 DEF CallInv
  <2> QED
    BY <1>1, <2>1, <2>3 DEF Inv
<1>2. CASE Bootstrap
  <2>1. /\ phase = "bootstrap" /\ phase' # "bootstrap"
        /\ UNCHANGED <<call, calls, audited, fellThrough>>
    BY <1>2 DEF Bootstrap, callVars, rest
  <2>2. fellThrough = {} /\ \A c \in Callers : call[c].pc = "idle"
    BY <1>0, <2>1 DEF CallInv
  <2>3. \A c \in Callers : Records(c)'
    BY <1>0, <2>1, <2>2 DEF CallInv, Records
  <2>4. CallInv'
    BY <1>0, <2>1, <2>3 DEF CallInv
  <2>5. RefusalIsFinal'
    BY <2>1, <2>2 DEF RefusalIsFinal
  <2> QED
    BY <1>0, <1>2, <2>4, <2>5, BootstrapInv DEF Inv
<1>3. ASSUME Started \/ StartRefused \/ OpenStore \/ Migrate \/ Listen \/ Signal \/ SignalKills
               \/ ServeFails \/ Drained \/ CloseService \/ StopPlugins \/ Exit
      PROVE  Inv'
  <2>1. phase' # "bootstrap"
    BY <1>3 DEF Started, StartRefused, OpenStore, Migrate, Listen, Signal, SignalKills, ServeFails,
                Drained, CloseService, StopPlugins, Exit
  <2> QED
    BY <1>0, <1>1, <1>3, <2>1, MainStepInv
<1>4. ASSUME NEW p \in Names, StartPlugin(p) \/ RollBack(p) \/ KillPlugin(p) \/ PluginCrash(p)
      PROVE  Inv'
  <2>1. UNCHANGED <<cfg, phase, call, calls, audited, fellThrough>>
    BY <1>4 DEF StartPlugin, RollBack, KillPlugin, PluginCrash, rest, callVars
  <2> QED
    BY <1>0, <1>1, <1>4, <2>1, PluginStepInv
<1>5. ASSUME OpenWatch \/ CloseWatch PROVE Inv'
  <2>1. /\ UNCHANGED <<cfg, pluginVars, phase, store, health, notified, callVars, fellThrough>>
        /\ phase # "serving" => (Quiet => Quiet')
    BY <1>5 DEF OpenWatch, CloseWatch, Quiet, At, callVars
  <2>2. RuntimeInv'
    BY <1>0, <2>1, ClientStepInv
  <2> QED
    BY <1>1, <2>1, <2>2 DEF callVars
<1>6. ASSUME NEW c \in Callers,
             Step(c) \/ Respond(c) \/ \E hook \in ServerHooks : Begin(c, hook)
      PROVE  Inv'
  BY <1>6, CallerInv
<1>7. CASE UNCHANGED vars
  <2>1. UNCHANGED <<cfg, pluginVars, phase, store, health, notified, callVars, fellThrough, watching>>
    BY <1>7 DEF vars
  <2>2. RuntimeInv'
    BY <1>0, <2>1, ClientStepInv DEF Quiet, At, callVars
  <2> QED
    BY <1>1, <2>1, <2>2 DEF callVars
<1> QED
  BY <1>2, <1>3, <1>4, <1>5, <1>6, <1>7 DEF Next, Main

\* The invariant holds throughout.
LEMMA InvHolds == Spec => []Inv
BY InvInit, InvNext, PTL DEF Spec

\* A process that returns from main leaves no plugin process, no series and no open store; a
\* signal that ends it before signal.Notify finds nobody in it.
THEOREM ExitIsClean == Spec => []CleanExit
<1>1. Inv => CleanExit
  <2>0. ASSUME Inv, phase = "dead" PROVE Quiet /\ health # "NOT_SERVING"
    BY <2>0 DEF Inv, RuntimeInv, HealthInv
  <2> SUFFICES ASSUME Inv, phase = "exited" PROVE CleanExit
    BY <2>0 DEF CleanExit
  <2>1. \A p \in Names : worker[p] \in {"failed", "idle"}
    BY DEF Inv, RuntimeInv, PhaseInv
  <2>2. /\ \A p \in Names : process[p] \notin {"running", "crashed"}
        /\ up = {} /\ info = {}
    BY <2>1 DEF Inv, RuntimeInv, PluginTyped, Forked
  <2>3. store # "open"
    BY DEF Inv, RuntimeInv, StoreInv
  <2> QED
    BY <2>2, <2>3 DEF CleanExit, Alive
<1> QED
  BY <1>1, InvHolds, PTL

\* From the end of Start to the start of Stop the manager has clients of exactly the plugins
\* that the metrics report, all that are configured.
THEOREM HandlesAsReported == Spec => []HandlesMatchMetrics
<1>1. Inv => HandlesMatchMetrics
  <2> SUFFICES ASSUME Inv, phase \in {"open", "migrate", "listen", "serving", "draining", "closing"}
               PROVE  HandlesMatchMetrics
    BY DEF HandlesMatchMetrics
  <2>1. handles = Configured /\ \A p \in Configured : worker[p] = "started"
    BY DEF Inv, RuntimeInv, PhaseInv, Full
  <2>2. up = Configured /\ info = Configured
    BY <2>1 DEF Inv, RuntimeInv, PluginTyped
  <2>3. \A p \in Configured : process[p] \in {"running", "crashed"}
    BY <2>1 DEF Inv, RuntimeInv, PluginTyped, Forked
  <2> QED
    BY <2>1, <2>2, <2>3 DEF HandlesMatchMetrics
<1> QED
  BY <1>1, InvHolds, PTL

\* Every call of a bound plugin is audited once before it comes back, and as it comes back.
THEOREM AuditedBeforeReturn == Spec => []AuditPrecedesReturn
<1>1. Inv => AuditPrecedesReturn
  <2> SUFFICES ASSUME Inv, NEW c \in Callers, call[c].plugin # None
               PROVE  LET records == audited[call[c].id]
                      IN  /\ Len(records) = IF At(c, "back") THEN 1 ELSE 0
                          /\ At(c, "back") =>
                               /\ call[c].result = "reply" => records = <<"ok">>
                               /\ call[c].result = "error" => records \in {<<"error">>, <<"timeout">>}
    BY DEF AuditPrecedesReturn
  <2>1. Records(c) /\ call[c] \in CallRecord
    BY DEF Inv, CallInv
  <2>2. CASE At(c, "back")
    <3>1. /\ audited[call[c].id] = <<OutcomeOf(call[c].code)>>
          /\ call[c].result = ResultOf(call[c].plugin, call[c].code)
      BY <2>1, <2>2 DEF Records, At
    <3>2. /\ call[c].result = "reply" => OutcomeOf(call[c].code) = "ok"
          /\ call[c].result = "error" => OutcomeOf(call[c].code) \in {"error", "timeout"}
      BY <3>1 DEF ResultOf, ApplyOnError, OutcomeOf
    <3> QED
      BY <2>2, <3>1, <3>2
  <2>3. CASE ~At(c, "back")
    <3>1. audited[call[c].id] = << >>
      BY <2>1, <2>3 DEF Records, At, CallRecord
    <3> QED
      BY <2>3, <3>1
  <2> QED
    BY <2>2, <2>3
<1> QED
  BY <1>1, InvHolds, PTL

\* While a handler is under way after a signal, the store is open and the plugins are there.
THEOREM DrainsFirst == Spec => []DrainedBeforeTeardown
<1>1. Inv => DrainedBeforeTeardown
  <2> SUFFICES ASSUME Inv, health = "NOT_SERVING", ~Quiet PROVE DrainedBeforeTeardown
    BY DEF DrainedBeforeTeardown
  <2>1. phase = "draining"
    BY DEF Inv, RuntimeInv, HealthInv
  <2>2. store = "open" <=> StoreEnabled
    BY <2>1, ServerAssumption DEF Inv, RuntimeInv, StoreInv
  <2>3. handles = Configured /\ \A p \in Configured : worker[p] = "started"
    BY <2>1 DEF Inv, RuntimeInv, PhaseInv, Full
  <2>4. \A p \in Configured : process[p] # "killed"
    BY <2>3 DEF Inv, RuntimeInv, PluginTyped, Forked
  <2> QED
    BY <2>2, <2>3, <2>4 DEF DrainedBeforeTeardown
<1> QED
  BY <1>1, InvHolds, PTL

\* A plugin whose policy is to fail closed is never gone around when it refuses, is late or is
\* not there.
THEOREM RefusalsHold == Spec => []RefusalIsFinal
<1>1. Inv => RefusalIsFinal
  BY DEF Inv
<1> QED
  BY <1>1, InvHolds, PTL

=============================================================================
