---------------------------- MODULE ServerRuntime ----------------------------
(***************************************************************************)
(* One process of `cvt serve`: it loads the plugin configuration, starts   *)
(* the plugins, opens the store, serves, and takes everything down again.  *)
(* Callers are RPC handlers; the ones that matter here call a hook, and    *)
(* the lookup of a schema goes on to the store when the plugin has nothing *)
(* to say.                                                                 *)
(***************************************************************************)
EXTENDS PluginRuntime

CONSTANTS
    Files,       \* the configuration files a process may find
    StoreEnabled \* CVT_STORAGE_ENABLED

ASSUME ServerAssumption == StoreEnabled \in BOOLEAN

VARIABLES
    file,        \* what is in config.yaml
    phase,       \* where main is
    hooked,      \* SetHooks was given the adapter rather than NoopHooks
    store,       \* the store
    health,      \* what the health service answers
    watching,    \* a client has a health Watch open
    notified,    \* signal.Notify has been called
    fellThrough  \* history: plugin and status code of the lookups answered by the store

vars == <<cfg, pluginVars, callVars, file, phase, hooked, store, health, watching, notified,
          fellThrough>>

Phases == {"bootstrap", "starting", "rollback", "open", "migrate", "listen", "serving",
           "draining", "closing", "stopping", "killing", "exited", "dead"}

Init ==
    /\ PluginInit
    /\ verified \in SUBSET Names
    /\ file \in Files
    /\ phase = "bootstrap"
    /\ hooked = FALSE
    /\ store = "none"
    /\ health = "unset"
    /\ watching = FALSE
    /\ notified = FALSE
    /\ fellThrough = {}

rest == <<file, hooked, store, health, watching, notified, fellThrough>>

Gone == phase \in {"exited", "dead"}

-----------------------------------------------------------------------------
(***************************************************************************)
(* Start-up.                                                               *)
(***************************************************************************)

\* A file that does not load is a warning: the process goes on without plugins.
Bootstrap ==
    /\ phase = "bootstrap"
    /\ LET loaded == Load(file)
           usable == loaded /= None /\ DOMAIN loaded.plugins /= {}
       IN  /\ cfg' = IF usable THEN loaded ELSE EmptyConfig
           /\ phase' = IF usable THEN "starting" ELSE "open"
           /\ worker' = [p \in Names |-> IF usable /\ p \in DOMAIN loaded.plugins
                                         THEN "verify" ELSE "idle"]
    /\ UNCHANGED <<verified, process, handles, up, info, callVars, rest>>

StartPlugin(p) ==
    /\ phase = "starting"
    /\ StartOne(p)
    /\ UNCHANGED <<cfg, callVars, phase, rest>>

\* Mutant of Started: the plugins that did start are used without the others.
StartedWithSome ==
    /\ phase = "starting"
    /\ AllReported
    /\ phase' = "open" /\ handles' = {p \in Configured : worker[p] = "started"} /\ hooked' = TRUE
    /\ UNCHANGED <<cfg, verified, worker, process, up, info, callVars,
                   file, store, health, watching, notified, fellThrough>>

\* wg.Wait(): every startOne has reported.
Started ==
    /\ phase = "starting"
    /\ AllReported
    /\ IF SomeFailed
       THEN phase' = "rollback" /\ UNCHANGED <<handles, hooked>>
       ELSE phase' = "open" /\ handles' = Configured /\ hooked' = TRUE
    /\ UNCHANGED <<cfg, verified, worker, process, up, info, callVars,
                   file, store, health, watching, notified, fellThrough>>

RollBack(p) ==
    /\ phase = "rollback"
    /\ worker[p] = "started"
    /\ TearDown(p)
    /\ worker' = [worker EXCEPT ![p] = "idle"]
    /\ UNCHANGED <<cfg, verified, handles, callVars, phase, rest>>

StartRefused ==
    /\ phase = "rollback"
    /\ \A p \in Configured : worker[p] = "failed" \/ worker[p] = "idle"
    /\ phase' = "exited"
    /\ UNCHANGED <<cfg, pluginVars, callVars, rest>>

\* TLS files, API keys and the driver may fail before there is a store.
OpenStore ==
    /\ phase = "open"
    /\ \/ phase' = "stopping" /\ UNCHANGED store
       \/ StoreEnabled /\ phase' = "migrate" /\ store' = "open"
       \/ ~StoreEnabled /\ phase' = "listen" /\ UNCHANGED store
    /\ UNCHANGED <<cfg, pluginVars, callVars, file, hooked, health, watching, notified, fellThrough>>

\* Migrate, then NewValidatorServiceWithStore: each closes the store when it fails.
Migrate ==
    /\ phase = "migrate"
    /\ \/ phase' = "listen" /\ UNCHANGED store
       \/ phase' = "stopping" /\ store' = "closed"
    /\ UNCHANGED <<cfg, pluginVars, callVars, file, hooked, health, watching, notified, fellThrough>>

\* The health service is set before the port is bound; signals are asked for after that.
Listen ==
    /\ phase = "listen"
    /\ health' = "SERVING"
    /\ phase' \in {"serving", "closing"}
    /\ notified' = (phase' = "serving")
    /\ UNCHANGED <<cfg, pluginVars, callVars, file, hooked, store, watching, fellThrough>>

-----------------------------------------------------------------------------
(***************************************************************************)
(* Serving.                                                                *)
(***************************************************************************)

\* The RPCs that call a hook: a lookup that misses the cache, CompareSchemas and
\* RegisterSchema with breaking changes, and RegisterConsumer.
ServerHooks == {"fetch_schema", "on_breaking_change_detected", "register_consumer_usage"}

Begin(c, hook) ==
    /\ phase = "serving"
    /\ At(c, "idle")
    /\ BeginHook(c, hook, hooked)
    /\ UNCHANGED <<cfg, pluginVars, phase, rest>>

Step(c) ==
    /\ ~Gone
    /\ HookStep(c)
    /\ UNCHANGED <<cfg, pluginVars, phase, rest>>

\* The steps a call takes whether the plugin answers or not.
OwnStep(c) ==
    /\ ~Gone
    /\ LookUpClient(c) \/ TimeOut(c) \/ Audit(c)
    /\ UNCHANGED <<cfg, pluginVars, phase, rest>>

\* A lookup goes to the store when no error came back and there is no entry to use: the
\* plugin had nothing to say, or its document is empty, does not parse, is not valid or has
\* no router. The errors of the other hooks are ignored.
Respond(c) ==
    /\ ~Gone
    /\ At(c, "back")
    /\ \E usable \in BOOLEAN :
         fellThrough' =
           IF /\ call[c].hook = "fetch_schema" /\ store = "open"
              /\ call[c].result = "noop" \/ (call[c].result = "reply" /\ ~usable)
           THEN fellThrough \cup {[plugin |-> call[c].plugin, code |-> call[c].code]}
           ELSE fellThrough
    /\ call' = [call EXCEPT ![c] = NoCall]
    /\ UNCHANGED <<cfg, pluginVars, calls, audited, phase, file, hooked, store, health,
                   watching, notified>>

\* A Watch stream stays open until its client ends it.
OpenWatch ==
    /\ phase = "serving" /\ ~watching
    /\ watching' = TRUE
    /\ UNCHANGED <<cfg, pluginVars, callVars, phase, file, hooked, store, health, notified,
                   fellThrough>>

CloseWatch ==
    /\ watching
    /\ watching' = FALSE
    /\ UNCHANGED <<cfg, pluginVars, callVars, phase, file, hooked, store, health, notified,
                   fellThrough>>

PluginCrash(p) ==
    /\ ~Gone
    /\ Crash(p)
    /\ UNCHANGED <<cfg, callVars, phase, rest>>

-----------------------------------------------------------------------------
(***************************************************************************)
(* Shutdown.                                                               *)
(***************************************************************************)

\* Once asked for, a signal is waited for by the select of a serving process only; a later
\* one stays in the channel.
Signal ==
    /\ phase = "serving"
    /\ phase' = "draining"
    /\ health' = "NOT_SERVING"
    /\ UNCHANGED <<cfg, pluginVars, callVars, file, hooked, store, watching, notified, fellThrough>>

\* Before that a signal has its default action: the process ends where it is, and
\* runPluginShutdown does not run.
SignalKills ==
    /\ ~notified /\ ~Gone
    /\ phase' = "dead"
    /\ UNCHANGED <<cfg, pluginVars, callVars, rest>>

\* Serve returns an error: handlers that are under way stay under way.
ServeFails ==
    /\ phase = "serving"
    /\ phase' = "closing"
    /\ UNCHANGED <<cfg, pluginVars, callVars, rest>>

Quiet == ~watching /\ \A c \in Callers : At(c, "idle")

\* Mutant of Drained: the server is stopped without waiting for its handlers.
DrainedAtOnce ==
    /\ phase = "draining"
    /\ phase' = "closing"
    /\ UNCHANGED <<cfg, pluginVars, callVars, rest>>

\* GracefulStop returns when every RPC has, Watch included.
Drained ==
    /\ phase = "draining"
    /\ Quiet
    /\ phase' = "closing"
    /\ UNCHANGED <<cfg, pluginVars, callVars, rest>>

\* The deferred Close of the service.
CloseService ==
    /\ phase = "closing"
    /\ store' = IF store = "open" THEN "closed" ELSE store
    /\ phase' = "stopping"
    /\ UNCHANGED <<cfg, pluginVars, callVars, file, hooked, health, watching, notified, fellThrough>>

\* Stop takes the handles away under the lock, then kills one plugin after another.
StopPlugins ==
    /\ phase = "stopping"
    /\ handles' = {}
    /\ phase' = "killing"
    /\ UNCHANGED <<cfg, verified, worker, process, up, info, callVars, rest>>

KillPlugin(p) ==
    /\ phase = "killing"
    /\ worker[p] = "started"
    /\ TearDown(p)
    /\ worker' = [worker EXCEPT ![p] = "idle"]
    /\ UNCHANGED <<cfg, verified, handles, callVars, phase, rest>>

Exit ==
    /\ phase = "killing"
    /\ \A p \in Names : worker[p] = "idle"
    /\ phase' = "exited"
    /\ UNCHANGED <<cfg, pluginVars, callVars, rest>>

Main ==
    \/ Bootstrap \/ Started \/ StartRefused \/ OpenStore \/ Migrate \/ Listen
    \/ Drained \/ CloseService \/ StopPlugins \/ Exit
    \/ \E p \in Names : RollBack(p) \/ KillPlugin(p)

Next ==
    \/ Main
    \/ Signal \/ SignalKills \/ ServeFails \/ OpenWatch \/ CloseWatch
    \/ \E p \in Names : StartPlugin(p) \/ PluginCrash(p)
    \/ \E c \in Callers : Step(c) \/ Respond(c) \/ \E hook \in ServerHooks : Begin(c, hook)

\* main runs on; a start step ends by itself or by its deadline, and so does a hook call,
\* whose plugin need not answer; clients end their Watch streams.
Fairness ==
    /\ WF_vars(Main)
    /\ \A p \in Names : WF_vars(StartPlugin(p))
    /\ \A c \in Callers : WF_vars(OwnStep(c)) /\ WF_vars(Respond(c))
    /\ WF_vars(CloseWatch)

Spec == Init /\ [][Next]_vars /\ Fairness

-----------------------------------------------------------------------------
(***************************************************************************)
(* Properties.                                                             *)
(***************************************************************************)

TypeOK ==
    /\ DOMAIN cfg.plugins \subseteq Names
    /\ verified \subseteq Names /\ handles \subseteq Names
    /\ up \subseteq Names /\ info \subseteq Names
    /\ worker \in [Names -> Stages]
    /\ process \in [Names -> Processes]
    /\ \A c \in Callers :
         /\ call[c].pc \in {"idle", "bound", "rpc", "audit", "back"}
         /\ call[c].id \in 0 .. calls
         /\ call[c].plugin \in DOMAIN cfg.plugins \cup {None}
         /\ call[c].code \in Codes \cup {None}
    /\ calls \in 0 .. MaxCalls
    /\ phase \in Phases
    /\ {hooked, watching, notified} \subseteq BOOLEAN
    /\ store \in {"none", "open", "closed"}
    /\ health \in {"unset", "SERVING", "NOT_SERVING"}

\* When the process returns from main, because of a plugin that does not start, a store
\* that does not open, a port that is taken, a failing server or a signal to one that
\* serves, it leaves no plugin process running, no series that says one is, and no open
\* store. A signal that comes before signal.Notify is the exception: it ends the process
\* where it is, but never one that anybody is in.
CleanExit ==
    /\ phase = "exited" =>
         /\ \A p \in Names : ~Alive(p)
         /\ up = {} /\ info = {}
         /\ store /= "open"
    /\ phase = "dead" => Quiet /\ health /= "NOT_SERVING"

\* From the end of Start to the start of Stop the manager hands out clients of exactly
\* the plugins the metrics report, and either all that are configured or none.
HandlesMatchMetrics ==
    phase \in {"open", "migrate", "listen", "serving", "draining", "closing"} =>
        /\ handles = up /\ handles = info
        /\ handles = Configured
        /\ \A p \in handles : process[p] \in {"running", "crashed"}

\* No hook call of a bound plugin comes back to its handler before it is audited, once,
\* and the record agrees with what the handler is told.
AuditPrecedesReturn ==
    \A c \in Callers :
        call[c].plugin /= None =>
            LET records == audited[call[c].id]
            IN  /\ Len(records) = IF At(c, "back") THEN 1 ELSE 0
                /\ At(c, "back") =>
                     /\ call[c].result = "reply" => records = <<"ok">>
                     /\ call[c].result = "error" => records \in {<<"error">>, <<"timeout">>}

\* A signal takes the server down from the outside in: while a handler is under way
\* after one, the store is open and no plugin has been killed.
DrainedBeforeTeardown ==
    health = "NOT_SERVING" /\ ~Quiet =>
        /\ store = "open" <=> StoreEnabled
        /\ \A p \in handles : process[p] /= "killed"
        /\ handles = Configured

\* A plugin bound to fetch_schema whose policy is fail_closed is never gone around when it
\* refuses, is late, has crashed, or is stopped while the call is under way: the store
\* answers a lookup only if the plugin had nothing to say, or answered with a document
\* that cannot be used, which is no error to the policy.
RefusalIsFinal ==
    \A f \in fellThrough :
        \/ f.plugin = None
        \/ f.code \in {"OK", "Nil", "Unimplemented"}
        \/ cfg.plugins[f.plugin].on_error = "fail_open"

\* A server that begins to stop exits, once the clients that watch its health leave, and
\* one that starts comes to serve or to end: no plugin, however slow, holds it up.
StopEnds ==
    /\ phase = "draining" ~> phase = "exited"
    /\ phase = "closing" ~> Gone
    /\ phase = "bootstrap" ~> phase = "serving" \/ Gone

-----------------------------------------------------------------------------
(***************************************************************************)
(* Statements of the repository that the code does not keep.               *)
(***************************************************************************)

\* "Unset secret without default = fail-closed at load time": a file that binds
\* fetch_schema to a plugin with policy fail_closed and does not load is never served
\* from the store.
ConfigFailsClosed ==
    LET p == file.hooks["fetch_schema"]
    IN  file.read = "parsed" /\ ~file.disabled /\ p \in DOMAIN file.plugins
          /\ file.plugins[p].on_error = "fail_closed"
        => \A f \in fellThrough : f.plugin /= None

\* A plugin is kept "alive for the life of the CVT process. On shutdown: SIGTERM, 30-second
\* grace, SIGKILL": a process that ends on a signal leaves no plugin running.
SignalLeavesNothing == phase = "dead" => \A p \in Names : ~Alive(p)

\* cvt_plugin_up: "1 if the plugin subprocess is running and healthy, 0 otherwise".
UpMeansRunning == phase = "serving" => \A p \in up : Alive(p)

=============================================================================
