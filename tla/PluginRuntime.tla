---------------------------- MODULE PluginRuntime ----------------------------
(***************************************************************************)
(* The plugins of one cvt process: the manager that forks them in          *)
(* parallel, all or none, and stops them; and the hooks adapter through    *)
(* which calls reach them, with its timeout, its audit record and its      *)
(* on_error policy.  ServerRuntime composes this with the process.         *)
(*                                                                         *)
(* A plugin is another process: it may crash at any time, answer late,     *)
(* never or with an error.  Nothing watches it after its start.            *)
(***************************************************************************)
EXTENDS PluginConfig, Sequences, FiniteSets

CONSTANTS
    Services,   \* the services each plugin declares: [Names -> SUBSET {"registry", "events"}]
    Callers,    \* goroutines that call hooks
    MaxCalls    \* hook calls in a behaviour

ASSUME RuntimeAssumption ==
    /\ Services \in [Names -> SUBSET {"registry", "events"}]
    /\ MaxCalls \in Nat

VARIABLES
    cfg,      \* the manager's Config
    verified, \* plugins whose record in state.json matches the configuration and the binary
    worker,   \* where each plugin's startOne is
    process,  \* each plugin's process
    handles,  \* m.handles: the names of the running plugins
    up,       \* the cvt_plugin_up series that are 1
    info,     \* the plugins with a cvt_plugin_info series
    call,     \* the hook call each caller is in
    calls,    \* calls made so far
    audited   \* the outcomes audited for each call

pluginVars == <<verified, worker, process, handles, up, info>>
callVars == <<call, calls, audited>>

Stages == {"idle", "verify", "connect", "handshake", "info", "config", "services",
           "publish", "started", "failed"}
Processes == {"none", "running", "crashed", "killed"}
Codes == {"OK", "Nil", "Unimplemented", "Error", "DeadlineExceeded", "Unavailable"}
Outcomes == {"ok", "error", "timeout"}

NoCall == [pc |-> "idle", id |-> 0, hook |-> None, plugin |-> None, code |-> None, result |-> None]

PluginInit ==
    /\ cfg = EmptyConfig
    /\ worker = [p \in Names |-> "idle"]
    /\ process = [p \in Names |-> "none"]
    /\ handles = {} /\ up = {} /\ info = {}
    /\ call = [c \in Callers |-> NoCall]
    /\ calls = 0
    /\ audited = [i \in 1 .. MaxCalls |-> << >>]

Alive(p) == process[p] = "running"

\* client.Kill(): also reaps a process that has crashed.
Kill(p) == process' = [process EXCEPT ![p] = IF @ = "none" THEN @ ELSE "killed"]

-----------------------------------------------------------------------------
(***************************************************************************)
(* Manager.Start: one startOne for every configured plugin.                *)
(***************************************************************************)

Advance(p, from, to) == worker[p] = from /\ worker' = [worker EXCEPT ![p] = to]

\* Any error leaves startOne through the deferred Kill.
StartFails(p) ==
    /\ worker[p] \in {"connect", "handshake", "info", "config", "services"}
    /\ worker' = [worker EXCEPT ![p] = "failed"]
    /\ Kill(p)
    /\ UNCHANGED <<verified, handles, up, info>>

Verify(p) ==
    /\ Advance(p, "verify", IF p \in verified THEN "connect" ELSE "failed")
    /\ UNCHANGED <<verified, process, handles, up, info>>

Connect(p) ==
    /\ Advance(p, "connect", "handshake")
    /\ process' = [process EXCEPT ![p] = "running"]
    /\ UNCHANGED <<verified, handles, up, info>>

\* Dispense makes a client of the connection, without a word to the plugin.
DispenseHandshake(p) ==
    /\ Advance(p, "handshake", "info")
    /\ UNCHANGED <<verified, process, handles, up, info>>

Info(p) ==
    /\ Alive(p)
    /\ Advance(p, "info", "config")
    /\ UNCHANGED <<verified, process, handles, up, info>>

\* One SetConfig for each key, in order: with none, nothing is sent.
SetConfig(p) ==
    /\ Alive(p) \/ cfg.plugins[p].config = {}
    /\ Advance(p, "config", "services")
    /\ UNCHANGED <<verified, process, handles, up, info>>

DispenseServices(p) ==
    /\ Advance(p, "services", "publish")
    /\ UNCHANGED <<verified, process, handles, up, info>>

Publish(p) ==
    /\ Advance(p, "publish", "started")
    /\ up' = up \cup {p}
    /\ info' = info \cup {p}
    /\ UNCHANGED <<verified, process, handles>>

StartOne(p) ==
    \/ Verify(p) \/ Connect(p) \/ DispenseHandshake(p) \/ Info(p) \/ SetConfig(p)
    \/ DispenseServices(p) \/ Publish(p) \/ StartFails(p)

Configured == DOMAIN cfg.plugins
AllReported == \A p \in Configured : worker[p] \in {"started", "failed"}
SomeFailed == \E p \in Configured : worker[p] = "failed"

\* Mutant of TearDown: the identity series stays.
TearDownKeepingInfo(p) ==
    /\ Kill(p)
    /\ up' = up \ {p}
    /\ UNCHANGED info

\* A plugin that is torn down, by the roll-back of Start or by Stop.
TearDown(p) ==
    /\ Kill(p)
    /\ up' = up \ {p}
    /\ info' = info \ {p}

Crash(p) ==
    /\ Alive(p)
    /\ process' = [process EXCEPT ![p] = "crashed"]
    /\ UNCHANGED <<verified, worker, handles, up, info>>

-----------------------------------------------------------------------------
(***************************************************************************)
(* HooksAdapter: one call of a hook.                                       *)
(***************************************************************************)

ServiceOf(hook) ==
    IF hook \in {"fetch_schema", "register_consumer_usage"} THEN "registry" ELSE "events"

\* The client a hook call gets: Registry(name) and Events(name).
HasClient(p, hook) == p \in handles /\ ServiceOf(hook) \in Services[p]

At(c, pc) == call[c].pc = pc

\* The adapter was given no manager (NoopHooks), or the hook is not bound: no call at all.
BeginHook(c, hook, bound) ==
    LET p == IF bound THEN cfg.hooks[hook] ELSE None
    IN  /\ calls < MaxCalls
        /\ calls' = calls + 1
        /\ call' = [call EXCEPT ![c] =
               [pc |-> IF p = None THEN "back" ELSE "bound", id |-> calls + 1, hook |-> hook,
                plugin |-> p, code |-> None, result |-> "noop"]]
        /\ UNCHANGED audited

\* Mutant of LookUpClient: a call for which there is no client is not audited.
LookUpClientSilently(c) ==
    /\ At(c, "bound")
    /\ call' = [call EXCEPT
           ![c].pc = IF HasClient(call[c].plugin, call[c].hook) THEN "rpc" ELSE "back",
           ![c].code = IF HasClient(call[c].plugin, call[c].hook) THEN None ELSE "Unavailable"]
    /\ UNCHANGED <<calls, audited>>

\* The client is read under the manager's lock and used after it.
LookUpClient(c) ==
    /\ At(c, "bound")
    /\ call' = [call EXCEPT
           ![c].pc = IF HasClient(call[c].plugin, call[c].hook) THEN "rpc" ELSE "audit",
           ![c].code = IF HasClient(call[c].plugin, call[c].hook) THEN None ELSE "Unavailable"]
    /\ UNCHANGED <<calls, audited>>

\* The answer: a plugin that is not alive has none.
Reply(c) ==
    /\ At(c, "rpc")
    /\ \E code \in IF Alive(call[c].plugin) THEN {"OK", "Nil", "Unimplemented", "Error"}
                                            ELSE {"Unavailable"} :
           call' = [call EXCEPT ![c].pc = "audit", ![c].code = code]
    /\ UNCHANGED <<calls, audited>>

\* Mutant of TimeOut: only reads have a deadline.
TimeOutOfReads(c) ==
    /\ At(c, "rpc")
    /\ call[c].hook = "fetch_schema"
    /\ call' = [call EXCEPT ![c].pc = "audit", ![c].code = "DeadlineExceeded"]
    /\ UNCHANGED <<calls, audited>>

\* The deadline of the call.
TimeOut(c) ==
    /\ At(c, "rpc")
    /\ call' = [call EXCEPT ![c].pc = "audit", ![c].code = "DeadlineExceeded"]
    /\ UNCHANGED <<calls, audited>>

OutcomeOf(code) ==
    CASE code \in {"OK", "Nil"} -> "ok"
      [] code = "DeadlineExceeded" -> "timeout"
      [] OTHER -> "error"

\* fail_open swallows the error.
ApplyOnError(p) == IF cfg.plugins[p].on_error = "fail_closed" THEN "error" ELSE "noop"

\* Mutant of ResultOf: an answer that is late counts as none.
ResultOfPatient(p, code) ==
    CASE code = "OK" -> "reply"
      [] code \in {"Nil", "Unimplemented", "DeadlineExceeded"} -> "noop"
      [] OTHER -> ApplyOnError(p)

\* What the caller gets: the plugin's answer, the answer of no plugin, or an error.
ResultOf(p, code) ==
    CASE code = "OK" -> "reply"
      [] code \in {"Nil", "Unimplemented"} -> "noop"
      [] OTHER -> ApplyOnError(p)

\* Metrics and audit come before the answer.
Audit(c) ==
    /\ At(c, "audit")
    /\ audited' = [audited EXCEPT ![call[c].id] = Append(@, OutcomeOf(call[c].code))]
    /\ call' = [call EXCEPT ![c].pc = "back",
                            ![c].result = ResultOf(call[c].plugin, call[c].code)]
    /\ UNCHANGED calls

HookStep(c) == LookUpClient(c) \/ Reply(c) \/ TimeOut(c) \/ Audit(c)

=============================================================================
