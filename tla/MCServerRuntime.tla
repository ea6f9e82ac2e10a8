--------------------------- MODULE MCServerRuntime ---------------------------
(***************************************************************************)
(* Instances of ServerRuntime: two plugins, one with both services and a   *)
(* policy that refuses, one for events; files that load, files that do not *)
(* and no file.                                                            *)
(***************************************************************************)
EXTENDS ServerRuntime, TLC

CONSTANTS registry, slack, token

OfferedServices == (registry :> {"registry", "events"}) @@ (slack :> {"events"})

Registry(value) == [binary |-> "inside", on_error |-> "fail_closed",
                    config |-> (token :> value), secrets |-> {token}]
Slack == [binary |-> "inside", on_error |-> "fail_open", config |-> << >>, secrets |-> {}]
Bound(fetch, event) ==
    [h \in Hooks |-> CASE h = "fetch_schema" -> fetch
                       [] h = "register_consumer_usage" -> fetch
                       [] h = "on_breaking_change_detected" -> event
                       [] OTHER -> None]

Both(value) ==
    [read |-> "parsed", disabled |-> FALSE, version |-> 1,
     plugins |-> (registry :> Registry(value)) @@ (slack :> Slack),
     hooks |-> Bound(registry, slack)]

\* fetch_schema bound to a plugin that does not offer the service, and fails open.
Misbound == [Both("set") EXCEPT !.hooks = Bound(slack, registry),
                                !.plugins[registry].on_error = "absent"]

ConfigFiles == {Both("set"), Both("unset"), Misbound,
                [Both("set") EXCEPT !.disabled = TRUE],
                [Both("set") EXCEPT !.hooks = Bound(token, slack)]}

=============================================================================
