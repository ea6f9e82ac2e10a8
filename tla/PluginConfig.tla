---------------------------- MODULE PluginConfig ----------------------------
(***************************************************************************)
(* Loading ~/.cvt/config.yaml: which files the loader accepts, and the     *)
(* configuration it makes of one.  A file is a record                      *)
(*   read      "missing", "unreadable", "garbled" or "parsed"              *)
(*   disabled  CVT_DISABLE_PLUGINS=1                                       *)
(*   version   config_version                                              *)
(*   plugins   a stanza for each plugin name of the file                   *)
(*   hooks     the plugin bound to each hook, or None                      *)
(* A value of a stanza is represented by what its ${...} comes to: "plain" *)
(* text, a variable that is "set", one "unset" with no default, one with a *)
(* "default", or "open" when the brace is never closed.                    *)
(***************************************************************************)
EXTENDS Naturals

CONSTANTS
    Names,      \* plugin names a file may use
    ValidNames, \* those the name pattern accepts
    Keys,       \* keys of a stanza's config
    None

ASSUME ConfigAssumption == ValidNames \subseteq Names

Hooks == {"fetch_schema", "register_consumer_usage",
          "on_breaking_change_detected", "on_validation_failed"}

SupportedConfigVersion == 1

Policies == {"fail_closed", "fail_open"}

EmptyConfig == [plugins |-> << >>, hooks |-> [h \in Hooks |-> None]]

\* Absolute after ~ is expanded, below the plugin directory and not the directory.
BinaryAllowed(binary) == binary = "inside"

\* A variable that is unset, or set to nothing, needs a default.
Expands(value) == value \notin {"unset", "open"}

StanzaAllowed(name, stanza) ==
    /\ name \in ValidNames
    /\ BinaryAllowed(stanza.binary)
    /\ stanza.on_error \in Policies \cup {"absent"}
    /\ \A k \in DOMAIN stanza.config : Expands(stanza.config[k])
    /\ stanza.secrets \subseteq DOMAIN stanza.config

\* What the loader puts in for what the stanza leaves out.
WithDefaults(stanza) ==
    [on_error |-> IF stanza.on_error = "absent" THEN "fail_closed" ELSE stanza.on_error,
     config   |-> DOMAIN stanza.config]

HooksDeclared(file) == \A h \in Hooks : file.hooks[h] \in DOMAIN file.plugins \cup {None}

Accepted(file) ==
    /\ file.read = "parsed"
    /\ file.version \in {0, SupportedConfigVersion}
    /\ \A p \in DOMAIN file.plugins : StanzaAllowed(p, file.plugins[p])
    /\ HooksDeclared(file)

\* The configuration, or None for an error.
Load(file) ==
    IF file.disabled \/ file.read = "missing" THEN EmptyConfig
    ELSE IF Accepted(file)
         THEN [plugins |-> [p \in DOMAIN file.plugins |-> WithDefaults(file.plugins[p])],
               hooks   |-> file.hooks]
         ELSE None

=============================================================================
