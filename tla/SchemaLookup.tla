---------------------------- MODULE SchemaLookup ----------------------------
(***************************************************************************)
(* What the rest of the service may assume of lookups in the schema        *)
(* registry, for one schema ID: the documents that SchemaCache has under   *)
(* its keys change one key at a time, a version's key takes documents of   *)
(* that version only (unless a plugin resolves an alias), and any key may  *)
(* lose its document at any time.                                          *)
(***************************************************************************)
CONSTANTS
  Versions,    \* non-empty version strings
  Docs,        \* OpenAPI documents
  VersionOf,   \* Docs -> Versions, info.version
  NoDoc,       \* absence of a document
  Latest,      \* the empty version string: the bare key
  PluginBound  \* TRUE when some plugin is bound to the fetch_schema hook

VARIABLE entries  \* the document found under each key, or NoDoc

Keys == Versions \cup {Latest}

Nothing == [k \in Keys |-> NoDoc]

Init == entries = Nothing

\* A registration or a fill writes one key; the other keys of the same
\* document are written in steps of their own.
Set(k, d) ==
  /\ PluginBound \/ k \in {Latest, VersionOf[d]}
  /\ entries' = [entries EXCEPT ![k] = d]

\* The key expires or is evicted, and the store does not supply it.
Forget(k) ==
  /\ entries[k] # NoDoc
  /\ entries' = [entries EXCEPT ![k] = NoDoc]

Restart == entries' = Nothing

Next ==
  \/ \E k \in Keys, d \in Docs : Set(k, d)
  \/ \E k \in Keys : Forget(k)
  \/ Restart

Spec == Init /\ [][Next]_entries

=============================================================================
