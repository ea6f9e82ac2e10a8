--------------------------- MODULE AtomicRegistry ---------------------------
(***************************************************************************)
(* What RegisterSchema's compatibility check promises: each schema has a   *)
(* line of published documents, and a checked registration compares its    *)
(* document with the end of that line and extends it in a single step.     *)
(* The only licence is that the end of the line may have been forgotten    *)
(* (evicted from the cache), in which case nothing is compared.            *)
(***************************************************************************)
CONSTANTS Schemas, Calls, Docs, NoDoc

VARIABLES
  line,    \* the document at the end of each schema's line, or NoDoc
  verdict  \* per call: <<baseline, published document>>, or <<>> before

vars == <<line, verdict>>

Init ==
  /\ line = [s \in Schemas |-> NoDoc]
  /\ verdict = [c \in Calls |-> <<>>]

\* Compare with the end of the line and extend it.
Publish(c, s, d) ==
  /\ verdict[c] = <<>>
  /\ \E old \in {line[s], NoDoc} :
       verdict' = [verdict EXCEPT ![c] = <<old, d>>]
  /\ line' = [line EXCEPT ![s] = d]

\* A plugin, the authority on what is deployed, moves the line.
Adopt(s, d) ==
  /\ line' = [line EXCEPT ![s] = d]
  /\ UNCHANGED verdict

Restart ==
  /\ line' = [s \in Schemas |-> NoDoc]
  /\ UNCHANGED verdict

Next ==
  \/ \E c \in Calls, s \in Schemas, d \in Docs : Publish(c, s, d)
  \/ \E s \in Schemas, d \in Docs : Adopt(s, d)
  \/ Restart

Spec == Init /\ [][Next]_vars

=============================================================================
