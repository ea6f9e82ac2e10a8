---------------------------- MODULE MCStoreParity ----------------------------
(***************************************************************************)
(* An instance of StoreParity: the calls of two schemas, of runs, of       *)
(* comparisons and of a consumer, on stores compared call by call.         *)
(***************************************************************************)
EXTENDS StoreParity

TwoSchemas == 1 .. 2

Ownerships == {None, [owner |-> Nobody, readOnly |-> TRUE], [owner |-> "team", readOnly |-> TRUE]}

Symmetry == Permutations(Versions) \cup Permutations(Docs) \cup Permutations(Errors)
                \cup Permutations(Releases)

=============================================================================
