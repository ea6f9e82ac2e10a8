--------------------------- MODULE MCPluginInstall ---------------------------
(***************************************************************************)
(* Instances of PluginInstall for TLC: two plugins that may be installed   *)
(* from outside to the same path, or one in place where the other is.      *)
(***************************************************************************)
EXTENDS PluginInstall

CONSTANTS rest, slack, bin, b1, b2, p1, p2, p3

Install(names, builds) ==
  [op : {"install"}, name : names, path : {bin}, build : builds]

Remove(names) == [op : {"remove"}, name : names]

SharedPath ==
  Install({rest}, {b1, b2}) \cup Install({slack}, {b1, NoFile})
    \cup Remove({rest, slack})

=============================================================================
