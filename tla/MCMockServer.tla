---------------------------- MODULE MCMockServer ----------------------------
(***************************************************************************)
(* Instances of MockServer: a file and a URL, and two files.               *)
(***************************************************************************)
EXTENDS MockServer

CONSTANTS file, url

FileThenUrl == <<file, url>>
OneFile == <<file>>

=============================================================================
