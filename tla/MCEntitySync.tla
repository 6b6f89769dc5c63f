---------------------------- MODULE MCEntitySync ----------------------------
(* EntitySync on a few rows and screens. *)
EXTENDS EntitySync, TLC

\* Rows and versions are interchangeable, and so are screens.
Symmetry == Permutations(Ids) \cup Permutations(Versions) \cup Permutations(Screens)

\* A bound: a run of three screens goes no further when the process was killed; AppSession
\* and PublicsList are checked through the restarts.
NotKilled == app # "killed"
=============================================================================
