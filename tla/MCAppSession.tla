---------------------------- MODULE MCAppSession ----------------------------
(* AppSession with two accounts, rows and screens. *)
EXTENDS AppSession, TLC

\* Rows, accounts and screens are interchangeable.
Symmetry == Permutations(Ids) \cup Permutations(Versions) \cup Permutations(Screens)
=============================================================================
