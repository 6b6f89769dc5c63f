--------------------------- MODULE MCPublicsList ---------------------------
(* PublicsList on a few rows and screens. *)
EXTENDS PublicsList, TLC
=============================================================================
