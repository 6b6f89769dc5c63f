----------------------------- MODULE MCImageCells -----------------------------
(* ImageCells with one or two cells of each kind.                            *)
EXTENDS ImageCells, TLC

Symmetry == Permutations(Rows)
=============================================================================
