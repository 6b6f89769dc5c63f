----------------------------- MODULE MCFeedCells -----------------------------
(* FeedCells with cells and rows as model values.                            *)
EXTENDS FeedCells, TLC

Symmetry == Permutations(Cells) \cup Permutations(Rows)
=============================================================================
