----------------------------- MODULE FeedCells -----------------------------
(***************************************************************************)
(* FeedViewController and FeedTableViewCell: the strip of pictures in each *)
(* row of the feed and the page control under it.                          *)
(*                                                                         *)
(* How far a row's strip is scrolled is kept in its NewsModel, so that it  *)
(* is found again when the row comes back in another cell.  The cell       *)
(* writes it in scrollViewDidScroll, which UIKit calls for a finger, for   *)
(* every step of an animated scroll and also when setNews restores the     *)
(* offset.  A tap on the page control starts an animated scroll, and a     *)
(* finger let go of the strip leaves it to its momentum; both go on in a   *)
(* cell that has left the screen, until the cell is set up again.          *)
(***************************************************************************)
EXTENDS Integers

CONSTANTS
  Cells,     (* the cells of the table and of its reuse pool               *)
  Rows,      (* the rows of the feed                                       *)
  None,      (* no row                                                     *)
  LastPage   (* the pictures of a row are 0 .. LastPage                    *)

ASSUME StripConstants == None \notin Rows /\ LastPage \in Nat

VARIABLES
  shown,     (* the cells on the screen                                    *)
  row,       (* newsModel: the row each cell was last set up with          *)
  offset,    (* the page the scroll view of each cell is at                *)
  goal,      (* the page it goes on to by itself, or its offset            *)
  dot,       (* currentPage of its page control                            *)
  position,  (* scrollPosition of each row's NewsModel                     *)
  overtaken  (* history: the cells on whose row a scroll that another cell *)
             (* began went on                                              *)

vars == <<shown, row, offset, goal, dot, position, overtaken>>

Pages == 0 .. LastPage

Init ==
  /\ shown = {}
  /\ row = [c \in Cells |-> None]
  /\ offset = [c \in Cells |-> 0]
  /\ goal = [c \in Cells |-> 0]
  /\ dot = [c \in Cells |-> 0]
  /\ position = [r \in Rows |-> 0]
  /\ overtaken = {}

\* The model scrollViewDidScroll writes to while setNews restores the offset of r:
\* cellForRowAt sets newsModel first.  Mutant: setNews comes first.
Restoring_Old(c, r) == row[c]
Restoring(c, r) == r

\* setNews: the strip goes back to where the row was left.  Mutant: it stays.
Restored_Kept(c, r) == offset[c]
Restored(c, r) == position[r]

\* cellForRowAt and setNews, after prepareForReuse has blanked the pictures that setNews
\* sets again, the same ten for every row.  The page control goes to the first page, after
\* scrollViewDidScroll has put it right.
Show(c, r) ==
  /\ c \notin shown
  /\ \A d \in shown : row[d] # r
  /\ shown' = shown \cup {c}
  /\ row' = [row EXCEPT ![c] = r]
  /\ offset' = [offset EXCEPT ![c] = Restored(c, r)]
  /\ goal' = [goal EXCEPT ![c] = Restored(c, r)]
  /\ dot' = [dot EXCEPT ![c] = 0]
  /\ position' = [q \in Rows |-> IF q = Restoring(c, r) /\ Restored(c, r) # offset[c]
                                 THEN Restored(c, r) ELSE position[q]]
  /\ overtaken' = overtaken \ {c}

\* The row leaves the screen.
Hide(c) ==
  /\ c \in shown
  /\ shown' = shown \ {c}
  /\ UNCHANGED <<row, offset, goal, dot, position, overtaken>>

\* The page control after a scroll to p.
DotAt(c, p) == p

\* scrollViewDidScroll
DidScroll(c, p) ==
  /\ offset' = [offset EXCEPT ![c] = p]
  /\ position' = [position EXCEPT ![row[c]] = p]
  /\ dot' = [dot EXCEPT ![c] = DotAt(c, p)]

\* A finger scrolls the strip by a page and ends what it did by itself.
Drag(c, p) ==
  /\ c \in shown
  /\ p \in {offset[c] - 1, offset[c] + 1}
  /\ DidScroll(c, p)
  /\ goal' = [goal EXCEPT ![c] = p]
  /\ overtaken' = overtaken \ {c}
  /\ UNCHANGED <<shown, row>>

\* The finger lets go in motion: the momentum takes the strip to the next page.
Fling(c, p) ==
  /\ c \in shown
  /\ p \in {offset[c] - 1, offset[c] + 1}
  /\ goal' = [goal EXCEPT ![c] = p]
  /\ UNCHANGED <<shown, row, offset, dot, position, overtaken>>

\* pageControlValueChanged: a tap on the page control moves it by one page.
TapDots(c, p) ==
  /\ c \in shown
  /\ p \in {dot[c] - 1, dot[c] + 1}
  /\ dot' = [dot EXCEPT ![c] = p]
  /\ goal' = [goal EXCEPT ![c] = p]
  /\ UNCHANGED <<shown, row, offset, position, overtaken>>

\* A step of an animated scroll or of the momentum.
Glide(c) ==
  /\ offset[c] # goal[c]
  /\ DidScroll(c, IF offset[c] < goal[c] THEN offset[c] + 1 ELSE offset[c] - 1)
  /\ overtaken' = (overtaken \ {c}) \cup {d \in shown \ {c} : row[d] = row[c]}
  /\ UNCHANGED <<shown, row, goal>>

Next ==
  \/ \E c \in Cells, r \in Rows : Show(c, r)
  \/ \E c \in Cells : Hide(c) \/ Glide(c)
  \/ \E c \in Cells, p \in Pages : Drag(c, p) \/ Fling(c, p) \/ TapDots(c, p)

Spec == Init /\ [][Next]_vars
-----------------------------------------------------------------------------
(* Properties.                                                             *)

TypeOK ==
  /\ shown \subseteq Cells
  /\ row \in [Cells -> Rows \cup {None}]
  /\ \A c \in Cells : row[c] = None => c \notin shown /\ goal[c] = offset[c]
  /\ offset \in [Cells -> Pages]
  /\ goal \in [Cells -> Pages]
  /\ dot \in [Cells -> Pages]
  /\ position \in [Rows -> Pages]
  /\ overtaken \subseteq Cells

\* In whatever order rows come and go through the cells, the model of a row on the
\* screen holds where its strip is, so that it is found there again, except when a
\* scroll that began in another cell went on after the row left it.
PositionKept ==
  \A c \in shown \ overtaken : position[row[c]] = offset[c]

\* A row that is not on the screen keeps its place until it is shown again, whatever
\* the cells do for other rows; only a scroll that began while it was there moves on.
HiddenRowsStay ==
  [][\A r \in Rows : position'[r] # position[r] =>
       \E c \in Cells : row[c] = r /\ (c \in shown \/ offset[c] # goal[c])]_vars
=============================================================================
