----------------------------- MODULE ImageCells -----------------------------
(***************************************************************************)
(* Pictures in reused table cells: ImageService.get and the cells that     *)
(* call it.                                                                *)
(*                                                                         *)
(* A cell asks for the picture of the row it is filled with, and the       *)
(* completion puts what arrives into an image view, whatever the cell is   *)
(* filled with by then.  There are two kinds of cells.  MyFriendTwo-       *)
(* TableViewCell and MyPublicsTableViewCell keep one image view and blank  *)
(* it on reuse.  NewsFeedTableViewCell and the cells of a post's details   *)
(* drop all their views on reuse and make new ones, so that a late picture *)
(* lands in a view nobody sees.                                            *)
(***************************************************************************)
EXTENDS Naturals

CONSTANTS
  ListCells,  (* cells that keep their image view                          *)
  PostCells,  (* cells that make a new one on reuse                        *)
  Rows,       (* the rows; a row's picture has the row's name              *)
  Blank,      (* no row, no picture                                        *)
  MayFail,    (* may a picture not come?                                   *)
  MaxAsked    (* bound: pictures asked for                                 *)

ASSUME CellConstants ==
  /\ ListCells \cap PostCells = {}
  /\ Blank \notin Rows
  /\ MayFail \in BOOLEAN
  /\ MaxAsked \in Nat

VARIABLES
  visible,   (* the cells on the screen; the others are in the reuse pool   *)
  row,       (* the row each cell was last filled with                      *)
  view,      (* the number of each cell's present image view, 0 without     *)
  picture,   (* the picture in that view                                    *)
  requests,  (* the requests on their way                                   *)
  asked,     (* the requests made so far                                    *)
  raced,     (* history: the cells refilled while a request was on its way  *)
             (* to the very view they were filled with again                *)
  failed     (* history: the cells whose view a request failed for          *)

vars == <<visible, row, view, picture, requests, asked, raced, failed>>

Cells == ListCells \cup PostCells
Requests == [id : Nat, cell : Cells, view : Nat, row : Rows]

Pending(c) == {q \in requests : q.cell = c /\ q.view = view[c]}

Init ==
  /\ visible = {}
  /\ row = [c \in Cells |-> Blank]
  /\ view = [c \in Cells |-> IF c \in PostCells THEN 0 ELSE 1]
  /\ picture = [c \in Cells |-> Blank]
  /\ requests = {}
  /\ asked = 0
  /\ raced = {}
  /\ failed = {}

\* prepareForReuse, and addSubviews of the cells that dropped their views.
\* Mutants: the views are dropped and not made again; every cell keeps its views.
ViewAfterReuse_Dropped(c) == IF c \in PostCells THEN 0 ELSE view[c]
ViewAfterReuse_Kept(c) == view[c]
ViewAfterReuse(c) == IF c \in PostCells THEN view[c] + 1 ELSE view[c]

\* Mutant: the picture stays until another arrives.
PictureAfterReuse_Kept(c) == picture[c]
PictureAfterReuse(c) == Blank

\* dequeueReusableCell and the cell's setup with a row.
Fill(c, r) ==
  /\ c \notin visible
  /\ asked < MaxAsked
  /\ visible' = visible \cup {c}
  /\ row' = [row EXCEPT ![c] = r]
  /\ view' = [view EXCEPT ![c] = ViewAfterReuse(c)]
  /\ picture' = [picture EXCEPT ![c] = PictureAfterReuse(c)]
  /\ asked' = asked + 1
  /\ requests' = requests \cup {[id |-> asked + 1, cell |-> c, view |-> view'[c], row |-> r]}
  /\ raced' = IF \E q \in requests : q.cell = c /\ q.view = view'[c]
              THEN raced \cup {c} ELSE raced \ {c}
  /\ failed' = failed \ {c}

\* The row leaves the screen, or the table is reloaded.
Recycle(c) ==
  /\ c \in visible
  /\ visible' = visible \ {c}
  /\ UNCHANGED <<row, view, picture, requests, asked, raced, failed>>

\* The completion with a picture; requests are answered in any order.
Arrive(q) ==
  /\ requests' = requests \ {q}
  /\ picture' = IF q \in Pending(q.cell) THEN [picture EXCEPT ![q.cell] = q.row] ELSE picture
  /\ UNCHANGED <<visible, row, view, asked, raced, failed>>

\* The completion without one: no data, data that is no picture, or no URL.
Miss(q) ==
  /\ MayFail
  /\ requests' = requests \ {q}
  /\ failed' = IF q \in Pending(q.cell) THEN failed \cup {q.cell} ELSE failed
  /\ UNCHANGED <<visible, row, view, picture, asked, raced>>

Next ==
  \/ \E c \in Cells, r \in Rows : Fill(c, r)
  \/ \E c \in Cells : Recycle(c)
  \/ \E q \in requests : Arrive(q) \/ Miss(q)

Spec == Init /\ [][Next]_vars
-----------------------------------------------------------------------------
(* Properties.                                                             *)

TypeOK ==
  /\ visible \subseteq Cells
  /\ row \in [Cells -> Rows \cup {Blank}]
  /\ view \in [Cells -> Nat]
  /\ \A c \in visible \cup ListCells : view[c] > 0
  /\ picture \in [Cells -> Rows \cup {Blank}]
  /\ requests \subseteq Requests
  /\ asked \in Nat
  /\ raced \subseteq Cells
  /\ failed \subseteq Cells

\* A cell shows the picture of another row only when it was refilled while a picture
\* for its view was on its way; the cells that drop their views never do.
OwnPictureUnlessRaced ==
  \A c \in Cells : c \notin raced \cap ListCells => picture[c] \in {Blank, row[c]}

\* A cell for which nothing is on its way shows the picture of its row, unless a
\* request failed or raced: no picture is lost to an earlier view.
QuietCellHasPicture ==
  \A c \in visible : Pending(c) = {} /\ c \notin failed /\ c \notin raced \cap ListCells
    => picture[c] = row[c]
=============================================================================
