--------------------------- MODULE ImageCells_proofs ---------------------------
(***************************************************************************)
(* The pictures of ImageCells, for any cells and rows and any number of    *)
(* requests.  The inductive invariant says whose answer may still reach    *)
(* the view a cell has: unless the cell was refilled under way, only       *)
(* requests for its present row; and no request is for a view to come.     *)
(***************************************************************************)
EXTENDS ImageCells, TLAPS

\* The cells whose picture must be their row's.
Sound == {c \in Cells : c \notin raced \cap ListCells}

\* No request is for a view its cell does not have yet.
NoFutureView == \A q \in requests : q.view <= view[q.cell]

\* What is on its way to the view of a sound cell is the picture of its row.
PendingIsOwn == \A c \in Sound : \A q \in Pending(c) : q.row = row[c]

IInv == TypeOK /\ NoFutureView /\ PendingIsOwn /\ OwnPictureUnlessRaced /\ QuietCellHasPicture

LEMMA InitIInv == Init => IInv
<1> SUFFICES ASSUME Init PROVE IInv
  OBVIOUS
<1> USE DEF Init
<1>1. TypeOK
  <2>1. \A c \in ListCells : c \in Cells /\ c \notin PostCells
    BY CellConstants DEF Cells
  <2>2. view \in [Cells -> Nat] /\ \A c \in visible \cup ListCells : view[c] > 0
    BY <2>1
  <2> QED BY <2>2 DEF TypeOK
<1>2. NoFutureView /\ PendingIsOwn /\ OwnPictureUnlessRaced /\ QuietCellHasPicture
  BY DEF NoFutureView, PendingIsOwn, Pending, OwnPictureUnlessRaced, QuietCellHasPicture
<1> QED BY <1>1, <1>2 DEF IInv

LEMMA FillStep ==
  ASSUME IInv, NEW c \in Cells, NEW r \in Rows, Fill(c, r)
  PROVE  IInv'
<1> USE CellConstants DEF IInv
<1> DEFINE new == [id |-> asked + 1, cell |-> c, view |-> view'[c], row |-> r]
<1>1. /\ row' = [row EXCEPT ![c] = r]
      /\ view' = [view EXCEPT ![c] = ViewAfterReuse(c)]
      /\ picture' = [picture EXCEPT ![c] = Blank]
      /\ visible' = visible \cup {c}
      /\ requests' = requests \cup {new}
      /\ failed' = failed \ {c}
      /\ asked' = asked + 1
  BY DEF Fill, PictureAfterReuse
<1>2. view'[c] \in Nat /\ view'[c] >= view[c] /\ (c \in PostCells => view'[c] > view[c])
  BY <1>1 DEF TypeOK, ViewAfterReuse
<1>3. new \in Requests /\ new.cell = c /\ new.row = r /\ new.view = view'[c]
  BY <1>1, <1>2 DEF TypeOK, Requests
<1> HIDE DEF new
<1>4. raced' = IF \E q \in requests : q.cell = c /\ q.view = view'[c]
               THEN raced \cup {c} ELSE raced \ {c}
  BY DEF Fill
<1>5. \A d \in Cells : d # c => /\ row'[d] = row[d] /\ view'[d] = view[d]
                               /\ picture'[d] = picture[d] /\ (d \in raced' <=> d \in raced)
                               /\ Pending(d)' = Pending(d)
  BY <1>1, <1>3, <1>4 DEF TypeOK, Pending
<1>6. row'[c] = r /\ picture'[c] = Blank /\ new \in Pending(c)'
  BY <1>1, <1>3 DEF TypeOK, Pending
<1>7. TypeOK'
  <2>1. \A d \in visible' \cup ListCells : view'[d] > 0
    <3>1. c \in ListCells => view[c] > 0
      BY DEF TypeOK
    <3>2. view'[c] > 0
      BY <1>2, <3>1 DEF TypeOK, Cells
    <3> QED BY <1>1, <1>5, <3>2 DEF TypeOK, Cells
  <2>2. raced' \subseteq Cells /\ failed' \subseteq Cells /\ visible' \subseteq Cells
    BY <1>1, <1>4 DEF TypeOK
  <2>3. row' \in [Cells -> Rows \cup {Blank}] /\ picture' \in [Cells -> Rows \cup {Blank}]
    BY <1>1 DEF TypeOK
  <2>4. ViewAfterReuse(c) \in Nat
    BY DEF ViewAfterReuse, TypeOK
  <2>5. view' \in [Cells -> Nat]
    BY <1>1, <2>4 DEF TypeOK
  <2>6. requests' \subseteq Requests /\ asked' \in Nat
    BY <1>1, <1>3 DEF TypeOK
  <2> QED BY <2>1, <2>2, <2>3, <2>5, <2>6 DEF TypeOK
<1>8. NoFutureView'
  BY <1>1, <1>2, <1>3, <1>5 DEF NoFutureView, TypeOK, Requests
<1>9. c \in Sound' => \A q \in Pending(c)' : q = new
  BY <1>1, <1>2, <1>4 DEF Sound, Pending, NoFutureView, TypeOK, Requests, Cells
<1>10. PendingIsOwn'
  BY <1>3, <1>5, <1>6, <1>9 DEF PendingIsOwn, Sound
<1>11. OwnPictureUnlessRaced'
  BY <1>5, <1>6 DEF OwnPictureUnlessRaced
<1>12. QuietCellHasPicture'
  BY <1>1, <1>5, <1>6 DEF QuietCellHasPicture, TypeOK
<1> QED BY <1>7, <1>8, <1>10, <1>11, <1>12

LEMMA ArriveStep ==
  ASSUME IInv, NEW q \in requests, Arrive(q)
  PROVE  IInv'
<1> USE DEF IInv
<1>1. q.cell \in Cells /\ q.row \in Rows
  BY DEF TypeOK, Requests
<1>2. /\ requests' = requests \ {q}
      /\ UNCHANGED <<visible, row, view, asked, raced, failed>>
  BY DEF Arrive
<1>3. \A d \in Cells : Pending(d)' = Pending(d) \ {q}
  BY <1>2 DEF Pending
<1>4. CASE q \in Pending(q.cell)
  <2>1. picture' = [picture EXCEPT ![q.cell] = q.row]
    BY <1>4 DEF Arrive
  <2>2. \A d \in Cells : d # q.cell => picture'[d] = picture[d] /\ q \notin Pending(d)
    BY <2>1 DEF TypeOK, Pending
  <2>3. picture'[q.cell] = q.row
    BY <1>1, <2>1 DEF TypeOK
  <2>4. q.cell \in Sound => q.row = row[q.cell]
    BY <1>4 DEF PendingIsOwn
  <2>5. OwnPictureUnlessRaced'
    BY <1>2, <2>2, <2>3, <2>4 DEF OwnPictureUnlessRaced, Sound
  <2>6. QuietCellHasPicture'
    BY <1>2, <1>3, <2>2, <2>3, <2>4 DEF QuietCellHasPicture, Sound, TypeOK
  <2>7. TypeOK'
    BY <1>1, <1>2, <2>1 DEF TypeOK
  <2>8. NoFutureView' /\ PendingIsOwn'
    BY <1>2, <1>3 DEF NoFutureView, PendingIsOwn, Sound
  <2> QED BY <2>5, <2>6, <2>7, <2>8
<1>5. CASE q \notin Pending(q.cell)
  <2>1. picture' = picture
    BY <1>5 DEF Arrive
  <2>2. \A d \in Cells : Pending(d)' = Pending(d)
    BY <1>3, <1>5 DEF Pending
  <2>3. OwnPictureUnlessRaced' /\ QuietCellHasPicture'
    BY <1>2, <2>1, <2>2 DEF OwnPictureUnlessRaced, QuietCellHasPicture, TypeOK
  <2>4. TypeOK' /\ NoFutureView' /\ PendingIsOwn'
    BY <1>2, <2>1, <2>2 DEF TypeOK, NoFutureView, PendingIsOwn, Sound
  <2> QED BY <2>3, <2>4
<1> QED BY <1>4, <1>5

LEMMA MissStep ==
  ASSUME IInv, NEW q \in requests, Miss(q)
  PROVE  IInv'
<1> USE DEF IInv
<1>1. q.cell \in Cells
  BY DEF TypeOK, Requests
<1>2. requests' = requests \ {q} /\ UNCHANGED <<visible, row, view, picture, asked, raced>>
  BY DEF Miss
<1>3. \A d \in Cells : Pending(d)' = Pending(d) \ {q}
  BY <1>2 DEF Pending
<1>4. failed' = IF q \in Pending(q.cell) THEN failed \cup {q.cell} ELSE failed
  BY DEF Miss
<1>5. \A d \in Cells : d \notin failed' => d \notin failed /\ Pending(d)' = Pending(d)
  BY <1>3, <1>4 DEF Pending
<1>6. TypeOK'
  BY <1>1, <1>2, <1>4 DEF TypeOK
<1>7. NoFutureView' /\ PendingIsOwn'
  BY <1>2, <1>3 DEF NoFutureView, PendingIsOwn, Sound
<1>8. OwnPictureUnlessRaced'
  BY <1>2 DEF OwnPictureUnlessRaced
<1>9. QuietCellHasPicture'
  BY <1>2, <1>5 DEF QuietCellHasPicture, TypeOK
<1> QED BY <1>6, <1>7, <1>8, <1>9

LEMMA StepIInv == IInv /\ [Next]_vars => IInv'
<1> SUFFICES ASSUME IInv, [Next]_vars PROVE IInv'
  OBVIOUS
<1>1. ASSUME NEW c \in Cells, Recycle(c) PROVE IInv'
  BY <1>1 DEF Recycle, IInv, TypeOK, NoFutureView, PendingIsOwn, Sound, Pending,
              OwnPictureUnlessRaced, QuietCellHasPicture
<1>2. CASE UNCHANGED vars
  BY <1>2 DEF vars, IInv, TypeOK, NoFutureView, PendingIsOwn, Sound, Pending,
              OwnPictureUnlessRaced, QuietCellHasPicture
<1> QED BY <1>1, <1>2, FillStep, ArriveStep, MissStep DEF Next

LEMMA Invariance == Spec => []IInv
<1> QED BY InitIInv, StepIInv, PTL DEF Spec

\* Every reachable state of the cells is well typed.
THEOREM TypeCorrect == Spec => []TypeOK
<1>1. IInv => TypeOK
  BY DEF IInv
<1> QED BY <1>1, Invariance, PTL

\* A cell shows another row's picture only if it was refilled while a picture for its
\* view was on its way, and a feed cell never does.
THEOREM OwnPicture == Spec => []OwnPictureUnlessRaced
<1>1. IInv => OwnPictureUnlessRaced
  BY DEF IInv
<1> QED BY <1>1, Invariance, PTL

\* A cell for which nothing is on its way shows the picture of its row.
THEOREM NoPictureLost == Spec => []QuietCellHasPicture
<1>1. IInv => QuietCellHasPicture
  BY DEF IInv
<1> QED BY <1>1, Invariance, PTL
=============================================================================
