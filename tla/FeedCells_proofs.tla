--------------------------- MODULE FeedCells_proofs ---------------------------
(***************************************************************************)
(* Proofs about FeedCells, for any cells and rows and any number of        *)
(* pictures.  A scroll writes the place of one row and the offset of one   *)
(* cell; that no other cell on the screen shows the row is the rest of the *)
(* inductive invariant.                                                    *)
(***************************************************************************)
EXTENDS FeedCells, TLAPS

\* No row is in two cells on the screen.
OneCellPerRow == \A c, d \in shown : row[c] = row[d] => c = d

Inv == TypeOK /\ OneCellPerRow /\ PositionKept

\* The step of a scroll that goes on by itself stays within the pictures.
Step(c) == IF offset[c] < goal[c] THEN offset[c] + 1 ELSE offset[c] - 1

LEMMA StepInPages ==
  ASSUME TypeOK, NEW c \in Cells, offset[c] # goal[c]
  PROVE  Step(c) \in Pages /\ row[c] \in Rows
<1>1. offset[c] \in Pages /\ goal[c] \in Pages
  BY DEF TypeOK
<1>2. LastPage \in Nat
  BY StripConstants
<1>3. Step(c) \in Pages
  BY <1>1, <1>2 DEF Step, Pages
<1>4. row[c] \in Rows
  BY DEF TypeOK
<1> QED BY <1>3, <1>4

\* A step of such a scroll, with the new offset by its name.
LEMMA GlideIsStep ==
  ASSUME NEW c \in Cells, Glide(c)
  PROVE  /\ offset[c] # goal[c]
         /\ DidScroll(c, Step(c))
         /\ overtaken' = (overtaken \ {c}) \cup {d \in shown \ {c} : row[d] = row[c]}
         /\ UNCHANGED <<shown, row, goal>>
BY DEF Glide, Step

\* A scroll keeps the types.
LEMMA ScrollType ==
  ASSUME TypeOK, NEW c \in Cells, NEW p \in Pages, row[c] \in Rows, DidScroll(c, p)
  PROVE  /\ offset' \in [Cells -> Pages]
         /\ position' \in [Rows -> Pages]
         /\ dot' \in [Cells -> Pages]
BY DEF TypeOK, DidScroll, DotAt

\* Every step keeps the types.
LEMMA TypeStep ==
  ASSUME TypeOK, [Next]_vars
  PROVE  TypeOK'
<1>0. 0 \in Pages
  BY StripConstants DEF Pages
<1>1. ASSUME NEW c \in Cells, NEW r \in Rows, Show(c, r) PROVE TypeOK'
  <2>1. position[r] \in Pages /\ r # None
    BY StripConstants DEF TypeOK
  <2> QED BY <1>0, <1>1, <2>1 DEF TypeOK, Show, Restored, Restoring
<1>2. ASSUME NEW c \in Cells, Hide(c) PROVE TypeOK'
  BY <1>2 DEF TypeOK, Hide
<1>3. ASSUME NEW c \in Cells, NEW p \in Pages, Drag(c, p) PROVE TypeOK'
  <2>1. row[c] \in Rows
    BY <1>3 DEF TypeOK, Drag
  <2>2. /\ offset' \in [Cells -> Pages]
        /\ position' \in [Rows -> Pages]
        /\ dot' \in [Cells -> Pages]
    BY <1>3, <2>1, ScrollType DEF Drag
  <2> QED BY <1>3, <2>1, <2>2 DEF TypeOK, Drag, DidScroll
<1>4. ASSUME NEW c \in Cells, NEW p \in Pages, Fling(c, p) \/ TapDots(c, p) PROVE TypeOK'
  BY <1>4 DEF TypeOK, Fling, TapDots
<1>5. ASSUME NEW c \in Cells, Glide(c) PROVE TypeOK'
  <2>1. Step(c) \in Pages /\ row[c] \in Rows
    BY <1>5, StepInPages, GlideIsStep
  <2>2. /\ offset' \in [Cells -> Pages]
        /\ position' \in [Rows -> Pages]
        /\ dot' \in [Cells -> Pages]
    BY <1>5, <2>1, ScrollType, GlideIsStep
  <2>3. \A d \in Cells : row'[d] = None => goal'[d] = offset'[d]
    BY <1>5, <2>1, GlideIsStep, StripConstants DEF TypeOK, DidScroll
  <2> QED BY <1>5, <2>2, <2>3, GlideIsStep DEF TypeOK
<1>6. CASE UNCHANGED vars
  BY <1>6 DEF TypeOK, vars
<1> QED BY <1>1, <1>2, <1>3, <1>4, <1>5, <1>6 DEF Next

\* Every step keeps the rows in one cell each: a row that is shown is in no other cell.
LEMMA OneCellStep ==
  ASSUME TypeOK, OneCellPerRow, [Next]_vars
  PROVE  OneCellPerRow'
<1>1. ASSUME NEW c \in Cells, NEW r \in Rows, Show(c, r) PROVE OneCellPerRow'
  BY <1>1 DEF OneCellPerRow, Show, TypeOK
<1>2. ASSUME NEW c \in Cells, Hide(c) PROVE OneCellPerRow'
  BY <1>2 DEF OneCellPerRow, Hide
<1>3. ASSUME NEW c \in Cells, NEW p \in Pages, Drag(c, p) \/ Fling(c, p) \/ TapDots(c, p)
      PROVE  OneCellPerRow'
  BY <1>3 DEF OneCellPerRow, Drag, Fling, TapDots
<1>4. ASSUME NEW c \in Cells, Glide(c) PROVE OneCellPerRow'
  BY <1>4 DEF OneCellPerRow, Glide
<1>5. CASE UNCHANGED vars
  BY <1>5 DEF OneCellPerRow, vars
<1> QED BY <1>1, <1>2, <1>3, <1>4, <1>5 DEF Next

\* A scroll in cell c leaves the rows of the other cells on the screen where they are,
\* but for a cell with the same row.
LEMMA ScrollKeepsOthers ==
  ASSUME TypeOK, PositionKept, NEW c \in Cells, NEW p \in Pages, row[c] \in Rows,
         DidScroll(c, p), UNCHANGED row,
         NEW d \in shown \ overtaken, d # c, row[d] # row[c]
  PROVE  position'[row'[d]] = offset'[d]
<1>1. row[d] \in Rows /\ d \in Cells
  BY DEF TypeOK
<1>2. position'[row[d]] = position[row[d]] /\ offset'[d] = offset[d]
  BY <1>1 DEF TypeOK, DidScroll
<1> QED BY <1>2 DEF PositionKept

\* Every step keeps the places of the rows on the screen.
LEMMA PositionStep ==
  ASSUME TypeOK, OneCellPerRow, PositionKept, [Next]_vars
  PROVE  PositionKept'
<1>1. ASSUME NEW c \in Cells, NEW r \in Rows, Show(c, r) PROVE PositionKept'
  <2>1. position' = position
    BY <1>1 DEF TypeOK, Show, Restored, Restoring
  <2>2. ASSUME NEW d \in (shown \ overtaken)' PROVE position'[row'[d]] = offset'[d]
    <3>1. CASE d = c
      BY <1>1, <2>1, <3>1 DEF TypeOK, Show, Restored
    <3>2. CASE d # c
      BY <1>1, <2>1, <2>2, <3>2 DEF TypeOK, Show, PositionKept
    <3> QED BY <3>1, <3>2
  <2> QED BY <2>2 DEF PositionKept
<1>2. ASSUME NEW c \in Cells, Hide(c) PROVE PositionKept'
  BY <1>2 DEF PositionKept, Hide
<1>3. ASSUME NEW c \in Cells, NEW p \in Pages, Drag(c, p) PROVE PositionKept'
  <2>1. row[c] \in Rows /\ DidScroll(c, p) /\ row' = row /\ shown' = shown
    BY <1>3 DEF TypeOK, Drag
  <2>2. ASSUME NEW d \in (shown \ overtaken)' PROVE position'[row'[d]] = offset'[d]
    <3>1. CASE d = c
      BY <2>1, <3>1 DEF TypeOK, DidScroll
    <3>2. CASE d # c
      <4>1. d \in shown \ overtaken /\ c \in shown
        BY <1>3, <2>2, <3>2 DEF Drag
      <4> QED BY <2>1, <3>2, <4>1, ScrollKeepsOthers DEF OneCellPerRow
    <3> QED BY <3>1, <3>2
  <2> QED BY <2>2 DEF PositionKept
<1>4. ASSUME NEW c \in Cells, NEW p \in Pages, Fling(c, p) \/ TapDots(c, p)
      PROVE  PositionKept'
  BY <1>4 DEF PositionKept, Fling, TapDots
<1>5. ASSUME NEW c \in Cells, Glide(c) PROVE PositionKept'
  <2>1. Step(c) \in Pages /\ row[c] \in Rows /\ DidScroll(c, Step(c))
        /\ row' = row /\ shown' = shown
    BY <1>5, StepInPages, GlideIsStep
  <2>2. ASSUME NEW d \in (shown \ overtaken)' PROVE position'[row'[d]] = offset'[d]
    <3>1. CASE d = c
      BY <2>1, <3>1 DEF TypeOK, DidScroll
    <3>2. CASE d # c
      <4>1. d \in shown \ overtaken /\ row[d] # row[c]
        BY <1>5, <2>2, <3>2, GlideIsStep
      <4> QED BY <2>1, <3>2, <4>1, ScrollKeepsOthers
    <3> QED BY <3>1, <3>2
  <2> QED BY <2>2 DEF PositionKept
<1>6. CASE UNCHANGED vars
  BY <1>6 DEF PositionKept, vars
<1> QED BY <1>1, <1>2, <1>3, <1>4, <1>5, <1>6 DEF Next

\* The invariant holds in every reachable state.
LEMMA InvHolds == Spec => []Inv
<1>1. Init => Inv
  BY StripConstants DEF Init, Inv, TypeOK, OneCellPerRow, PositionKept, Pages
<1>2. Inv /\ [Next]_vars => Inv'
  BY TypeStep, OneCellStep, PositionStep DEF Inv
<1> QED BY <1>1, <1>2, PTL DEF Spec

\* Whatever rows come and go in whatever cells, every variable keeps its type; pages
\* stay within the pictures of a row.
THEOREM TypeCorrect == Spec => []TypeOK
BY InvHolds, PTL DEF Inv

\* A row on the screen is found again where it is left, unless a scroll that began in
\* another cell went on.
THEOREM PlacesAreKept == Spec => []PositionKept
BY InvHolds, PTL DEF Inv

\* Only a cell that shows a row, or glides on in it, moves the place of the row.
THEOREM OthersStay == Spec => HiddenRowsStay
<1> DEFINE Stays == \A r \in Rows : position'[r] # position[r] =>
                      \E c \in Cells : row[c] = r /\ (c \in shown \/ offset[c] # goal[c])
<1>1. ASSUME TypeOK, [Next]_vars PROVE [Stays]_vars
  <2>1. ASSUME NEW c \in Cells, NEW r \in Rows, Show(c, r) PROVE Stays
    BY <1>1, <2>1 DEF TypeOK, Show, Restored, Restoring
  <2>2. ASSUME NEW c \in Cells, Hide(c) PROVE Stays
    BY <2>2 DEF Hide
  <2>3. ASSUME NEW c \in Cells, NEW p \in Pages, Drag(c, p) PROVE Stays
    BY <1>1, <2>3 DEF TypeOK, Drag, DidScroll
  <2>4. ASSUME NEW c \in Cells, NEW p \in Pages, Fling(c, p) \/ TapDots(c, p) PROVE Stays
    BY <2>4 DEF Fling, TapDots
  <2>5. ASSUME NEW c \in Cells, Glide(c) PROVE Stays
    BY <1>1, <2>5, GlideIsStep DEF TypeOK, DidScroll
  <2> QED BY <1>1, <2>1, <2>2, <2>3, <2>4, <2>5 DEF Next
<1>2. TypeOK /\ [Next]_vars => [Stays]_vars
  BY <1>1
<1> QED BY <1>2, TypeCorrect, PTL DEF Spec, HiddenRowsStay
=============================================================================
