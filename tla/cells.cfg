\* A cell of each kind, three rows, up to five requests.
SPECIFICATION Spec
CONSTANTS
  ListCells = {c1}
  PostCells = {c2}
  Rows = {r1, r2, r3}
  Blank = Blank
  MayFail = TRUE
  MaxAsked = 5
SYMMETRY Symmetry
INVARIANTS TypeOK OwnPictureUnlessRaced QuietCellHasPicture
CHECK_DEADLOCK FALSE
