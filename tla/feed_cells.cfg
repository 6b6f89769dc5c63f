\* Two cells for three rows of three pictures.
SPECIFICATION Spec
CONSTANTS
  Cells = {c1, c2}
  Rows = {r1, r2, r3}
  None = None
  LastPage = 2
SYMMETRY Symmetry
INVARIANTS PositionKept
PROPERTIES HiddenRowsStay
