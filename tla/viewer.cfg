\* Three photos, four positions of the finger.
SPECIFICATION Spec
CONSTANTS
  Count = 3
  MaxX = 3
INVARIANTS TypeOK ShowsNeighbours RestIsClean
