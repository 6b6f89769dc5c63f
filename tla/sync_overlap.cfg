\* Three screens one after the other, as if logging out worked, two rows of two versions,
\* no failures; a kill ends the run.
SPECIFICATION Spec
CONSTANTS
  Ids = {i1, i2}
  Versions = {v1, v2}
  Absent = Absent
  Screens = {s1, s2, s3}
  None = None
  RealmMayFail = FALSE
  WriteMayFail = FALSE
  MayBeKilled = TRUE
  MayLogOut = TRUE
SYMMETRY Symmetry
INVARIANTS SnapshotCovered CrashNeedsOverlap QuietListCurrent LatestAnswerWins
CONSTRAINT NotKilled
CHECK_DEADLOCK FALSE
