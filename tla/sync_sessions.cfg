\* Sessions following one another in a process, as if logging out worked; the file may
\* fail to open and the process may be killed at any time.
SPECIFICATION SessionSpec
CONSTANTS
  Ids = {i1, i2}
  Versions = {v1, v2}
  Absent = Absent
  NoToken = NoToken
  Unsent = Unsent
  Screens = {s1, s2}
  None = None
  RealmMayFail = TRUE
  WriteMayFail = FALSE
  MayBeKilled = TRUE
  MayLogOut = TRUE
SYMMETRY Symmetry
INVARIANTS OwnSession StaleOnlyIfHalted
CHECK_DEADLOCK FALSE
