\* Two screens, as if logging out worked, a row of two versions, one demo public; single
\* writes may throw.  Fair, so no symmetry.
SPECIFICATION PublicsSpec
CONSTANTS
  Ids = {i1}
  Versions = {v1, v2}
  Absent = Absent
  Screens = {s1, s2}
  None = None
  Demos = {d1}
  RealmMayFail = FALSE
  WriteMayFail = TRUE
  MayBeKilled = TRUE
  MayLogOut = TRUE
INVARIANTS EditedListCurrent
PROPERTIES ConvergesUpToSwipes AnswerIsAnnounced RefreshUndoesEdits
CHECK_DEADLOCK FALSE
