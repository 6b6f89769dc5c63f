\* The application as it is wired: processes with one session each, of two accounts or
\* none; the file may fail to open and the process may be killed at any time.
SPECIFICATION SessionSpec
CONSTANTS
  Ids = {i1, i2}
  Versions = {v1, v2}
  Absent = Absent
  NoToken = NoToken
  Unsent = Unsent
  Screens = {s1, s2}
  None = None
  RealmMayFail = TRUE
  WriteMayFail = FALSE
  MayBeKilled = TRUE
  MayLogOut = FALSE
SYMMETRY Symmetry
INVARIANTS FileIsOneAccounts AloneAsWired
PROPERTIES KeepsPromise ExactUnlessOverlapped
CHECK_DEADLOCK FALSE
