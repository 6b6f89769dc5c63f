\* Four pages; answers may be garbled.
SPECIFICATION Spec
CONSTANTS
  Pages = 4
  Size <- FourPages
  MayFail = FALSE
  MayGarble = TRUE
PROPERTIES AllLoadedIsTrue
CHECK_DEADLOCK FALSE
