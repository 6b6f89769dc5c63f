\* Four pages; requests may fail and answers may be garbled.
SPECIFICATION FairSpec
CONSTANTS
  Pages = 4
  Size <- FourPages
  MayFail = TRUE
  MayGarble = TRUE
INVARIANTS TypeOK OneFlaggedLoad GaplessUnlessOvertaken
PROPERTIES FailedLoadIsFinal SpinnerStops
CHECK_DEADLOCK FALSE
