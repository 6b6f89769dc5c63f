\* Three friends below two letters, two search texts, up to two reloads queued.
SPECIFICATION FairSpec
CONSTANTS
  f1 = f1
  f2 = f2
  f3 = f3
  t1 = t1
  t2 = t2
  Friends = {f1, f2, f3}
  Initial <- MCInitial
  Texts = {t1, t2}
  Blank = Blank
  Matches <- MCMatches
  NoFriend = NoFriend
  MaxReloads = 2
INVARIANTS TypeOK EveryoneListedOnce TableIsCurrent
PROPERTIES TapOpensShownFriend TableCatchesUp
CHECK_DEADLOCK FALSE
