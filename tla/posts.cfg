\* A phone 375 points wide; answers of one to three items, every kind of item.
SPECIFICATION Spec
CONSTANTS
  Nil = Nil
  ScreenWidth = 375
  ButtonHeight = 30
  NewsAnswers <- MCNewsAnswers
  CommentAnswers <- MCCommentAnswers
INVARIANTS TypeOK RowsFit HeadFits CommentsFit AllOrNothing CrashNeedsUnknownAuthor
CHECK_DEADLOCK FALSE
