------------------------------ MODULE PostLayout ------------------------------
(***************************************************************************)
(* The heights of posts and comments, which the models compute when the    *)
(* answer arrives and the table uses for its rows, and the frames of what  *)
(* the rows show, which the cells compute when they are filled.            *)
(*                                                                         *)
(* A frame is [y, h] in its container; zero where the code leaves it zero. *)
(* A height that is nil in the code is 0, which none that is set can be.   *)
(***************************************************************************)
EXTENDS Integers, Sequences

CONSTANTS
  ScreenWidth,
  ButtonHeight   (* what sizeToFit makes the button "show full" high       *)

\* A title of 15 points with the padding UIButton adds to it.
ASSUME LayoutConstants ==
  /\ ScreenWidth \in Nat /\ ScreenWidth > 12
  /\ ButtonHeight \in 1..31

autorViewHeigh == 45
bottomViewHeigh == 25
compactTextlimit == 144
showMoreButtonHeigh == 22
photosPageControlHeight == 39
spaceBetweenCells == 12

Frame(y, h) == [y |-> y, h |-> h]
Zero == Frame(0, 0)
End(f) == f.y + f.h

TotalPhotosHeigh(n) ==
  IF n = 0 THEN 0 ELSE ScreenWidth - 12 + (IF n > 1 THEN photosPageControlHeight ELSE 0)

\* NewsFeedModel.calculateSize for a text of the given height and n photos.
IsLong(textHeigh) == textHeigh >= compactTextlimit

Spaces(textHeigh, n) == 12 + (IF textHeigh > 0 THEN 6 ELSE 0) + (IF n = 0 THEN 0 ELSE 6)

Sized(textHeigh, n) ==
  LET rest == autorViewHeigh + bottomViewHeigh + Spaces(textHeigh, n) + spaceBetweenCells
                + TotalPhotosHeigh(n)
      long == IsLong(textHeigh)
  IN [textHeigh |-> textHeigh,
      totalPhotosHeigh |-> TotalPhotosHeigh(n),
      isCompact |-> long,
      totalHeight |-> rest + textHeigh + (IF long THEN showMoreButtonHeigh ELSE 0),
      compactHeight |-> IF long THEN rest + compactTextlimit + showMoreButtonHeigh ELSE 0]

\* heightForRowAt of the feed and, for the post above its comments, of the details.
\* Mutant: the details keep the height of the button.
FeedRowHeight(s) == IF s.isCompact THEN s.compactHeight ELSE s.totalHeight
DetailRowHeight_Total(s) == s.totalHeight
DetailRowHeight(s) ==
  IF s.compactHeight # 0 THEN s.totalHeight - showMoreButtonHeigh ELSE s.totalHeight

ShownTextHeigh(s) == IF s.isCompact THEN compactTextlimit ELSE s.textHeigh
Toggled(s) == [s EXCEPT !.isCompact = ~@]

\* NewsFeedTableViewCell.setup in a row of the given height.  The photos are placed
\* with the button's first height, 25, before sizeToFit changes it.
SetupFrames(s, rowHeight) ==
  LET long == s.compactHeight # 0
      text == IF s.textHeigh = 0 THEN Zero
              ELSE Frame(12 + autorViewHeigh, IF long THEN ShownTextHeigh(s) ELSE s.textHeigh)
      above == 12 + (IF s.textHeigh = 0 THEN 0 ELSE 6) + autorViewHeigh + text.h
                 + (IF long THEN bottomViewHeigh ELSE 0)
  IN [container |-> rowHeight - 12,
      author |-> Frame(6, autorViewHeigh),
      text |-> text,
      button |-> IF long THEN Frame(End(text), ButtonHeight) ELSE Zero,
      photos |-> IF s.totalPhotosHeigh > 0 THEN Frame(above, s.totalPhotosHeigh) ELSE Zero,
      bottom |-> Frame(rowHeight - 12 - bottomViewHeigh, bottomViewHeigh)]

\* DetailPostTableViewCell.setup: the whole text and no button.
DetailFrames(s, rowHeight) ==
  LET text == IF s.textHeigh = 0 THEN Zero ELSE Frame(12 + autorViewHeigh, s.textHeigh)
      above == 12 + (IF s.textHeigh = 0 THEN 0 ELSE 6) + autorViewHeigh + text.h
  IN [container |-> rowHeight - 12,
      author |-> Frame(6, autorViewHeigh),
      text |-> text,
      button |-> Zero,
      photos |-> IF s.totalPhotosHeigh > 0 THEN Frame(above, s.totalPhotosHeigh) ELSE Zero,
      bottom |-> Frame(rowHeight - 12 - bottomViewHeigh, bottomViewHeigh)]

\* NewsFeedTableViewCell.updateContent, after a tap on the button: the frames move
\* within the cell, whose row the table makes higher or lower.
\* Mutant: the container keeps its height.
UpdatedContainer_Kept(f, s) == f.container
UpdatedContainer(f, s) == (IF s.isCompact THEN s.compactHeight ELSE s.totalHeight) - 12
UpdatedFrames(f, s) ==
  LET above == autorViewHeigh + ShownTextHeigh(s)
  IN [f EXCEPT
        !.container = UpdatedContainer(f, s),
        !.text.h = ShownTextHeigh(s),
        !.button = Frame(above + 12, ButtonHeight),
        !.photos.y = above + ButtonHeight + 12 + 6 - 6,
        !.bottom.y = UpdatedContainer(f, s) - bottomViewHeigh]

\* What a row needs: its cell is as high as the row, its parts follow one another and
\* nothing but the transparent button reaches below where the bottom bar begins.
Fits(f, rowHeight) ==
  /\ f.container = rowHeight - 12
  /\ f.text.h > 0 => f.text.y >= End(f.author)
  /\ f.button.h > 0 => f.button.y >= End(f.text) /\ End(f.button) <= f.container
  /\ f.photos.h > 0 => /\ \A part \in {f.author, f.text, f.button} : f.photos.y >= End(part)
                       /\ End(f.photos) <= f.bottom.y
  /\ End(f.author) <= f.bottom.y /\ End(f.text) <= f.bottom.y
  /\ End(f.bottom) = f.container
-----------------------------------------------------------------------------
(* Comments.                                                               *)

\* A text, or the gap without one, is what a comment needs besides the name above, the
\* space and the bar below.
BodyHeight(textHeight, isReply) ==
  IF textHeight > 0 THEN textHeight ELSE IF isReply THEN 7 ELSE 10

\* CommentView.layoutSubviews: where the bar ends.
CommentBarEnd(textHeight, isReply) ==
  20 + (IF textHeight > 0 THEN textHeight ELSE IF isReply THEN 7 ELSE 10) + 6 + 20

\* CommentsModel.calculateSize.  c has the height of its text and its replies' texts.
\* Mutant: one space a reply instead of two.
ThreadSpaces_One(c) == 12 + 12 + 6 * Len(c.replies) + (IF c.threadCount > 3 THEN 12 ELSE 0)
ThreadSpaces(c) == 12 + 12 + 6 * Len(c.replies) * 2 + (IF c.threadCount > 3 THEN 12 ELSE 0)

ViewHeight(c) == 46 + BodyHeight(c.textHeight, FALSE)
ReplyHeight(c, k) == 46 + BodyHeight(c.replies[k].textHeight, TRUE)
RepliesHeight(c) ==
  LET upTo[k \in 0..Len(c.replies)] == IF k = 0 THEN 0 ELSE upTo[k - 1] + ReplyHeight(c, k)
  IN upTo[Len(c.replies)]
CommentRowHeight(c) == ThreadSpaces(c) + ViewHeight(c) + RepliesHeight(c)

\* DetailPostCommentTableViewCell.setup, in the cell's coordinates: the comment in its
\* container, and the replies, which are added to the cell itself, below it.
CommentFrame(c) == Frame(6 + 6, ViewHeight(c))
ReplyFrames(c) ==
  LET y[k \in 1..Len(c.replies)] ==
        IF k = 1 THEN 6 + ViewHeight(c) + 6 + 6 ELSE y[k - 1] + ReplyHeight(c, k - 1) + 6 + 6
  IN [k \in 1..Len(c.replies) |-> Frame(y[k], ReplyHeight(c, k))]

\* Each bar ends in its view, the views follow one another and stay in the container.
CommentFits(c) ==
  LET frames == <<CommentFrame(c)>> \o ReplyFrames(c)
  IN /\ CommentBarEnd(c.textHeight, FALSE) = CommentFrame(c).h
     /\ \A k \in DOMAIN c.replies :
          CommentBarEnd(c.replies[k].textHeight, TRUE) = ReplyFrames(c)[k].h
     /\ \A k \in 2..Len(frames) : frames[k].y >= End(frames[k - 1])
     /\ End(frames[Len(frames)]) <= CommentRowHeight(c) - 6
=============================================================================
