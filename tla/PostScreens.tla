------------------------------ MODULE PostScreens ------------------------------
(***************************************************************************)
(* The news feed and the details of a post: the answers the posts and      *)
(* comments are made of, the rows the feed fills and gives up as it is     *)
(* scrolled, the taps on "show full", and the details with the comments.   *)
(*                                                                         *)
(* NewsFeed has the order of the loads; here an answer replaces the posts  *)
(* whenever it comes.  The details keep the post they were opened with,    *)
(* an object of the feed that nothing changes while they are open.         *)
(***************************************************************************)
EXTENDS Decoding, PostLayout, FiniteSets

CONSTANTS
  NewsAnswers,      (* what VK may answer to newsfeed.get                   *)
  CommentAnswers    (* and to wall.getComments                              *)

VARIABLES
  posts,      (* NewsFeedViewController.postsArray                          *)
  cells,      (* the frames of the rows on the screen, Nil for the others   *)
  post,       (* DetailPostViewController.post, Nil while it is closed      *)
  head,       (* the frames of its first row, Nil until it is filled        *)
  comments,   (* its commentsArray                                          *)
  crashed,    (* a cell unwrapped the picture of an author there is not     *)
  news,       (* history: the answer the posts were made of, Nil before it  *)
  thread      (* history: the answer the comments were made of              *)

vars == <<posts, cells, post, head, comments, crashed, news, thread>>

PostOf(item, answer) ==
  LET photos == Photos(item.attachments)
  IN [author |-> AuthorOf(item.from, answer),
      photos |-> photos,
      size |-> Sized(item.text, Len(photos))]

ReplyOf(item, answer) ==
  [author |-> AuthorOf(item.from, answer), textHeight |-> item.text]

CommentOf(item, answer) ==
  LET t == ThreadOf(item)
  IN [author |-> AuthorOf(item.from, answer),
      textHeight |-> item.text,
      threadCount |-> IF t = Nil THEN 0 ELSE t.count,
      replies |-> IF t = Nil THEN <<>>
                  ELSE [k \in DOMAIN t.items |-> ReplyOf(t.items[k], answer)]]

\* The authors an answer names, those of whole threads included.
Ids(answer) ==
  LET items == {answer.items[i] : i \in DOMAIN answer.items}
      threads == {ThreadOf(it) : it \in {x \in items : "thread" \in DOMAIN x}} \ {Nil}
  IN {it.from : it \in items}
       \cup UNION {{t.items[k].from : k \in DOMAIN t.items} : t \in threads}

\* Authors are positive or negative ids, profiles and groups are listed by positive ones;
\* a text has a height, and comments alone have threads.
ASSUME AnswersOK ==
  /\ \A answer \in NewsAnswers \cup CommentAnswers :
       /\ answer # Nil
       /\ answer.items \in Seq({answer.items[i] : i \in DOMAIN answer.items})
       /\ answer.profiles \subseteq Nat \ {0} /\ answer.groups \subseteq Nat \ {0}
       /\ Ids(answer) \subseteq Int
  /\ \A answer \in NewsAnswers : \A i \in DOMAIN answer.items :
       LET item == answer.items[i]
       IN /\ item.text \in Nat
          /\ item.attachments # Nil =>
               item.attachments \in Seq({item.attachments[k] : k \in DOMAIN item.attachments})
  /\ \A answer \in CommentAnswers : \A i \in DOMAIN answer.items :
       LET item == answer.items[i]
       IN /\ item.text \in Nat
          /\ "thread" \in DOMAIN item
          /\ item.thread # Nil =>
               /\ item.thread.items \in Seq({item.thread.items[k] : k \in DOMAIN item.thread.items})
               /\ \A k \in DOMAIN item.thread.items : item.thread.items[k].text \in Nat

Rows == DOMAIN posts

\* A reloaded table has a row for each post and asks for all of them again.
\* Mutant: the posts are replaced and the table is not reloaded.
Unseen_Kept(rows) == cells
Unseen(rows) == [r \in rows |-> Nil]

Init ==
  /\ posts = <<>>
  /\ cells = <<>>
  /\ post = Nil
  /\ head = Nil
  /\ comments = <<>>
  /\ crashed = FALSE
  /\ news = Nil
  /\ thread = Nil

\* The completion of getNewsFeedTypePost: the posts are replaced and the table reloaded.
AnswerNews(answer) ==
  /\ ~crashed
  /\ posts' = [i \in DOMAIN Items(answer) |-> PostOf(Items(answer)[i], answer)]
  /\ cells' = Unseen(DOMAIN Items(answer))
  /\ news' = answer
  /\ UNCHANGED <<post, head, comments, crashed, thread>>

\* cellForRowAt of the feed: the cell takes a picture URL from the author it must have.
FillRow(r) ==
  /\ ~crashed /\ post = Nil
  /\ cells[r] = Nil
  /\ IF posts[r].author = Nil
     THEN crashed' = TRUE /\ UNCHANGED cells
     ELSE /\ cells' = [cells EXCEPT ![r] = SetupFrames(posts[r].size, FeedRowHeight(posts[r].size))]
          /\ UNCHANGED crashed
  /\ UNCHANGED <<posts, post, head, comments, news, thread>>

\* The row leaves the screen; its cell drops its views.
LeaveRow(r) ==
  /\ ~crashed /\ post = Nil
  /\ cells[r] # Nil
  /\ cells' = [cells EXCEPT ![r] = Nil]
  /\ UNCHANGED <<posts, post, head, comments, crashed, news, thread>>

\* showFullButtonAction, for a button that has a size to be tapped.
ShowFull(r) ==
  /\ ~crashed /\ post = Nil
  /\ cells[r] # Nil /\ cells[r].button.h > 0
  /\ posts' = [posts EXCEPT ![r].size = Toggled(@)]
  /\ cells' = [cells EXCEPT ![r] = UpdatedFrames(@, Toggled(posts[r].size))]
  /\ UNCHANGED <<post, head, comments, crashed, news, thread>>

\* The segue to the details, and openLink for a tap beside a link; viewDidLoad asks
\* for the comments.
Open(r) ==
  /\ ~crashed /\ post = Nil
  /\ cells[r] # Nil
  /\ post' = posts[r]
  /\ head' = Nil
  /\ comments' = <<>>
  /\ thread' = Nil
  /\ UNCHANGED <<posts, cells, crashed, news>>

\* cellForRowAt of the details, row 0.  The reload its setup asks for when it is done
\* fills the row with the same frames.
FillHead ==
  /\ ~crashed /\ post # Nil /\ head = Nil
  /\ head' = DetailFrames(post.size, DetailRowHeight(post.size))
  /\ UNCHANGED <<posts, cells, post, comments, crashed, news, thread>>

\* The completion of getComments; reloadData gives up the rows on show.
AnswerComments(answer) ==
  /\ ~crashed /\ post # Nil /\ thread = Nil
  /\ comments' = [i \in DOMAIN Items(answer) |-> CommentOf(Items(answer)[i], answer)]
  /\ head' = Nil
  /\ thread' = answer
  /\ UNCHANGED <<posts, cells, post, crashed, news>>

\* The comment of a row below the post; the code counts from 0.
CommentAt(row) == comments[Len(comments) - row + 1]

\* cellForRowAt of the details, a comment's row: a picture for it and each reply.
FillComment(row) ==
  /\ ~crashed /\ post # Nil
  /\ CommentAt(row).author = Nil
       \/ \E k \in DOMAIN CommentAt(row).replies : CommentAt(row).replies[k].author = Nil
  /\ crashed' = TRUE
  /\ UNCHANGED <<posts, cells, post, head, comments, news, thread>>

Back ==
  /\ ~crashed /\ post # Nil
  /\ post' = Nil
  /\ head' = Nil
  /\ comments' = <<>>
  /\ thread' = Nil
  /\ UNCHANGED <<posts, cells, crashed, news>>

Next ==
  \/ \E answer \in NewsAnswers : AnswerNews(answer)
  \/ \E r \in Rows : FillRow(r) \/ LeaveRow(r) \/ ShowFull(r) \/ Open(r)
  \/ FillHead \/ Back
  \/ \E answer \in CommentAnswers : AnswerComments(answer)
  \/ \E row \in 1..Len(comments) : FillComment(row)

Spec == Init /\ [][Next]_vars
-----------------------------------------------------------------------------
(* Properties.                                                             *)

IsFrame(f) == f.y \in Int /\ f.h \in Int
IsCell(f) ==
  /\ f.container \in Int
  /\ IsFrame(f.author) /\ IsFrame(f.text) /\ IsFrame(f.button)
  /\ IsFrame(f.photos) /\ IsFrame(f.bottom)

TypeOK ==
  /\ DOMAIN cells = Rows
  /\ \A r \in Rows : cells[r] = Nil \/ IsCell(cells[r])
  /\ head = Nil \/ (post # Nil /\ IsCell(head))
  /\ comments # <<>> => post # Nil /\ thread # Nil
  /\ crashed \in BOOLEAN

\* Whatever was tapped and scrolled, every row of the feed is as high as its cell needs:
\* the parts follow one another above the bottom bar; and a compact post has the
\* compact height heightForRowAt unwraps.
RowsFit ==
  \A r \in Rows :
    /\ posts[r].size.isCompact => posts[r].size.compactHeight # 0
    /\ cells[r] # Nil => Fits(cells[r], FeedRowHeight(posts[r].size))

\* The post above its comments fits its row with all its text, whether the feed
\* showed it compact or in full when it was opened.
HeadFits ==
  head # Nil => /\ Fits(head, DetailRowHeight(post.size))
                /\ head.text.h = post.size.textHeigh
                /\ post.size.totalPhotosHeigh > 0 =>
                     head.bottom.y - End(head.photos) = 6

\* The height CommentsModel computes holds the views the cell places, and so does
\* the height of each view what CommentView puts into it.
CommentsFit == \A i \in DOMAIN comments : CommentFits(comments[i])

\* An answer is shown whole or not at all: a post for each item, with each photo that
\* decodes, or none of the photos beside an attachment without a type.  A photo has a
\* size for the cell exactly when it has one for the details.
AllOrNothing ==
  /\ Len(posts) \in {0} \cup (IF news = Nil THEN {} ELSE {Len(news.items)})
  /\ \A r \in Rows :
       LET attached == IF news.items[r].attachments = Nil THEN <<>> ELSE news.items[r].attachments
           decoded == {k \in DOMAIN attached : attached[k].typed /\ attached[k].sizes # Nil}
       IN /\ Len(posts[r].photos) =
               IF \A k \in DOMAIN attached : attached[k].typed THEN Cardinality(decoded) ELSE 0
          /\ \A k \in DOMAIN posts[r].photos :
               (posts[r].photos[k].cell = Nil) = (posts[r].photos[k].detail = Nil)

\* A cell runs into an author it cannot show only when the answer names someone whom
\* neither its profiles nor its groups have.
CrashNeedsUnknownAuthor ==
  crashed => \E answer \in {news, thread} \ {Nil} :
               \E id \in Ids(answer) : id \notin answer.profiles /\ -id \notin answer.groups
=============================================================================
