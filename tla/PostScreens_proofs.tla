--------------------------- MODULE PostScreens_proofs ---------------------------
(***************************************************************************)
(* Proofs about PostScreens for every answer of VK, every height of a      *)
(* text, every number of photos and every width of the screen.             *)
(***************************************************************************)
EXTENDS PostScreens, FiniteSetTheorems, SequenceTheorems, WellFoundedInduction, TLAPS

\* What calculateSize leaves in a post, and what a tap on "show full" keeps.
WellSized(s) ==
  LET rest == 94 + (IF s.textHeigh > 0 THEN 6 ELSE 0)
                 + (IF s.totalPhotosHeigh > 0 THEN 6 ELSE 0) + s.totalPhotosHeigh
      long == s.textHeigh >= 144
  IN /\ s \in [textHeigh : Nat, totalPhotosHeigh : Nat, isCompact : BOOLEAN,
               totalHeight : Int, compactHeight : Int]
     /\ s.totalHeight = rest + s.textHeigh + (IF long THEN 22 ELSE 0)
     /\ s.compactHeight = IF long THEN rest + 166 ELSE 0
     /\ s.isCompact => long

Frames == [y : Int, h : Int]

\* A cell of the feed filled with a post, whether it was set up for the post as it is
\* or updated after a tap: the photos stand below the button in either.
CellOf(f, s) ==
  /\ f \in [container : Int, author : Frames, text : Frames, button : Frames,
            photos : Frames, bottom : Frames]
  /\ f.container = FeedRowHeight(s) - 12
  /\ f.author.y = 6 /\ f.author.h = 45
  /\ f.text.y = (IF s.textHeigh = 0 THEN 0 ELSE 57)
  /\ f.text.h = ShownTextHeigh(s)
  /\ f.button.h = (IF s.textHeigh >= 144 THEN ButtonHeight ELSE 0)
  /\ f.button.y = (IF s.textHeigh >= 144 THEN 57 + ShownTextHeigh(s) ELSE 0)
  /\ f.photos.h = s.totalPhotosHeigh
  /\ s.totalPhotosHeigh > 0 =>
       IF s.textHeigh >= 144
       THEN f.photos.y \in {88 + ShownTextHeigh(s), 57 + ShownTextHeigh(s) + ButtonHeight}
       ELSE f.photos.y = 57 + (IF s.textHeigh = 0 THEN 0 ELSE 6 + s.textHeigh)
  /\ f.bottom.y = f.container - 25 /\ f.bottom.h = 25

PostsAreRecords ==
  posts = [r \in DOMAIN posts |->
             [author |-> posts[r].author, photos |-> posts[r].photos, size |-> posts[r].size]]
CellsAreRows == cells = [r \in DOMAIN posts |-> cells[r]]
RowsAreWell ==
  \A r \in DOMAIN posts : /\ WellSized(posts[r].size)
                          /\ cells[r] # Nil => CellOf(cells[r], posts[r].size)
RowsInv == PostsAreRecords /\ CellsAreRows /\ RowsAreWell

HeadInv ==
  /\ post # Nil => WellSized(post.size)
  /\ head # Nil => post # Nil /\ head = DetailFrames(post.size, DetailRowHeight(post.size))

USE DEF autorViewHeigh, bottomViewHeigh, compactTextlimit, showMoreButtonHeigh,
        photosPageControlHeight, spaceBetweenCells
-----------------------------------------------------------------------------
(* Loops.  A recursive function is a CHOOSE until a function is known to   *)
(* satisfy its equation; that there is one is shown by induction.          *)

\* The least number of a set, from the well-foundedness of < on the naturals.
LEMMA LeastNumber ==
  ASSUME NEW T, T \subseteq Nat, T # {}
  PROVE  \E x \in T : \A y \in T : x <= y
<1> DEFINE R == OpToRel(<, Nat)
<1>1. IsWellFoundedOn(R, Nat)
  BY NatLessThanWellFounded
<1>2. \A x, y \in Nat : <<y, x>> \in R <=> y < x
  BY DEF OpToRel
<1> HIDE DEF R
<1>3. PICK x \in T : \A y \in T : ~ (<<y, x>> \in R)
  BY <1>1, WFMin
<1>4. \A y \in T : ~(y < x)
  BY <1>2, <1>3
<1> QED BY <1>4

\* Induction, for the set of the numbers a fact holds of.
LEMMA Induction ==
  ASSUME NEW T, 0 \in T, \A n \in Nat : n \in T => n + 1 \in T
  PROVE  \A n \in Nat : n \in T
<1> SUFFICES ASSUME NEW m \in Nat, m \notin T PROVE FALSE
  OBVIOUS
<1> DEFINE U == Nat \ T
<1>1. U \subseteq Nat /\ U # {}
  OBVIOUS
<1> HIDE DEF U
<1>2. PICK x \in U : \A y \in U : x <= y
  BY <1>1, LeastNumber
<1> USE DEF U
<1>3. x # 0 /\ x - 1 \in Nat
  BY <1>2
<1>4. x - 1 \in T
  BY <1>2, <1>3
<1> QED BY <1>2, <1>3, <1>4

\* A loop that turns one member of S into another n times has its values after each turn.
LEMMA LoopValues ==
  ASSUME NEW S, NEW first \in S, NEW n \in Nat, NEW turn \in [S \X (1..n) -> S]
  PROVE  \E f \in [0..n -> S] :
            f[0] = first /\ \A k \in 1..n : f[k] = turn[<<f[k - 1], k>>]
<1> DEFINE Upto(m, f) == /\ f \in [0..m -> S]
                         /\ f[0] = first /\ \A k \in 1..m : f[k] = turn[<<f[k - 1], k>>]
           T == {m \in Nat : m <= n => \E f : Upto(m, f)}
<1>1. 0 \in T
  <2>1. Upto(0, [k \in 0..0 |-> first])
    OBVIOUS
  <2> HIDE DEF Upto
  <2> QED BY <2>1
<1>2. ASSUME NEW m \in Nat, m \in T PROVE m + 1 \in T
  <2> SUFFICES ASSUME m + 1 <= n PROVE \E f : Upto(m + 1, f)
    OBVIOUS
  <2>1. PICK f : Upto(m, f)
    BY <1>2
  <2> DEFINE x == turn[<<f[m], m + 1>>]
             g == [k \in 0..m+1 |-> IF k <= m THEN f[k] ELSE x]
  <2>2. x \in S
    <3>1. f[m] \in S /\ m + 1 \in 1..n
      BY <2>1
    <3> QED BY <3>1
  <2>3. g \in [0..m+1 -> S] /\ g[0] = first
    <3>1. \A k \in 0..m+1 : k <= m => k \in 0..m
      OBVIOUS
    <3> HIDE DEF x
    <3> QED BY <2>1, <2>2, <3>1
  <2>4. ASSUME NEW k \in 1..m+1 PROVE g[k] = turn[<<g[k - 1], k>>]
    <3>1. CASE k <= m
      BY <2>1, <2>4, <3>1
    <3>2. CASE k = m + 1
      <4>1. g[k] = x /\ g[k - 1] = f[m]
        BY <3>2
      <4> QED BY <3>2, <4>1
    <3> QED BY <3>1, <3>2
  <2> HIDE DEF g
  <2>5. Upto(m + 1, g)
    BY <2>3, <2>4
  <2> HIDE DEF Upto
  <2> QED BY <2>5
<1> HIDE DEF T
<1>3. n \in T
  BY <1>1, <1>2, Induction
<1> QED BY <1>3 DEF T
-----------------------------------------------------------------------------
(* The arithmetic.                                                         *)

\* calculateSize gives every post heights that agree with one another.
LEMMA SizedIsWell == ASSUME NEW t \in Nat, NEW n PROVE WellSized(Sized(t, n))
<1>1. TotalPhotosHeigh(n) \in Nat /\ (TotalPhotosHeigh(n) > 0 <=> n # 0)
  BY LayoutConstants DEF TotalPhotosHeigh
<1>2. Spaces(t, n) = 12 + (IF t > 0 THEN 6 ELSE 0) + (IF TotalPhotosHeigh(n) > 0 THEN 6 ELSE 0)
  BY <1>1 DEF Spaces
<1> DEFINE s == Sized(t, n)
           photos == TotalPhotosHeigh(n)
           spaces == Spaces(t, n)
<1>3. /\ s.textHeigh = t /\ s.totalPhotosHeigh = photos /\ s.isCompact = IsLong(t)
      /\ s.totalHeight = 82 + spaces + photos + t + (IF IsLong(t) THEN 22 ELSE 0)
      /\ s.compactHeight = (IF IsLong(t) THEN 82 + spaces + photos + 144 + 22 ELSE 0)
      /\ s = [textHeigh |-> s.textHeigh, totalPhotosHeigh |-> s.totalPhotosHeigh,
              isCompact |-> s.isCompact, totalHeight |-> s.totalHeight,
              compactHeight |-> s.compactHeight]
  <2>1. photos \in Int /\ spaces \in Int
    BY <1>1, <1>2
  <2> HIDE DEF photos, spaces
  <2>2. s = [textHeigh |-> t, totalPhotosHeigh |-> photos, isCompact |-> IsLong(t),
             totalHeight |-> 45 + 25 + spaces + 12 + photos + t + (IF IsLong(t) THEN 22 ELSE 0),
             compactHeight |-> IF IsLong(t) THEN 45 + 25 + spaces + 12 + photos + 144 + 22 ELSE 0]
    BY DEF Sized, photos, spaces
  <2> QED BY <2>1, <2>2 DEF IsLong
<1>4. IsLong(t) \in BOOLEAN /\ (IsLong(t) <=> t >= 144)
  BY DEF IsLong
<1> HIDE DEF s, photos
<1>5. spaces = 12 + (IF t > 0 THEN 6 ELSE 0) + (IF photos > 0 THEN 6 ELSE 0) /\ photos \in Nat
  BY <1>1, <1>2 DEF photos
<1> HIDE DEF spaces
<1>6. s.totalHeight = 94 + (IF t > 0 THEN 6 ELSE 0) + (IF photos > 0 THEN 6 ELSE 0) + photos
                        + t + (IF t >= 144 THEN 22 ELSE 0)
  BY <1>3, <1>4, <1>5
<1>7. s.compactHeight = IF t >= 144
                        THEN 94 + (IF t > 0 THEN 6 ELSE 0) + (IF photos > 0 THEN 6 ELSE 0)
                               + photos + 166
                        ELSE 0
  BY <1>3, <1>4, <1>5
<1> QED BY <1>3, <1>4, <1>5, <1>6, <1>7 DEF WellSized, s

\* A tap on "show full", which only long posts have, keeps them in agreement.
LEMMA ToggledIsWell ==
  ASSUME NEW s, WellSized(s), s.textHeigh >= 144
  PROVE  /\ WellSized(Toggled(s))
         /\ Toggled(s).textHeigh = s.textHeigh /\ Toggled(s).totalPhotosHeigh = s.totalPhotosHeigh
         /\ Toggled(s).compactHeight = s.compactHeight /\ Toggled(s).totalHeight = s.totalHeight
         /\ Toggled(s).isCompact = ~s.isCompact
<1> DEFINE u == Toggled(s)
<1>1. /\ u.textHeigh = s.textHeigh /\ u.totalPhotosHeigh = s.totalPhotosHeigh
      /\ u.compactHeight = s.compactHeight /\ u.totalHeight = s.totalHeight
      /\ u.isCompact = ~s.isCompact
      /\ u \in [textHeigh : Nat, totalPhotosHeigh : Nat, isCompact : BOOLEAN,
                totalHeight : Int, compactHeight : Int]
  <2>1. s \in [textHeigh : Nat, totalPhotosHeigh : Nat, isCompact : BOOLEAN,
               totalHeight : Int, compactHeight : Int]
    BY DEF WellSized
  <2> QED BY <2>1 DEF Toggled
<1> HIDE DEF u
<1>2. u.textHeigh >= 144
  BY <1>1
<1>3. WellSized(u)
  BY <1>1, <1>2 DEF WellSized
<1> QED BY <1>1, <1>3 DEF u

\* The row of a compact post is as high as 144 points of its text need, of another as
\* all of it.
LEMMA HeightOfRow ==
  ASSUME NEW s, WellSized(s)
  PROVE  /\ ShownTextHeigh(s) \in Nat
         /\ (s.textHeigh = 0 <=> ShownTextHeigh(s) = 0)
         /\ FeedRowHeight(s) =
              94 + (IF s.textHeigh > 0 THEN 6 ELSE 0)
                 + (IF s.totalPhotosHeigh > 0 THEN 6 ELSE 0) + s.totalPhotosHeigh
                 + ShownTextHeigh(s) + (IF s.textHeigh >= 144 THEN 22 ELSE 0)
BY DEF WellSized, ShownTextHeigh, FeedRowHeight

\* A cell in this form holds its parts, one below the other.
LEMMA CellFits ==
  ASSUME NEW s, NEW f, WellSized(s), CellOf(f, s)
  PROVE  Fits(f, FeedRowHeight(s))
<1> DEFINE shown == ShownTextHeigh(s)
           row == FeedRowHeight(s)
<1>1. s.textHeigh \in Nat /\ s.totalPhotosHeigh \in Nat
  BY DEF WellSized
<1> HIDE DEF shown, row
<1>2. /\ shown \in Nat /\ (s.textHeigh = 0 <=> shown = 0)
      /\ row = 94 + (IF s.textHeigh > 0 THEN 6 ELSE 0)
                  + (IF s.totalPhotosHeigh > 0 THEN 6 ELSE 0) + s.totalPhotosHeigh
                  + shown + (IF s.textHeigh >= 144 THEN 22 ELSE 0)
  BY HeightOfRow DEF shown, row
<1>3. CellOf(f, s)!1 /\ f.container = row - 12 /\ f.author.y = 6 /\ f.author.h = 45
      /\ f.text.y = (IF s.textHeigh = 0 THEN 0 ELSE 57) /\ f.text.h = shown
      /\ f.button.h = (IF s.textHeigh >= 144 THEN ButtonHeight ELSE 0)
      /\ f.button.y = (IF s.textHeigh >= 144 THEN 57 + shown ELSE 0)
      /\ f.photos.h = s.totalPhotosHeigh
      /\ f.bottom.y = f.container - 25 /\ f.bottom.h = 25
  BY DEF CellOf, shown, row
<1>4. s.totalPhotosHeigh > 0 =>
       IF s.textHeigh >= 144
       THEN f.photos.y = 88 + shown \/ f.photos.y = 57 + shown + ButtonHeight
       ELSE f.photos.y = 57 + (IF s.textHeigh = 0 THEN 0 ELSE 6 + s.textHeigh)
  BY DEF CellOf, shown
<1>5. s.textHeigh < 144 => shown = s.textHeigh
  BY DEF WellSized, ShownTextHeigh, shown
<1>6. f.photos.h > 0 => /\ \A part \in {f.author, f.text, f.button} : f.photos.y >= End(part)
                        /\ End(f.photos) <= f.bottom.y
  <2> SUFFICES ASSUME f.photos.h > 0
               PROVE  /\ f.photos.y >= End(f.author) /\ f.photos.y >= End(f.text)
                      /\ f.photos.y >= End(f.button) /\ End(f.photos) <= f.bottom.y
    OBVIOUS
  <2>1. CASE s.textHeigh >= 144
    BY <1>1, <1>2, <1>3, <1>4, <2>1, LayoutConstants DEF End, Frames
  <2>2. CASE s.textHeigh < 144
    BY <1>1, <1>2, <1>3, <1>4, <1>5, <2>2, LayoutConstants DEF End, Frames
  <2> QED BY <1>1, <2>1, <2>2
<1>7. /\ f.container = row - 12
      /\ (f.text.h > 0 => f.text.y >= End(f.author))
      /\ (f.button.h > 0 => f.button.y >= End(f.text) /\ End(f.button) <= f.container)
      /\ End(f.author) <= f.bottom.y /\ End(f.text) <= f.bottom.y
      /\ End(f.bottom) = f.container
  BY <1>1, <1>2, <1>3, LayoutConstants DEF End, Frames
<1> QED BY <1>6, <1>7 DEF Fits, row

\* setup fills a row in this form.
LEMMA SetupGivesCell ==
  ASSUME NEW s, WellSized(s)
  PROVE  CellOf(SetupFrames(s, FeedRowHeight(s)), s)
<1> DEFINE shown == ShownTextHeigh(s)
           row == FeedRowHeight(s)
<1>1. /\ s.textHeigh \in Nat /\ s.totalPhotosHeigh \in Nat
      /\ (s.compactHeight # 0 <=> s.textHeigh >= 144)
      /\ (s.textHeigh < 144 => shown = s.textHeigh)
  BY DEF WellSized, ShownTextHeigh
<1>2. shown \in Nat /\ row \in Int
  BY HeightOfRow, <1>1
<1> HIDE DEF shown, row
<1> DEFINE f == SetupFrames(s, row)
           text == IF s.textHeigh = 0 THEN Zero ELSE Frame(57, shown)
<1>3. /\ f.container = row - 12
      /\ f.author = Frame(6, 45)
      /\ f.text = text
      /\ f.button = (IF s.textHeigh >= 144 THEN Frame(End(text), ButtonHeight) ELSE Zero)
      /\ f.photos =
           (IF s.totalPhotosHeigh > 0
            THEN Frame(12 + (IF s.textHeigh = 0 THEN 0 ELSE 6) + 45 + text.h
                         + (IF s.textHeigh >= 144 THEN 25 ELSE 0), s.totalPhotosHeigh)
            ELSE Zero)
      /\ f.bottom = Frame(row - 12 - 25, 25)
      /\ f = [container |-> f.container, author |-> f.author, text |-> f.text,
              button |-> f.button, photos |-> f.photos, bottom |-> f.bottom]
  <2>1. text = IF s.textHeigh = 0 THEN Zero
               ELSE Frame(12 + 45, IF s.compactHeight # 0 THEN shown ELSE s.textHeigh)
    BY <1>1
  <2> HIDE DEF text
  <2> QED BY <1>1, <2>1 DEF SetupFrames, shown
<1> HIDE DEF f
<1>4. /\ f.author.y = 6 /\ f.author.h = 45
      /\ f.bottom.y = row - 37 /\ f.bottom.h = 25
      /\ f.text.y = (IF s.textHeigh = 0 THEN 0 ELSE 57)
      /\ f.text.h = (IF s.textHeigh = 0 THEN 0 ELSE shown)
      /\ f.author \in Frames /\ f.bottom \in Frames /\ f.text \in Frames
  BY <1>2, <1>3 DEF Frame, Zero, Frames
<1>5. s.textHeigh = 0 => shown = 0
  BY <1>1
<1>6. /\ f.button.y = (IF s.textHeigh >= 144 THEN 57 + shown ELSE 0)
      /\ f.button.h = (IF s.textHeigh >= 144 THEN ButtonHeight ELSE 0)
      /\ f.button \in Frames
  BY <1>1, <1>2, <1>3, LayoutConstants DEF Frame, Zero, Frames, End
<1>7. /\ f.photos.h = s.totalPhotosHeigh
      /\ f.photos \in Frames
      /\ s.totalPhotosHeigh > 0 =>
           IF s.textHeigh >= 144 THEN f.photos.y = 88 + shown
           ELSE f.photos.y = 57 + (IF s.textHeigh = 0 THEN 0 ELSE 6 + s.textHeigh)
  <2>1. text.h \in Int /\ text.h = (IF s.textHeigh = 0 THEN 0 ELSE shown)
    BY <1>2 DEF Frame, Zero
  <2> HIDE DEF text
  <2> QED BY <1>1, <1>2, <1>3, <2>1 DEF Frame, Zero, Frames
<1>8. f \in [container : Int, author : Frames, text : Frames, button : Frames,
             photos : Frames, bottom : Frames]
  <2>1. f.container \in Int
    BY <1>2, <1>3
  <2> QED BY <1>3, <1>4, <1>6, <1>7, <2>1
<1>9. f.bottom.y = f.container - 25 /\ f.container = row - 12
  BY <1>2, <1>3, <1>4
<1> QED BY <1>4, <1>5, <1>6, <1>7, <1>8, <1>9 DEF CellOf, f, shown, row

\* updateContent keeps a cell in this form for the toggled post.
LEMMA UpdateKeepsCell ==
  ASSUME NEW s, NEW f, WellSized(s), CellOf(f, s), f.button.h > 0
  PROVE  /\ s.textHeigh >= 144
         /\ CellOf(UpdatedFrames(f, Toggled(s)), Toggled(s))
<1> DEFINE t == Toggled(s)
           shown == ShownTextHeigh(t)
           row == FeedRowHeight(t)
           g == UpdatedFrames(f, t)
<1>1. s.textHeigh >= 144
  BY LayoutConstants DEF CellOf, WellSized
<1>2. WellSized(t) /\ t.textHeigh = s.textHeigh /\ t.totalPhotosHeigh = s.totalPhotosHeigh
  BY <1>1, ToggledIsWell
<1>3. shown \in Nat /\ row \in Int
  <2>1. t.textHeigh \in Nat /\ t.totalPhotosHeigh \in Nat
    BY <1>2 DEF WellSized
  <2> HIDE DEF t
  <2> QED BY <1>2, <2>1, HeightOfRow
<1>4. /\ f \in [container : Int, author : Frames, text : Frames, button : Frames,
                photos : Frames, bottom : Frames]
      /\ f.author.y = 6 /\ f.author.h = 45 /\ f.text.y = 57
      /\ f.photos.h = s.totalPhotosHeigh /\ f.bottom.h = 25
  BY <1>1 DEF CellOf, WellSized
<1>5. UpdatedContainer(f, t) = row - 12
  BY DEF UpdatedContainer, FeedRowHeight
<1> HIDE DEF t, shown, row
<1>6. g = [f EXCEPT !.container = row - 12,
                    !.text.h = shown,
                    !.button = Frame(45 + shown + 12, ButtonHeight),
                    !.photos.y = 45 + shown + ButtonHeight + 12 + 6 - 6,
                    !.bottom.y = row - 12 - 25]
  BY <1>5 DEF UpdatedFrames, shown
<1> HIDE DEF g
<1>7. /\ g \in [container : Int, author : Frames, text : Frames, button : Frames,
                photos : Frames, bottom : Frames]
      /\ g.container = row - 12 /\ g.author = f.author
      /\ g.text.y = f.text.y /\ g.text.h = shown
      /\ g.button.y = 57 + shown /\ g.button.h = ButtonHeight
      /\ g.photos.y = 57 + shown + ButtonHeight /\ g.photos.h = f.photos.h
      /\ g.bottom.y = row - 37 /\ g.bottom.h = f.bottom.h
  <2>1. f \in [container : Int, author : Frames, text : Frames, button : Frames,
                photos : Frames, bottom : Frames]
    BY <1>4
  <2> DEFINE button == Frame(45 + shown + 12, ButtonHeight)
             y == 45 + shown + ButtonHeight + 12 + 6 - 6
             text == [f.text EXCEPT !.h = shown]
             photos == [f.photos EXCEPT !.y = y]
             bottom == [f.bottom EXCEPT !.y = row - 12 - 25]
  <2>2. g = [container |-> row - 12, author |-> f.author, text |-> text,
             button |-> button, photos |-> photos, bottom |-> bottom]
    BY <2>1, <1>6
  <2>3. f.text \in Frames /\ f.photos \in Frames /\ f.bottom \in Frames /\ f.author \in Frames
    BY <2>1
  <2>4. /\ text \in Frames /\ text.y = f.text.y /\ text.h = shown
    BY <2>3, <1>3 DEF Frames
  <2>5. y = 57 + shown + ButtonHeight /\ y \in Int
    BY <1>3, LayoutConstants
  <2>6. row - 12 - 25 = row - 37 /\ row - 37 \in Int /\ row - 12 \in Int
    BY <1>3
  <2>7. photos \in Frames /\ photos.y = y /\ photos.h = f.photos.h
    BY <2>3, <2>5 DEF Frames
  <2>8. bottom \in Frames /\ bottom.y = row - 37 /\ bottom.h = f.bottom.h
    BY <2>3, <2>6 DEF Frames
  <2>9. button \in Frames /\ button.y = 57 + shown /\ button.h = ButtonHeight
    BY <1>3, LayoutConstants DEF Frame, Frames
  <2> HIDE DEF text, photos, bottom, button, y
  <2> QED BY <2>2, <2>3, <2>4, <2>5, <2>6, <2>7, <2>8, <2>9
<1>8. g.bottom.y = g.container - 25
  BY <1>3, <1>7
<1> QED BY <1>1, <1>2, <1>3, <1>4, <1>7, <1>8 DEF CellOf, t, shown, row, g

\* The details leave the photos 6 points above the bottom bar and show all the text.
LEMMA DetailsFit ==
  ASSUME NEW s, WellSized(s)
  PROVE  LET f == DetailFrames(s, DetailRowHeight(s))
         IN /\ Fits(f, DetailRowHeight(s))
            /\ f.text.h = s.textHeigh
            /\ s.totalPhotosHeigh > 0 => f.bottom.y - End(f.photos) = 6
<1> DEFINE row == DetailRowHeight(s)
           f == DetailFrames(s, row)
           text == IF s.textHeigh = 0 THEN Zero ELSE Frame(57, s.textHeigh)
<1>1. s.textHeigh \in Nat /\ s.totalPhotosHeigh \in Nat
  BY DEF WellSized
<1>2. row = 94 + (IF s.textHeigh > 0 THEN 6 ELSE 0)
               + (IF s.totalPhotosHeigh > 0 THEN 6 ELSE 0) + s.totalPhotosHeigh + s.textHeigh
  BY DEF WellSized, DetailRowHeight
<1> HIDE DEF row
<1>3. /\ f.container = row - 12
      /\ f.author = Frame(6, 45)
      /\ f.text = text
      /\ f.button = Zero
      /\ f.photos =
           (IF s.totalPhotosHeigh > 0
            THEN Frame(12 + (IF s.textHeigh = 0 THEN 0 ELSE 6) + 45 + text.h, s.totalPhotosHeigh)
            ELSE Zero)
      /\ f.bottom = Frame(row - 12 - 25, 25)
  <2>1. text = IF s.textHeigh = 0 THEN Zero ELSE Frame(12 + 45, s.textHeigh)
    OBVIOUS
  <2> HIDE DEF text
  <2> QED BY <2>1 DEF DetailFrames
<1>4. text.h = s.textHeigh /\ text.y = (IF s.textHeigh = 0 THEN 0 ELSE 57)
  BY <1>1 DEF Frame, Zero
<1> HIDE DEF f, text
<1>5. /\ f.author.y = 6 /\ f.author.h = 45
      /\ f.text.h = s.textHeigh /\ f.text.y = (IF s.textHeigh = 0 THEN 0 ELSE 57)
      /\ f.button.y = 0 /\ f.button.h = 0
      /\ f.bottom.y = row - 37 /\ f.bottom.h = 25
      /\ f.photos.h = s.totalPhotosHeigh
      /\ s.totalPhotosHeigh > 0 =>
           f.photos.y = 57 + (IF s.textHeigh = 0 THEN 0 ELSE 6) + s.textHeigh
  BY <1>1, <1>2, <1>3, <1>4 DEF Frame, Zero
<1>6. f.photos.h > 0 => \A part \in {f.author, f.text, f.button} : f.photos.y >= End(part)
  BY <1>1, <1>5 DEF End
<1>7. s.totalPhotosHeigh > 0 => f.bottom.y - End(f.photos) = 6 /\ End(f.photos) <= f.bottom.y
  BY <1>1, <1>2, <1>5 DEF End
<1>8. /\ f.text.h > 0 => f.text.y >= End(f.author)
      /\ End(f.author) <= f.bottom.y /\ End(f.text) <= f.bottom.y
      /\ End(f.bottom) = row - 12
  BY <1>1, <1>2, <1>5 DEF End
<1>9. ~(f.button.h > 0)
  BY <1>5
<1> QED BY <1>3, <1>5, <1>6, <1>7, <1>8, <1>9 DEF Fits, f, row
-----------------------------------------------------------------------------
(* The feed.                                                               *)

LEMMA RowsInductive ==
  ASSUME RowsInv, [Next]_vars PROVE RowsInv'
<1> USE DEF RowsInv, PostsAreRecords, CellsAreRows, RowsAreWell
<1>1. ASSUME NEW answer \in NewsAnswers, AnswerNews(answer) PROVE RowsInv'
  <2>1. \A i \in DOMAIN Items(answer) : Items(answer)[i].text \in Nat
    <3>1. Items(answer) = answer.items \/ Items(answer) = <<>>
      BY DEF Items
    <3>2. \A i \in DOMAIN answer.items : answer.items[i].text \in Nat
      BY <1>1, AnswersOK
    <3>3. CASE Items(answer) = answer.items
      BY <3>2, <3>3
    <3>4. CASE Items(answer) = <<>>
      BY <3>4
    <3> QED BY <3>1, <3>3, <3>4
  <2>2. \A i \in DOMAIN Items(answer) : WellSized(PostOf(Items(answer)[i], answer).size)
    BY <2>1, SizedIsWell DEF PostOf
  <2>3. \A i \in DOMAIN Items(answer) :
          PostOf(Items(answer)[i], answer) =
            [author |-> PostOf(Items(answer)[i], answer).author,
             photos |-> PostOf(Items(answer)[i], answer).photos,
             size |-> PostOf(Items(answer)[i], answer).size]
    BY DEF PostOf
  <2> QED BY <1>1, <2>2, <2>3 DEF AnswerNews, Unseen
<1>2. ASSUME NEW r \in Rows, FillRow(r) PROVE RowsInv'
  <2>1. CellOf(SetupFrames(posts[r].size, FeedRowHeight(posts[r].size)), posts[r].size)
    BY <1>2, SetupGivesCell DEF Rows
  <2> QED BY <1>2, <2>1 DEF FillRow, Rows
<1>3. ASSUME NEW r \in Rows, LeaveRow(r) PROVE RowsInv'
  BY <1>3 DEF LeaveRow, Rows
<1>4. ASSUME NEW r \in Rows, ShowFull(r) PROVE RowsInv'
  <2> DEFINE s == posts[r].size
             f == cells[r]
  <2>1. WellSized(s) /\ CellOf(f, s) /\ f.button.h > 0
    BY <1>4 DEF ShowFull, Rows
  <2>2. WellSized(Toggled(s)) /\ CellOf(UpdatedFrames(f, Toggled(s)), Toggled(s))
    BY <2>1, UpdateKeepsCell, ToggledIsWell
  <2>3. /\ DOMAIN posts' = DOMAIN posts
        /\ posts'[r] = [author |-> posts[r].author, photos |-> posts[r].photos, size |-> Toggled(s)]
        /\ \A q \in DOMAIN posts \ {r} : posts'[q] = posts[q]
        /\ posts' = [q \in DOMAIN posts |-> posts'[q]]
    <3> DEFINE p == posts[r]
               toggled == [p EXCEPT !.size = Toggled(s)]
    <3>1. p = [author |-> p.author, photos |-> p.photos, size |-> p.size]
      BY DEF Rows
    <3>2. toggled = [author |-> p.author, photos |-> p.photos, size |-> Toggled(s)]
      <4> HIDE DEF p, s
      <4> QED BY <3>1
    <3>3. posts' = [posts EXCEPT ![r] = toggled]
      BY <1>4 DEF ShowFull
    <3> HIDE DEF toggled, s
    <3>4. /\ DOMAIN posts' = DOMAIN posts /\ posts'[r] = toggled
          /\ \A q \in DOMAIN posts \ {r} : posts'[q] = posts[q]
          /\ posts' = [q \in DOMAIN posts |-> posts'[q]]
      BY <3>3 DEF Rows
    <3> QED BY <3>2, <3>4
  <2>4. /\ cells' = [q \in DOMAIN posts |-> cells'[q]]
        /\ cells'[r] = UpdatedFrames(f, Toggled(s))
        /\ \A q \in DOMAIN posts \ {r} : cells'[q] = cells[q]
    BY <1>4 DEF ShowFull, Rows
  <2>5. posts'[r].size = Toggled(s)
    BY <2>3
  <2> HIDE DEF s, f
  <2>6. \A q \in DOMAIN posts : /\ WellSized(posts'[q].size)
                                /\ cells'[q] # Nil => CellOf(cells'[q], posts'[q].size)
    BY <2>2, <2>3, <2>4, <2>5
  <2>7. \A q \in DOMAIN posts :
          posts'[q] = [author |-> posts'[q].author, photos |-> posts'[q].photos, size |-> posts'[q].size]
    BY <2>3
  <2>8. posts' = [q \in DOMAIN posts' |->
                    [author |-> posts'[q].author, photos |-> posts'[q].photos, size |-> posts'[q].size]]
    BY <2>3, <2>7
  <2>9. DOMAIN posts' = DOMAIN posts
    BY <2>3
  <2>10. PostsAreRecords'
    BY <2>8
  <2>11. CellsAreRows'
    <3>1. cells' = [q \in DOMAIN posts |-> cells'[q]]
      BY <2>4
    <3> QED BY <2>9, <3>1
  <2>12. RowsAreWell'
    BY ONLY <2>6, <2>9 DEF RowsAreWell
  <2> QED BY ONLY <2>10, <2>11, <2>12 DEF RowsInv
<1>5. CASE UNCHANGED <<posts, cells>>
  BY <1>5
<1> QED
  BY <1>1, <1>2, <1>3, <1>4, <1>5
     DEF Next, vars, Open, FillHead, Back, AnswerComments, FillComment

\* RowsFit for every feed: however the rows are filled, given up and toggled, each is as
\* high as what its cell holds (NewsFeedModel.calculateSize, NewsFeedTableViewCell).
THEOREM RowsAlwaysFit == Spec => []RowsFit
<1>1. Init => RowsInv
  BY DEF Init, RowsInv, PostsAreRecords, CellsAreRows, RowsAreWell
<1>2. RowsInv => RowsFit
  <2> SUFFICES ASSUME RowsInv, NEW r \in Rows
               PROVE  /\ posts[r].size.isCompact => posts[r].size.compactHeight # 0
                      /\ cells[r] # Nil => Fits(cells[r], FeedRowHeight(posts[r].size))
    BY DEF RowsFit
  <2>1. WellSized(posts[r].size) /\ (cells[r] # Nil => CellOf(cells[r], posts[r].size))
    BY DEF RowsInv, RowsAreWell, Rows
  <2>2. posts[r].size.isCompact => posts[r].size.compactHeight # 0
    BY <2>1 DEF WellSized
  <2> QED BY <2>1, <2>2, CellFits
<1> QED BY <1>1, <1>2, RowsInductive, PTL DEF Spec
-----------------------------------------------------------------------------
(* The details.                                                            *)

LEMMA HeadInductive ==
  ASSUME RowsInv, HeadInv, [Next]_vars PROVE HeadInv'
<1> USE DEF HeadInv
<1>1. ASSUME NEW r \in Rows, Open(r) PROVE HeadInv'
  BY <1>1 DEF Open, RowsInv, RowsAreWell, Rows
<1>2. CASE FillHead
  BY <1>2 DEF FillHead
<1>3. ASSUME NEW answer, AnswerComments(answer) PROVE HeadInv'
  BY <1>3 DEF AnswerComments
<1>4. CASE Back
  BY <1>4 DEF Back
<1>5. CASE UNCHANGED <<post, head>>
  BY <1>5
<1> QED
  BY <1>1, <1>2, <1>3, <1>4, <1>5
     DEF Next, vars, AnswerNews, FillRow, LeaveRow, ShowFull, FillComment

\* HeadFits for every post: the details show all of its text whether the feed showed it
\* compact or not, with the photos 6 points above the bar (DetailPostTableViewCell).
THEOREM HeadAlwaysFits == Spec => []HeadFits
<1>1. Init => RowsInv /\ HeadInv
  BY DEF Init, RowsInv, PostsAreRecords, CellsAreRows, RowsAreWell, HeadInv
<1>2. RowsInv /\ HeadInv /\ [Next]_vars => (RowsInv /\ HeadInv)'
  BY RowsInductive, HeadInductive
<1>3. HeadInv => HeadFits
  BY DetailsFit DEF HeadInv, HeadFits
<1> QED BY <1>1, <1>2, <1>3, PTL DEF Spec
-----------------------------------------------------------------------------
(* The authors.                                                            *)

\* The posts and comments are those of the answers they were made of.
AuthorsInv ==
  /\ news # Nil => news \in NewsAnswers
  /\ thread # Nil => thread \in CommentAnswers
  /\ \A r \in DOMAIN posts :
       /\ news # Nil /\ r \in DOMAIN Items(news)
       /\ posts[r].author = AuthorOf(Items(news)[r].from, news)
  /\ comments = IF thread = Nil THEN <<>>
                ELSE [i \in DOMAIN Items(thread) |-> CommentOf(Items(thread)[i], thread)]

\* An author is missing only if neither list has them.
LEMMA MissingAuthor ==
  ASSUME NEW answer \in NewsAnswers \cup CommentAnswers, NEW id \in Ids(answer),
         AuthorOf(id, answer) = Nil
  PROVE  id \notin answer.profiles /\ -id \notin answer.groups
<1>1. /\ id \in Int /\ id # Nil
      /\ answer.profiles \subseteq Nat \ {0} /\ answer.groups \subseteq Nat \ {0}
  BY AnswersOK, NilIsApart
<1>2. ~(id > 0 /\ id \in answer.profiles) /\ ~(id < 0 /\ -id \in answer.groups)
  BY <1>1 DEF AuthorOf
<1>3. id \in answer.profiles => id > 0
  BY <1>1
<1>4. -id \in answer.groups => id < 0
  <2> SUFFICES ASSUME -id \in answer.groups PROVE id < 0
    OBVIOUS
  <2>1. -id \in Nat /\ -id # 0
    BY <1>1
  <2> QED BY <1>1, <2>1
<1> QED BY <1>2, <1>3, <1>4

\* The ids of the items are among those an answer names, and of whole threads.
LEMMA IdsOfItems ==
  ASSUME NEW answer, NEW i \in DOMAIN Items(answer)
  PROVE  /\ Items(answer) = answer.items
         /\ Items(answer)[i].from \in Ids(answer)
         /\ \A t : /\ "thread" \in DOMAIN answer.items[i]
                   /\ t = ThreadOf(answer.items[i]) /\ t # Nil
                  => \A k \in DOMAIN t.items : t.items[k].from \in Ids(answer)
<1>1. Items(answer) = answer.items
  BY DEF Items
<1> QED BY <1>1 DEF Ids

LEMMA AuthorsInductive ==
  ASSUME RowsInv, AuthorsInv, [Next]_vars PROVE AuthorsInv'
<1> USE DEF AuthorsInv
<1>1. ASSUME NEW answer \in NewsAnswers, AnswerNews(answer) PROVE AuthorsInv'
  <2>1. answer # Nil
    BY AnswersOK
  <2>2. \A r \in DOMAIN posts' : /\ r \in DOMAIN Items(answer)
                                /\ posts'[r].author = AuthorOf(Items(answer)[r].from, answer)
    BY <1>1 DEF AnswerNews, PostOf
  <2> QED BY <1>1, <2>1, <2>2 DEF AnswerNews
<1>2. ASSUME NEW r \in Rows, ShowFull(r) PROVE AuthorsInv'
  <2>1. DOMAIN posts' = DOMAIN posts /\ \A q \in DOMAIN posts : posts'[q].author = posts[q].author
    <3>1. \A q \in DOMAIN posts :
            posts[q] = [author |-> posts[q].author, photos |-> posts[q].photos, size |-> posts[q].size]
      BY DEF RowsInv, PostsAreRecords
    <3>2. [posts[r] EXCEPT !.size = Toggled(posts[r].size)].author = posts[r].author
      BY <3>1 DEF Rows
    <3>3. posts' = [posts EXCEPT ![r] = [posts[r] EXCEPT !.size = Toggled(posts[r].size)]]
      BY <1>2 DEF ShowFull
    <3> QED BY <3>2, <3>3
  <2> QED BY <1>2, <2>1 DEF ShowFull
<1>3. ASSUME NEW r \in Rows, Open(r) PROVE AuthorsInv'
  BY <1>3 DEF Open
<1>4. ASSUME NEW answer \in CommentAnswers, AnswerComments(answer) PROVE AuthorsInv'
  <2>1. answer # Nil
    BY AnswersOK
  <2> QED BY <1>4, <2>1 DEF AnswerComments
<1>5. CASE Back
  BY <1>5 DEF Back
<1>6. CASE UNCHANGED <<posts, comments, news, thread>>
  BY <1>6
<1> QED
  BY <1>1, <1>2, <1>3, <1>4, <1>5, <1>6
     DEF Next, vars, FillRow, LeaveRow, FillHead, FillComment

LEMMA CrashInductive ==
  ASSUME AuthorsInv, CrashNeedsUnknownAuthor, [Next]_vars PROVE CrashNeedsUnknownAuthor'
<1> DEFINE Unknown(answer) ==
             \E id \in Ids(answer) : id \notin answer.profiles /\ -id \notin answer.groups
<1>1. ASSUME NEW r \in Rows, FillRow(r), crashed' PROVE CrashNeedsUnknownAuthor'
  <2>1. /\ news # Nil /\ news \in NewsAnswers /\ r \in DOMAIN Items(news)
        /\ AuthorOf(Items(news)[r].from, news) = Nil
    BY <1>1 DEF FillRow, AuthorsInv, Rows
  <2>2. Items(news)[r].from \in Ids(news)
    BY <2>1, IdsOfItems
  <2>3. Unknown(news)
    BY <2>1, <2>2, MissingAuthor
  <2> HIDE DEF Unknown
  <2>4. news' = news /\ thread' = thread
    BY <1>1 DEF FillRow
  <2> QED BY <2>1, <2>3, <2>4 DEF CrashNeedsUnknownAuthor, Unknown
<1>2. ASSUME NEW row \in 1..Len(comments), FillComment(row) PROVE CrashNeedsUnknownAuthor'
  <2> DEFINE c == CommentAt(row)
  <2>1. c.author = Nil \/ \E k \in DOMAIN c.replies : c.replies[k].author = Nil
    BY <1>2 DEF FillComment
  <2>2. thread # Nil /\ thread \in CommentAnswers
    BY DEF AuthorsInv
  <2> DEFINE i == Len(comments) - row + 1
             item == Items(thread)[i]
             t == ThreadOf(item)
  <2>3. i \in DOMAIN Items(thread) /\ c = CommentOf(item, thread)
    <3>1. Items(thread) \in Seq({thread.items[k] : k \in DOMAIN thread.items})
      BY <2>2, AnswersOK DEF Items
    <3>2. DOMAIN Items(thread) = 1..Len(Items(thread)) /\ Len(Items(thread)) \in Nat
      BY <3>1
    <3>3. comments = [k \in 1..Len(Items(thread)) |-> CommentOf(Items(thread)[k], thread)]
      BY <2>2, <3>2 DEF AuthorsInv
    <3>4. Len(comments) = Len(Items(thread))
      BY <3>2, <3>3
    <3>5. i \in 1..Len(Items(thread))
      BY <3>2, <3>4
    <3> QED BY <3>2, <3>3, <3>5 DEF CommentAt
  <2> HIDE DEF i, c
  <2>4. ASSUME c.author = Nil PROVE Unknown(thread)
    <3>1. AuthorOf(item.from, thread) = Nil
      BY <2>3, <2>4 DEF CommentOf
    <3> QED BY <2>2, <2>3, <3>1, IdsOfItems, MissingAuthor
  <2>5. ASSUME \E k \in DOMAIN c.replies : c.replies[k].author = Nil
        PROVE  Unknown(thread)
    <3>1. PICK k \in DOMAIN c.replies : c.replies[k].author = Nil
      BY <2>5
    <3>2. c.replies = IF t = Nil THEN <<>> ELSE [j \in DOMAIN t.items |-> ReplyOf(t.items[j], thread)]
      BY <2>3 DEF CommentOf
    <3> HIDE DEF t
    <3>3. t # Nil /\ k \in DOMAIN t.items /\ c.replies[k] = ReplyOf(t.items[k], thread)
      BY <3>1, <3>2
    <3>4. AuthorOf(t.items[k].from, thread) = Nil
      BY <3>1, <3>3 DEF ReplyOf
    <3>5. t.items[k].from \in Ids(thread)
      <4>1. Items(thread) = thread.items /\ i \in DOMAIN thread.items
        BY <2>3, IdsOfItems
      <4>2. "thread" \in DOMAIN thread.items[i]
        BY <2>2, <4>1, AnswersOK
      <4> QED BY <2>3, <3>3, <4>1, <4>2, IdsOfItems DEF t
    <3> QED BY <2>2, <3>4, <3>5, MissingAuthor
  <2>6. Unknown(thread)
    BY <2>1, <2>4, <2>5
  <2> HIDE DEF Unknown
  <2>7. news' = news /\ thread' = thread
    BY <1>2 DEF FillComment
  <2> QED BY <2>2, <2>6, <2>7 DEF CrashNeedsUnknownAuthor, Unknown
<1>3. CASE UNCHANGED <<crashed, news, thread>>
  BY <1>3 DEF CrashNeedsUnknownAuthor
<1>4. CASE ~crashed'
  BY <1>4 DEF CrashNeedsUnknownAuthor
<1> QED
  BY <1>1, <1>2, <1>3, <1>4
     DEF Next, vars, AnswerNews, LeaveRow, ShowFull, Open, FillHead, AnswerComments, Back

\* CrashNeedsUnknownAuthor for every answer: the unwrapped picture of an author ends the
\* process only when an answer shown names someone it does not describe (the setup of the
\* cells, against the author lookup of APIManager).
THEOREM OnlyUnknownAuthorsCrash == Spec => []CrashNeedsUnknownAuthor
<1>1. Init => RowsInv /\ AuthorsInv /\ CrashNeedsUnknownAuthor
  BY DEF Init, RowsInv, PostsAreRecords, CellsAreRows, RowsAreWell, AuthorsInv,
         CrashNeedsUnknownAuthor
<1>2. RowsInv /\ AuthorsInv /\ CrashNeedsUnknownAuthor /\ [Next]_vars
        => (RowsInv /\ AuthorsInv /\ CrashNeedsUnknownAuthor)'
  BY RowsInductive, AuthorsInductive, CrashInductive
<1> QED BY <1>1, <1>2, PTL DEF Spec

-----------------------------------------------------------------------------
(* Types.                                                                  *)

LEMMA CellsAreCells == ASSUME NEW s, NEW f, CellOf(f, s) PROVE IsCell(f)
<1>1. f \in [container : Int, author : Frames, text : Frames, button : Frames,
             photos : Frames, bottom : Frames]
  BY DEF CellOf
<1> QED BY <1>1 DEF IsCell, IsFrame, Frames

LEMMA DetailsAreCell ==
  ASSUME NEW s, WellSized(s) PROVE IsCell(DetailFrames(s, DetailRowHeight(s)))
<1> DEFINE row == DetailRowHeight(s)
           f == DetailFrames(s, row)
           text == IF s.textHeigh = 0 THEN Zero ELSE Frame(57, s.textHeigh)
           above == 12 + (IF s.textHeigh = 0 THEN 0 ELSE 6) + 45 + text.h
<1>1. s.textHeigh \in Nat /\ s.totalPhotosHeigh \in Nat
  BY DEF WellSized
<1>2. row \in Int
  BY DEF WellSized, DetailRowHeight
<1>3. IsFrame(text)
  BY <1>1 DEF IsFrame, Frame, Zero
<1>4. above \in Int
  BY <1>3 DEF IsFrame
<1> HIDE DEF row, above
<1>5. /\ f.container = row - 12
      /\ f.author = Frame(6, 45)
      /\ f.text = text
      /\ f.button = Zero
      /\ f.photos = (IF s.totalPhotosHeigh > 0 THEN Frame(above, s.totalPhotosHeigh) ELSE Zero)
      /\ f.bottom = Frame(row - 37, 25)
  <2>1. text = IF s.textHeigh = 0 THEN Zero ELSE Frame(12 + 45, s.textHeigh)
    OBVIOUS
  <2>2. row - 12 - 25 = row - 37
    BY <1>2
  <2> HIDE DEF text
  <2> QED BY <2>1, <2>2 DEF DetailFrames, above
<1> HIDE DEF f, text
<1>6. IsFrame(Frame(6, 45)) /\ IsFrame(Zero) /\ IsFrame(Frame(row - 37, 25))
  BY <1>2 DEF IsFrame, Frame, Zero
<1>7. IsFrame(Frame(above, s.totalPhotosHeigh))
  BY <1>1, <1>4 DEF IsFrame, Frame
<1>8. f.container \in Int
  BY <1>2, <1>5
<1> QED BY <1>3, <1>5, <1>6, <1>7, <1>8 DEF IsCell, f, row

ThreadInv ==
  /\ comments # <<>> => post # Nil /\ thread # Nil
  /\ crashed \in BOOLEAN

LEMMA ThreadInductive == ASSUME ThreadInv, [Next]_vars PROVE ThreadInv'
<1> USE DEF ThreadInv
<1>1. ASSUME NEW r \in Rows, Open(r) PROVE ThreadInv'
  BY <1>1 DEF Open
<1>2. ASSUME NEW answer \in CommentAnswers, AnswerComments(answer) PROVE ThreadInv'
  BY <1>2, AnswersOK DEF AnswerComments
<1>3. CASE Back
  BY <1>3 DEF Back
<1>4. ASSUME NEW r \in Rows, FillRow(r) PROVE ThreadInv'
  BY <1>4 DEF FillRow
<1>5. ASSUME UNCHANGED <<post, comments, thread>>, crashed' = TRUE PROVE ThreadInv'
  BY <1>5
<1>6. CASE UNCHANGED <<post, comments, thread, crashed>>
  BY <1>6
<1>7. ASSUME NEW row \in 1..Len(comments), FillComment(row) PROVE ThreadInv'
  BY <1>5, <1>7 DEF FillComment
<1> QED
  BY <1>1, <1>2, <1>3, <1>4, <1>6, <1>7
     DEF Next, vars, AnswerNews, LeaveRow, ShowFull, FillHead

\* TypeOK for every answer: a cell that shows has a frame for each part, the details have
\* one only while a post is open, and comments only once they were answered.
THEOREM TypeCorrect == Spec => []TypeOK
<1>1. Init => RowsInv /\ HeadInv /\ ThreadInv
  <2>1. Init => RowsInv /\ HeadInv
    BY DEF Init, RowsInv, PostsAreRecords, CellsAreRows, RowsAreWell, HeadInv
  <2>2. Init => ThreadInv
    <3>1. Init => crashed = FALSE /\ comments = <<>>
      BY DEF Init
    <3> QED BY <3>1 DEF ThreadInv
  <2> QED BY <2>1, <2>2
<1>2. RowsInv /\ HeadInv /\ ThreadInv /\ [Next]_vars => (RowsInv /\ HeadInv /\ ThreadInv)'
  BY RowsInductive, HeadInductive, ThreadInductive
<1>3. RowsInv /\ HeadInv /\ ThreadInv => TypeOK
  <2> SUFFICES ASSUME RowsInv, HeadInv, ThreadInv PROVE TypeOK
    OBVIOUS
  <2>1. DOMAIN cells = Rows
    BY DEF RowsInv, CellsAreRows, Rows
  <2>2. \A r \in Rows : cells[r] = Nil \/ IsCell(cells[r])
    BY CellsAreCells DEF RowsInv, RowsAreWell, Rows
  <2>3. head = Nil \/ (post # Nil /\ IsCell(head))
    BY DetailsAreCell DEF HeadInv
  <2> QED BY <2>1, <2>2, <2>3 DEF TypeOK, ThreadInv
<1> QED BY <1>1, <1>2, <1>3, PTL DEF Spec
-----------------------------------------------------------------------------
(* Comments.                                                               *)

\* A comment as CommentsModel has it: heights of texts, and a list of replies.
IsComment(c) ==
  /\ c.textHeight \in Nat
  /\ \E n \in Nat : DOMAIN c.replies = 1..n /\ Len(c.replies) = n
  /\ \A k \in DOMAIN c.replies : c.replies[k].textHeight \in Nat

\* The sum of the replies' heights is one loop over them.
LEMMA RepliesHeightIsSum ==
  ASSUME NEW c, IsComment(c)
  PROVE  \E upTo \in [0..Len(c.replies) -> Nat] :
           /\ upTo[0] = 0
           /\ \A k \in 1..Len(c.replies) : upTo[k] = upTo[k - 1] + ReplyHeight(c, k)
           /\ RepliesHeight(c) = upTo[Len(c.replies)]
<1> DEFINE n == Len(c.replies)
           h == [k \in 1..n |-> ReplyHeight(c, k)]
           turn == [p \in Nat \X (1..n) |-> p[1] + h[p[2]]]
<1>1. n \in Nat /\ DOMAIN c.replies = 1..n
  BY DEF IsComment
<1>2. h \in [1..n -> Nat]
  BY <1>1 DEF IsComment, ReplyHeight, BodyHeight
<1> HIDE DEF n
<1>3. \A k \in 1..n : h[k] = ReplyHeight(c, k)
  OBVIOUS
<1> HIDE DEF h
<1>4. turn \in [Nat \X (1..n) -> Nat]
  BY <1>2
<1>5. \A x \in Nat, k \in 1..n : turn[<<x, k>>] = x + h[k]
  OBVIOUS
<1> HIDE DEF turn
<1>6. PICK f \in [0..n -> Nat] : f[0] = 0 /\ \A k \in 1..n : f[k] = turn[<<f[k - 1], k>>]
  <2> DEFINE S == Nat
             first == 0
  <2>1. first \in S /\ turn \in [S \X (1..n) -> S]
    BY <1>4
  <2> HIDE DEF S, first
  <2>2. \E f \in [0..n -> S] : f[0] = first /\ \A k \in 1..n : f[k] = turn[<<f[k - 1], k>>]
    BY <1>1, <2>1, LoopValues
  <2> QED BY <2>2 DEF S, first
<1>7. ASSUME NEW k \in 1..n PROVE f[k] = f[k - 1] + ReplyHeight(c, k)
  <2>1. f[k - 1] \in Nat
    BY <1>1, <1>6
  <2> QED BY <1>3, <1>5, <1>6, <2>1
<1> DEFINE body(g) == [k \in 0..n |-> IF k = 0 THEN 0 ELSE g[k - 1] + ReplyHeight(c, k)]
           upTo == CHOOSE g : g = body(g)
<1>8. f = body(f)
  BY <1>1, <1>6, <1>7
<1>9. upTo = body(upTo)
  <2> HIDE DEF body
  <2> QED BY <1>8
<1>10. RepliesHeight(c) = upTo[n]
  BY DEF RepliesHeight, n
<1> HIDE DEF upTo
<1>11. DOMAIN upTo = 0..n /\ upTo[0] = 0
       /\ \A k \in 1..n : upTo[k] = upTo[k - 1] + ReplyHeight(c, k)
  <2>1. \A k \in 0..n : upTo[k] = IF k = 0 THEN 0 ELSE upTo[k - 1] + ReplyHeight(c, k)
    BY <1>9
  <2> QED BY <1>1, <1>9, <2>1
<1>12. \A k \in 0..n : upTo[k] = f[k]
  <2> DEFINE T == {k \in Nat : k <= n => upTo[k] = f[k]}
  <2>1. 0 \in T
    BY <1>1, <1>6, <1>11
  <2>2. ASSUME NEW k \in Nat, k \in T PROVE k + 1 \in T
    <3> SUFFICES ASSUME k + 1 <= n PROVE upTo[k + 1] = f[k + 1]
      OBVIOUS
    <3>1. upTo[k] = f[k] /\ k + 1 \in 1..n /\ (k + 1) - 1 = k
      BY <1>1, <2>2
    <3> QED BY <1>7, <1>11, <3>1
  <2> HIDE DEF T
  <2>3. \A k \in Nat : k \in T
    BY <2>1, <2>2, Induction
  <2> QED BY <2>3 DEF T
<1>13. upTo \in [0..n -> Nat]
  <2>1. upTo = [k \in 0..n |-> upTo[k]]
    BY <1>9
  <2> QED BY <1>6, <1>12, <2>1
<1> QED BY <1>10, <1>11, <1>13 DEF n

LEMMA HeightsOfReplies ==
  ASSUME NEW c, IsComment(c)
  PROVE  \A k \in DOMAIN c.replies : ReplyHeight(c, k) \in Nat
BY DEF IsComment, ReplyHeight, BodyHeight

\* The replies stand one below the other: each begins where the heights of those above
\* it, and two spaces for each, put it.
LEMMA RepliesStandInRow ==
  ASSUME NEW c, IsComment(c), NEW upTo \in [0..Len(c.replies) -> Nat],
         upTo[0] = 0,
         \A k \in 1..Len(c.replies) : upTo[k] = upTo[k - 1] + ReplyHeight(c, k)
  PROVE  /\ DOMAIN ReplyFrames(c) = 1..Len(c.replies)
         /\ \A k \in 1..Len(c.replies) :
              ReplyFrames(c)[k] = Frame(ViewHeight(c) + 6 + 12 * k + upTo[k - 1], ReplyHeight(c, k))
<1> DEFINE n == Len(c.replies)
           v == ViewHeight(c)
           f == [k \in 1..n |-> v + 6 + 12 * k + upTo[k - 1]]
           body(g) == [k \in 1..n |-> IF k = 1 THEN 6 + v + 6 + 6
                                      ELSE g[k - 1] + ReplyHeight(c, k - 1) + 6 + 6]
           y == CHOOSE g : g = body(g)
<1>1. n \in Nat /\ DOMAIN c.replies = 1..n
  BY DEF IsComment
<1>2. v \in Nat
  BY DEF IsComment, ViewHeight, BodyHeight
<1>3. ReplyFrames(c) = [k \in 1..n |-> Frame(y[k], ReplyHeight(c, k))]
  BY DEF ReplyFrames
<1>4. \A k \in 1..n : ReplyHeight(c, k) \in Nat
  BY <1>1, HeightsOfReplies
<1>5. \A k \in 1..n : upTo[k] = upTo[k - 1] + ReplyHeight(c, k)
  OBVIOUS
<1>6. \A k \in 0..n : upTo[k] \in Nat
  OBVIOUS
<1>0. upTo[0] = 0
  OBVIOUS
<1> HIDE DEF n, v
<1>7. f = body(f)
  <2> SUFFICES ASSUME NEW k \in 1..n
               PROVE  f[k] = IF k = 1 THEN 6 + v + 6 + 6 ELSE f[k - 1] + ReplyHeight(c, k - 1) + 6 + 6
    BY Zenon
  <2>1. CASE k = 1
    BY <1>0, <1>1, <1>2, <2>1
  <2>2. CASE k # 1
    <3> DEFINE j == k - 1
    <3>1. j \in 1..n /\ j - 1 \in 0..n /\ j \in 0..n /\ k = j + 1
      BY <1>1, <2>2
    <3> HIDE DEF j
    <3>2. /\ f[k] = v + 6 + 12 * k + upTo[j]
          /\ f[j] = v + 6 + 12 * j + upTo[j - 1]
      BY <3>1
    <3>3. upTo[j] = upTo[j - 1] + ReplyHeight(c, j) /\ upTo[j] \in Nat /\ upTo[j - 1] \in Nat
          /\ ReplyHeight(c, j) \in Nat
      BY <1>4, <1>5, <1>6, <3>1
    <3>4. f[k] = f[j] + ReplyHeight(c, j) + 6 + 6
      BY <1>2, <3>1, <3>2, <3>3
    <3> QED BY <2>2, <3>4 DEF j
  <2> QED BY <2>1, <2>2
<1>8. y = body(y)
  <2> HIDE DEF body, f
  <2> QED BY <1>7
<1> HIDE DEF y
<1>9. \A k \in 1..n : y[k] = IF k = 1 THEN 6 + v + 6 + 6 ELSE y[k - 1] + ReplyHeight(c, k - 1) + 6 + 6
  BY <1>8
<1>10. \A k \in 1..n : f[k] = IF k = 1 THEN 6 + v + 6 + 6 ELSE f[k - 1] + ReplyHeight(c, k - 1) + 6 + 6
  BY <1>7
<1>11. \A k \in 1..n : f[k] = v + 6 + 12 * k + upTo[k - 1]
  OBVIOUS
<1> HIDE DEF f
<1>12. \A k \in 1..n : y[k] = f[k]
  <2> DEFINE T == {k \in Nat : k \in 1..n => y[k] = f[k]}
  <2>1. 0 \in T
    OBVIOUS
  <2>2. ASSUME NEW k \in Nat, k \in T PROVE k + 1 \in T
    <3> SUFFICES ASSUME k + 1 \in 1..n PROVE y[k + 1] = f[k + 1]
      OBVIOUS
    <3>1. (k + 1) - 1 = k /\ (k + 1 = 1 \/ k \in 1..n)
      BY <1>1
    <3>2. k + 1 # 1 => y[k] = f[k]
      BY <2>2, <3>1
    <3> QED BY <1>9, <1>10, <3>1, <3>2
  <2> HIDE DEF T
  <2>3. \A k \in Nat : k \in T
    BY <2>1, <2>2, Induction
  <2> QED BY <2>3 DEF T
<1>13. \A k \in 1..n : y[k] = v + 6 + 12 * k + upTo[k - 1]
  BY <1>11, <1>12
<1>14. \A k \in 1..n : ReplyFrames(c)[k] = Frame(v + 6 + 12 * k + upTo[k - 1], ReplyHeight(c, k))
  BY <1>3, <1>13
<1>15. DOMAIN ReplyFrames(c) = 1..n
  BY <1>3
<1> QED BY <1>14, <1>15 DEF n, v

\* The height CommentsModel computes for a comment is enough for any number of replies.
LEMMA CommentsFitTheirRows == ASSUME NEW c, IsComment(c) PROVE CommentFits(c)
<1> DEFINE n == Len(c.replies)
           v == ViewHeight(c)
           frames == <<CommentFrame(c)>> \o ReplyFrames(c)
<1>1. n \in Nat /\ DOMAIN c.replies = 1..n /\ v \in Nat
  BY DEF IsComment, ViewHeight, BodyHeight
<1>2. PICK upTo \in [0..n -> Nat] :
        /\ upTo[0] = 0
        /\ \A k \in 1..n : upTo[k] = upTo[k - 1] + ReplyHeight(c, k)
        /\ RepliesHeight(c) = upTo[n]
  BY RepliesHeightIsSum
<1>3. /\ DOMAIN ReplyFrames(c) = 1..n
      /\ \A k \in 1..n :
           ReplyFrames(c)[k] = Frame(v + 6 + 12 * k + upTo[k - 1], ReplyHeight(c, k))
  BY <1>2, RepliesStandInRow
<1>4. \A k \in 1..n : ReplyHeight(c, k) \in Nat /\ upTo[k] \in Nat /\ upTo[k - 1] \in Nat
  <2>1. \A k \in 1..n : ReplyHeight(c, k) \in Nat
    BY <1>1, HeightsOfReplies
  <2>2. \A k \in 1..n : k \in 0..n /\ k - 1 \in 0..n
    BY <1>1
  <2> HIDE DEF n
  <2> QED BY <1>2, <2>1, <2>2
<1>5. CommentBarEnd(c.textHeight, FALSE) = CommentFrame(c).h
  BY DEF IsComment, CommentBarEnd, CommentFrame, ViewHeight, BodyHeight, Frame
<1>6. ASSUME NEW k \in DOMAIN c.replies
      PROVE  CommentBarEnd(c.replies[k].textHeight, TRUE) = ReplyFrames(c)[k].h
  <2>1. ReplyFrames(c)[k] = Frame(v + 6 + 12 * k + upTo[k - 1], ReplyHeight(c, k))
    BY <1>1, <1>3
  <2>2. ReplyFrames(c)[k].h = ReplyHeight(c, k)
    BY <2>1 DEF Frame
  <2> QED BY <2>2 DEF IsComment, CommentBarEnd, ReplyHeight, BodyHeight
<1>7. /\ Len(frames) = n + 1
      /\ frames[1] = Frame(12, v)
      /\ \A k \in 1..n : frames[k + 1] = Frame(v + 6 + 12 * k + upTo[k - 1], ReplyHeight(c, k))
  <2> DEFINE s == ReplyFrames(c)
             S == {s[k] : k \in 1..n} \cup {CommentFrame(c)}
  <2>1. s = [k \in 1..n |-> s[k]]
    BY DEF ReplyFrames
  <2> HIDE DEF s
  <2>2. s \in Seq(S) /\ Len(s) = n
    BY <1>1, <2>1
  <2>3. Len(frames) = n + 1 /\ frames[1] = CommentFrame(c) /\ \A k \in 1..n : frames[k + 1] = s[k]
    BY <1>1, <2>2 DEF s
  <2> QED BY <1>3, <2>3 DEF CommentFrame, s
<1> HIDE DEF frames, n, v
<1>f. \A k \in 1..n : /\ frames[k + 1].y = v + 6 + 12 * k + upTo[k - 1]
                      /\ End(frames[k + 1]) = v + 6 + 12 * k + upTo[k - 1] + ReplyHeight(c, k)
  <2> TAKE k \in 1..n
  <2>1. frames[k + 1] = Frame(v + 6 + 12 * k + upTo[k - 1], ReplyHeight(c, k))
    BY <1>7
  <2> QED BY <2>1 DEF End, Frame
<1>8. ASSUME NEW k \in 2..Len(frames) PROVE frames[k].y >= End(frames[k - 1])
  <2> DEFINE j == k - 1
  <2>1. j \in 1..n /\ k = j + 1
    <3>1. k \in 2..n+1
      BY <1>7
    <3> QED BY <1>1, <3>1
  <2> HIDE DEF j
  <2>2. frames[k].y = v + 6 + 12 * j + upTo[j - 1]
    BY <1>f, <2>1
  <2>3. CASE j = 1
    <3>1. End(frames[j]) = 12 + v
      BY <1>7, <2>3 DEF End, Frame
    <3> QED BY <1>1, <1>4, <2>1, <2>2, <2>3, <3>1 DEF j
  <2>4. CASE j # 1
    <3> DEFINE i == j - 1
    <3>1. i \in 1..n /\ j = i + 1
      BY <1>1, <2>1, <2>4
    <3> HIDE DEF i
    <3>2. End(frames[j]) = v + 6 + 12 * i + upTo[i - 1] + ReplyHeight(c, i)
      BY <1>f, <3>1
    <3>3. upTo[i] = upTo[i - 1] + ReplyHeight(c, i)
      BY <1>2, <3>1
    <3>4. upTo[i] \in Nat /\ upTo[i - 1] \in Nat /\ ReplyHeight(c, i) \in Nat
      BY <1>4, <3>1
    <3>5. j - 1 = i
      BY <3>1
    <3>6. frames[k].y >= End(frames[j])
      BY <1>1, <2>2, <3>1, <3>2, <3>3, <3>4, <3>5
    <3> QED BY <3>6 DEF j
  <2> QED BY <2>3, <2>4
<1>9. CommentRowHeight(c) \in Int /\ CommentRowHeight(c) >= 24 + 12 * n + v + upTo[n]
  <2> DEFINE more == IF c.threadCount > 3 THEN 12 ELSE 0
  <2>1. upTo[n] \in Nat /\ 6 * n * 2 = 12 * n /\ more \in Nat
    BY <1>1, <1>2
  <2>2. CommentRowHeight(c) = 12 + 12 + 6 * n * 2 + more + v + upTo[n]
    BY <1>2 DEF CommentRowHeight, ThreadSpaces, n, v
  <2> HIDE DEF more
  <2> QED BY <1>1, <2>1, <2>2
<1>10. End(frames[Len(frames)]) <= CommentRowHeight(c) - 6
  <2>2. CASE n = 0
    <3>1. End(frames[Len(frames)]) = 12 + v
      BY <1>1, <1>7, <2>2 DEF End, Frame
    <3>2. upTo[n] \in Nat
      BY <1>1, <1>2
    <3> QED BY <1>1, <1>9, <2>2, <3>1, <3>2
  <2>3. CASE n # 0
    <3>1. n \in 1..n
      BY <1>1, <2>3
    <3>2. End(frames[Len(frames)]) = v + 6 + 12 * n + upTo[n - 1] + ReplyHeight(c, n)
      BY <1>7, <1>f, <3>1
    <3>3. upTo[n] = upTo[n - 1] + ReplyHeight(c, n)
      BY <1>2, <3>1
    <3>4. upTo[n] \in Nat /\ upTo[n - 1] \in Nat /\ ReplyHeight(c, n) \in Nat
      BY <1>4, <3>1
    <3>5. End(frames[Len(frames)]) = v + 6 + 12 * n + upTo[n]
      BY <1>1, <3>2, <3>3, <3>4
    <3> QED BY ONLY <1>1, <1>9, <3>4, <3>5
  <2> QED BY <2>2, <2>3
<1> QED BY <1>5, <1>6, <1>8, <1>10 DEF CommentFits, frames, n

\* The comments on show are what CommentsModel makes of the items, so CommentsFitTheirRows
\* is about them.
LEMMA CommentsAreComments ==
  ASSUME NEW answer \in CommentAnswers, NEW i \in DOMAIN Items(answer)
  PROVE  IsComment(CommentOf(Items(answer)[i], answer))
<1> DEFINE item == Items(answer)[i]
           t == ThreadOf(item)
           c == CommentOf(item, answer)
<1>1. Items(answer) = answer.items /\ i \in DOMAIN answer.items
  BY DEF Items
<1>2. /\ item.text \in Nat
      /\ item.thread # Nil =>
           /\ item.thread.items \in Seq({item.thread.items[k] : k \in DOMAIN item.thread.items})
           /\ \A k \in DOMAIN item.thread.items : item.thread.items[k].text \in Nat
  BY <1>1, AnswersOK
<1> HIDE DEF item
<1>3. /\ c.textHeight = item.text
      /\ c.replies = IF t = Nil THEN <<>> ELSE [k \in DOMAIN t.items |-> ReplyOf(t.items[k], answer)]
  BY DEF CommentOf
<1> HIDE DEF c
<1>4. CASE t = Nil
  <2>1. DOMAIN c.replies = 1..0 /\ Len(c.replies) = 0
    BY <1>3, <1>4
  <2>2. c.textHeight \in Nat
    BY <1>2, <1>3
  <2>3. IsComment(c)
    BY <2>1, <2>2 DEF IsComment
  <2> QED BY <2>3 DEF c, item
<1>5. CASE t # Nil
  <2>1. t = item.thread /\ item.thread # Nil
    BY <1>5 DEF ThreadOf
  <2> DEFINE n == Len(t.items)
  <2>2. n \in Nat /\ DOMAIN t.items = 1..n /\ \A k \in 1..n : t.items[k].text \in Nat
    BY <1>2, <2>1
  <2> HIDE DEF n, t
  <2>3. c.replies = [k \in 1..n |-> ReplyOf(t.items[k], answer)]
    BY <1>3, <1>5, <2>2
  <2>4. \A k \in 1..n : c.replies[k].textHeight \in Nat
    BY <2>2, <2>3 DEF ReplyOf
  <2>5. DOMAIN c.replies = 1..n /\ Len(c.replies) = n
    BY <2>2, <2>3
  <2>6. c.textHeight \in Nat
    BY <1>2, <1>3
  <2>7. IsComment(c)
    BY <2>2, <2>4, <2>5, <2>6 DEF IsComment
  <2> QED BY <2>7 DEF c, item
<1> QED BY <1>4, <1>5

\* CommentsFit for every answer: the height CommentsModel adds up holds what
\* DetailPostCommentTableViewCell places, for any number of replies and any texts.
THEOREM CommentsAlwaysFit == Spec => []CommentsFit
<1>1. Init => RowsInv /\ AuthorsInv
  BY DEF Init, RowsInv, PostsAreRecords, CellsAreRows, RowsAreWell, AuthorsInv
<1>2. RowsInv /\ AuthorsInv /\ [Next]_vars => (RowsInv /\ AuthorsInv)'
  BY RowsInductive, AuthorsInductive
<1>3. AuthorsInv => CommentsFit
  <2> SUFFICES ASSUME AuthorsInv, NEW i \in DOMAIN comments PROVE CommentFits(comments[i])
    BY DEF CommentsFit
  <2>1. /\ thread \in CommentAnswers /\ i \in DOMAIN Items(thread)
        /\ comments[i] = CommentOf(Items(thread)[i], thread)
    BY DEF AuthorsInv
  <2>2. IsComment(comments[i])
    BY <2>1, CommentsAreComments
  <2> QED BY <2>2, CommentsFitTheirRows
<1> QED BY <1>1, <1>2, <1>3, PTL DEF Spec
-----------------------------------------------------------------------------
(* Photos.                                                                 *)

\* A photo has a size in an order of preference if it has any of the types.
LEMMA SizeIsFound ==
  ASSUME NEW sizes, NEW order, NEW n \in Nat, DOMAIN order = 1..n,
         \A i \in 1..n : order[i] # Nil
  PROVE  GetSize(sizes, order) = Nil <=> \A i \in 1..n : order[i] \notin sizes
<1> DEFINE found == {i \in DOMAIN order : order[i] \in sizes}
           best == CHOOSE i \in found : \A j \in found : i <= j
<1>1. GetSize(sizes, order) = IF found = {} THEN Nil ELSE order[best]
  BY DEF GetSize
<1>2. found \subseteq 1..n /\ (found = {} <=> \A i \in 1..n : order[i] \notin sizes)
  OBVIOUS
<1> HIDE DEF found
<1>3. found # {} => best \in found
  <2> SUFFICES ASSUME found # {} PROVE best \in found
    OBVIOUS
  <2>1. found \subseteq Nat
    BY <1>2
  <2>2. \E i \in found : \A j \in found : i <= j
    BY <2>1, LeastNumber
  <2> QED BY <2>2
<1> HIDE DEF best
<1> QED BY <1>1, <1>2, <1>3

\* The two orders name the same types.
LEMMA SizesAgree ==
  ASSUME NEW a PROVE PhotoOf(a).cell = Nil <=> PhotoOf(a).detail = Nil
<1>1. DOMAIN CellSize = 1..10 /\ DOMAIN DetailSize = 1..10
  BY DEF CellSize, DetailSize
<1>2. \A i \in 1..10 : CellSize[i] # Nil /\ DetailSize[i] # Nil
  <2>1. \A i \in 1..10 : \E j \in 1..10 : DetailSize[i] = CellSize[j]
    BY DEF CellSize, DetailSize
  <2> QED BY <1>1, <2>1, NilIsApart
<1>3. (\A i \in 1..10 : CellSize[i] \notin a.sizes) <=> (\A i \in 1..10 : DetailSize[i] \notin a.sizes)
  <2>1. \A i \in 1..10 : \E j \in 1..10 : CellSize[i] = DetailSize[j]
    BY DEF CellSize, DetailSize
  <2>2. \A i \in 1..10 : \E j \in 1..10 : DetailSize[i] = CellSize[j]
    BY DEF CellSize, DetailSize
  <2> QED BY <2>1, <2>2
<1>4. GetSize(a.sizes, CellSize) = Nil <=> \A i \in 1..10 : CellSize[i] \notin a.sizes
  BY <1>1, <1>2, SizeIsFound
<1>5. GetSize(a.sizes, DetailSize) = Nil <=> \A i \in 1..10 : DetailSize[i] \notin a.sizes
  BY <1>1, <1>2, SizeIsFound
<1> QED BY <1>3, <1>4, <1>5 DEF PhotoOf

\* The loop over the attachments keeps a photo for each that decodes, in their order.
LEMMA PhotosAreDecoded ==
  ASSUME NEW attachments, attachments # Nil,
         attachments \in Seq({attachments[k] : k \in DOMAIN attachments}),
         \A k \in DOMAIN attachments : attachments[k].typed
  PROVE  LET photos == Photos(attachments)
         IN /\ Len(photos) = Cardinality({k \in DOMAIN attachments : attachments[k].sizes # Nil})
            /\ \A k \in DOMAIN photos : photos[k].cell = Nil <=> photos[k].detail = Nil
<1> DEFINE n == Len(attachments)
           P == {PhotoOf(attachments[k]) : k \in 1..n}
           S == Seq(P)
           turn == [p \in S \X (1..n) |->
                      IF attachments[p[2]].sizes = Nil THEN p[1]
                      ELSE Append(p[1], PhotoOf(attachments[p[2]]))]
           first == <<>>
<1>1. n \in Nat /\ DOMAIN attachments = 1..n
  OBVIOUS
<1> HIDE DEF n
<1>2. \A k \in 1..n : PhotoOf(attachments[k]) \in P
  OBVIOUS
<1> HIDE DEF P
<1>3. first \in S /\ turn \in [S \X (1..n) -> S]
  BY <1>2
<1>4. \A s \in S, k \in 1..n :
        turn[<<s, k>>] = IF attachments[k].sizes = Nil THEN s
                         ELSE Append(s, PhotoOf(attachments[k]))
  OBVIOUS
<1> HIDE DEF turn, S, first
<1>5. PICK f \in [0..n -> S] : f[0] = first /\ \A k \in 1..n : f[k] = turn[<<f[k - 1], k>>]
  <2>1. n \in Nat
    BY <1>1
  <2>2. first \in S
    BY <1>3
  <2>3. turn \in [S \X (1..n) -> S]
    BY <1>3
  <2> QED BY ONLY <2>1, <2>2, <2>3, LoopValues
<1>6. \A k \in 1..n : k - 1 \in 0..n /\ k \in 0..n
  BY <1>1
<1>7. \A k \in 1..n : f[k] = IF attachments[k].sizes = Nil THEN f[k - 1]
                             ELSE Append(f[k - 1], PhotoOf(attachments[k]))
  BY <1>4, <1>5, <1>6
<1> DEFINE body(g) == [k \in 0..n |->
                         IF k = 0 THEN <<>>
                         ELSE IF attachments[k].sizes = Nil THEN g[k - 1]
                         ELSE Append(g[k - 1], PhotoOf(attachments[k]))]
           upTo == CHOOSE g : g = body(g)
<1>8. f = body(f)
  <2>1. \A k \in 0..n : k = 0 \/ k \in 1..n
    BY <1>1
  <2> QED BY <1>5, <1>7, <2>1 DEF first
<1>9. upTo = body(upTo)
  <2> HIDE DEF body
  <2> QED BY <1>8
<1>10. Photos(attachments) = upTo[n]
  BY <1>1 DEF Photos, n
<1> HIDE DEF upTo
<1>11. /\ upTo[0] = <<>>
       /\ \A k \in 1..n : upTo[k] = IF attachments[k].sizes = Nil THEN upTo[k - 1]
                                    ELSE Append(upTo[k - 1], PhotoOf(attachments[k]))
  <2>1. \A k \in 0..n : upTo[k] = IF k = 0 THEN <<>>
                         ELSE IF attachments[k].sizes = Nil THEN upTo[k - 1]
                         ELSE Append(upTo[k - 1], PhotoOf(attachments[k]))
    BY <1>9
  <2>2. 0 \in 0..n /\ \A k \in 1..n : k \in 0..n /\ k # 0
    BY <1>1
  <2> QED BY <2>1, <2>2
<1> DEFINE before(k) == {j \in 1..k : attachments[j].sizes # Nil}
           Good(k) == /\ upTo[k] \in S
                      /\ IsFiniteSet(before(k)) /\ Len(upTo[k]) = Cardinality(before(k))
           T == {k \in Nat : k <= n => Good(k)}
<1>12. 0 \in T
  <2>1. before(0) = {}
    OBVIOUS
  <2>2. Good(0)
    BY <1>3, <1>11, <2>1, FS_EmptySet DEF first
  <2> QED BY <2>2
<1>13. ASSUME NEW k \in Nat, k \in T PROVE k + 1 \in T
  <2> SUFFICES ASSUME k + 1 <= n PROVE Good(k + 1)
    OBVIOUS
  <2> DEFINE m == k + 1
  <2>1. Good(k) /\ m \in 1..n /\ m - 1 = k /\ m \notin 1..k /\ 1..m = (1..k) \cup {m}
    BY <1>1, <1>13
  <2> HIDE DEF m
  <2>2. CASE attachments[m].sizes = Nil
    <3>1. before(m) = before(k)
      BY <2>1, <2>2
    <3>2. upTo[m] = upTo[k]
      BY <1>11, <2>1, <2>2
    <3> QED BY <2>1, <3>1, <3>2 DEF m
  <2>3. CASE attachments[m].sizes # Nil
    <3>1. before(m) = before(k) \cup {m} /\ m \notin before(k)
      BY <2>1, <2>3
    <3>2. upTo[m] = Append(upTo[k], PhotoOf(attachments[m]))
      BY <1>11, <2>1, <2>3
    <3>3. IsFiniteSet(before(m)) /\ Cardinality(before(m)) = Cardinality(before(k)) + 1
      <4> HIDE DEF before
      <4> QED BY <2>1, <3>1, FS_AddElement
    <3>4. upTo[m] \in S /\ Len(upTo[m]) = Len(upTo[k]) + 1
      <4> HIDE DEF before
      <4>1. upTo[k] \in Seq(P) /\ PhotoOf(attachments[m]) \in P
        BY <1>2, <2>1 DEF S
      <4> QED BY <3>2, <4>1, AppendProperties DEF S
    <3> HIDE DEF before
    <3> QED BY <2>1, <3>3, <3>4 DEF m
  <2> QED BY <2>2, <2>3
<1>14. Good(n)
  <2> HIDE DEF T
  <2>1. \A k \in Nat : k \in T
    BY <1>12, <1>13, Induction
  <2> HIDE DEF Good
  <2> QED BY <1>1, <2>1 DEF T
<1>15. \A x \in P : x.cell = Nil <=> x.detail = Nil
  BY SizesAgree DEF P
<1>16. Len(Photos(attachments)) = Cardinality({k \in DOMAIN attachments : attachments[k].sizes # Nil})
  BY <1>1, <1>10, <1>14
<1>17. ASSUME NEW k \in DOMAIN Photos(attachments)
       PROVE  Photos(attachments)[k].cell = Nil <=> Photos(attachments)[k].detail = Nil
  <2>1. Photos(attachments) \in Seq(P)
    BY <1>10, <1>14 DEF S
  <2>2. Photos(attachments)[k] \in P
    BY <1>17, <2>1
  <2> QED BY <1>15, <2>2
<1> QED BY <1>16, <1>17

\* The photos of the posts are those of the items they were made of.
PhotosInv ==
  /\ news = Nil => posts = <<>>
  /\ news # Nil => news \in NewsAnswers /\ DOMAIN posts = DOMAIN Items(news)
  /\ \A r \in DOMAIN posts : posts[r].photos = Photos(Items(news)[r].attachments)

LEMMA PhotosInductive ==
  ASSUME RowsInv, PhotosInv, [Next]_vars PROVE PhotosInv'
<1> USE DEF PhotosInv
<1>1. ASSUME NEW answer \in NewsAnswers, AnswerNews(answer) PROVE PhotosInv'
  <2>1. answer # Nil
    BY AnswersOK
  <2>2. /\ DOMAIN posts' = DOMAIN Items(answer) /\ news' = answer
        /\ \A r \in DOMAIN posts' : posts'[r].photos = Photos(Items(answer)[r].attachments)
    BY <1>1 DEF AnswerNews, PostOf
  <2> QED BY <2>1, <2>2
<1>2. ASSUME NEW r \in Rows, ShowFull(r) PROVE PhotosInv'
  <2>1. DOMAIN posts' = DOMAIN posts /\ \A q \in DOMAIN posts : posts'[q].photos = posts[q].photos
    <3>1. \A q \in DOMAIN posts :
            posts[q] = [author |-> posts[q].author, photos |-> posts[q].photos, size |-> posts[q].size]
      BY DEF RowsInv, PostsAreRecords
    <3>2. [posts[r] EXCEPT !.size = Toggled(posts[r].size)].photos = posts[r].photos
      BY <3>1 DEF Rows
    <3>3. posts' = [posts EXCEPT ![r] = [posts[r] EXCEPT !.size = Toggled(posts[r].size)]]
      BY <1>2 DEF ShowFull
    <3> QED BY <3>2, <3>3
  <2>2. news # Nil /\ UNCHANGED news
    BY <1>2 DEF ShowFull, Rows
  <2> QED BY <2>1, <2>2
<1>3. CASE UNCHANGED <<posts, news>>
  BY <1>3
<1> QED
  BY <1>1, <1>2, <1>3
     DEF Next, vars, FillRow, LeaveRow, Open, FillHead, AnswerComments, FillComment, Back

\* AllOrNothing for every answer: a post for each item or none at all, with a photo for
\* each attachment that decodes (getNewsFeedTypePost), each in both sizes or in neither
\* (getSize).
THEOREM AnswersAreWhole == Spec => []AllOrNothing
<1>1. Init => RowsInv /\ PhotosInv
  BY DEF Init, RowsInv, PostsAreRecords, CellsAreRows, RowsAreWell, PhotosInv
<1>2. RowsInv /\ PhotosInv /\ [Next]_vars => (RowsInv /\ PhotosInv)'
  BY RowsInductive, PhotosInductive
<1>3. ASSUME RowsInv, PhotosInv PROVE AllOrNothing
  <2>1. Len(posts) \in {0} \cup (IF news = Nil THEN {} ELSE {Len(news.items)})
    <3>1. CASE news = Nil
      BY <1>3, <3>1 DEF PhotosInv
    <3>2. CASE news # Nil
      <4> DEFINE n == Len(Items(news))
      <4>1. Items(news) = news.items \/ Items(news) = <<>>
        BY DEF Items
      <4>2. news.items \in Seq({news.items[i] : i \in DOMAIN news.items})
        BY <1>3, <3>2, AnswersOK DEF PhotosInv
      <4>3. /\ n \in Nat /\ DOMAIN Items(news) = 1..n
            /\ n = 0 \/ n = Len(news.items)
        <5>1. CASE Items(news) = news.items
          BY <4>2, <5>1
        <5>2. CASE Items(news) = <<>>
          BY <5>2
        <5> QED BY <4>1, <5>1, <5>2
      <4> HIDE DEF n
      <4>4. DOMAIN posts = 1..n
        BY <1>3, <3>2, <4>3 DEF PhotosInv
      <4>5. posts = [r \in 1..n |->
                       [author |-> posts[r].author, photos |-> posts[r].photos, size |-> posts[r].size]]
        BY <1>3, <4>4 DEF RowsInv, PostsAreRecords
      <4>6. Len(posts) = n
        BY <4>3, <4>5
      <4> QED BY <3>2, <4>3, <4>6
    <3> QED BY <3>1, <3>2
  <2>2. ASSUME NEW r \in Rows
        PROVE  LET attached == IF news.items[r].attachments = Nil THEN <<>>
                               ELSE news.items[r].attachments
                   decoded == {k \in DOMAIN attached : attached[k].typed /\ attached[k].sizes # Nil}
               IN /\ Len(posts[r].photos) =
                       IF \A k \in DOMAIN attached : attached[k].typed THEN Cardinality(decoded) ELSE 0
                  /\ \A k \in DOMAIN posts[r].photos :
                       (posts[r].photos[k].cell = Nil) = (posts[r].photos[k].detail = Nil)
    <3> DEFINE a == news.items[r].attachments
               attached == IF a = Nil THEN <<>> ELSE a
               decoded == {k \in DOMAIN attached : attached[k].typed /\ attached[k].sizes # Nil}
               photos == posts[r].photos
    <3>1. /\ news # Nil /\ news \in NewsAnswers /\ r \in DOMAIN news.items
          /\ photos = Photos(a)
      <4>1. news # Nil /\ news \in NewsAnswers /\ r \in DOMAIN Items(news)
        BY <1>3, <2>2 DEF PhotosInv, Rows
      <4>2. Items(news) = news.items
        BY <4>1 DEF Items
      <4> QED BY <1>3, <2>2, <4>1, <4>2 DEF PhotosInv, Rows
    <3>2. a # Nil => a \in Seq({a[k] : k \in DOMAIN a})
      BY <3>1, AnswersOK
    <3> HIDE DEF a, photos
    <3>3. CASE a = Nil
      <4>1. attached = <<>> /\ decoded = {} /\ photos = <<>>
        BY <3>1, <3>3 DEF Photos
      <4>2. Cardinality(decoded) = 0
        BY <4>1, FS_EmptySet
      <4> QED BY <4>1, <4>2 DEF a, photos
    <3>4. CASE a # Nil /\ ~(\A k \in DOMAIN a : a[k].typed)
      <4>1. photos = <<>> /\ attached = a
        BY <3>1, <3>4 DEF Photos
      <4> QED BY <3>4, <4>1 DEF a, photos
    <3>5. CASE a # Nil /\ \A k \in DOMAIN a : a[k].typed
      <4>1. /\ Len(photos) = Cardinality({k \in DOMAIN a : a[k].sizes # Nil})
            /\ \A k \in DOMAIN photos : photos[k].cell = Nil <=> photos[k].detail = Nil
        BY <3>1, <3>2, <3>5, PhotosAreDecoded
      <4>2. attached = a /\ decoded = {k \in DOMAIN a : a[k].sizes # Nil}
        BY <3>5
      <4> QED BY <3>5, <4>1, <4>2 DEF a, photos
    <3> QED BY <3>3, <3>4, <3>5
  <2> QED BY <2>1, <2>2 DEF AllOrNothing
<1> QED BY <1>1, <1>2, <1>3, PTL DEF Spec
=============================================================================
