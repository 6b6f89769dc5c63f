-------------------------- MODULE NewsFeed_proofs --------------------------
(***************************************************************************)
(* The paging invariants of NewsFeed, for a feed of any length.            *)
(***************************************************************************)
EXTENDS NewsFeed, SequenceTheorems, TLAPS

\* The first n pages, in order.
FirstPages(n) == [p \in 1..n |-> p]

\* Appending the next page to the first ones gives one page more of them.
LEMMA FirstPagesGrow ==
  ASSUME NEW n \in Nat
  PROVE  FirstPages(n) \o <<n + 1>> = FirstPages(n + 1)
<1> DEFINE q == FirstPages(n) \o <<n + 1>>
<1>1. FirstPages(n) \in Seq(Nat) /\ Len(FirstPages(n)) = n
  BY DEF FirstPages
<1>2. FirstPages(n + 1) \in Seq(Nat) /\ Len(FirstPages(n + 1)) = n + 1
  BY DEF FirstPages
<1>3. q \in Seq(Nat) /\ Len(q) = n + 1
  BY <1>1
<1>4. \A k \in 1..(n + 1) : q[k] = k
  BY <1>1 DEF FirstPages
<1>5. \A k \in 1..(n + 1) : FirstPages(n + 1)[k] = k
  BY DEF FirstPages
<1> HIDE DEF q
<1>6. Len(q) = Len(FirstPages(n + 1)) /\ \A k \in 1..Len(q) : q[k] = FirstPages(n + 1)[k]
  BY <1>2, <1>3, <1>4, <1>5
<1>7. q = FirstPages(n + 1)
  BY <1>2, <1>3, <1>6, SeqEqual
<1> QED BY <1>7 DEF q

(* What a completion is called with.                                       *)
LEMMA AnswerShape ==
  ASSUME NEW from \in 1..(Pages + 1), NEW answer \in Answers(from)
  PROVE  /\ \/ answer.posts = <<>> /\ (answer.next = NoCursor \/ (from = Pages + 1 /\ answer.next = from))
            \/ from \in 1..Pages /\ answer.posts = <<from>> /\ answer.next = from + 1
         /\ answer.posts \in Seq(1..Pages)
         /\ answer.next \in {NoCursor} \cup 1..(Pages + 1)
<1>1. CASE answer = Garbled
  BY <1>1, FeedConstants DEF Garbled, NoCursor
<1>2. CASE answer = Decoded(from) /\ from <= Pages
  <2>1. answer.posts = <<from>> /\ answer.next = from + 1 /\ from \in 1..Pages
    BY <1>2, FeedConstants DEF Decoded
  <2> QED BY <2>1, FeedConstants
<1>3. CASE answer = Decoded(from) /\ ~(from <= Pages)
  <2>1. answer.posts = <<>> /\ answer.next = from /\ from = Pages + 1
    BY <1>3, FeedConstants DEF Decoded
  <2> QED BY <2>1, FeedConstants
<1> QED BY <1>1, <1>2, <1>3 DEF Answers

LEMMA NextCursorType ==
  ASSUME TypeOK, NEW from \in 1..(Pages + 1), NEW answer \in Answers(from)
  PROVE  NextCursor(answer) \in {NoCursor} \cup 1..(Pages + 1)
BY AnswerShape DEF NextCursor, TypeOK

(***************************************************************************)
(* Types.                                                                  *)
(***************************************************************************)
LEMMA InitTypeOK == Init => TypeOK
<1> SUFFICES ASSUME Init PROVE TypeOK
  OBVIOUS
<1>1. [kind |-> "initial", from |-> 1] \in Requests
  BY FeedConstants DEF Requests, Kinds
<1>2. <<>> \in Seq(1..Pages)
  OBVIOUS
<1>3. pending \subseteq Requests
  BY <1>1 DEF Init
<1> QED BY <1>2, <1>3 DEF Init, TypeOK

LEMMA TypeOKStep == TypeOK /\ [Next]_vars => TypeOK'
<1> SUFFICES ASSUME TypeOK, [Next]_vars PROVE TypeOK'
  OBVIOUS
<1>1. CASE Pull
  <2>1. [kind |-> "refresh", from |-> 1] \in Requests
    BY FeedConstants DEF Requests, Kinds
  <2> QED BY <1>1, <2>1 DEF Pull, TypeOK
<1>2. CASE DisplayThirdFromEnd
  <2>1. [kind |-> "more", from |-> nextFrom] \in Requests
    BY <1>2 DEF DisplayThirdFromEnd, TypeOK, Requests, Kinds, NoCursor
  <2> QED BY <1>2, <2>1 DEF DisplayThirdFromEnd, TypeOK
<1>3. ASSUME NEW r \in pending, Complete(r) PROVE TypeOK'
  <2>1. r \in Requests /\ r.from \in 1..(Pages + 1) /\ pending \ {r} \subseteq Requests
    BY DEF TypeOK, Requests
  <2>2. CASE AnswerInitial(r)
    <3>1. PICK answer \in Answers(r.from) : postsArray' = answer.posts /\ nextFrom' = NextCursor(answer)
      BY <2>2 DEF AnswerInitial
    <3>2. postsArray' \in Seq(1..Pages) /\ nextFrom' \in {NoCursor} \cup 1..(Pages + 1)
      BY <2>1, <3>1, AnswerShape, NextCursorType
    <3>3. overtaken' \in BOOLEAN
      BY <2>2 DEF AnswerInitial
    <3> QED BY <2>1, <2>2, <3>2, <3>3 DEF AnswerInitial, Arrives, TypeOK
  <2>3. CASE AnswerRefresh(r)
    <3>1. PICK answer \in Answers(r.from) : postsArray' = answer.posts /\ nextFrom' = NextCursor(answer)
      BY <2>3 DEF AnswerRefresh
    <3>2. postsArray' \in Seq(1..Pages) /\ nextFrom' \in {NoCursor} \cup 1..(Pages + 1)
      BY <2>1, <3>1, AnswerShape, NextCursorType
    <3> QED BY <2>1, <2>3, <3>2 DEF AnswerRefresh, Arrives, TypeOK
  <2>4. CASE AnswerMore(r)
    <3>1. PICK answer \in Answers(r.from) :
            /\ postsArray' = postsArray \o answer.posts
            /\ saidAllLoaded' = (saidAllLoaded \/ answer.posts = <<>>)
            /\ nextFrom' = NextCursor(answer)
      BY <2>4 DEF AnswerMore
    <3>2. answer.posts \in Seq(1..Pages) /\ nextFrom' \in {NoCursor} \cup 1..(Pages + 1)
      BY <2>1, <3>1, AnswerShape, NextCursorType
    <3>3. postsArray' \in Seq(1..Pages)
      BY <3>1, <3>2 DEF TypeOK
    <3>4. saidAllLoaded' \in BOOLEAN
      BY <3>1
    <3> QED BY <2>1, <2>4, <3>2, <3>3, <3>4 DEF AnswerMore, Arrives, TypeOK
  <2>5. CASE Fail(r)
    <3>1. refreshing' \in BOOLEAN
      BY <2>5 DEF Fail
    <3> QED BY <2>1, <2>5, <3>1 DEF Fail, Arrives, TypeOK
  <2> QED BY <1>3, <2>2, <2>3, <2>4, <2>5 DEF Complete
<1>4. CASE UNCHANGED vars
  BY <1>4 DEF vars, TypeOK
<1> QED BY <1>1, <1>2, <1>3, <1>4 DEF Next

\* Every reachable state of the feed is well typed.
THEOREM TypeCorrect == Spec => []TypeOK
<1> QED BY InitTypeOK, TypeOKStep, PTL DEF Spec

(***************************************************************************)
(* The flag and the cursor.                                                *)
(***************************************************************************)
\* Where the requests on their way start: a load of more at the current cursor, below
\* the posts of the table, the others at the first page.
FromCursor ==
  /\ \A r \in pending : r.kind # "more" => r.from = 1
  /\ ~overtaken => \A r \in pending : r.kind = "more" => postsArray # <<>> /\ r.from = nextFrom

IInv == TypeOK /\ OneFlaggedLoad /\ GaplessUnlessOvertaken /\ FromCursor

\* A list of posts that is the answer for the first page.
Fresh(posts, next) ==
  posts # <<>> => next # NoCursor /\ posts = [p \in 1..(next - 1) |-> p]

LEMMA FirstAnswerIsFresh ==
  ASSUME TypeOK, NEW answer \in Answers(1)
  PROVE  Fresh(answer.posts, NextCursor(answer))
<1>1. 1 \in 1..(Pages + 1)
  BY FeedConstants
<1>2. CASE answer.posts = <<>>
  BY <1>2 DEF Fresh
<1>3. CASE answer.posts = <<1>> /\ answer.next = 2
  <2>1. NextCursor(answer) = 2
    BY <1>3 DEF NextCursor, NoCursor
  <2>2. <<1>> = [p \in 1..1 |-> p]
    OBVIOUS
  <2> QED BY <1>3, <2>1, <2>2 DEF Fresh, NoCursor
<1> QED BY <1>1, <1>2, <1>3, AnswerShape

LEMMA InitIInv == Init => IInv
<1> SUFFICES ASSUME Init PROVE IInv
  OBVIOUS
<1>1. TypeOK
  BY InitTypeOK
<1>2. OneFlaggedLoad /\ GaplessUnlessOvertaken /\ FromCursor
  BY DEF Init, OneFlaggedLoad, GaplessUnlessOvertaken, FromCursor, Flagged
<1> QED BY <1>1, <1>2 DEF IInv

LEMMA OneFlaggedLoadStep ==
  ASSUME TypeOK, OneFlaggedLoad, [Next]_vars
  PROVE  OneFlaggedLoad'
<1>1. CASE Pull
  <2>1. isLoadingMore' /\ ~refreshing
    BY <1>1 DEF Pull
  <2>2. CASE isLoadingMore
    <3>1. pending' = pending /\ ~refreshing'
      BY <1>1, <2>2 DEF Pull
    <3> QED BY <2>1, <3>1 DEF OneFlaggedLoad, Flagged
  <2>3. CASE ~isLoadingMore
    <3>1. pending' = pending \cup {[kind |-> "refresh", from |-> 1]} /\ refreshing'
      BY <1>1, <2>3 DEF Pull
    <3>2. \A q \in pending : q.kind = "initial"
      BY <2>3 DEF OneFlaggedLoad, Flagged
    <3> DEFINE asked == [kind |-> "refresh", from |-> 1]
    <3>3. asked.kind = "refresh"
      OBVIOUS
    <3> HIDE DEF asked
    <3>4. pending' = pending \cup {asked}
      BY <3>1 DEF asked
    <3>5. \A q \in Flagged' : q = asked
      BY <3>2, <3>4 DEF Flagged
    <3>6. \E q \in pending' : q.kind = "refresh"
      BY <3>3, <3>4
    <3> QED BY <2>1, <3>1, <3>5, <3>6 DEF OneFlaggedLoad
  <2> QED BY <2>2, <2>3
<1>2. CASE DisplayThirdFromEnd
  BY <1>2 DEF DisplayThirdFromEnd, OneFlaggedLoad, Flagged, TypeOK
<1>3. ASSUME NEW r \in pending, Complete(r) PROVE OneFlaggedLoad'
  <2>1. pending' = pending \ {r} /\ Flagged' \subseteq Flagged
    BY <1>3 DEF Complete, AnswerInitial, AnswerRefresh, AnswerMore, Fail, Arrives, Flagged
  <2>2. \A q \in pending : q.kind # "initial" /\ r.kind # "initial" => q = r
    BY DEF OneFlaggedLoad, Flagged
  <2>3. \A q1, q2 \in Flagged' : q1 = q2
    BY <2>1 DEF OneFlaggedLoad
  <2>4. CASE AnswerInitial(r)
    <3>1. isLoadingMore' = isLoadingMore /\ refreshing' = refreshing /\ r.kind = "initial"
      BY <2>4 DEF AnswerInitial, Arrives
    <3>2. (\E q \in pending' : q.kind = "refresh") <=> (\E q \in pending : q.kind = "refresh")
      BY <2>1, <3>1
    <3> QED BY <2>1, <2>3, <3>1, <3>2 DEF OneFlaggedLoad
  <2>5. CASE AnswerRefresh(r) \/ AnswerMore(r)
    <3>1. r.kind # "initial" /\ Flagged' = {}
      BY <2>1, <2>2, <2>5 DEF AnswerRefresh, AnswerMore, Arrives, Flagged
    <3>2. ~refreshing'
      BY <2>2, <2>5, <3>1 DEF AnswerRefresh, AnswerMore, Arrives, OneFlaggedLoad
    <3> QED BY <2>1, <3>1, <3>2 DEF OneFlaggedLoad, Flagged
  <2>6. CASE Fail(r)
    <3>1. isLoadingMore' = isLoadingMore /\ refreshing' = (refreshing /\ r.kind # "refresh")
      BY <2>6 DEF Fail
    <3>2. CASE r.kind = "refresh"
      BY <2>1, <2>2, <2>3, <3>1, <3>2 DEF OneFlaggedLoad, Flagged
    <3>3. CASE r.kind # "refresh"
      BY <2>1, <2>3, <3>1, <3>3 DEF OneFlaggedLoad, Flagged
    <3> QED BY <3>2, <3>3
  <2> QED BY <1>3, <2>4, <2>5, <2>6 DEF Complete
<1>4. CASE UNCHANGED vars
  BY <1>4 DEF vars, OneFlaggedLoad, Flagged
<1> QED BY <1>1, <1>2, <1>3, <1>4 DEF Next

LEMMA CursorStep ==
  ASSUME IInv, [Next]_vars
  PROVE  GaplessUnlessOvertaken' /\ FromCursor'
<1>1. TypeOK /\ OneFlaggedLoad /\ GaplessUnlessOvertaken /\ FromCursor
  BY DEF IInv
<1>2. CASE Pull
  BY <1>1, <1>2 DEF Pull, GaplessUnlessOvertaken, FromCursor
<1>3. CASE DisplayThirdFromEnd
  BY <1>1, <1>3 DEF DisplayThirdFromEnd, GaplessUnlessOvertaken, FromCursor
<1>4. ASSUME NEW r \in pending, Complete(r)
      PROVE  GaplessUnlessOvertaken' /\ FromCursor'
  <2>1. pending' = pending \ {r}
    BY <1>4 DEF Complete, AnswerInitial, AnswerRefresh, AnswerMore, Fail, Arrives
  <2>2. \A q \in pending' : q.kind # "more" => q.from = 1
    BY <1>1, <2>1 DEF FromCursor
  <2>3. CASE /\ r.from = 1
             /\ ~overtaken' => ~\E q \in pending' : q.kind = "more"
             /\ \E answer \in Answers(r.from) :
                  postsArray' = answer.posts /\ nextFrom' = NextCursor(answer)
    <3>1. Fresh(postsArray', nextFrom')
      BY <1>1, <2>3, FirstAnswerIsFresh
    <3> QED BY <2>2, <2>3, <3>1 DEF Fresh, GaplessUnlessOvertaken, FromCursor
  <2>4. CASE AnswerInitial(r)
    <3>1. ~overtaken' => ~\E q \in pending' : q.kind = "more"
      BY <2>1, <2>4 DEF AnswerInitial
    <3>2. r.from = 1
      BY <1>1, <2>4 DEF AnswerInitial, Arrives, FromCursor
    <3> QED BY <2>3, <2>4, <3>1, <3>2 DEF AnswerInitial
  <2>5. CASE AnswerRefresh(r)
    <3>1. ~\E q \in pending' : q.kind = "more"
      BY <1>1, <2>1, <2>5 DEF AnswerRefresh, Arrives, OneFlaggedLoad, Flagged
    <3>2. r.from = 1
      BY <1>1, <2>5 DEF AnswerRefresh, Arrives, FromCursor
    <3> QED BY <2>3, <2>5, <3>1, <3>2 DEF AnswerRefresh
  <2>6. CASE AnswerMore(r)
    <3>1. r.kind = "more" /\ overtaken' = overtaken
      BY <2>6 DEF AnswerMore, Arrives
    <3>2. ~\E q \in pending' : q.kind = "more"
      BY <1>1, <2>1, <3>1 DEF OneFlaggedLoad, Flagged
    <3>3. FromCursor'
      BY <2>2, <3>2 DEF FromCursor
    <3>4. SUFFICES ASSUME ~overtaken PROVE GaplessUnlessOvertaken'
      BY <3>1, <3>3 DEF GaplessUnlessOvertaken
    <3>5. /\ postsArray # <<>> /\ r.from = nextFrom
          /\ nextFrom # NoCursor /\ postsArray = FirstPages(nextFrom - 1)
      BY <1>1, <3>1, <3>4 DEF FromCursor, GaplessUnlessOvertaken, FirstPages
    <3>6. nextFrom \in 1..(Pages + 1) /\ nextFrom - 1 \in Nat /\ nextFrom \in Nat
      BY <1>1, <3>5, FeedConstants DEF TypeOK
    <3>7. PICK answer \in Answers(nextFrom) :
            postsArray' = postsArray \o answer.posts /\ nextFrom' = NextCursor(answer)
      BY <2>6, <3>5 DEF AnswerMore
    <3>8. CASE answer.posts = <<>> /\ answer.next \in {NoCursor, nextFrom}
      <4>1. postsArray' = postsArray /\ nextFrom' = nextFrom
        BY <1>1, <3>7, <3>8 DEF NextCursor, TypeOK
      <4> QED BY <4>1, <3>5 DEF GaplessUnlessOvertaken, FirstPages
    <3>9. CASE answer.posts = <<nextFrom>> /\ answer.next = nextFrom + 1
      <4>1. nextFrom' = nextFrom + 1 /\ nextFrom' # NoCursor
        BY <3>6, <3>7, <3>9 DEF NextCursor, NoCursor
      <4>2. FirstPages(nextFrom - 1) \o <<(nextFrom - 1) + 1>> = FirstPages((nextFrom - 1) + 1)
        BY <3>6, FirstPagesGrow
      <4>3. postsArray' = FirstPages(nextFrom)
        BY <3>5, <3>6, <3>7, <3>9, <4>2
      <4>4. nextFrom' - 1 = nextFrom
        BY <3>6, <4>1
      <4> QED BY <4>1, <4>3, <4>4 DEF GaplessUnlessOvertaken, FirstPages
    <3> QED BY <3>6, <3>8, <3>9, AnswerShape
  <2>7. CASE Fail(r)
    BY <1>1, <2>1, <2>7 DEF Fail, GaplessUnlessOvertaken, FromCursor
  <2> QED BY <1>4, <2>4, <2>5, <2>6, <2>7 DEF Complete
<1>5. CASE UNCHANGED vars
  BY <1>1, <1>5 DEF vars, GaplessUnlessOvertaken, FromCursor
<1> QED BY <1>2, <1>3, <1>4, <1>5 DEF Next

LEMMA IInvInvariant == Spec => []IInv
<1>1. IInv /\ [Next]_vars => IInv'
  BY TypeOKStep, OneFlaggedLoadStep, CursorStep DEF IInv
<1> QED BY <1>1, InitIInv, PTL DEF Spec

\* On a feed of any length pullToRefresh and willDisplay never have two requests on
\* their way, and the refresh control spins exactly while a refresh is.
THEOREM AtMostOneFlaggedLoad == Spec => []OneFlaggedLoad
<1>1. IInv => OneFlaggedLoad
  BY DEF IInv
<1> QED BY <1>1, IInvInvariant, PTL

\* On a feed of any length the table has no gap and no repetition, unless the answer
\* to viewDidLoad came while a load of more was on its way.
THEOREM FeedIsGapless == Spec => []GaplessUnlessOvertaken
<1>1. IInv => GaplessUnlessOvertaken
  BY DEF IInv
<1> QED BY <1>1, IInvInvariant, PTL

\* Once a refresh or a load of more has failed, the feed never asks for a page again.
THEOREM FailureStopsTheFeed == Spec => FailedLoadIsFinal
<1>1. TypeOK /\ [Next]_vars => [Stuck => Stuck' /\ pending' \subseteq pending]_vars
  <2> SUFFICES ASSUME TypeOK, Next, Stuck PROVE Stuck' /\ pending' \subseteq pending
    BY DEF vars
  <2>1. isLoadingMore = TRUE /\ \A r \in pending : r.kind = "initial"
    BY DEF Stuck, TypeOK, Flagged
  <2>2. CASE Pull
    BY <2>1, <2>2 DEF Pull, Stuck, Flagged
  <2>3. CASE DisplayThirdFromEnd
    BY <2>1, <2>3 DEF DisplayThirdFromEnd
  <2>4. ASSUME NEW r \in pending, Complete(r) PROVE Stuck' /\ pending' \subseteq pending
    <3>1. r.kind = "initial"
      BY <2>1
    <3>2. AnswerInitial(r) \/ Fail(r)
      BY <2>4, <3>1 DEF Complete, AnswerRefresh, AnswerMore, Arrives
    <3>3. isLoadingMore' = isLoadingMore /\ pending' = pending \ {r}
      BY <3>2 DEF AnswerInitial, Fail, Arrives
    <3> QED BY <2>1, <3>3 DEF Stuck, Flagged
  <2> QED BY <2>2, <2>3, <2>4 DEF Next
<1> QED BY <1>1, TypeCorrect, PTL DEF Spec, FailedLoadIsFinal
=============================================================================
