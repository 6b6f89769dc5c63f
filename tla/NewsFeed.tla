------------------------------ MODULE NewsFeed ------------------------------
(***************************************************************************)
(* Paging of the news feed: NewsFeedViewController and                     *)
(* APIManager.getNewsFeedTypePost.                                         *)
(*                                                                         *)
(* Three handlers ask for a page and replace or extend the posts when its  *)
(* answer arrives: viewDidLoad (once), pullToRefresh, and willDisplay of   *)
(* the third row from the end.  The last two share the flag isLoadingMore; *)
(* the first does not take part in it.  An answer is parsed on             *)
(* URLSession's queue and handed to the main queue; answers of different   *)
(* requests come in any order, so both hops are one step.                  *)
(*                                                                         *)
(* The server's feed is pages 1, 2, ..., Pages, each with at least one     *)
(* post; a cursor is the number of the page it starts, and the cursor      *)
(* after the last page gives empty pages.                                  *)
(***************************************************************************)
EXTENDS Naturals, Sequences, SequencesExt

CONSTANTS
  Pages,       (* how many pages the server's feed has                     *)
  Size,        (* Size[p]: the number of posts of page p                   *)
  MayFail,     (* may a request end without data?                          *)
  MayGarble    (* may data arrive that the parser rejects?                 *)

ASSUME FeedConstants ==
  /\ Pages \in Nat
  /\ Size \in [1..Pages -> Nat \ {0}]
  /\ MayFail \in BOOLEAN
  /\ MayGarble \in BOOLEAN

VARIABLES
  postsArray,     (* the pages whose posts the table shows, in order        *)
  nextFrom,       (* the cursor of the next page, NoCursor when nil         *)
  isLoadingMore,  (* the flag of pullToRefresh and willDisplay              *)
  refreshing,     (* the refresh control spins                              *)
  pending,        (* the requests on their way                              *)
  saidAllLoaded,  (* "All Newws were loaded" has been reported              *)
  overtaken       (* history: viewDidLoad's answer replaced the posts while *)
                  (* a request for more was on its way                      *)

vars == <<postsArray, nextFrom, isLoadingMore, refreshing, pending, saidAllLoaded, overtaken>>

NoCursor == 0
Kinds == {"initial", "refresh", "more"}
Requests == [kind : Kinds, from : 1..(Pages + 1)]

\* The requests the flag guards.
Flagged == {r \in pending : r.kind # "initial"}

RowCount(posts) == FoldLeft(LAMBDA n, page : n + Size[page], 0, posts)

Init ==
  /\ postsArray = <<>>
  /\ nextFrom = NoCursor
  /\ isLoadingMore = FALSE
  /\ refreshing = FALSE
  /\ pending = {[kind |-> "initial", from |-> 1]}
  /\ saidAllLoaded = FALSE
  /\ overtaken = FALSE
-----------------------------------------------------------------------------
(* Answers: the posts (as their page) and the next cursor the completion gets. *)

\* A page the parser accepts holds next_from, which it requires.
Decoded(from) ==
  [posts |-> IF from <= Pages THEN <<from>> ELSE <<>>,
   next  |-> IF from <= Pages THEN from + 1 ELSE from]

\* Rejected data still counts as an answer: no posts, no cursor and no error.
Garbled == [posts |-> <<>>, next |-> NoCursor]

Answers(from) == {Decoded(from)} \cup (IF MayGarble THEN {Garbled} ELSE {})

\* `if let next = nextFrom { self.nextFrom = next }`
\* Mutants: the cursor is forgotten when the answer has none; it is an offset into
\* the posts on show.
NextCursor_Offset(answer) == RowCount(postsArray) + 1
NextCursor_Overwrites(answer) == answer.next
NextCursor(answer) == IF answer.next = NoCursor THEN nextFrom ELSE answer.next
-----------------------------------------------------------------------------
(* Requests.                                                               *)

\* The refresh control fires only when it is not spinning already; the handler
\* stops it at once when the flag is up.
\* Mutant: the flag is not looked at.
Pull_Unguarded ==
  /\ ~refreshing
  /\ refreshing' = TRUE
  /\ isLoadingMore' = TRUE
  /\ pending' = pending \cup {[kind |-> "refresh", from |-> 1]}
  /\ UNCHANGED <<postsArray, nextFrom, saidAllLoaded, overtaken>>
Pull ==
  /\ ~refreshing
  /\ refreshing' = ~isLoadingMore
  /\ isLoadingMore' = TRUE
  /\ pending' = IF isLoadingMore THEN pending
                ELSE pending \cup {[kind |-> "refresh", from |-> 1]}
  /\ UNCHANGED <<postsArray, nextFrom, saidAllLoaded, overtaken>>

\* willDisplay of row count - 3: the table has rows, and at least three of them.
DisplayThirdFromEnd ==
  /\ postsArray # <<>>
  /\ RowCount(postsArray) >= 3
  /\ ~isLoadingMore
  /\ nextFrom # NoCursor
  /\ isLoadingMore' = TRUE
  /\ pending' = pending \cup {[kind |-> "more", from |-> nextFrom]}
  /\ UNCHANGED <<postsArray, nextFrom, refreshing, saidAllLoaded, overtaken>>
-----------------------------------------------------------------------------
(* Completions.                                                            *)

Arrives(r, kind) == r \in pending /\ r.kind = kind /\ pending' = pending \ {r}

\* viewDidLoad's completion replaces the posts, whatever has happened since.
AnswerInitial(r) ==
  /\ Arrives(r, "initial")
  /\ \E answer \in Answers(r.from) :
       /\ postsArray' = answer.posts
       /\ nextFrom' = NextCursor(answer)
  /\ overtaken' = (overtaken \/ \E q \in pending : q.kind = "more")
  /\ UNCHANGED <<isLoadingMore, refreshing, saidAllLoaded>>

AnswerRefresh(r) ==
  /\ Arrives(r, "refresh")
  /\ \E answer \in Answers(r.from) :
       /\ postsArray' = answer.posts
       /\ nextFrom' = NextCursor(answer)
  /\ refreshing' = FALSE
  /\ isLoadingMore' = FALSE
  /\ UNCHANGED <<saidAllLoaded, overtaken>>

\* willDisplay's completion appends; an answer without posts is taken for the end.
AnswerMore(r) ==
  /\ Arrives(r, "more")
  /\ \E answer \in Answers(r.from) :
       /\ postsArray' = postsArray \o answer.posts
       /\ saidAllLoaded' = (saidAllLoaded \/ answer.posts = <<>>)
       /\ nextFrom' = NextCursor(answer)
  /\ isLoadingMore' = FALSE
  /\ UNCHANGED <<refreshing, overtaken>>

\* Mutant: the spinner is left spinning on an error.
Fail_KeepsSpinning(r) ==
  /\ MayFail
  /\ Arrives(r, r.kind)
  /\ UNCHANGED <<postsArray, nextFrom, isLoadingMore, refreshing, saidAllLoaded, overtaken>>
\* An error: all three completions return early, the refresh stops the spinner
\* first, and none lowers the flag.
Fail(r) ==
  /\ MayFail
  /\ Arrives(r, r.kind)
  /\ refreshing' = (refreshing /\ r.kind # "refresh")
  /\ UNCHANGED <<postsArray, nextFrom, isLoadingMore, saidAllLoaded, overtaken>>

Complete(r) == AnswerInitial(r) \/ AnswerRefresh(r) \/ AnswerMore(r) \/ Fail(r)

Next == Pull \/ DisplayThirdFromEnd \/ \E r \in pending : Complete(r)

\* URLSession completes every request; the user need not do anything.
Spec == Init /\ [][Next]_vars
FairSpec == Spec /\ \A r \in Requests : WF_vars(r \in pending /\ Complete(r))
-----------------------------------------------------------------------------
(* Properties.                                                             *)

TypeOK ==
  /\ postsArray \in Seq(1..Pages)
  /\ nextFrom \in {NoCursor} \cup 1..(Pages + 1)
  /\ isLoadingMore \in BOOLEAN
  /\ refreshing \in BOOLEAN
  /\ pending \subseteq Requests
  /\ saidAllLoaded \in BOOLEAN
  /\ overtaken \in BOOLEAN

\* pullToRefresh and willDisplay never have two requests on their way, and the
\* control spins exactly while a refresh is.
OneFlaggedLoad ==
  /\ \A r, q \in Flagged : r = q
  /\ Flagged # {} => isLoadingMore
  /\ refreshing <=> \E r \in pending : r.kind = "refresh"

\* The feed has no gap and no repetition, and the cursor is that of the page after
\* its last, unless viewDidLoad's answer came while a request for more was on its way.
GaplessUnlessOvertaken ==
  ~overtaken /\ postsArray # <<>> =>
    /\ nextFrom # NoCursor
    /\ postsArray = [p \in 1..(nextFrom - 1) |-> p]

\* The flag is up and nothing on its way will lower it.
Stuck == isLoadingMore /\ Flagged = {}

\* One failed refresh or load ends both for good: no handler asks for a page again.
FailedLoadIsFinal == [][Stuck => Stuck' /\ pending' \subseteq pending]_vars

\* A spinning refresh control stops, whatever becomes of its request.
SpinnerStops == refreshing ~> ~refreshing

\* What the message says: all the news were loaded.
AllLoadedIsTrue == [][saidAllLoaded' /\ ~saidAllLoaded => nextFrom > Pages]_vars
=============================================================================
