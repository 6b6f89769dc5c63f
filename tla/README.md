# TLA+ models of the VK client

The repository is an iOS client of the VK social network written in Swift
(`src/L1_KazakovAleksei/L1_KazakovAleksei`): it logs in through VK's OAuth page,
keeps the user's friends and publics in a Realm file, shows them, and pages
through the news feed and the comments of a post.  Paths below are relative to
that directory; `Pods/` is vendored.

The modules here model the parts of it that decide what the user sees when
answers, notifications, taps and the end of the process come in an inconvenient
order.  Each definition is translated from the Swift code and `PROJECT.json`
names its lines.

## How the program is put together

Four places run code:

- the **main queue**: every handler of a screen, every completion of the
  storage, of `ImageService` and of the feed;
- a **global queue**, where requests are built and started;
- **URLSession's queue**, where answers are parsed, and where the completion of
  `getFriends` and `getPublics` runs;
- the storage's own **serial queue**, entered with `sync`, so that a storage
  call is finished, except for its completion, when it returns.

```
 screens ──load──> DataStorage/RealmDataStorage ──completion (main.async)──┐
   ^  │                    ^          │ Realm file                         │
   │  └─refresh─> LoadManager ─get──> APIManager ──> VK                    │
   │                    │  <──answer (URLSession's queue)                  │
   └──notification──────┘  <───────────────────────────────────────────────┘
 cells ──get──> ImageService ──picture (main.async)──> image view
```

The storyboard (`Base.lproj/Main.storyboard`) decides how often some of this can
happen.  The application starts at `VKLoginViewController` (line 2), whose one
segue (line 754) opens the tab bar.  The "Log out" button unwinds to
`logOutAction` (line 176), which only `loginViewController` has, and no segue
leads to that scene or to the navigation controller around it (line 712).  So,
**as the application is wired**, logging out finds no handler and the demo login
cannot be reached: a process has one session and one screen of each kind, and
each list is refreshed once.  The classes themselves do nothing to rely on that,
and `logOutAction`, the demo login and the button are there to be used.  The
constant `MayLogOut` switches between the two: `FALSE` is the application as it
is wired; with `TRUE`, `loginViewController` is one of its screens.  Every
behaviour with `FALSE` is one with `TRUE`, so that a safety result with `TRUE`
holds of the application as it is wired too.

### Inventory

| component | state | operations | what is hard | correct when |
|---|---|---|---|---|
| Entity synchronisation: `LoadManager`, `RealmDataStorage` | the Realm file; the chain of closures of each refresh | load, delete rows, save rows, notify | chains of successive screens may overlap; a write or the open fails; the process ends between two writes | the file ends up as the last answer, rows go only when an answer lacks them, the screen shows the file |
| News feed: `NewsFeedViewController` | posts, cursor, loading flag, spinner | first load, pull to refresh, load more | one load is outside the flag; answers out of order; errors | no gap, no repetition, one load at a time, the spinner stops |
| Friends screen: `MyFriendsViewController` | friends, search text, sections, the table's own idea of them | update, search, reload, scroll, tap | the data changes at once, the table later | every friend listed once; rows and taps agree with the data |
| Publics screens: `MyPublicsTableViewController`, `AllPublicsTableViewController` | the rows on show | update, add a demo public, delete a row | edits touch the list only and compete with notifications; demo publics lack a field the cell unwraps | the list ends up as the file but for what was swiped off since the last load |
| Pictures: `ImageService`, the cells | requests on their way, image views | get, fill, reuse | cells are reused before the picture comes | a cell shows its own row's picture |
| API client and parser: `APIManager`, `RequestData`, `Parser` | none | build URL, decode, assemble posts and comments | one bad item rejects the answer; authors that are missing | what is shown is what was sent |
| Post geometry: `NewsFeedModel`, `CommentsModel`, cells | heights, compact flag | calculate, lay out, show full | two places compute the same sums | rows are as high as what they hold |
| Photo viewer: `DetailNewsPhotoViewController` | selected index, pan positions, side pictures | pan, swipe up | positions of an earlier pan, cancelled pans | the index follows the pan and stays in range |
| Demo feed: `FeedViewController`, `FeedTableViewCell` | a strip of pictures per row, its place kept with the row | show, scroll, tap the dots | cells are reused, animated scrolls outlive the row | a row is found where it was left |
| Navigation: `CustomInteractiveTransition`, `CustomNavigationController`, the animators | the stack, gesture flags, the screen the swipe pops | push, pop, swipe, finish, cancel | flags that outlive a gesture, animations that end early | the screen on top is the one the finger asked for, upright |
| Loading dots: `LoaderPoints` | step of the animation | start, step | two chains at once | dots light up in turn |
| Counters: like, repost, comment, views | number, toggled | set, toggle, abbreviate | thresholds | a larger number never looks smaller |
| Login and session: `VKLoginViewController`, `loginViewController`, `Session` | token, user | log in; log out, where it is handled | a refused login opens the app too and the file is not cleared; with logging out, refreshes outlive the session and requests are built late | the screen asks as the user let in last and comes to show that account |

The friend's photo grid, the unused section index, drawing code and the
application entry keep no state worth checking; see "Not modelled" below.

## What is modelled

### EntitySync: the file, the refreshes and the screens

One module for friends and publics alike, whose code is the same twice, on
separate rows of the file.  A row is an id with a version (its name and image
URL as one value); `Absent` stands for a key without a row.

| TLA+ | code |
|---|---|
| `stored` | the rows of the Realm file, which survive `Kill` |
| `main` | the blocks on the main queue, oldest first |
| `chain`, `loaded` | how far each refresh has got, and the rows it was answered with (captured by the closures of `comparePublics`/`compareFriends`) |
| `phase`, `list` | whether a screen exists, and the rows it shows |
| `Open`, `RunShow` | `viewDidLoad`: observe, load, show, ask for a refresh |
| `Close` | logging out, if anything handles it (`LogOutIsHandled`), releases the screen; its closures live on |
| `Answer`, `NoAnswer` | the completion of `getFriends`/`getPublics`, and the load that `compare…` starts |
| `RunDiff`, `RunDeleted`, `RunSaved`, `RunUpdate` | the completions: delete what the answer lacks, save the answer, notify, show |
| `Kill`, `Restart` | the process ends, also inside a loop of writes, and starts again |

A storage body is one step because it runs under `dispathQueue.sync`; the loops
over rows are cut open only by `Kill` and by the failing unwrap, the two things
that can stop them.  A screen starts one refresh, from `viewDidLoad`, so refreshes
are named after screens.  Screens follow one another (`OpenScreens = {}` in
`Open`), as the application is wired only from one process to the next.  With
`MayLogOut`, logging out destroys the tab bar and logging in makes a new one, and
until the first one's request is answered two refreshes are under way.

`latest` and `overlapped` are history variables.  `RealmMayFail`, `WriteMayFail`
and `MayBeKilled` switch the three kinds of failure.

What holds: whenever the main queue is empty the screen shows the file
(`QuietListCurrent`) and the file holds every row of the answer that came last
(`LatestAnswerWins`).  The reasons are the FIFO main queue and that every load
takes effect when its block is queued.  What does not hold without a condition
is stated with it: the file is *exactly* the answer only for a refresh that
overlapped no other (`ExactUnlessOverlapped`; an overlapped refresh can keep rows
that another saved after it compared), and the force unwrap in `delateFriends`
is safe only for a refresh alone (`CrashNeedsOverlap`).  As the application is
wired every refresh is alone (`AloneAsWired`).  When the file does not open, the
screen can miss what a refresh did before it was halted, and nothing else
(`StaleOnlyIfHalted`).

### CacheRefresh: what a refresh promises of the file

The abstract specification: a refresh is answered, drops rows its answer lacks,
then puts rows of its answer, and is over; it may do each in parts and be given
up anywhere, but never drops after it has begun to put, never drops a row of its
answer and never puts what was not answered.  No queue, snapshot or screen is in
it.  EntitySync implements it (`KeepsPromise`) under the mapping

| CacheRefresh | EntitySync |
|---|---|
| `stored`, `answer` | `stored`, `loaded` |
| `stage[r]` = "waiting" | the refresh is idle or requested |
| "answered" | it is comparing, its "diff" block is in the main queue, or the process has ended before |
| "dropped" | its "deleted" block is in the main queue |
| "over" | its "saved" block is, or it is lost, halted or notified |

so that `Answer` is `Answered`, `RunDiff` is `Drop`, `RunDeleted` is `Put`, a
`Kill` inside a loop is a `Drop` or `Put` of some of the rows, `Restart`,
`NoAnswer` and a file that does not open are `GiveUp`, and the rest stutters.

### AppSession: who is signed in

EntitySync with the login around it. `token` is `Session.instance`'s, `signedIn`
whether the tab bar is shown. `VKLogin` and `VKRefused` are the ways in; the
first writes the token, the second opens the application and leaves it as it is.
`DemoLogin` and `LogOut` are `loginViewController`'s and need `MayLogOut`:
neither clears the token or the file (`logOutAction` is empty). `Send` is the
block in which the request is built, on a global queue, possibly long after the
refresh was asked for: it takes the token of that moment (`sentAs`). The server
answers a token with rows of its account, so that a row's version says here
whose it is. `granted` is a history variable. The other actions are
EntitySync's, conjoined with what they leave alone.

As the application is wired a session can inherit only the file, and once its
refresh is done nothing of an earlier account is in it (`FileIsOneAccounts`);
until then the screen shows it. With sessions that follow one another in a
process, `OwnSession` has two halves. The screen on show asks with the token
granted last, because a screen sends its request after its own session began and
a later login takes the screen away first. And it comes to show rows of that
account only, because a refresh that overlapped no other leaves nothing of an
earlier account in the file (`FileIsOneAccounts`). An answer to an earlier
session that comes in later is the exception both name: LoadManager saves it for
whoever is signed in.

### PublicsList: editing the publics

EntitySync with the edits of `MyPublicsTableViewController`: `AddPublic` is the
unwind from the demo publics, `SwipeOff` the deletion of a row, `LayOutAdded` the
cell that unwraps the image URL a demo public does not have.  Both edits touch
the list on the screen only, so that every completion that sets the list undoes
them (`EditsGone`).  `removed` is a history variable.  So the file still keeps
CacheRefresh's promise with the edits around it (proved, not run:
`EditsStayOnScreen`), and an empty
main queue means that the list is the file without what was swiped off since it
was loaded (`EditedListCurrent`).

### NewsFeed: paging

A post is known by its page; the server's feed is pages 1 to `Pages`, of `Size`
posts, and a cursor is the page it starts.  Paging the server does is external.
`pending` holds the requests on their way, `isLoadingMore`, `nextFrom`,
`refreshing` and `postsArray` are the code's.  `AnswerInitial`, `AnswerRefresh`,
`AnswerMore` and `Fail` are the completions; an answer may be `Garbled`, which
`getNewsFeedTypePost` hands over as an empty page without an error.

The flag is shared by refresh and load-more and ignored by the first load.  So
`GaplessUnlessOvertaken` needs its condition: with the flag free, a refresh can
end and a load of more start before the first answer replaces the posts.

### FriendsList: the table of friends

`data` is what the data source reads (titles and dictionary), `table` what the
table last laid out, row by row with the friend each cell was filled with.
`Update` and `Search` are the two callers of `filterContentFor`: they change
`data` at once and queue a reload (`reloads`); `Search` also marks the table
(`dirty`) itself.  `Show` is `cellForRow` for a row that scrolls in, `Tap` is
`prepare(for:)`; both index `data` with a path of `table` and end in `crashed`
when it is not there.  A touch or a scroll lays a marked table out first, so
both need `~dirty`.

`Kept` and `EnterAll` are the two loops of the code, as functions of how many turns
they have made, so that proofs can follow them.  `Lists` is what they must
produce, stated without a loop: the letters that occur, in order, and under each
the friends it starts, in the order they came (`InOrderOf`).

### ImageCells: pictures in reused cells

`view[c]` numbers the image views a cell has had: list cells keep the one from
the storyboard, feed and details cells count up with every reuse.  A completion
sets the picture of the view it captured; only the present view's is kept in
`picture`, the others are inside a container of size zero.  `raced` marks the
list cells that were refilled while a request for the same view was on its way.

### PostScreens: posts, comments and the rows they are shown in

`Decoding` is what `Parser` and `APIManager` make of an answer: a record with
only what the program tells apart.  A key read with `try` rejects what holds it,
one read with `try?` becomes `Nil`; a text is its measured height.  `PostLayout`
has both sides of each sum: the heights `calculateSize` stores and the tables
use for their rows, and the frames the cells place.

`PostScreens` composes the two.  `posts` and `cells` are the feed and the frames
on its screen, `post`, `head` and `comments` the details.  `AnswerNews` and
`AnswerComments` are the completions, `FillRow`, `FillHead` and `FillComment`
`cellForRowAt`, `LeaveRow` the reuse of a cell, `ShowFull` the tap on the button.
A cell unwraps the picture of its author, so a missing author ends in `crashed`.
`news` and `thread` remember the answers for the properties.  The order of the
loads is NewsFeed's; here a load can end at any time with any answer.

Worth knowing, though nothing states otherwise:

- `calculateSize` counts 22 points for "show full", `setup` places the photos
  below one of 25, `sizeToFit` makes it about 30 and `updateContent` places the
  photos below that: they move by a point after the first tap, which is the
  unexplained `- 6` of `NewsFeedTableViewCell.swift:180`.  Rows have the room,
  as long as the button is not higher than 31 points (`LayoutConstants`); in a
  post without photos its transparent edge reaches into the bottom bar.
- `CommentsModel` measures texts 6 points wider than `CommentView` shows them,
  so a text near a line break can need a line more than it gets.  Widths of
  texts are not modelled.

### FeedCells: the strips of the demo feed

`position` is `scrollPosition` of each row's model, `offset`, `goal` and `dot`
the scroll view and the page control of each cell. `Show` is `cellForRowAt` with
all of `setNews`, including the `scrollViewDidScroll` that setting the offset
causes and that runs with the row set just before; `Drag`, `TapDots`, `Fling`
and `Glide` are a finger, a tap on the page control, a finger let go in motion
and one page of an animated scroll or of the momentum. An offset is the nearest
page: the code keeps a point, rounds it for the page control and restores it as
it is. `overtaken` remembers the one way in which a row loses its place: a
scroll begun in its cell goes on after the cell has left the screen, when
another cell shows the row. `setNews` resets the page control to the first page
after it restored the strip, so that the two can disagree until the next scroll.

### PhotoViewer: paging through photos by a pan

One variable per thing the pan changes: the index, the photo and its label, the
start of the pan, the last position, and for each side its picture, whether it
is hidden or moved and its animator.  Points are `0 .. MaxX`; fractions of the
animations are left out.  `Ended` uses `atX`, the position of the last
`.changed`, as the code does, so that a pan that ends before its first `.changed`
moves by the position of an earlier pan.  The index stays in range even then
(`ShowsNeighbours`).  What a pan leaves behind when it crosses its start, is
cancelled or ends where it began (a picture over the photo, a scaled photo) is
kept, and `owes` says where: the sides a pan has pulled in, or left to the next
(all of them after a cancelled pan), that no pan has ended towards since.
`RestIsClean` says that a picture lies over the photo on these sides only, so that
the pans after it make good what such a pan left, also by the paused animators
that the next pan lets run on.  UIKit raises an exception when a paused animator is
released; wherever the code drops one it has just started or stopped it, so that
the model has no state for that.

### PopTransition: pushes, pops and the swipe from the edge

`depth` is the stack, `target` the screen the gesture pops through
(`interactiveTransition.viewController`), `hasStarted` and `shouldFinish` the
flags.  A swipe is `Began`, any number of `Changed`, `Ended` or `Cancelled`, then
the completion of the animator: `Popped`, `Stayed` or `Interrupted`.  Only one
gesture recogniser acts at a time, as UIKit has it.  Two things the code does and
the property leaves out by its conditions: `shouldFinish` outlives the gesture,
so a swipe without a `.changed` ends as the one before it; and a pop whose
animation ends unfinished keeps the screen without turning it back
(`interrupted`), because neither branch of the completion covers it.

## Runs

| run | question | bounds |
|---|---|---|
| `sync_overlap` | overlapping refreshes, as if logging out worked: `SnapshotCovered`, `CrashNeedsOverlap`, `QuietListCurrent`, `LatestAnswerWins` | 2 ids, 2 versions, 3 screens, any first file, any answers. Three refreshes let one delete, one save and one wait at once; two ids let one row of an answer differ from another. `NotKilled` ends a behaviour at a kill: what comes after one is the next runs' question |
| `sync_failures` | the application as it is wired, opens that fail, the process killed anywhere: `KeepsPromise`, `ExactUnlessOverlapped`, `FileIsOneAccounts`, `AloneAsWired` | `MayLogOut = FALSE`; 2 ids, 2 accounts, 2 screens: a session and its refresh before a restart and one after it; any first file |
| `sync_sessions` | sessions that follow one another, as if logging out worked, with the same failures: `OwnSession`, `StaleOnlyIfHalted` | 2 ids, 2 accounts, 2 screens: an earlier session's refresh and one of the present session, in one process or two |
| `sync_live` | the publics screen, as if logging out worked, edited while writes throw and the process may be killed: `EditedListCurrent`, `ConvergesUpToSwipes`, `AnswerIsAnnounced`, `RefreshUndoesEdits` | 1 id of 2 versions, 1 demo public, 2 screens, no symmetry: a row can be swiped off, come back and change |
| `feed` | `OneFlaggedLoad`, `GaplessUnlessOvertaken`, `FailedLoadIsFinal`, `SpinnerStops` | pages of 3, 1, 4 and 2 posts: a page whose posts do not move the third row from the end, and pages that do |
| `feed_all_loaded` | finding: "all news were loaded" is reported with pages left (`AllLoadedIsTrue`) | the same feed |
| `friends_list` | `EveryoneListedOnce`, `TableIsCurrent`, `TapOpensShownFriend`, `TableCatchesUp` | 3 friends, 2 letters, 2 texts, at most 2 reloads queued (`MaxReloads`, a bound of the model) |
| `cells` | `OwnPictureUnlessRaced`, `QuietCellHasPicture` | a cell of each kind, 3 rows, 5 requests (`MaxAsked`, a bound of the model): a view can be waited for by two requests while it is filled a third time |
| `posts` | `RowsFit`, `HeadFits`, `CommentsFit`, `AllOrNothing`, `CrashNeedsUnknownAuthor` | texts of 0, 20, 143, 144 and 300 points (none, short, both sides of the limit, long), none to two photos with every kind of attachment, two posts at most, one or three comments with none to three replies; a screen 375 points wide |
| `feed_cells` | `PositionKept`, `HiddenRowsStay` | 2 cells, 3 rows of 3 pictures: a row comes back in the cell it left or in the other, while a third row can take its place |
| `viewer` | `ShowsNeighbours`, `RestIsClean` | 3 photos, one with both neighbours; 4 positions: a pan can go to either side of its start and come back |
| `pop` | `EndsWhereAsked` | 3 screens (`MaxDepth`, a bound of the model; the app's own stacks have two): the first depth at which a pop leaves a screen that can be popped; progress in thirds, on both sides of 0.33 |

Symmetry is used for ids, versions (accounts), screens, cells and rows, all interchangeable,
and never in a run with liveness.  `feed_cells`, `viewer` and `pop` check for
deadlock: no gesture leaves the screen without a next step.
`CHECK_DEADLOCK FALSE` stands in the other runs because those systems may stop:
no screen left to open, the process ended, nothing on its way, a crash.

### Fairness

`EntitySync`: weak fairness of the main queue's next block, since the main run
loop drains its queue, and of the end of each request, since URLSession calls
every completion, at the latest at its timeout, with data or without.
`PublicsList` has the same fairness on the same steps (`PublicsFairness`); the
user's edits are not fair, and neither is the layout of an added row, which
happens only when the user scrolls to it.  `NewsFeed`:
weak fairness of the end of each request.  `FriendsList`: weak fairness of a
queued reload and of the layout of a marked table.  Nothing the user or the
system does is fair: opening, closing, pulling, scrolling, searching, killing.

## Proofs

TLAPS checks these for every value of the constants:

- `EntitySync_proofs`: `TypeCorrect`, `SnapshotsAreCovered`,
  `OnlyOverlapCrashes`, whatever fails.  `SnapshotCovered` is inductive with the type invariant:
  a row leaves the file only in `DeletesRows`, which puts its own "deleted" block
  at the end of the queue, behind every "diff" block waiting, and that block
  leaves the queue only when it is the head, that is when no "diff" block is
  in front of it.  `CrashNeedsOverlap` follows from it at the step that crashes:
  the waiting block is the head, and the row it misses is covered.
- `OneRefreshAsWired`: without `MayLogOut` nothing closes a screen within a process,
  so that only the screen on show has a refresh, and only its blocks are in the main
  queue (`AloneInv`).  Then the answer that comes finds no other refresh between its
  load and its save, and `OnlyOverlapCrashes` says that the unwrap cannot fail.
- There too, the refinement: `ImplementsCacheRefresh`, whatever fails.  It needs
  `StageInv`: a screen has at most one block of its own in the main queue, and
  `chain` agrees with its kind.  Then every block that runs is the only one of
  its refresh, its stage is the one CacheRefresh's action asks for, and the next
  block is the next stage.  `RowsLeaveAsAsked`, an action property, follows the
  same steps.
- `LoneRefreshIsExact`, when no single write throws.  `WindowInv` says that a
  refresh which overlaps no other is alone between its load and its save, so that
  its copy of the file is the file, its deletions leave nothing the answer lacks,
  and its save leaves the answer; and that the file stays so until the next
  answer.
- `ListIsCurrent`, as long as the file opens.  `Fresh` says of the list of the
  screen on show: if it, or a block that will set it, has other rows than the
  file, then a later block sets it to the file's rows or leads to a notification
  that does.  Deleting and saving put such a block at the end of the queue.
- `ListIsStaleOnlyIfHalted`, also when it does not open.  `HaltInv` weakens `Fresh`:
  the list, or what will replace it, is empty, or is the file with rows that some
  refresh was answered without, one that is halted or has its "deleted" block in the
  queue.  With an empty queue only the halted ones are left.
- `LastAnswerWins`, as long as the file opens and no single write throws.
  `Winning` says of the refresh answered last: its "diff" block is the last one
  in the queue; or no "diff" is left and its "deleted" block is the last one; or
  neither kind is left and the file holds its rows.
- The next part of the same module is about AppSession: `FileOfOneAccount` and
  `ScreenOfOwnAccount`, when no single write throws.  A session's step is a step of
  EntitySync (`RefinesEntitySync`), whose invariants carry over; `RequestInv` adds
  that only a session has a screen on show, one at most, and that a screen never
  shown has not asked, `AnswerInv` that an answered refresh was answered for the
  token it was sent with.  `ScreenOfOwnAccount` also needs `ShownInv`: no other
  refresh runs behind the blocks of one that overlaps none, so that once it is
  announced the list is, or will be set to, the rows of the file, or to none when the
  file does not open.
- Its last part is about PublicsList.  `EditsStayOnScreen` is the refinement once
  more, under the edits: a step of PublicsList is a step of EntitySync or leaves
  the file and every refresh alone, and neither `TypeOK` nor `StageInv` says anything
  the edits could break (`Typed` is `TypeOK` without `app`, which has a value more here).
  `EditedListIsCurrent`, as long as the file opens, strengthens `Fresh`: the list
  is always some rows without those swiped off, and it is these rows, from before
  the swipes, that are the file's or will be replaced by the file's (`Edited`).
- `NewsFeed_proofs`: `TypeCorrect`, `AtMostOneFlaggedLoad`, `FeedIsGapless`,
  `FailureStopsTheFeed`.  The gapless list needs `FromCursor`: a refresh starts
  at the first page, and a load of more, as long as nothing overtook it, at the
  present cursor and below a table that has posts.
- `FriendsList_proofs`: `TypeCorrect`, `ListIsComplete`, `TableKeepsUp`,
  `TapIsRight`.  For the last two, the table and the data agree unless a reload is
  queued; refilling one row keeps them in agreement, and what the sections hold
  plays no part.  `ListIsComplete` is about what they hold.  The loops are followed
  turn by turn: after `n` turns a letter has a section just when one of the first
  `n` friends kept has it, and the section lists those, each once, in their order.
  That the letters can be put in order at all is proved by induction on how
  many there are, so that `Sorted`, the one increasing sequence of them, is theirs.
- `ImageCells_proofs`: `TypeCorrect`, `OwnPicture`, `NoPictureLost`, from two
  facts about the requests: none is for a view its cell does not have yet, and
  for a cell that did not race all those for its view are for its row.
- `PostScreens_proofs`: `TypeCorrect`, `RowsAlwaysFit`, `HeadAlwaysFits`,
  `CommentsAlwaysFit`, `AnswersAreWhole`, `OnlyUnknownAuthorsCrash`.  `CellOf` describes a cell that
  was set up or updated for a post, the photos in one of two places; each way to
  fill or change a cell keeps it (`SetupGivesCell`, `UpdateKeepsCell`) and it fits
  (`CellFits`), all by linear arithmetic over any text, width and number of
  photos.  `CommentsAlwaysFit` adds the replies of a thread one at a time: after
  each, the height the model has summed is what the views placed so far need.
  `AnswersAreWhole` does the same with the photos that the parser keeps among the
  attachments.  The authors follow from `AuthorsInv`: posts and comments are those of
  the last answers.
- `FeedCells_proofs`: `TypeCorrect`, `PlacesAreKept`, `OthersStay`.
  `PositionKept` is inductive with `OneCellPerRow`, that no two cells on the
  screen show the same row: a scroll then writes the place of no other cell's
  row, except a scroll in a hidden cell, which `overtaken` records.
- `PhotoViewer_proofs`: `TypeCorrect`, `NeighboursShown`, `EndsPutBack`.  The
  invariant adds that a side that shows has a photo, that during a pan only the
  sides it has been towards or that are owed are away from their rest
  (`AwayIsAimed`), and that between pans only those owed are, and no animator is
  left paused unless both are (`AtRest`).
- `PopTransition_proofs`: `TypeCorrect`, `SwipeEndsWhereAsked`.  The screen the
  gesture pops is always one of the stack (`TargetInv`), so that a swipe that begins
  always turns a screen; the turned screens on the stack are the one being turned and
  those whose pop was interrupted (`TurnedInv`); and what the end of the finger's
  way asked for is what is under way until the stack is at rest (`AskedInv`).

Where a proof follows a loop, here and in FriendsList, the induction is stated for
one set of numbers (`Induction`, from `LeastNumber`: a set of naturals that is not
empty has a least member) and not for an operator, which the provers could not
instantiate; the loops are recursive functions, whose equations are proved once
(`LoopValues`).

The assumptions are the ones the modules name (`ConstantsOK`, `TokensOK`, `FeedConstants`,
`ListConstants`, `CellConstants`, `LayoutConstants`, `AnswersOK`, `StripConstants`,
`ViewerConstants`, `PopConstants`): values that stand for "none" are not members
of the sets they complete, switches are Boolean, pages have at least one post, VK lists
people and groups by positive ids, attachments and replies come in finite lists and a
text's height is a number, the user's friends are finitely many, "show full" is at most
31 points high.  Six theorems have hypotheses of their own on the switches `RealmMayFail` and
`WriteMayFail`, given above: without them the statements are false.

Only model-checked: the liveness properties (`ConvergesUpToSwipes`,
`AnswerIsAnnounced`, `RefreshUndoesEdits`, `SpinnerStops`, `TableCatchesUp`),
since the prover handles neither fairness nor ENABLED.  Every invariant and
action property of a passing run is stated by a theorem.  The types of
EntitySync and FeedCells, and CacheRefresh's promise under the edits of PublicsList,
are proved and not run.

## Findings

- `feed_all_loaded`: an answer that does not parse is reported as the end of the
  feed (`View Controllers/NewsFeed VC/NewsFeedViewController.swift:142`).

No finding, because it cannot happen in the application as it is wired: the force
unwrap `realm.object(…)!` (`Models/DataBase/RealmDataStorage.swift:194` and `:219`)
fails when a refresh has deleted a row that another one loaded before.
`OneRefreshAsWired` says that there is no other one; `CrashNeedsOverlap` says when
it would fail once a second screen of a kind is let into a process.

## Not modelled

The program is about 6800 lines of Swift, of which the modules stand for
about 30%; the 140000 lines of C++ headers in the repository are Realm's and
Firebase's, below `Pods/`, and no line of theirs is modelled: Realm and URLSession
are what the storage and the API client use of them.  Of the program itself:

- **Loading dots** (`LoaderPoints`): a decoration of a test screen; nothing reads
  the step of its animation.
- **Counters** (likes, reposts, comments, views): the taps that would toggle them
  are commented out, so that they keep no state; the abbreviation of a number is a
  formula of three cases that a unit test covers.
- **Friend photos**: one bundled picture, no state.
- **Section index control**: the code that would create it is commented out.
- **Drawing and formatting**: layers, shadows, gradients, dates, and the
  measurement of texts by UIKit, whose result the models take as given.
- **Application entry**: configures Firebase.
- **Tests**: the template's empty ones, and one that parses a response before its
  request can have ended, whatever the parser does.
- Parts of modelled components: the queries of request URLs, the encoding back to
  JSON, the search for links in a text, names of authors, the opening and closing
  animations of the viewer, frames and anchor points of the transitions.

The hazards in `PROJECT.json` without a property have a note each.  Some happen
in the models, as in the code, and are excepted by name where a property meets
them: the storage queue entered from itself (`syncTrap`), a demo public without a
picture (`demoTrap`), an unparsed answer that empties the file, an update that
ignores the search text, a pop that is interrupted.  Others hold by the shape of
the code: a container that cells never remove, the animators of the viewer.  The
dots of the demo feed are wrong from the moment a cell is filled, and the loading
dots are read by nothing.  The notes of the hazards that need a second screen in a
process say so.

## Plan

Done: every component with state that decides what the user sees, the composition
of the synchronisation with sessions and with the edited list of publics, the
abstract specification and its refinement, and the proofs above.  Left, all of it
proof:

1. An abstract specification of paging, a list that grows by whole pages or starts
   over, and NewsFeed's refinement of it for feeds that nothing overtook.
2. The safety half of `RefreshUndoesEdits`: a refresh that has notified its screens
   leaves no edit older than its notification on them.
