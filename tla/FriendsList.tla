----------------------------- MODULE FriendsList -----------------------------
(***************************************************************************)
(* The table of friends: MyFriendsViewController.                          *)
(*                                                                         *)
(* filterContentFor replaces the data the table reads (section titles and  *)
(* a dictionary of rows) at once, and only queues the reload of the table  *)
(* on the main queue.  Until that reload has run, and the table has been   *)
(* laid out again, the table still asks for the rows it laid out before,   *)
(* and rows on the screen still show the friends they were filled with.    *)
(*                                                                         *)
(* New rows come from the load in viewDidLoad and from the notifications   *)
(* of EntitySync; the search text comes from the user.                     *)
(***************************************************************************)
EXTENDS Integers, Sequences, FiniteSets, SequencesExt

CONSTANTS
  Friends,     (* the friends there may be                                 *)
  Initial,     (* the first letter of each friend's last name, as a number *)
  Texts,       (* what the user may search for                             *)
  Blank,       (* the empty search text                                    *)
  Matches,     (* Matches[t]: the friends whose first or last name has t   *)
  NoFriend,    (* no friend's photos are on show                           *)
  MaxReloads   (* bound: reloads queued and not run                        *)

ASSUME ListConstants ==
  /\ IsFiniteSet(Friends)
  /\ Initial \in [Friends -> Nat]
  /\ Blank \notin Texts
  /\ Matches \in [Texts -> SUBSET Friends]
  /\ NoFriend \notin Friends
  /\ MaxReloads \in Nat

VARIABLES
  friends,   (* the rows last loaded from the file                         *)
  text,      (* the text in the search bar                                 *)
  data,      (* what the data source reads: titles, and rows by title      *)
  table,     (* the rows of each section as the table last laid them out   *)
  dirty,     (* reloadData has run since that layout                       *)
  reloads,   (* reloads on the main queue                                  *)
  opened,    (* the friend whose photos are on show                        *)
  crashed    (* an index was out of range                                  *)

vars == <<friends, text, data, table, dirty, reloads, opened, crashed>>
-----------------------------------------------------------------------------
(* filterContentFor.                                                       *)

\* friends.filter: the friends with t in a name, in the order of the file.
Kept(fs, S) ==
  LET upTo[n \in 0..Len(fs)] ==
        IF n = 0 THEN <<>>
        ELSE IF fs[n] \in S THEN Append(upTo[n - 1], fs[n]) ELSE upTo[n - 1]
  IN upTo[Len(fs)]
Filtered(fs, t) == IF t = Blank THEN fs ELSE Kept(fs, Matches[t])

\* One friend put into the dictionary under the first letter of the last name.
Enter(dict, f) ==
  [k \in DOMAIN dict \cup {Initial[f]} |->
     IF k # Initial[f] THEN dict[k]
     ELSE IF k \in DOMAIN dict THEN Append(dict[k], f) ELSE <<f>>]

\* The friends put into a dictionary one after the other.
EnterAll(dict, fs) ==
  LET upTo[n \in 0..Len(fs)] == IF n = 0 THEN dict ELSE Enter(upTo[n - 1], fs[n])
  IN upTo[Len(fs)]

Increasing(s) == \A i, j \in DOMAIN s : i < j => s[i] < s[j]

Sorted(keys) == CHOOSE s \in [1..Cardinality(keys) -> keys] : ToSet(s) = keys /\ Increasing(s)

\* Mutants: the dictionary is not emptied first; the titles are those of all friends.
Sections_NotCleared(fs) ==
  LET dict == EnterAll(data.dict, fs) IN [titles |-> Sorted(DOMAIN dict), dict |-> dict]
Sections_AllTitles(fs) ==
  [titles |-> Sorted({Initial[f] : f \in Friends}), dict |-> EnterAll(<<>>, fs)]
Sections(fs) ==
  LET dict == EnterAll(<<>>, fs) IN [titles |-> Sorted(DOMAIN dict), dict |-> dict]

\* numberOfSections and numberOfRowsInSection, with the rows themselves.
RowsOf(d) == [s \in DOMAIN d.titles |-> d.dict[d.titles[s]]]
HasRow(rows, s, r) == s \in DOMAIN rows /\ r \in DOMAIN rows[s]

\* prepare(for:): the friend at the selected index path, looked up when tapped.
\* Mutant: the row counted in the whole list.
Selected_Flat(s, r) == friends[r]
Selected(s, r) == data.dict[data.titles[s]][r]
-----------------------------------------------------------------------------
Init ==
  /\ friends = <<>>
  /\ text = Blank
  /\ data = [titles |-> <<>>, dict |-> <<>>]
  /\ table = <<>>
  /\ dirty = FALSE
  /\ reloads = 0
  /\ opened = NoFriend
  /\ crashed = FALSE

\* The completion of viewDidLoad's load and of updateFriends: show all the rows,
\* whatever the search text.
\* Mutant: the reload is not queued.
Update_NoReload(rows) ==
  /\ ~crashed /\ reloads < MaxReloads
  /\ friends' = rows
  /\ data' = Sections(Filtered(rows, Blank))
  /\ UNCHANGED <<text, table, dirty, reloads, opened, crashed>>
Update(rows) ==
  /\ ~crashed /\ reloads < MaxReloads
  /\ friends' = rows
  /\ data' = Sections(Filtered(rows, Blank))
  /\ reloads' = reloads + 1
  /\ UNCHANGED <<text, table, dirty, opened, crashed>>

\* updateSearchResults reloads at once, besides the reload it queues.
Search(t) ==
  /\ ~crashed /\ reloads < MaxReloads
  /\ text' = t
  /\ data' = Sections(Filtered(friends, t))
  /\ reloads' = reloads + 1
  /\ dirty' = TRUE
  /\ UNCHANGED <<friends, table, opened, crashed>>

RunReload ==
  /\ ~crashed /\ reloads > 0
  /\ reloads' = reloads - 1
  /\ dirty' = TRUE
  /\ UNCHANGED <<friends, text, data, table, opened, crashed>>

\* After reloadData the table counts its rows anew and fills the visible cells.
Layout ==
  /\ ~crashed /\ dirty
  /\ table' = RowsOf(data)
  /\ dirty' = FALSE
  /\ UNCHANGED <<friends, text, data, reloads, opened, crashed>>

\* cellForRow for a row the table counted, when scrolling brings it back.
Show(s, r) ==
  /\ ~crashed /\ ~dirty
  /\ HasRow(table, s, r)
  /\ IF HasRow(RowsOf(data), s, r)
     THEN table' = [table EXCEPT ![s][r] = data.dict[data.titles[s]][r]] /\ UNCHANGED crashed
     ELSE crashed' = TRUE /\ UNCHANGED table
  /\ UNCHANGED <<friends, text, data, dirty, reloads, opened>>

\* A tap on a row of the table opens the photos of the friend found at its place.
Tap(s, r) ==
  /\ ~crashed /\ ~dirty
  /\ opened = NoFriend
  /\ HasRow(table, s, r)
  /\ IF HasRow(RowsOf(data), s, r)
     THEN opened' = Selected(s, r) /\ UNCHANGED crashed
     ELSE crashed' = TRUE /\ UNCHANGED opened
  /\ UNCHANGED <<friends, text, data, table, dirty, reloads>>

Back ==
  /\ ~crashed /\ opened # NoFriend
  /\ opened' = NoFriend
  /\ UNCHANGED <<friends, text, data, table, dirty, reloads, crashed>>

\* The file holds a row once, in any order.
Loads == {fs \in UNION {[1..n -> Friends] : n \in 0..Cardinality(Friends)} : IsInjective(fs)}

Paths == UNION {{<<s, r>> : r \in DOMAIN table[s]} : s \in DOMAIN table}

Next ==
  \/ \E rows \in Loads : Update(rows)
  \/ \E t \in Texts \cup {Blank} : Search(t)
  \/ RunReload
  \/ Layout
  \/ \E p \in Paths : Show(p[1], p[2]) \/ Tap(p[1], p[2])
  \/ Back

\* The main run loop runs what is queued and lays out what is marked.
Spec == Init /\ [][Next]_vars
FairSpec == Spec /\ WF_vars(RunReload) /\ WF_vars(Layout)
-----------------------------------------------------------------------------
(* Properties.                                                             *)

TypeOK ==
  /\ friends \in Loads
  /\ text \in Texts \cup {Blank}
  /\ DOMAIN data = {"titles", "dict"} /\ data.titles \in Seq(Nat)
  /\ ToSet(data.titles) = DOMAIN data.dict
  /\ \A k \in DOMAIN data.dict : data.dict[k] \in Seq(Friends)
  /\ table \in Seq(Seq(Friends))
  /\ dirty \in BOOLEAN
  /\ reloads \in 0..MaxReloads
  /\ opened \in Friends \cup {NoFriend}
  /\ crashed \in BOOLEAN

\* s goes through members of fs in the order they have there.
InOrderOf(s, fs) ==
  \A i, j \in DOMAIN s : i < j =>
    \E a, b \in DOMAIN fs : a < b /\ fs[a] = s[i] /\ fs[b] = s[j]

\* d lists those of fs that match one text, or all: every one of them once, below the
\* letter of the last name, in the order of the file, and the letters in order with none
\* empty.
Lists(d, fs, t) ==
  LET wanted == {f \in ToSet(fs) : t = Blank \/ f \in Matches[t]}
  IN /\ ToSet(d.titles) = {Initial[f] : f \in wanted}
     /\ Increasing(d.titles)
     /\ \A k \in DOMAIN d.dict :
          /\ ToSet(d.dict[k]) = {f \in wanted : Initial[f] = k}
          /\ InOrderOf(d.dict[k], fs)

\* filterContentFor never leaves rows of an earlier list or of another text behind;
\* the one departure from the search text is that an update lists all the friends.
EveryoneListedOnce == Lists(data, friends, text) \/ Lists(data, friends, Blank)

\* The same sections with the same rows.
Agree(rows, other) ==
  /\ DOMAIN rows = DOMAIN other
  /\ \A s \in DOMAIN rows : DOMAIN rows[s] = DOMAIN other[s]
  /\ \A s \in DOMAIN rows : \A r \in DOMAIN rows[s] : rows[s][r] = other[s][r]

\* Between an update of the data and the reload filterContentFor queues for it the two
\* may differ, and an index may be out of range.  At any other time no order of updates,
\* searches, reloads, layouts, scrolls and taps runs out of range or leaves a table that
\* is laid out with older rows.
TableIsCurrent ==
  reloads = 0 => ~crashed /\ (~dirty => Agree(table, RowsOf(data)))

\* A tap opens the photos of the friend its row shows, unless a reload is queued.
TapOpensShownFriend ==
  [][\A p \in Paths : Tap(p[1], p[2]) /\ reloads = 0 => opened' = table[p[1]][p[2]]]_vars

\* The table catches up with the data again and again, however often it changes.
TableCatchesUp == []<>(crashed \/ Agree(table, RowsOf(data)))
=============================================================================
