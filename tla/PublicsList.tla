---------------------------- MODULE PublicsList ----------------------------
(***************************************************************************)
(* MyPublicsTableViewController, which the user may edit, on top of the    *)
(* synchronisation of EntitySync.  AllPublicsTableViewController offers    *)
(* demo publics that the server does not know; the one chosen is appended  *)
(* to the rows on the screen.  A swipe takes a row off the screen.  Both   *)
(* touch the list alone: the file and the server never learn of them, and  *)
(* the next load replaces the list.  A demo public has no image URL, which *)
(* MyPublicsTableViewCell unwraps when its row is laid out.                *)
(***************************************************************************)
EXTENDS EntitySync

CONSTANT Demos  (* the publics of AllPublicsTableViewController            *)

VARIABLES
  added,   (* the demo publics below the other rows of each screen         *)
  removed  (* history: the rows swiped off each screen since its last load *)

edits == <<added, removed>>
publicsVars == <<vars, edits>>

PublicsInit ==
  /\ Init
  /\ added = [s \in Screens |-> {}]
  /\ removed = [s \in Screens |-> {}]

\* addPublic, on the way back from the demo publics: one that is listed, told by its
\* fakeId, which the rows of the file do not have, is not added again.
AddPublic(s, d) ==
  /\ app = "running"
  /\ s \in OpenScreens
  /\ d \notin added[s]
  /\ added' = [added EXCEPT ![s] = @ \cup {d}]
  /\ UNCHANGED <<vars, removed>>

\* commit editingStyle .delete
SwipeOff(s, i) ==
  /\ app = "running"
  /\ s \in OpenScreens
  /\ list[s][i] # Absent
  /\ list' = [list EXCEPT ![s] = Without(list[s], {i})]
  /\ removed' = [removed EXCEPT ![s] = @ \cup {i}]
  /\ UNCHANGED <<app, stored, main, phase, chain, loaded, histories, added>>

\* cellForRowAt of an added row, when it comes into view: setPublic unwraps imageURL.
LayOutAdded(s) ==
  /\ app = "running"
  /\ s \in OpenScreens
  /\ added[s] # {}
  /\ app' = "demoTrap"
  /\ UNCHANGED <<stored, main, phase, list, chain, loaded, histories, edits>>

\* The completion of loadPublics sets the whole list; a screen that is released takes
\* its edits with it.  Mutant: the demo publics the user has added are kept.
AddedAfter_Kept(S) == added
AddedAfter(S) == [s \in Screens |-> IF s \in S THEN {} ELSE added[s]]
\* The edits of the screens in S are gone.
EditsGone(S) ==
  /\ added' = AddedAfter(S)
  /\ removed' = [s \in Screens |-> IF s \in S THEN {} ELSE removed[s]]

\* The blocks of the main queue, with the screens whose list they set.
PublicsStep ==
  \/ RunShow /\ EditsGone({Head(main).vc})
  \/ RunUpdate /\ EditsGone(Head(main).vcs)
  \/ \E failed \in FailedLoads : Notifies(failed) /\ EditsGone(failed)
  \/ (RunDiff \/ RunDeleted) /\ UNCHANGED edits

PublicsNext ==
  \/ \E s \in Screens :
       \/ \E d \in Demos : AddPublic(s, d)
       \/ \E i \in Ids : SwipeOff(s, i)
       \/ LayOutAdded(s)
       \/ (Open(s) \/ NoAnswer(s) \/ Answer(s)) /\ UNCHANGED edits
       \/ Close(s) /\ EditsGone({s})
  \/ PublicsStep
  \/ Kill /\ UNCHANGED edits
  \/ Restart /\ EditsGone(Screens)

\* As in EntitySync; when a row comes into view is up to the user.
PublicsFairness ==
  /\ WF_publicsVars(PublicsStep)
  /\ \A s \in Screens : WF_publicsVars((NoAnswer(s) \/ Answer(s)) /\ UNCHANGED edits)

PublicsSpec == PublicsInit /\ [][PublicsNext]_publicsVars /\ PublicsFairness
-----------------------------------------------------------------------------
(* Properties.                                                             *)

\* The screen on show ends up, for good, with the rows of the file but those swiped off
\* since it last loaded it.  A screen that is never edited, as that of the friends,
\* ends up with what the file holds.
ConvergesUpToSwipes ==
  <>[](app = "running" => \A s \in OpenScreens : list[s] = Without(stored, removed[s]))

\* What the user edits is on the screen alone: once the main queue is empty the list is
\* the file without the rows swiped off, whatever was swiped before a load and while one
\* was on its way.
EditedListCurrent ==
  app = "running" /\ main = <<>> =>
    \A s \in OpenScreens : list[s] = Without(stored, removed[s])

\* What the user edits while a refresh is under way does not last: the refresh puts the
\* list back to the file, unless an added public ends the process before.
RefreshUndoesEdits ==
  \A s \in Screens :
    chain[s] = "comparing" /\ s \in OpenScreens /\ added[s] \cup removed[s] # {}
      ~> (added[s] \cup removed[s] = {} \/ s \notin OpenScreens \/ app # "running")
=============================================================================
