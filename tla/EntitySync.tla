----------------------------- MODULE EntitySync -----------------------------
(***************************************************************************)
(* The synchronisation of one kind of entity (the friends, or the publics  *)
(* the user is subscribed to) between the VK server, the Realm file and    *)
(* the table screens that show it.  The two kinds run the same code twice  *)
(* (LoadManager, RealmDataStorage, MyFriendsViewController and             *)
(* MyPublicsTableViewController), on separate rows of the Realm file.      *)
(*                                                                         *)
(* A screen that loads reads the file, shows it and asks LoadManager for a *)
(* refresh.  The refresh is a chain of closures:                           *)
(*                                                                         *)
(*   answer of the server   (URLSession's delegate queue)  load the file   *)
(*   "diff"                 (main queue)  delete the rows not in the answer *)
(*   "deleted"              (main queue)  save the rows of the answer      *)
(*   "saved"                (main queue)  notify: observers load the file  *)
(*   "update"               (main queue)  an observer shows what it loaded *)
(*                                                                         *)
(* Every call of RealmDataStorage runs its body synchronously on a serial  *)
(* queue, so a body is one step here; its completion is a block appended   *)
(* to the main queue.  Nothing in these classes stops two chains from      *)
(* overlapping: a screen that goes away does not stop its chain, and the   *)
(* next screen starts another one.  Only logging out takes a screen away,  *)
(* and in the application as Main.storyboard wires it nothing handles that *)
(* (MayLogOut): there, a process has one screen and one refresh of a kind. *)
(***************************************************************************)
EXTENDS Naturals, Sequences

CONSTANTS
  Ids,            (* the primary keys of the rows                          *)
  Versions,       (* what a row may hold: name and image URL, as one value *)
  Absent,         (* the value of a key that has no row                    *)
  Screens,        (* the screen instances; each runs viewDidLoad once and  *)
                  (* so starts one refresh, named after the screen         *)
  None,           (* no screen                                             *)
  RealmMayFail,   (* may `try? Realm()` give nil?                          *)
  WriteMayFail,   (* may a `realm.write` throw?                            *)
  MayBeKilled,    (* may the system end the process?                       *)
  MayLogOut       (* is loginViewController, which has logOutAction and    *)
                  (* the demo login, a screen of the application?  FALSE   *)
                  (* as Main.storyboard is wired: it starts at VKLogin-    *)
                  (* ViewController and no segue leads to the other        *)

ASSUME ConstantsOK ==
  /\ Absent \notin Versions
  /\ None \notin Screens
  /\ {RealmMayFail, WriteMayFail, MayBeKilled, MayLogOut} \subseteq BOOLEAN

VARIABLES
  app,      (* "running", or why the process ended                         *)
  stored,   (* the rows of the Realm file; the one state that persists     *)
  main,     (* the main dispatch queue, oldest block first                 *)
  phase,    (* of each screen: "new", "open" or "closed"                   *)
  list,     (* the rows each screen shows                                  *)
  chain,    (* how far the refresh of each screen has got                  *)
  loaded,   (* the rows each refresh was answered with                     *)
  latest,   (* history: the refresh answered last, None before the first   *)
  overlapped (* history: the refreshes whose time between loading the file *)
             (* and saving to it overlapped another's                      *)

vars == <<app, stored, main, phase, list, chain, loaded, latest, overlapped>>
histories == <<latest, overlapped>>

Rows == [Ids -> Versions \cup {Absent}]
NoRows == [i \in Ids |-> Absent]

ShowBlock   == [op : {"show"}, vc : Screens, rows : Rows]
DiffBlock   == [op : {"diff"}, vc : Screens, rows : Rows]
ChainBlock  == [op : {"deleted", "saved"}, vc : Screens]
UpdateBlock == [op : {"update"}, vcs : SUBSET Screens, rows : Rows]
Block == ShowBlock \cup DiffBlock \cup ChainBlock \cup UpdateBlock

\* A refresh is idle until its screen asks for it; it waits for the answer, compares
\* and saves, and ends notified, lost (no answer, or its process has ended) or halted
\* (the file did not open).
ChainStates == {"idle", "requested", "lost", "comparing", "halted", "notified"}

OpenScreens == {s \in Screens : phase[s] = "open"}

\* addObserver runs in viewDidLoad, before the first load; deinit removes the observer.
\* Mutant: only the screen that asked for the refresh is told.
Observers_Asker ==
  {s \in OpenScreens : \E k \in DOMAIN main : main[k].op = "saved" /\ main[k].vc = s}
Observers == OpenScreens

\* The refreshes that have loaded the file and not yet saved to it.
InWindow == {c \in Screens : \E k \in DOMAIN main :
               main[k].op \in {"diff", "deleted"} /\ main[k].vc = c}

\* The rows of a loop whose writes throw; the loop prints the error and goes on.
Failures(I) == IF WriteMayFail THEN SUBSET I ELSE {{}}

Init ==
  /\ app = "running"
  /\ stored \in Rows
  /\ main = <<>>
  /\ phase = [s \in Screens |-> "new"]
  /\ list = [s \in Screens |-> NoRows]
  /\ chain = [s \in Screens |-> "idle"]
  /\ loaded = [s \in Screens |-> NoRows]
  /\ latest = None
  /\ overlapped = {}
-----------------------------------------------------------------------------
(* The loops of the storage and of LoadManager over rows.                  *)

\* Mutants: the two lists swapped; everything deleted before the answer is saved.
ToDelete_Swapped(old, answer) == {i \in Ids : answer[i] # Absent /\ old[i] = Absent}
ToDelete_All(old, answer) == {i \in Ids : old[i] # Absent}
\* The stored rows the answer does not contain, compared by id only.
ToDelete(old, answer) == {i \in Ids : old[i] # Absent /\ answer[i] = Absent}

\* realm.delete of the rows with these keys.
Without(rows, I) == [i \in Ids |-> IF i \in I THEN Absent ELSE rows[i]]

\* Mutant: add only what is not there yet, as realm.add without update would.
Upsert_AddOnly(rows, answer, failed) ==
  [i \in Ids |-> IF rows[i] = Absent /\ i \notin failed THEN answer[i] ELSE rows[i]]
\* realm.add(update: true) of every row of the answer, except those whose write threw.
Upsert(rows, answer, failed) ==
  [i \in Ids |-> IF answer[i] # Absent /\ i \notin failed THEN answer[i] ELSE rows[i]]
-----------------------------------------------------------------------------
(* The screens.                                                            *)

\* The completion of viewDidLoad's load: show the rows, ask for a refresh.
ShowAndRefresh(s, rows) ==
  /\ list' = [list EXCEPT ![s] = rows]
  /\ chain' = [chain EXCEPT ![s] = "requested"]

\* viewDidLoad: observe, and load the file.  When the file does not open, the
\* completion runs at once with no rows.  One screen of a kind is on show at a time.
Open(s) ==
  /\ app = "running"
  /\ phase[s] = "new"
  /\ OpenScreens = {}
  /\ phase' = [phase EXCEPT ![s] = "open"]
  /\ \/ /\ main' = Append(main, [op |-> "show", vc |-> s, rows |-> stored])
        /\ UNCHANGED <<list, chain>>
     \/ /\ RealmMayFail
        /\ ShowAndRefresh(s, NoRows)
        /\ UNCHANGED main
  /\ UNCHANGED <<app, stored, loaded, histories>>

\* "Log out" unwinds to the logOutAction of loginViewController, if that is below it.
\* Mutant: the login screen the application starts with has a logOutAction too.
LogOutIsHandled_Always == TRUE
LogOutIsHandled == MayLogOut

\* Logging out releases the screen, which stops observing.  Blocks and closures
\* that hold it still run.
Close(s) ==
  /\ LogOutIsHandled
  /\ app = "running"
  /\ phase[s] = "open"
  /\ phase' = [phase EXCEPT ![s] = "closed"]
  /\ UNCHANGED <<app, stored, main, list, chain, loaded, histories>>
-----------------------------------------------------------------------------
(* The answer of the server.                                               *)

\* The request ends without data: its completion gets nil and the chain ends there.
NoAnswer(c) ==
  /\ app = "running"
  /\ chain[c] = "requested"
  /\ chain' = [chain EXCEPT ![c] = "lost"]
  /\ UNCHANGED <<app, stored, main, phase, list, loaded, histories>>

\* The completion of compareFriends' load, with the rows of the file at the load.
\* Mutant: compare with what the screen showed when it asked for the refresh.
CompareBlock_Shown(c) == [op |-> "diff", vc |-> c, rows |-> list[c]]
CompareBlock(c) == [op |-> "diff", vc |-> c, rows |-> stored]

\* Data arrived.  It holds any rows; data that does not parse counts as no rows.
\* compareFriends loads the file.  When the file does not open, the completion runs
\* inside the storage queue and its delateFriends enters that queue again, which
\* the dispatch library stops.
Answer(c) ==
  /\ app = "running"
  /\ chain[c] = "requested"
  /\ chain' = [chain EXCEPT ![c] = "comparing"]
  /\ \E answer \in Rows : loaded' = [loaded EXCEPT ![c] = answer]
  /\ latest' = c
  /\ overlapped' = IF InWindow = {} THEN overlapped ELSE overlapped \cup InWindow \cup {c}
  /\ \/ /\ main' = Append(main, CompareBlock(c))
        /\ UNCHANGED app
     \/ /\ RealmMayFail
        /\ app' = "syncTrap"
        /\ UNCHANGED main
  /\ UNCHANGED <<stored, phase, list>>
-----------------------------------------------------------------------------
(* The blocks of the main queue.                                           *)

AtHead(op) == app = "running" /\ main # <<>> /\ Head(main).op = op

\* A storage call whose file did not open returns without its completion.
ChainStops(c) ==
  /\ RealmMayFail
  /\ chain' = [chain EXCEPT ![c] = "halted"]
  /\ main' = Tail(main)
  /\ UNCHANGED <<app, stored>>

RunShow ==
  /\ AtHead("show")
  /\ ShowAndRefresh(Head(main).vc, Head(main).rows)
  /\ main' = Tail(main)
  /\ UNCHANGED <<app, stored, phase, loaded, histories>>

\* delateFriends: one write for each row.  The write unwraps the row it looks up by
\* key and ends the process when it is gone; rows deleted before stay deleted.
DeletesRows ==
  LET doomed == ToDelete(Head(main).rows, loaded[Head(main).vc])
  IN \E failed \in Failures(doomed) :
       LET tried == doomed \ failed
           gone == {i \in tried : stored[i] = Absent}
       IN \/ /\ gone = {}
             /\ stored' = Without(stored, tried)
             /\ main' = Append(Tail(main), [op |-> "deleted", vc |-> Head(main).vc])
             /\ UNCHANGED <<app, chain>>
          \/ /\ gone # {}
             /\ app' = "unwrapTrap"
             /\ \E done \in SUBSET (tried \ gone) : stored' = Without(stored, done)
             /\ UNCHANGED <<main, chain>>

RunDiff ==
  /\ AtHead("diff")
  /\ ChainStops(Head(main).vc) \/ DeletesRows
  /\ UNCHANGED <<phase, list, loaded, histories>>

\* Mutant: the first write that throws ends the call without its completion.
RunDeleted_StopsOnError ==
  /\ AtHead("deleted")
  /\ \E failed \in Failures(Ids) :
       \/ /\ failed # {}
          /\ chain' = [chain EXCEPT ![Head(main).vc] = "halted"]
          /\ main' = Tail(main)
          /\ UNCHANGED <<app, stored>>
       \/ /\ failed = {}
          /\ stored' = Upsert(stored, loaded[Head(main).vc], failed)
          /\ main' = Append(Tail(main), [op |-> "saved", vc |-> Head(main).vc])
          /\ UNCHANGED <<app, chain>>
  /\ UNCHANGED <<phase, list, loaded, histories>>
\* saveFriend: one write for each row of the answer.
RunDeleted ==
  /\ AtHead("deleted")
  /\ LET c == Head(main).vc
     IN \/ ChainStops(c)
        \/ /\ \E failed \in Failures(Ids) : stored' = Upsert(stored, loaded[c], failed)
           /\ main' = Append(Tail(main), [op |-> "saved", vc |-> c])
           /\ UNCHANGED <<app, chain>>
  /\ UNCHANGED <<phase, list, loaded, histories>>

\* The notification reaches every screen on show, each of which loads the file at
\* once; for those in failed the file does not open.  Their completions follow one
\* another on the main queue and set separate lists, so they are one block here.
FailedLoads == IF RealmMayFail THEN SUBSET Observers ELSE {{}}
Notifies(failed) ==
  LET loading == Observers \ failed
  IN /\ AtHead("saved")
     /\ chain' = [chain EXCEPT ![Head(main).vc] = "notified"]
     /\ list' = [s \in Screens |-> IF s \in failed THEN NoRows ELSE list[s]]
     /\ main' = IF loading = {} THEN Tail(main)
                ELSE Append(Tail(main), [op |-> "update", vcs |-> loading, rows |-> stored])
     /\ UNCHANGED <<app, stored, phase, loaded, histories>>
RunSaved == \E failed \in FailedLoads : Notifies(failed)

\* The completion of the observer's load.
RunUpdate ==
  /\ AtHead("update")
  /\ list' = [s \in Screens |-> IF s \in Head(main).vcs THEN Head(main).rows ELSE list[s]]
  /\ main' = Tail(main)
  /\ UNCHANGED <<app, stored, phase, chain, loaded, histories>>

MainStep == RunShow \/ RunDiff \/ RunDeleted \/ RunSaved \/ RunUpdate
-----------------------------------------------------------------------------
(* The process ends and starts again.                                      *)

\* The system ends the process at any time, also between two writes of a loop.
Kill ==
  /\ MayBeKilled
  /\ app = "running"
  /\ app' = "killed"
  /\ \/ UNCHANGED stored
     \/ /\ AtHead("diff")
        /\ \E done \in SUBSET ToDelete(Head(main).rows, loaded[Head(main).vc]) :
             stored' = Without(stored, done)
     \/ /\ AtHead("deleted")
        /\ \E rest \in SUBSET Ids : stored' = Upsert(stored, loaded[Head(main).vc], rest)
  /\ UNCHANGED <<main, phase, list, chain, loaded, histories>>

\* Only the file survives.
Restart ==
  /\ app # "running"
  /\ app' = "running"
  /\ main' = <<>>
  /\ phase' = [s \in Screens |-> IF phase[s] = "open" THEN "closed" ELSE phase[s]]
  /\ chain' = [s \in Screens |-> IF chain[s] = "idle" THEN "idle" ELSE "lost"]
  /\ latest' = None
  /\ UNCHANGED <<stored, list, loaded, overlapped>>

Next ==
  \/ \E s \in Screens : Open(s) \/ Close(s) \/ NoAnswer(s) \/ Answer(s)
  \/ MainStep
  \/ Kill
  \/ Restart

\* The main run loop drains its queue, and URLSession completes every task, with
\* an answer or, at the latest at its timeout, without one.  What the user and the
\* system do is not fair.
Fairness ==
  /\ WF_vars(MainStep)
  /\ \A s \in Screens : WF_vars(NoAnswer(s) \/ Answer(s))

Spec == Init /\ [][Next]_vars
FairSpec == Spec /\ Fairness
-----------------------------------------------------------------------------
(* Properties.                                                             *)

TypeOK ==
  /\ app \in {"running", "syncTrap", "unwrapTrap", "killed"}
  /\ stored \in Rows
  /\ main \in Seq(Block)
  /\ phase \in [Screens -> {"new", "open", "closed"}]
  /\ list \in [Screens -> Rows]
  /\ chain \in [Screens -> ChainStates]
  /\ loaded \in [Screens -> Rows]
  /\ latest \in Screens \cup {None}
  /\ overlapped \subseteq Screens

\* A refresh waiting to delete holds a copy of the file it loaded earlier.  A row of
\* that copy that has left the file since was deleted by another refresh, whose
\* "deleted" block is still behind it in the main queue (LoadManager.compareFriends).
SnapshotCovered ==
  app = "running" => \A k \in DOMAIN main : main[k].op = "diff" =>
    \A i \in Ids : (main[k].rows[i] # Absent /\ stored[i] = Absent) =>
      \E m \in DOMAIN main : m > k /\ main[m].op = "deleted"

\* The unwrap in delateFriends fails only while another refresh is between its
\* deletions and its save; a refresh on its own never ends the process.
CrashNeedsOverlap ==
  app = "unwrapTrap" => \E m \in DOMAIN main : m > 1 /\ main[m].op = "deleted"

\* In the application as it is wired, no refresh ever overlaps another and delateFriends
\* finds every row it unwraps, from whatever file an earlier process left: nothing but
\* logging out lets a second screen in while the refresh of the first is under way.
AloneAsWired == ~MayLogOut => overlapped = {} /\ app # "unwrapTrap"

\* Once the main queue is empty the screen on show holds the rows of the file:
\* no order of notifications and loads leaves it with an older copy.
QuietListCurrent ==
  app = "running" /\ main = <<>> => \A s \in OpenScreens : list[s] = stored

\* When the file does not open, a refresh may end between its deletions and its
\* notification and leave the screen with what it showed.  The list on show is then the
\* file with some rows that a refresh halted in this process was answered without, or
\* nothing, after a load that failed; it never misses or mistakes a row of the file.
StaleOnlyIfHalted ==
  app = "running" /\ main = <<>> => \A s \in OpenScreens :
    \/ list[s] = NoRows
    \/ \A i \in Ids : list[s][i] # stored[i] =>
         /\ stored[i] = Absent
         /\ \E c \in Screens : chain[c] = "halted" /\ loaded[c][i] = Absent

\* Once the main queue is empty the file holds every row of the answer that came
\* last, in that answer's version: refreshes finish in the order of their answers.
LatestAnswerWins ==
  app = "running" /\ main = <<>> /\ latest # None =>
    \A i \in Ids : loaded[latest][i] # Absent => stored[i] = loaded[latest][i]

\* A refresh that overlapped no other and was not stopped by the file leaves the file
\* exactly as the answer was, with no row kept from before, also when an earlier
\* process ended half-way through a refresh.  Writes that throw break this.
ExactUnlessOverlapped ==
  [][RunDeleted /\ Len(main') = Len(main) /\ Head(main).vc \notin overlapped
       => stored' = loaded[Head(main).vc]]_vars

\* Whatever fails, a row leaves the file only because a refresh that had seen it
\* there was answered without it.
RowsLeaveOnlyAsked ==
  [][\A i \in Ids : stored[i] # Absent /\ stored'[i] = Absent =>
       /\ AtHead("diff")
       /\ Head(main).rows[i] # Absent
       /\ loaded[Head(main).vc][i] = Absent]_vars

\* How far a refresh has got with the file, read off the main queue: the block it
\* has there says what it does next.
InQueue(op, c) == \E k \in DOMAIN main : main[k].op = op /\ main[k].vc = c
Stage ==
  [c \in Screens |->
     IF chain[c] \in {"idle", "requested"} THEN "waiting"
     ELSE IF chain[c] # "comparing" \/ InQueue("saved", c) THEN "over"
     ELSE IF InQueue("deleted", c) THEN "dropped"
     ELSE "answered"]

\* Whatever fails, overlaps or is killed, the file changes only as CacheRefresh allows:
\* each refresh drops first and puts afterwards, only what its own answer says.
Promise == INSTANCE CacheRefresh WITH
  Refreshes <- Screens, stage <- Stage, answer <- loaded
KeepsPromise == Promise!Spec

\* A refresh that got its answer ends in a notification, also when single writes
\* throw, unless the process ends.
AnswerIsAnnounced ==
  \A c \in Screens : chain[c] = "comparing" ~> (chain[c] = "notified" \/ app # "running")
=============================================================================
