------------------------- MODULE EntitySync_proofs -------------------------
(***************************************************************************)
(* What holds of EntitySync for any number of rows, versions and screens:  *)
(* its types, that only an overlapping refresh can make the unwrap in      *)
(* delateFriends fail and that in the application as it is wired none      *)
(* does, that it implements CacheRefresh, what a refresh that overlaps no  *)
(* other leaves in the file, and what the file and the screen on show hold *)
(* once the main queue is empty, also when the file fails to open.  Then,  *)
(* on AppSession, whose token a refresh is sent with and whose rows the    *)
(* file and the screen come to hold.  Last, on PublicsList, that what the  *)
(* user edits never reaches the file and that the edited list follows it.  *)
(***************************************************************************)
EXTENDS AppSession, PublicsList, TLAPS

(* The rows the loops of the storage build are rows.                       *)
LEMMA WithoutIsRows ==
  ASSUME NEW rows \in Rows, NEW I
  PROVE  Without(rows, I) \in Rows
BY DEF Without, Rows

LEMMA UpsertIsRows ==
  ASSUME NEW rows \in Rows, NEW answer \in Rows, NEW failed
  PROVE  Upsert(rows, answer, failed) \in Rows
BY DEF Upsert, Rows

LEMMA NoRowsIsRows == NoRows \in Rows
BY DEF NoRows, Rows

(* A block's kind says which of the record sets it comes from.             *)
LEMMA BlockShape ==
  ASSUME NEW b \in Block
  PROVE  /\ b.op \in {"show", "diff", "deleted", "saved", "update"}
         /\ b.op = "show" => b.vc \in Screens /\ b.rows \in Rows
         /\ b.op = "diff" => b.vc \in Screens /\ b.rows \in Rows
         /\ b.op \in {"deleted", "saved"} => b.vc \in Screens
         /\ b.op = "update" => b.vcs \in SUBSET Screens /\ b.rows \in Rows
BY DEF Block, ShowBlock, DiffBlock, ChainBlock, UpdateBlock

(* Queue steps: the head is a block, taking it or adding one leaves a queue. *)
LEMMA QueueSteps ==
  ASSUME NEW q \in Seq(Block), NEW b \in Block
  PROVE  /\ Append(q, b) \in Seq(Block)
         /\ q # <<>> => /\ Head(q) \in Block
                        /\ Tail(q) \in Seq(Block)
                        /\ Append(Tail(q), b) \in Seq(Block)
OBVIOUS

(***************************************************************************)
(* Types.                                                                  *)
(***************************************************************************)
\* The types of all but app, which PublicsList has one more end of the process for.
Typed ==
  /\ stored \in Rows
  /\ main \in Seq(Block)
  /\ phase \in [Screens -> {"new", "open", "closed"}]
  /\ list \in [Screens -> Rows]
  /\ chain \in [Screens -> ChainStates]
  /\ loaded \in [Screens -> Rows]
  /\ latest \in Screens \cup {None}
  /\ overlapped \subseteq Screens

LEMMA InitTyped == Init => Typed
BY NoRowsIsRows DEF Init, Typed, ChainStates

LEMMA TypedStep == ConstantsOK /\ Typed /\ [Next]_vars => Typed'
<1> SUFFICES ASSUME ConstantsOK, Typed, [Next]_vars PROVE Typed'
  OBVIOUS
<1> USE DEF Typed, histories, ChainStates
<1>1. ASSUME NEW s \in Screens, Open(s) PROVE Typed'
  <2>1. [op |-> "show", vc |-> s, rows |-> stored] \in Block
    BY DEF Block, ShowBlock
  <2>2. main' \in Seq(Block)
    <3>1. main' = Append(main, [op |-> "show", vc |-> s, rows |-> stored]) \/ main' = main
      BY <1>1 DEF Open
    <3> QED BY <2>1, <3>1, QueueSteps
  <2>3. list' \in [Screens -> Rows] /\ chain' \in [Screens -> ChainStates]
    BY <1>1, NoRowsIsRows DEF Open, ShowAndRefresh
  <2> QED BY <1>1, <2>2, <2>3 DEF Open
<1>2. ASSUME NEW s \in Screens, Close(s) PROVE Typed'
  BY <1>2 DEF Close
<1>3. ASSUME NEW c \in Screens, NoAnswer(c) PROVE Typed'
  BY <1>3 DEF NoAnswer
<1>4. ASSUME NEW c \in Screens, Answer(c) PROVE Typed'
  <2>1. CompareBlock(c) \in Block
    BY DEF Block, DiffBlock, CompareBlock
  <2>2. InWindow \subseteq Screens
    BY DEF InWindow
  <2>3. main' \in Seq(Block)
    <3>1. main' = Append(main, CompareBlock(c)) \/ main' = main
      BY <1>4 DEF Answer
    <3>2. Append(main, CompareBlock(c)) \in Seq(Block)
      BY <2>1
    <3> QED BY <3>1, <3>2
  <2>4. app' \in {"running", "syncTrap"}
    BY <1>4 DEF Answer
  <2>5. loaded' \in [Screens -> Rows] /\ chain' \in [Screens -> ChainStates]
    BY <1>4 DEF Answer
  <2>6. overlapped' \subseteq Screens /\ latest' \in Screens
    BY <1>4, <2>2 DEF Answer
  <2> QED BY <1>4, <2>3, <2>4, <2>5, <2>6 DEF Answer
<1>5. ASSUME RunShow PROVE Typed'
  BY <1>5, BlockShape DEF RunShow, AtHead, ShowAndRefresh
<1>6. ASSUME RunDiff PROVE Typed'
  <2>1. Head(main) \in Block /\ Head(main).op = "diff" /\ Tail(main) \in Seq(Block)
    BY <1>6 DEF RunDiff, AtHead
  <2>2. Head(main).vc \in Screens
    BY <2>1, BlockShape
  <2>3. [op |-> "deleted", vc |-> Head(main).vc] \in Block
    BY <2>2 DEF Block, ChainBlock
  <2>4. CASE ChainStops(Head(main).vc)
    BY <1>6, <2>1, <2>2, <2>4 DEF RunDiff, ChainStops
  <2>5. CASE DeletesRows
    <3>1. stored' \in Rows
      BY <2>5, WithoutIsRows DEF DeletesRows
    <3>2. main' \in Seq(Block)
      <4>1. main' = Append(Tail(main), [op |-> "deleted", vc |-> Head(main).vc]) \/ main' = main
        BY <2>5 DEF DeletesRows
      <4>2. Append(Tail(main), [op |-> "deleted", vc |-> Head(main).vc]) \in Seq(Block)
        BY <2>1, <2>3
      <4> QED BY <4>1, <4>2
    <3>3. app' \in {"running", "unwrapTrap"} /\ chain' = chain
      BY <1>6, <2>5 DEF DeletesRows, RunDiff, AtHead
    <3> QED BY <1>6, <3>1, <3>2, <3>3 DEF RunDiff
  <2> QED BY <1>6, <2>4, <2>5 DEF RunDiff
<1>7. ASSUME RunDeleted PROVE Typed'
  <2>1. Head(main) \in Block /\ Head(main).op = "deleted" /\ Tail(main) \in Seq(Block)
    BY <1>7 DEF RunDeleted, AtHead
  <2>2. Head(main).vc \in Screens
    BY <2>1, BlockShape
  <2>3. [op |-> "saved", vc |-> Head(main).vc] \in Block
    BY <2>2 DEF Block, ChainBlock
  <2>4. stored' \in Rows
    BY <1>7, <2>2, UpsertIsRows DEF RunDeleted, ChainStops
  <2>5. main' \in Seq(Block)
    <3>1. \/ main' = Append(Tail(main), [op |-> "saved", vc |-> Head(main).vc])
          \/ main' = Tail(main)
      BY <1>7 DEF RunDeleted, ChainStops
    <3>2. Append(Tail(main), [op |-> "saved", vc |-> Head(main).vc]) \in Seq(Block)
      BY <2>1, <2>3
    <3> QED BY <2>1, <3>1, <3>2
  <2>6. chain' \in [Screens -> ChainStates] /\ app' = app
    BY <1>7, <2>2 DEF RunDeleted, ChainStops
  <2> QED BY <1>7, <2>4, <2>5, <2>6 DEF RunDeleted
<1>8. ASSUME RunSaved PROVE Typed'
  <2>1. Head(main) \in Block /\ Head(main).op = "saved" /\ Tail(main) \in Seq(Block)
    BY <1>8 DEF RunSaved, Notifies, AtHead
  <2>2. Head(main).vc \in Screens
    BY <2>1, BlockShape
  <2>3. ASSUME NEW S \in SUBSET Screens
        PROVE  [op |-> "update", vcs |-> S, rows |-> stored] \in Block
    BY <2>3 DEF Block, UpdateBlock
  <2>4. Observers \subseteq Screens
    BY DEF Observers, OpenScreens
  <2>5. main' \in Seq(Block)
    BY <1>8, <2>1, <2>3, <2>4 DEF RunSaved, Notifies
  <2>6. list' \in [Screens -> Rows]
    BY <1>8, NoRowsIsRows DEF RunSaved, Notifies
  <2> QED BY <1>8, <2>2, <2>5, <2>6 DEF RunSaved, Notifies
<1>9. ASSUME RunUpdate PROVE Typed'
  BY <1>9, BlockShape DEF RunUpdate, AtHead
<1>10. ASSUME Kill PROVE Typed'
  <2>1. AtHead("deleted") => Head(main).vc \in Screens
    BY BlockShape DEF AtHead
  <2>2. stored' \in Rows
    BY <1>10, <2>1, WithoutIsRows, UpsertIsRows DEF Kill
  <2> QED BY <1>10, <2>2 DEF Kill
<1>11. ASSUME Restart PROVE Typed'
  BY <1>11 DEF Restart
<1>12. CASE UNCHANGED vars
  BY <1>12 DEF vars
<1> QED
  BY <1>1, <1>2, <1>3, <1>4, <1>5, <1>6, <1>7, <1>8, <1>9, <1>10, <1>11, <1>12
  DEF Next, MainStep

LEMMA TypeOKIsTyped == TypeOK => Typed
BY DEF TypeOK, Typed

LEMMA InitTypeOK == Init => TypeOK
BY InitTyped DEF Init, Typed, TypeOK

LEMMA TypeOKStep == ConstantsOK /\ TypeOK /\ [Next]_vars => TypeOK'
<1> SUFFICES ASSUME ConstantsOK, TypeOK, [Next]_vars PROVE TypeOK'
  OBVIOUS
<1>1. Typed'
  BY TypedStep, TypeOKIsTyped
<1>2. app' \in {app, "running", "syncTrap", "unwrapTrap", "killed"}
  <2>1. CASE MainStep
    <3>1. RunShow \/ RunDeleted \/ RunSaved \/ RunUpdate => app' = app
      BY DEF RunShow, RunDeleted, RunSaved, RunUpdate, Notifies, ChainStops
    <3>2. RunDiff => app' \in {app, "unwrapTrap"}
      BY DEF RunDiff, ChainStops, DeletesRows
    <3> QED BY <2>1, <3>1, <3>2 DEF MainStep
  <2>2. CASE ~MainStep
    BY <2>2 DEF Next, Open, Close, NoAnswer, Answer, Kill, Restart, vars
  <2> QED BY <2>1, <2>2
<1> QED BY <1>1, <1>2 DEF TypeOK, Typed

\* Every reachable state is well typed: in particular the main queue only ever
\* holds the five kinds of block the code enqueues.
THEOREM TypeCorrect == Spec => []TypeOK
<1>1. TypeOK /\ [Next]_vars => TypeOK'
  BY ConstantsOK, TypeOKStep
<1> QED BY <1>1, InitTypeOK, PTL DEF Spec

LEMMA TypedInvariant == Spec => []Typed
<1> QED BY TypeCorrect, TypeOKIsTyped, PTL

(***************************************************************************)
(* Snapshots of refreshes waiting to delete.                               *)
(***************************************************************************)
\* SnapshotCovered, of any queue and any rows of the file.
Covered(q, rows) ==
  \A k \in DOMAIN q : q[k].op = "diff" =>
    \A i \in Ids : (q[k].rows[i] # Absent /\ rows[i] = Absent) =>
      \E m \in DOMAIN q : m > k /\ q[m].op = "deleted"

LEMMA CoveredTail ==
  ASSUME NEW q \in Seq(Block), q # <<>>, NEW rows, Covered(q, rows)
  PROVE  Covered(Tail(q), rows)
<1> SUFFICES ASSUME NEW k \in DOMAIN Tail(q), Tail(q)[k].op = "diff",
                    NEW i \in Ids, Tail(q)[k].rows[i] # Absent, rows[i] = Absent
             PROVE  \E m \in DOMAIN Tail(q) : m > k /\ Tail(q)[m].op = "deleted"
  BY DEF Covered
<1>1. k + 1 \in DOMAIN q /\ q[k + 1] = Tail(q)[k]
  OBVIOUS
<1>2. PICK m \in DOMAIN q : m > k + 1 /\ q[m].op = "deleted"
  BY <1>1 DEF Covered
<1>3. m - 1 \in DOMAIN Tail(q) /\ m - 1 > k /\ Tail(q)[m - 1] = q[m]
  BY <1>1, <1>2
<1> QED BY <1>2, <1>3

LEMMA CoveredAppend ==
  ASSUME NEW q \in Seq(Block), NEW b \in Block, NEW rows, Covered(q, rows),
         b.op = "diff" => b.rows = rows
  PROVE  Covered(Append(q, b), rows)
<1> DEFINE r == Append(q, b)
<1> SUFFICES ASSUME NEW k \in DOMAIN r, r[k].op = "diff",
                    NEW i \in Ids, r[k].rows[i] # Absent, rows[i] = Absent
             PROVE  \E m \in DOMAIN r : m > k /\ r[m].op = "deleted"
  BY DEF Covered
<1>1. k \in DOMAIN q /\ r[k] = q[k]
  OBVIOUS
<1>2. PICK m \in DOMAIN q : m > k /\ q[m].op = "deleted"
  BY <1>1 DEF Covered
<1>3. m \in DOMAIN r /\ r[m] = q[m]
  OBVIOUS
<1> QED BY <1>2, <1>3

LEMMA CoveredByDeleted ==
  ASSUME NEW q \in Seq(Block), NEW b \in Block, NEW rows, b.op = "deleted"
  PROVE  Covered(Append(q, b), rows)
<1> DEFINE r == Append(q, b)
<1> SUFFICES ASSUME NEW k \in DOMAIN r, r[k].op = "diff"
             PROVE  \E m \in DOMAIN r : m > k /\ r[m].op = "deleted"
  BY DEF Covered
<1>1. Len(q) + 1 \in DOMAIN r /\ r[Len(q) + 1] = b
  OBVIOUS
<1>2. k < Len(q) + 1
  BY <1>1
<1> QED BY <1>1, <1>2

LEMMA CoveredGrows ==
  ASSUME NEW q, NEW rows, NEW more, Covered(q, rows),
         \A i \in Ids : more[i] = Absent => rows[i] = Absent
  PROVE  Covered(q, more)
BY DEF Covered

\* Saving adds and changes rows, and removes none.
LEMMA UpsertGrows ==
  ASSUME NEW rows \in Rows, NEW answer \in Rows, NEW failed
  PROVE  \A i \in Ids : Upsert(rows, answer, failed)[i] = Absent => rows[i] = Absent
BY DEF Upsert

IInv == TypeOK /\ SnapshotCovered /\ CrashNeedsOverlap

LEMMA InitIInv == Init => IInv
BY InitTypeOK DEF Init, IInv, SnapshotCovered, CrashNeedsOverlap

LEMMA IInvStep == ConstantsOK /\ IInv /\ [Next]_vars => IInv'
<1> SUFFICES ASSUME ConstantsOK, IInv, [Next]_vars PROVE IInv'
  OBVIOUS
<1>1. TypeOK /\ TypeOK'
  BY TypeOKStep DEF IInv
<1>2. app = "running" => Covered(main, stored)
  BY DEF IInv, SnapshotCovered, Covered
<1>3. SUFFICES /\ app' = "running" => Covered(main', stored')
               /\ CrashNeedsOverlap'
  BY <1>1 DEF IInv, SnapshotCovered, Covered
<1>4. main \in Seq(Block) /\ stored \in Rows /\ stored' \in Rows
  BY <1>1 DEF TypeOK
<1> USE DEF histories
<1>5. ASSUME NEW s \in Screens, Open(s)
      PROVE  (app' = "running" => Covered(main', stored')) /\ CrashNeedsOverlap'
  <2> DEFINE b == [op |-> "show", vc |-> s, rows |-> stored]
  <2>1. b \in Block /\ b.op # "diff"
    BY <1>4 DEF Block, ShowBlock
  <2>2. app = "running" /\ app' = "running" /\ stored' = stored
    BY <1>5 DEF Open
  <2>3. main' = Append(main, b) \/ main' = main
    BY <1>5 DEF Open
  <2>4. Covered(Append(main, b), stored)
    BY <2>1, <2>2, <1>2, <1>4, CoveredAppend
  <2> QED BY <2>2, <2>3, <2>4, <1>2 DEF CrashNeedsOverlap
<1>6. ASSUME NEW s \in Screens, Close(s) \/ NoAnswer(s)
      PROVE  (app' = "running" => Covered(main', stored')) /\ CrashNeedsOverlap'
  BY <1>6, <1>2 DEF Close, NoAnswer, CrashNeedsOverlap
<1>7. ASSUME NEW c \in Screens, Answer(c)
      PROVE  (app' = "running" => Covered(main', stored')) /\ CrashNeedsOverlap'
  <2>1. CompareBlock(c) \in Block /\ CompareBlock(c).rows = stored
    BY <1>4 DEF Block, DiffBlock, CompareBlock
  <2>2. app = "running" /\ app' \in {"running", "syncTrap"} /\ stored' = stored
    BY <1>7 DEF Answer
  <2>3. app' = "running" => main' = Append(main, CompareBlock(c))
    BY <1>7 DEF Answer
  <2>4. Covered(Append(main, CompareBlock(c)), stored)
    BY <2>1, <2>2, <1>2, <1>4, CoveredAppend
  <2> QED BY <2>2, <2>3, <2>4 DEF CrashNeedsOverlap
<1>8. ASSUME RunShow \/ RunUpdate
      PROVE  (app' = "running" => Covered(main', stored')) /\ CrashNeedsOverlap'
  <2>1. /\ app = "running" /\ app' = "running" /\ main # <<>>
        /\ main' = Tail(main) /\ stored' = stored
    BY <1>8 DEF RunShow, RunUpdate, AtHead
  <2> QED BY <2>1, <1>2, <1>4, CoveredTail DEF CrashNeedsOverlap
<1>9. ASSUME RunDiff
      PROVE  (app' = "running" => Covered(main', stored')) /\ CrashNeedsOverlap'
  <2>1. app = "running" /\ main # <<>> /\ Head(main).op = "diff"
    BY <1>9 DEF RunDiff, AtHead
  <2>2. CASE ChainStops(Head(main).vc)
    BY <2>1, <2>2, <1>2, <1>4, CoveredTail DEF ChainStops, CrashNeedsOverlap
  <2>3. CASE DeletesRows
    <3> DEFINE doomed == ToDelete(Head(main).rows, loaded[Head(main).vc])
    <3> DEFINE b == [op |-> "deleted", vc |-> Head(main).vc]
    <3>1. Head(main) = main[1] /\ 1 \in DOMAIN main /\ Tail(main) \in Seq(Block)
      BY <2>1, <1>4
    <3>2. b \in Block
      BY <2>1, <3>1, <1>4, BlockShape DEF Block, ChainBlock
    <3>3. CASE main' = Append(Tail(main), b) /\ app' = app
      <4>1. Covered(Append(Tail(main), b), stored')
        BY <3>1, <3>2, CoveredByDeleted
      <4> QED BY <3>3, <4>1, <2>1 DEF CrashNeedsOverlap
    <3>4. CASE /\ app' = "unwrapTrap" /\ main' = main
               /\ \E i \in doomed : stored[i] = Absent
      <4>1. PICK i \in doomed : stored[i] = Absent
        BY <3>4
      <4>2. i \in Ids /\ main[1].rows[i] # Absent
        BY <3>1 DEF ToDelete
      <4>3. \E m \in DOMAIN main : m > 1 /\ main[m].op = "deleted"
        BY <4>1, <4>2, <3>1, <2>1, <1>2 DEF Covered
      <4> QED BY <3>4, <4>3 DEF CrashNeedsOverlap
    <3> QED BY <2>3, <3>3, <3>4 DEF DeletesRows, Failures
  <2> QED BY <1>9, <2>2, <2>3 DEF RunDiff
<1>10. ASSUME RunDeleted
       PROVE  (app' = "running" => Covered(main', stored')) /\ CrashNeedsOverlap'
  <2>1. app = "running" /\ main # <<>> /\ Head(main).op = "deleted"
    BY <1>10 DEF RunDeleted, AtHead
  <2>2. Covered(Tail(main), stored)
    BY <2>1, <1>2, <1>4, CoveredTail
  <2>3. CASE ChainStops(Head(main).vc)
    BY <2>1, <2>2, <2>3 DEF ChainStops, CrashNeedsOverlap
  <2>4. CASE ~ChainStops(Head(main).vc)
    <3> DEFINE b == [op |-> "saved", vc |-> Head(main).vc]
    <3>1. Head(main) \in Block /\ Tail(main) \in Seq(Block)
      BY <2>1, <1>4
    <3>2. Head(main).vc \in Screens
      BY <2>1, <3>1, BlockShape
    <3>3. b \in Block /\ b.op # "diff"
      BY <3>2 DEF Block, ChainBlock
    <3>4. \A i \in Ids : stored'[i] = Absent => stored[i] = Absent
      BY <1>10, <2>4, <3>2, <1>1, UpsertGrows DEF RunDeleted, TypeOK
    <3>5. Covered(Append(Tail(main), b), stored')
      BY <2>2, <3>1, <3>3, <3>4, CoveredGrows, CoveredAppend
    <3>6. main' = Append(Tail(main), b) /\ app' = "running"
      BY <1>10, <2>1, <2>4 DEF RunDeleted
    <3> QED BY <3>5, <3>6 DEF CrashNeedsOverlap
  <2> QED BY <2>3, <2>4
<1>11. ASSUME RunSaved
       PROVE  (app' = "running" => Covered(main', stored')) /\ CrashNeedsOverlap'
  <2>1. /\ app = "running" /\ app' = "running" /\ main # <<>> /\ stored' = stored
    BY <1>11 DEF RunSaved, Notifies, AtHead
  <2>2. Covered(Tail(main), stored) /\ Tail(main) \in Seq(Block)
    BY <2>1, <1>2, <1>4, CoveredTail
  <2>3. ASSUME NEW S \in SUBSET Screens
        PROVE  Covered(Append(Tail(main), [op |-> "update", vcs |-> S, rows |-> stored]), stored)
    <3> DEFINE b == [op |-> "update", vcs |-> S, rows |-> stored]
    <3>1. b \in Block /\ b.op # "diff"
      BY <1>4 DEF Block, UpdateBlock
    <3> QED BY <2>2, <3>1, CoveredAppend
  <2>4. \/ main' = Tail(main)
        \/ \E S \in SUBSET Screens :
             main' = Append(Tail(main), [op |-> "update", vcs |-> S, rows |-> stored])
    BY <1>11 DEF RunSaved, Notifies, Observers, OpenScreens
  <2> QED BY <2>1, <2>2, <2>3, <2>4 DEF CrashNeedsOverlap
<1>12. ASSUME Kill
       PROVE  (app' = "running" => Covered(main', stored')) /\ CrashNeedsOverlap'
  BY <1>12 DEF Kill, CrashNeedsOverlap
<1>13. ASSUME Restart
       PROVE  (app' = "running" => Covered(main', stored')) /\ CrashNeedsOverlap'
  BY <1>13 DEF Restart, Covered, CrashNeedsOverlap
<1>14. CASE UNCHANGED vars
  BY <1>14, <1>2 DEF vars, IInv, CrashNeedsOverlap
<1> QED
  BY <1>5, <1>6, <1>7, <1>8, <1>9, <1>10, <1>11, <1>12, <1>13, <1>14 DEF Next, MainStep

LEMMA IInvInvariant == Spec => []IInv
<1>1. IInv /\ [Next]_vars => IInv'
  BY ConstantsOK, IInvStep
<1> QED BY <1>1, InitIInv, PTL DEF Spec

\* Whatever the number of screens and whatever fails, a row missing from the copy a
\* refresh is about to act on was deleted by a refresh still queued behind it.
THEOREM SnapshotsAreCovered == Spec => []SnapshotCovered
<1>1. IInv => SnapshotCovered
  BY DEF IInv
<1> QED BY <1>1, IInvInvariant, PTL

\* The unwrap in delateFriends and delatePublics ends the process only while another
\* refresh has deleted its rows and not yet saved: a refresh alone cannot.
THEOREM OnlyOverlapCrashes == Spec => []CrashNeedsOverlap
<1>1. IInv => CrashNeedsOverlap
  BY DEF IInv
<1> QED BY <1>1, IInvInvariant, PTL

(***************************************************************************)
(* The blocks of a refresh.                                                *)
(***************************************************************************)
\* Every block but an update belongs to one screen.
Owned(b) == b.op # "update"
OneEach(q) ==
  \A k, m \in DOMAIN q : Owned(q[k]) /\ Owned(q[m]) /\ q[k].vc = q[m].vc => k = m
NoneOf(q, s) == \A k \in DOMAIN q : Owned(q[k]) => q[k].vc # s
InStep(q, ch) ==
  \A k \in DOMAIN q : Owned(q[k]) =>
    ch[q[k].vc] = IF q[k].op = "show" THEN "idle" ELSE "comparing"

\* A screen has at most one block of its own in the main queue: the show block before
\* its refresh is asked for, then the block of the refresh that comes next.
StageInv ==
  /\ OneEach(main)
  /\ InStep(main, chain)
  /\ \A s \in Screens : phase[s] = "new" => chain[s] = "idle" /\ NoneOf(main, s)

LEMMA OneEachTail ==
  ASSUME NEW q \in Seq(Block), q # <<>>, OneEach(q)
  PROVE  /\ OneEach(Tail(q))
         /\ Owned(Head(q)) => NoneOf(Tail(q), Head(q).vc)
<1>1. \A k \in DOMAIN Tail(q) : k + 1 \in DOMAIN q /\ Tail(q)[k] = q[k + 1] /\ k \in Nat \ {0}
  OBVIOUS
<1>2. 1 \in DOMAIN q /\ Head(q) = q[1]
  OBVIOUS
<1>3. OneEach(Tail(q))
  <2> SUFFICES ASSUME NEW k \in DOMAIN Tail(q), NEW m \in DOMAIN Tail(q),
                      Owned(Tail(q)[k]), Owned(Tail(q)[m]), Tail(q)[k].vc = Tail(q)[m].vc
               PROVE  k = m
    BY DEF OneEach
  <2>1. k + 1 = m + 1
    BY <1>1 DEF OneEach
  <2> QED BY <2>1, <1>1
<1>4. ASSUME Owned(Head(q)), NEW k \in DOMAIN Tail(q), Owned(Tail(q)[k]), Tail(q)[k].vc = Head(q).vc
      PROVE  FALSE
  <2>1. k + 1 = 1
    BY <1>1, <1>2, <1>4 DEF OneEach
  <2> QED BY <2>1, <1>1
<1> QED BY <1>3, <1>4 DEF NoneOf

LEMMA OneEachAppend ==
  ASSUME NEW q \in Seq(Block), NEW b \in Block, OneEach(q), Owned(b) => NoneOf(q, b.vc)
  PROVE  OneEach(Append(q, b))
<1> DEFINE r == Append(q, b)
<1> SUFFICES ASSUME NEW k \in DOMAIN r, NEW m \in DOMAIN r,
                    Owned(r[k]), Owned(r[m]), r[k].vc = r[m].vc
             PROVE  k = m
  BY DEF OneEach
<1>1. \A j \in DOMAIN r : (j \in DOMAIN q /\ r[j] = q[j]) \/ (j = Len(q) + 1 /\ r[j] = b)
  OBVIOUS
<1> HIDE DEF r
<1> QED BY <1>1 DEF OneEach, NoneOf

LEMMA NoneOfTail ==
  ASSUME NEW q \in Seq(Block), q # <<>>, NEW s, NoneOf(q, s)
  PROVE  NoneOf(Tail(q), s)
<1>1. \A k \in DOMAIN Tail(q) : k + 1 \in DOMAIN q /\ Tail(q)[k] = q[k + 1]
  OBVIOUS
<1> QED BY <1>1 DEF NoneOf

LEMMA NoneOfAppend ==
  ASSUME NEW q \in Seq(Block), NEW b \in Block, NEW s, NoneOf(q, s), Owned(b) => b.vc # s
  PROVE  NoneOf(Append(q, b), s)
<1>1. \A j \in DOMAIN Append(q, b) :
        (j \in DOMAIN q /\ Append(q, b)[j] = q[j]) \/ Append(q, b)[j] = b
  OBVIOUS
<1> QED BY <1>1 DEF NoneOf

LEMMA InStepTail ==
  ASSUME NEW q \in Seq(Block), q # <<>>, NEW ch, InStep(q, ch)
  PROVE  InStep(Tail(q), ch)
<1>1. \A k \in DOMAIN Tail(q) : k + 1 \in DOMAIN q /\ Tail(q)[k] = q[k + 1]
  OBVIOUS
<1> QED BY <1>1 DEF InStep

LEMMA InStepAppend ==
  ASSUME NEW q \in Seq(Block), NEW b \in Block, NEW ch, InStep(q, ch),
         Owned(b) => ch[b.vc] = IF b.op = "show" THEN "idle" ELSE "comparing"
  PROVE  InStep(Append(q, b), ch)
<1>1. \A j \in DOMAIN Append(q, b) :
        (j \in DOMAIN q /\ Append(q, b)[j] = q[j]) \/ Append(q, b)[j] = b
  OBVIOUS
<1> QED BY <1>1 DEF InStep

\* The state of a refresh may change when its screen has no block in the queue.
LEMMA InStepMoves ==
  ASSUME NEW q \in Seq(Block), NEW ch \in [Screens -> ChainStates], NEW c \in Screens,
         NEW st, InStep(q, ch), NoneOf(q, c)
  PROVE  InStep(q, [ch EXCEPT ![c] = st])
<1>1. \A k \in DOMAIN q : Owned(q[k]) => q[k].vc \in Screens /\ q[k].vc # c
  <2>1. \A k \in DOMAIN q : q[k] \in Block
    OBVIOUS
  <2> QED BY <2>1, BlockShape DEF NoneOf, Owned
<1> QED BY <1>1 DEF InStep

\* A screen has no block in the queue while its refresh is on its way.
LEMMA RequestedHasNone ==
  ASSUME NEW q, NEW ch, NEW c, InStep(q, ch), ch[c] \notin {"idle", "comparing"}
  PROVE  NoneOf(q, c)
BY DEF InStep, NoneOf

LEMMA InitStageInv == Init => StageInv
BY DEF Init, StageInv, OneEach, InStep, NoneOf

\* What a step that takes the head, moves the refresh of its screen and may add the
\* screen's next block leaves behind.
LEMMA TakesHead ==
  ASSUME Typed, StageInv, main # <<>>, Owned(Head(main)), NEW st, NEW b \in Block,
         Owned(b), b.vc = Head(main).vc
  PROVE  LET c == Head(main).vc
             q == Tail(main)
         IN /\ c \in Screens
            /\ phase[c] # "new"
            /\ q \in Seq(Block) /\ OneEach(q) /\ NoneOf(q, c)
            /\ InStep(q, [chain EXCEPT ![c] = st])
            /\ InStep(q, chain)
            /\ OneEach(Append(q, b))
            /\ b.op # "show" /\ chain[c] = "comparing" => InStep(Append(q, b), chain)
            /\ \A s \in Screens : phase[s] = "new" => NoneOf(q, s) /\ NoneOf(Append(q, b), s)
<1> DEFINE c == Head(main).vc
<1> DEFINE q == Tail(main)
<1>1. main \in Seq(Block) /\ chain \in [Screens -> ChainStates]
  BY DEF Typed
<1>2. Head(main) \in Block /\ q \in Seq(Block) /\ 1 \in DOMAIN main /\ Head(main) = main[1]
  BY <1>1
<1>3. c \in Screens
  BY <1>2, BlockShape DEF Owned
<1>4. phase[c] # "new"
  BY <1>2, <1>3 DEF StageInv, NoneOf
<1>5. OneEach(q) /\ NoneOf(q, c)
  BY <1>1, OneEachTail DEF StageInv
<1>6. InStep(q, chain)
  BY <1>1, InStepTail DEF StageInv
<1>7. InStep(q, [chain EXCEPT ![c] = st])
  BY <1>1, <1>2, <1>3, <1>5, <1>6, InStepMoves
<1>8. OneEach(Append(q, b))
  BY <1>2, <1>5, OneEachAppend
<1>9. b.op # "show" /\ chain[c] = "comparing" => InStep(Append(q, b), chain)
  BY <1>2, <1>6, InStepAppend
<1>10. ASSUME NEW s \in Screens, phase[s] = "new"
       PROVE  NoneOf(q, s) /\ NoneOf(Append(q, b), s)
  <2>1. NoneOf(main, s) /\ s # c
    BY <1>10, <1>4 DEF StageInv
  <2>2. NoneOf(q, s)
    BY <1>1, <2>1, NoneOfTail
  <2> QED BY <1>2, <2>1, <2>2, NoneOfAppend
<1> QED BY <1>2, <1>3, <1>4, <1>5, <1>6, <1>7, <1>8, <1>9, <1>10

LEMMA StageInvStep == ConstantsOK /\ Typed /\ StageInv /\ [Next]_vars => StageInv'
<1> SUFFICES ASSUME ConstantsOK, Typed, StageInv, [Next]_vars PROVE StageInv'
  OBVIOUS
<1> USE DEF histories
<1>0. /\ main \in Seq(Block) /\ chain \in [Screens -> ChainStates] /\ stored \in Rows
      /\ phase \in [Screens -> {"new", "open", "closed"}]
      /\ OneEach(main) /\ InStep(main, chain)
      /\ \A s \in Screens : phase[s] = "new" => chain[s] = "idle" /\ NoneOf(main, s)
  BY DEF Typed, StageInv
<1>1. ASSUME NEW s \in Screens, Open(s) PROVE StageInv'
  <2> DEFINE b == [op |-> "show", vc |-> s, rows |-> stored]
  <2>1. b \in Block /\ Owned(b) /\ b.vc = s /\ b.op = "show"
    BY <1>0 DEF Block, ShowBlock, Owned
  <2>2. chain[s] = "idle" /\ NoneOf(main, s)
    BY <1>0, <1>1 DEF Open
  <2>3. phase' = [phase EXCEPT ![s] = "open"]
    BY <1>1 DEF Open
  <2>4. CASE main' = Append(main, b) /\ chain' = chain
    <3>1. OneEach(main') /\ InStep(main', chain')
      BY <1>0, <2>1, <2>2, <2>4, OneEachAppend, InStepAppend
    <3>2. \A t \in Screens : phase'[t] = "new" => chain'[t] = "idle" /\ NoneOf(main', t)
      BY <1>0, <2>1, <2>3, <2>4, NoneOfAppend
    <3> QED BY <3>1, <3>2 DEF StageInv
  <2>5. CASE main' = main /\ chain' = [chain EXCEPT ![s] = "requested"]
    <3>1. OneEach(main') /\ InStep(main', chain')
      BY <1>0, <2>2, <2>5, InStepMoves
    <3>2. \A t \in Screens : phase'[t] = "new" => chain'[t] = "idle" /\ NoneOf(main', t)
      BY <1>0, <2>3, <2>5
    <3> QED BY <3>1, <3>2 DEF StageInv
  <2> QED BY <1>1, <2>4, <2>5 DEF Open, ShowAndRefresh
<1>2. ASSUME NEW s \in Screens, Close(s) PROVE StageInv'
  BY <1>0, <1>2 DEF Close, StageInv
<1>3. ASSUME NEW c \in Screens, NoAnswer(c) PROVE StageInv'
  <2>1. NoneOf(main, c)
    BY <1>0, <1>3, RequestedHasNone DEF NoAnswer
  <2>2. InStep(main, chain')
    BY <1>0, <1>3, <2>1, InStepMoves DEF NoAnswer
  <2> QED BY <1>0, <1>3, <2>2 DEF NoAnswer, StageInv
<1>4. ASSUME NEW c \in Screens, Answer(c) PROVE StageInv'
  <2> DEFINE b == CompareBlock(c)
  <2>1. b \in Block /\ Owned(b) /\ b.vc = c /\ b.op = "diff"
    BY <1>0 DEF Block, DiffBlock, CompareBlock, Owned
  <2>2. chain[c] = "requested" /\ chain' = [chain EXCEPT ![c] = "comparing"] /\ phase' = phase
    BY <1>4 DEF Answer
  <2>3. NoneOf(main, c)
    BY <1>0, <2>2, RequestedHasNone
  <2>4. InStep(main, chain') /\ chain'[c] = "comparing"
    BY <1>0, <2>2, <2>3, InStepMoves
  <2>5. OneEach(Append(main, b)) /\ InStep(Append(main, b), chain')
    BY <1>0, <2>1, <2>3, <2>4, OneEachAppend, InStepAppend
  <2>6. ASSUME NEW t \in Screens, phase'[t] = "new"
        PROVE  chain'[t] = "idle" /\ NoneOf(main, t) /\ NoneOf(Append(main, b), t)
    BY <1>0, <2>1, <2>2, <2>6, NoneOfAppend
  <2>7. main' = Append(main, b) \/ main' = main
    BY <1>4 DEF Answer
  <2>8. CASE main' = Append(main, b)
    BY <2>5, <2>6, <2>8 DEF StageInv
  <2>9. CASE main' = main
    BY <1>0, <2>4, <2>6, <2>9 DEF StageInv
  <2> QED BY <2>7, <2>8, <2>9
<1>5. ASSUME RunShow PROVE StageInv'
  <2>1. main # <<>> /\ Owned(Head(main)) /\ main' = Tail(main) /\ phase' = phase
    BY <1>5 DEF RunShow, AtHead, Owned
  <2>2. chain' = [chain EXCEPT ![Head(main).vc] = "requested"]
    BY <1>5 DEF RunShow, ShowAndRefresh
  <2>3. Head(main) \in Block
    BY <1>0, <2>1
  <2> QED BY <1>0, <2>1, <2>2, <2>3, TakesHead DEF StageInv
<1>6. ASSUME NEW b \in Block, Owned(b), b.op # "show", main # <<>>, Owned(Head(main)), b.vc = Head(main).vc,
             Head(main).op # "show", main' = Append(Tail(main), b), chain' = chain, phase' = phase
      PROVE  StageInv'
  <2>1. chain[Head(main).vc] = "comparing"
    BY <1>0, <1>6 DEF InStep
  <2> QED BY <1>0, <1>6, <2>1, TakesHead DEF StageInv
<1>7. ASSUME main # <<>>, Owned(Head(main)), main' = Tail(main), phase' = phase,
             NEW st, chain' = [chain EXCEPT ![Head(main).vc] = st]
      PROVE  StageInv'
  <2>1. Head(main) \in Block
    BY <1>0, <1>7
  <2> QED BY <1>0, <1>7, <2>1, TakesHead DEF StageInv
<1>8. ASSUME main' = main, chain' = chain, phase' = phase PROVE StageInv'
  BY <1>0, <1>8 DEF StageInv
<1>9. ASSUME RunDiff PROVE StageInv'
  <2> DEFINE b == [op |-> "deleted", vc |-> Head(main).vc]
  <2>1. main # <<>> /\ Head(main).op = "diff" /\ Head(main) \in Block /\ phase' = phase
    BY <1>0, <1>9 DEF RunDiff, AtHead
  <2>2. Owned(Head(main)) /\ Head(main).vc \in Screens
    BY <2>1, BlockShape DEF Owned
  <2>3. b \in Block /\ Owned(b) /\ b.op # "show" /\ b.vc = Head(main).vc
    BY <2>2 DEF Block, ChainBlock, Owned
  <2>4. \/ main' = Tail(main) /\ chain' = [chain EXCEPT ![Head(main).vc] = "halted"]
        \/ main' = Append(Tail(main), b) /\ chain' = chain
        \/ main' = main /\ chain' = chain
    BY <1>9 DEF RunDiff, ChainStops, DeletesRows
  <2> QED BY <2>1, <2>2, <2>3, <2>4, <1>6, <1>7, <1>8
<1>10. ASSUME RunDeleted PROVE StageInv'
  <2> DEFINE b == [op |-> "saved", vc |-> Head(main).vc]
  <2>1. main # <<>> /\ Head(main).op = "deleted" /\ Head(main) \in Block /\ phase' = phase
    BY <1>0, <1>10 DEF RunDeleted, AtHead
  <2>2. Owned(Head(main)) /\ Head(main).vc \in Screens
    BY <2>1, BlockShape DEF Owned
  <2>3. b \in Block /\ Owned(b) /\ b.op # "show" /\ b.vc = Head(main).vc
    BY <2>2 DEF Block, ChainBlock, Owned
  <2>4. \/ main' = Tail(main) /\ chain' = [chain EXCEPT ![Head(main).vc] = "halted"]
        \/ main' = Append(Tail(main), b) /\ chain' = chain
    BY <1>10 DEF RunDeleted, ChainStops
  <2> QED BY <2>1, <2>2, <2>3, <2>4, <1>6, <1>7
<1>11. ASSUME RunSaved PROVE StageInv'
  <2>1. /\ main # <<>> /\ Head(main).op = "saved" /\ Head(main) \in Block /\ phase' = phase
        /\ chain' = [chain EXCEPT ![Head(main).vc] = "notified"]
    BY <1>0, <1>11 DEF RunSaved, Notifies, AtHead
  <2>2. Owned(Head(main)) /\ Head(main).vc \in Screens
    BY <2>1, BlockShape DEF Owned
  <2>3. /\ Tail(main) \in Seq(Block)
        /\ OneEach(Tail(main)) /\ InStep(Tail(main), chain') /\ phase[Head(main).vc] # "new"
        /\ \A s \in Screens : phase[s] = "new" => NoneOf(Tail(main), s)
    BY <1>0, <2>1, <2>2, TakesHead
  <2>4. ASSUME NEW S \in SUBSET Screens,
               main' = Append(Tail(main), [op |-> "update", vcs |-> S, rows |-> stored])
        PROVE  StageInv'
    <3> DEFINE b == [op |-> "update", vcs |-> S, rows |-> stored]
    <3>1. b \in Block /\ ~Owned(b)
      BY <1>0 DEF Block, UpdateBlock, Owned
    <3>2. OneEach(main') /\ InStep(main', chain')
      BY <2>3, <2>4, <3>1, OneEachAppend, InStepAppend
    <3>3. \A s \in Screens : phase[s] = "new" => NoneOf(main', s)
      BY <2>3, <2>4, <3>1, NoneOfAppend
    <3> QED BY <1>0, <2>1, <2>2, <2>3, <3>2, <3>3 DEF StageInv
  <2>5. \/ main' = Tail(main)
        \/ \E S \in SUBSET Screens :
             main' = Append(Tail(main), [op |-> "update", vcs |-> S, rows |-> stored])
    BY <1>11 DEF RunSaved, Notifies, Observers, OpenScreens
  <2> QED BY <2>1, <2>2, <2>4, <2>5, <1>7
<1>12. ASSUME RunUpdate PROVE StageInv'
  <2>1. main # <<>> /\ main' = Tail(main) /\ chain' = chain /\ phase' = phase
    BY <1>12 DEF RunUpdate, AtHead
  <2> QED BY <1>0, <2>1, OneEachTail, InStepTail, NoneOfTail DEF StageInv
<1>13. ASSUME Kill PROVE StageInv'
  BY <1>13, <1>8 DEF Kill
<1>14. ASSUME Restart PROVE StageInv'
  BY <1>0, <1>14 DEF Restart, StageInv, OneEach, InStep, NoneOf
<1>15. CASE UNCHANGED vars
  BY <1>15, <1>8 DEF vars
<1> QED
  BY <1>1, <1>2, <1>3, <1>4, <1>5, <1>9, <1>10, <1>11, <1>12, <1>13, <1>14, <1>15
  DEF Next, MainStep

LEMMA StageInvariant == Spec => [](Typed /\ StageInv)
<1>1. Typed /\ StageInv /\ [Next]_vars => (Typed /\ StageInv)'
  BY ConstantsOK, TypedStep, StageInvStep
<1> QED BY <1>1, InitTyped, InitStageInv, PTL DEF Spec

(***************************************************************************)
(* The application as it is wired.                                         *)
(***************************************************************************)
\* Without logging out a process has one screen at most, which alone refreshes.
AloneInv ==
  /\ AloneAsWired
  /\ ~MayLogOut /\ app = "running" =>
       /\ \A c, d \in OpenScreens : c = d
       /\ \A c \in Screens : chain[c] \in {"requested", "comparing"} => c \in OpenScreens
       /\ \A k \in DOMAIN main : main[k].op = "show" => main[k].vc \in OpenScreens

LEMMA AloneStep ==
  ASSUME ConstantsOK, Typed, StageInv, CrashNeedsOverlap', AloneInv, [Next]_vars
  PROVE  AloneInv'
<1> SUFFICES ASSUME ~MayLogOut PROVE AloneInv'
  BY DEF AloneInv, AloneAsWired
<1> USE DEF histories
<1>0. /\ main \in Seq(Block) /\ chain \in [Screens -> ChainStates]
      /\ phase \in [Screens -> {"new", "open", "closed"}]
      /\ OneEach(main) /\ InStep(main, chain)
  BY DEF Typed, StageInv
<1>1. app # "unwrapTrap" /\ overlapped = {}
  BY DEF AloneInv, AloneAsWired
<1>2. \A b \in Block : b.op # "update" => b.vc \in Screens
  BY BlockShape
<1>3. \A k \in DOMAIN main : main[k] \in Block
  BY <1>0
\* A block of a refresh belongs to the screen on show.
<1>4. ASSUME app = "running", NEW k \in DOMAIN main, Owned(main[k]) PROVE main[k].vc \in OpenScreens
  <2>1. main[k].op # "show" => chain[main[k].vc] = "comparing"
    BY <1>0, <1>4 DEF InStep
  <2>2. main[k].vc \in Screens
    BY <1>2, <1>3, <1>4 DEF Owned
  <2> QED BY <1>4, <2>1, <2>2 DEF AloneInv
<1>5. ASSUME app = "running", UNCHANGED <<app, overlapped, phase>>,
             \A c \in Screens : chain'[c] \in {"requested", "comparing"} => c \in OpenScreens,
             \A k \in DOMAIN main' : main'[k] \in {main[m] : m \in DOMAIN main} \/ main'[k].op # "show"
      PROVE  AloneInv'
  BY <1>1, <1>5 DEF AloneInv, AloneAsWired, OpenScreens
<1>6. ASSUME NEW s \in Screens, Open(s) PROVE AloneInv'
  <2> DEFINE b == [op |-> "show", vc |-> s, rows |-> stored]
  <2>1. /\ app = "running" /\ app' = "running" /\ overlapped' = {} /\ OpenScreens = {}
        /\ main' = Append(main, b) \/ main' = main
        /\ phase' = [phase EXCEPT ![s] = "open"]
        /\ \A c \in Screens : c # s => chain'[c] = chain[c]
    BY <1>0, <1>1, <1>6 DEF Open, ShowAndRefresh
  <2>2. OpenScreens' = {s}
    BY <1>0, <2>1 DEF OpenScreens
  <2>3. \A c \in Screens : chain'[c] \in {"requested", "comparing"} => c = s
    BY <2>1 DEF AloneInv
  <2>4. \A k \in DOMAIN main' : main'[k].op = "show" => main'[k].vc = s
    <3>1. \A k \in DOMAIN main : main[k].op # "show"
      BY <2>1 DEF AloneInv
    <3>2. \A k \in DOMAIN Append(main, b) :
            (k \in DOMAIN main /\ Append(main, b)[k] = main[k]) \/ Append(main, b)[k] = b
      BY <1>0
    <3> QED BY <2>1, <3>1, <3>2
  <2> QED BY <2>1, <2>2, <2>3, <2>4 DEF AloneInv, AloneAsWired
<1>7. ASSUME NEW c \in Screens, NoAnswer(c) PROVE AloneInv'
  BY <1>0, <1>5, <1>7 DEF NoAnswer, AloneInv
<1>8. ASSUME NEW c \in Screens, Answer(c) PROVE AloneInv'
  <2>1. app = "running" /\ chain[c] = "requested" /\ phase' = phase
        /\ chain' = [chain EXCEPT ![c] = "comparing"]
    BY <1>8 DEF Answer
  <2>2. InWindow = {}
    <3> SUFFICES ASSUME NEW k \in DOMAIN main, main[k].op \in {"diff", "deleted"} PROVE FALSE
      BY DEF InWindow
    <3>1. main[k].vc \in OpenScreens /\ chain[main[k].vc] = "comparing"
      BY <1>0, <1>4, <2>1 DEF Owned, InStep
    <3> QED BY <2>1, <3>1 DEF AloneInv
  <2>3. overlapped' = {}
    BY <1>1, <1>8, <2>2 DEF Answer
  <2>4. CASE app' = "syncTrap"
    BY <2>3, <2>4 DEF AloneInv, AloneAsWired
  <2>5. CASE app' = app
    <3> DEFINE b == CompareBlock(c)
    <3>1. main' = Append(main, b) /\ b.op = "diff"
      BY <1>8, <2>1, <2>5 DEF Answer, CompareBlock
    <3>2. \A k \in DOMAIN main' : main'[k] \in {main[m] : m \in DOMAIN main} \/ main'[k] = b
      BY <1>0, <3>1
    <3>3. \A d \in Screens : chain'[d] \in {"requested", "comparing"} => d \in OpenScreens
      BY <1>0, <2>1 DEF AloneInv
    <3> HIDE DEF b
    <3> QED BY <1>1, <1>5, <2>1, <2>3, <2>5, <3>1, <3>2, <3>3
  <2> QED BY <1>8, <2>4, <2>5 DEF Answer
\* A block of the main queue, which may add a block that shows nothing.
<1>9. ASSUME NEW c \in Screens, main # <<>>, app = "running",
             UNCHANGED <<app, overlapped, phase>>,
             \/ chain' = chain
             \/ c = Head(main).vc /\ Owned(Head(main)) /\ \E st : chain' = [chain EXCEPT ![c] = st],
             main' = Tail(main) \/ \E b : main' = Append(Tail(main), b) /\ b.op # "show"
      PROVE  AloneInv'
  <2>1. Head(main) = main[1] /\ 1 \in DOMAIN main
    BY <1>0, <1>9
  <2>2. \A d \in Screens : chain'[d] \in {"requested", "comparing"} => d \in OpenScreens
    BY <1>0, <1>4, <1>9, <2>1 DEF AloneInv
  <2>3. \A k \in DOMAIN Tail(main) : k + 1 \in DOMAIN main /\ Tail(main)[k] = main[k + 1]
    BY <1>0, <1>9
  <2>4. Tail(main) \in Seq(Block)
    BY <1>0, <1>9
  <2>5. \A b : \A k \in DOMAIN Append(Tail(main), b) :
          \/ k \in DOMAIN Tail(main) /\ Append(Tail(main), b)[k] = Tail(main)[k]
          \/ Append(Tail(main), b)[k] = b
    BY <2>4
  <2> QED BY <1>5, <1>9, <2>2, <2>3, <2>5
<1>10. CASE RunShow \/ RunDeleted \/ RunSaved
  <2>1. main # <<>> /\ app = "running" /\ Owned(Head(main)) /\ UNCHANGED <<app, overlapped, phase>>
    BY <1>10 DEF RunShow, RunDeleted, RunSaved, Notifies, ChainStops, AtHead, Owned
  <2>2. Head(main).vc \in Screens
    BY <1>0, <1>2, <2>1 DEF Owned
  <2>3. chain' = chain \/ \E st : chain' = [chain EXCEPT ![Head(main).vc] = st]
    BY <1>10 DEF RunShow, ShowAndRefresh, RunDeleted, RunSaved, Notifies, ChainStops
  <2>4. main' = Tail(main) \/ \E b : main' = Append(Tail(main), b) /\ b.op # "show"
    <3> DEFINE saved == [op |-> "saved", vc |-> Head(main).vc]
    <3> DEFINE update(S) == [op |-> "update", vcs |-> S, rows |-> stored]
    <3>1. saved.op # "show" /\ \A S : update(S).op # "show"
      OBVIOUS
    <3>2. \/ main' = Tail(main) \/ main' = Append(Tail(main), saved)
          \/ \E S : main' = Append(Tail(main), update(S))
      BY <1>10 DEF RunShow, RunDeleted, RunSaved, Notifies, ChainStops
    <3> HIDE DEF saved, update
    <3> QED BY <3>1, <3>2
  <2> QED BY <1>9, <2>1, <2>2, <2>3, <2>4
<1>11. CASE RunUpdate
  <2>1. \A c \in Screens : chain'[c] = chain[c]
    BY <1>11 DEF RunUpdate
  <2>2. main # <<>> /\ app = "running" /\ main' = Tail(main) /\ UNCHANGED <<app, overlapped, phase>>
    BY <1>11 DEF RunUpdate, AtHead
  <2>3. \A k \in DOMAIN Tail(main) : k + 1 \in DOMAIN main /\ Tail(main)[k] = main[k + 1]
    BY <1>0, <2>2
  <2> QED BY <1>5, <2>1, <2>2, <2>3 DEF AloneInv
<1>12. CASE RunDiff
  <2>1. main # <<>> /\ app = "running" /\ Owned(Head(main)) /\ UNCHANGED <<overlapped, phase>>
    BY <1>12 DEF RunDiff, AtHead, Owned
  <2>2. Head(main).vc \in Screens /\ 1 \in DOMAIN main /\ main[1] = Head(main)
    BY <1>0, <1>2, <2>1 DEF Owned
  <2>3. CASE app' = app
    <3>1. chain' = chain \/ \E st : chain' = [chain EXCEPT ![Head(main).vc] = st]
      BY <1>12 DEF RunDiff, DeletesRows, ChainStops
    <3>2. main' = Tail(main) \/ \E b : main' = Append(Tail(main), b) /\ b.op # "show"
      <4> DEFINE deleted == [op |-> "deleted", vc |-> Head(main).vc]
      <4>1. deleted.op # "show"
        OBVIOUS
      <4>2. main' = Tail(main) \/ main' = Append(Tail(main), deleted)
        BY <1>12, <2>1, <2>3 DEF RunDiff, DeletesRows, ChainStops
      <4> HIDE DEF deleted
      <4> QED BY <4>1, <4>2
    <3> QED BY <1>9, <2>1, <2>2, <2>3, <3>1, <3>2
  <2>4. CASE app' = "unwrapTrap" /\ main' = main
    <3>1. PICK m \in DOMAIN main : m > 1 /\ main[m].op = "deleted"
      BY <2>4 DEF CrashNeedsOverlap
    <3>2. main[m].vc = main[1].vc
      BY <1>4, <2>1, <2>2, <3>1 DEF AloneInv, Owned
    <3>3. m = 1
      BY <1>0, <2>1, <2>2, <3>1, <3>2 DEF OneEach, Owned
    <3> QED BY <3>1, <3>3
  <2> QED BY <1>12, <2>3, <2>4 DEF RunDiff, DeletesRows, ChainStops
<1>13. CASE Kill
  BY <1>1, <1>13 DEF Kill, AloneInv, AloneAsWired
<1>14. CASE Restart
  <2>1. main' = <<>> /\ app' = "running" /\ overlapped' = {}
    BY <1>1, <1>14 DEF Restart
  <2>2. \A c \in Screens : chain'[c] \notin {"requested", "comparing"} /\ phase'[c] # "open"
    BY <1>14 DEF Restart
  <2> QED BY <2>1, <2>2 DEF AloneInv, AloneAsWired, OpenScreens
<1>15. CASE UNCHANGED vars
  BY <1>15 DEF vars, AloneInv, AloneAsWired, OpenScreens
<1>16. ASSUME NEW s \in Screens, Close(s) PROVE FALSE
  BY <1>16 DEF Close, LogOutIsHandled
<1> QED
  BY <1>6, <1>7, <1>8, <1>10, <1>11, <1>12, <1>13, <1>14, <1>15, <1>16 DEF Next, MainStep

LEMMA AloneInvariant == Spec => []AloneInv
<1>1. Init => AloneInv
  BY DEF Init, AloneInv, AloneAsWired, OpenScreens
<1>2. IInv => CrashNeedsOverlap
  BY DEF IInv
<1>3. Typed /\ StageInv /\ CrashNeedsOverlap' /\ AloneInv /\ [Next]_vars => AloneInv'
  BY ConstantsOK, AloneStep
<1> QED BY <1>1, <1>2, <1>3, StageInvariant, IInvInvariant, PTL DEF Spec

\* As Main.storyboard is wired, no two refreshes of a list overlap in a process and the
\* unwraps of delateFriends and delatePublics never fail, from any file and across kills.
THEOREM OneRefreshAsWired == Spec => []AloneAsWired
<1>1. AloneInv => AloneAsWired
  BY DEF AloneInv
<1> QED BY <1>1, AloneInvariant, PTL

(***************************************************************************)
(* EntitySync implements CacheRefresh.                                     *)
(***************************************************************************)
Holds(q, op, c) == \E k \in DOMAIN q : q[k].op = op /\ q[k].vc = c
StageIn(q, ch, c) ==
  IF ch[c] \in {"idle", "requested"} THEN "waiting"
  ELSE IF ch[c] # "comparing" \/ Holds(q, "saved", c) THEN "over"
  ELSE IF Holds(q, "deleted", c) THEN "dropped"
  ELSE "answered"

LEMMA StageIsStageIn ==
  /\ Stage = [c \in Screens |-> StageIn(main, chain, c)]
  /\ Stage' = [c \in Screens |-> StageIn(main', chain', c)]
BY DEF Stage, StageIn, InQueue, Holds

LEMMA HoldsAppend ==
  ASSUME NEW q \in Seq(Block), NEW b \in Block, NEW op, NEW c
  PROVE  Holds(Append(q, b), op, c) <=> (Holds(q, op, c) \/ (b.op = op /\ b.vc = c))
<1> DEFINE r == Append(q, b)
<1>1. \A k \in DOMAIN r : (k \in DOMAIN q /\ r[k] = q[k]) \/ r[k] = b
  OBVIOUS
<1>2. \A k \in DOMAIN q : k \in DOMAIN r /\ r[k] = q[k]
  OBVIOUS
<1>3. Len(q) + 1 \in DOMAIN r /\ r[Len(q) + 1] = b
  OBVIOUS
<1> HIDE DEF r
<1> QED BY <1>1, <1>2, <1>3 DEF Holds

LEMMA HoldsTail ==
  ASSUME NEW q \in Seq(Block), q # <<>>, NEW op, NEW c, Head(q).op # op \/ Head(q).vc # c
  PROVE  Holds(Tail(q), op, c) <=> Holds(q, op, c)
<1>1. \A k \in DOMAIN Tail(q) : k + 1 \in DOMAIN q /\ Tail(q)[k] = q[k + 1]
  OBVIOUS
<1>2. \A k \in DOMAIN q : k = 1 \/ (k - 1 \in DOMAIN Tail(q) /\ Tail(q)[k - 1] = q[k])
  OBVIOUS
<1>3. Head(q) = q[1]
  OBVIOUS
<1> QED BY <1>1, <1>2, <1>3 DEF Holds

\* A block that is no save or another screen's leaves the stage of r alone.
SameStage(q, p, r) ==
  /\ Holds(q, "saved", r) <=> Holds(p, "saved", r)
  /\ Holds(q, "deleted", r) <=> Holds(p, "deleted", r)

LEMMA SameAppend ==
  ASSUME NEW q \in Seq(Block), NEW b \in Block, NEW r,
         b.op \notin {"saved", "deleted"} \/ b.vc # r
  PROVE  SameStage(Append(q, b), q, r)
BY HoldsAppend DEF SameStage

LEMMA SameTail ==
  ASSUME NEW q \in Seq(Block), q # <<>>, NEW r,
         Head(q).op \notin {"saved", "deleted"} \/ Head(q).vc # r
  PROVE  SameStage(Tail(q), q, r)
BY HoldsTail DEF SameStage

LEMMA SameTailAppend ==
  ASSUME NEW q \in Seq(Block), q # <<>>, NEW b \in Block, NEW r,
         Head(q).op \notin {"saved", "deleted"} \/ Head(q).vc # r,
         b.op \notin {"saved", "deleted"} \/ b.vc # r
  PROVE  SameStage(Append(Tail(q), b), q, r)
<1>1. Tail(q) \in Seq(Block)
  OBVIOUS
<1> QED BY <1>1, SameTail, SameAppend DEF SameStage

LEMMA NoneHolds ==
  ASSUME NEW q, NEW c, NoneOf(q, c), NEW op, op # "update"
  PROVE  ~Holds(q, op, c)
BY DEF NoneOf, Holds, Owned

\* The block at the head says how far its refresh has got.
LEMMA HeadStage ==
  ASSUME Typed, StageInv, main # <<>>, Owned(Head(main)), Head(main).op # "show"
  PROVE  LET c == Head(main).vc
         IN /\ c \in Screens
            /\ chain[c] = "comparing"
            /\ NoneOf(Tail(main), c)
            /\ \A op : Holds(main, op, c) /\ op # "update" => op = Head(main).op
            /\ Holds(main, Head(main).op, c)
<1> DEFINE c == Head(main).vc
<1>1. main \in Seq(Block) /\ OneEach(main) /\ InStep(main, chain)
  BY DEF Typed, StageInv
<1>2. 1 \in DOMAIN main /\ Head(main) = main[1] /\ Head(main) \in Block
  BY <1>1
<1>3. c \in Screens
  BY <1>2, BlockShape DEF Owned
<1>4. chain[c] = "comparing"
  BY <1>1, <1>2 DEF InStep
<1>5. NoneOf(Tail(main), c)
  BY <1>1, OneEachTail
<1>6. ASSUME NEW op, Holds(main, op, c), op # "update" PROVE op = Head(main).op
  BY <1>1, <1>2, <1>6 DEF Holds, OneEach, Owned
<1>7. Holds(main, Head(main).op, c)
  BY <1>2 DEF Holds
<1> QED BY <1>3, <1>4, <1>5, <1>6, <1>7

LEMMA InitImplements == ConstantsOK /\ Init => Promise!Init
BY DEF Init, Stage, Promise!Init, Promise!Table, Rows, NoRows

LEMMA StepImplements ==
  ConstantsOK /\ Typed /\ StageInv /\ [Next]_vars => [Promise!Next]_(Promise!cache)
<1> SUFFICES ASSUME ConstantsOK, Typed, StageInv, [Next]_vars
             PROVE  [Promise!Next]_(Promise!cache)
  OBVIOUS
<1> USE DEF histories
<1>0. /\ main \in Seq(Block) /\ chain \in [Screens -> ChainStates]
      /\ stored \in Rows /\ loaded \in [Screens -> Rows]
      /\ OneEach(main) /\ InStep(main, chain)
      /\ \A s \in Screens : phase[s] = "new" => chain[s] = "idle" /\ NoneOf(main, s)
  BY DEF Typed, StageInv
<1>s. ASSUME stored' = stored, loaded' = loaded,
             \A c \in Screens : StageIn(main', chain', c) = StageIn(main, chain, c)
      PROVE  [Promise!Next]_(Promise!cache)
  <2>1. Stage' = Stage
    BY <1>s, StageIsStageIn
  <2> QED BY <1>s, <2>1 DEF Promise!cache
<1>g. ASSUME stored' = stored, loaded' = loaded, NEW R \in SUBSET Screens,
             \A c \in R : StageIn(main', chain', c) = "over",
             \A c \in Screens \ R : StageIn(main', chain', c) = StageIn(main, chain, c)
      PROVE  [Promise!Next]_(Promise!cache)
  <2>1. Stage' = [c \in Screens |-> IF c \in R THEN "over" ELSE Stage[c]]
    BY <1>g, StageIsStageIn
  <2>2. Promise!GiveUp(R)
    BY <1>g, <2>1 DEF Promise!GiveUp
  <2> QED BY <2>2 DEF Promise!Next
<1>h. ASSUME stored' = stored, loaded' = loaded, NEW c \in Screens,
             StageIn(main', chain', c) = "over",
             \A r \in Screens \ {c} : StageIn(main', chain', r) = StageIn(main, chain, r)
      PROVE  [Promise!Next]_(Promise!cache)
  <2> DEFINE R == {c}
  <2>1. R \in SUBSET Screens /\ \A r \in R : StageIn(main', chain', r) = "over"
    BY <1>h
  <2>2. \A r \in Screens \ R : StageIn(main', chain', r) = StageIn(main, chain, r)
    BY <1>h
  <2> HIDE DEF R
  <2> QED BY <1>h, <2>1, <2>2, <1>g
\* Deletions that are to go on, or that end with the step.
<1>d. ASSUME NEW c \in Screens, StageIn(main, chain, c) = "answered", loaded' = loaded,
             NEW I \in SUBSET Ids, \A i \in I : loaded[c][i] = Absent, stored' = Without(stored, I),
             \A r \in Screens \ {c} : StageIn(main', chain', r) = StageIn(main, chain, r),
             StageIn(main', chain', c) \in {"answered", "dropped"}
      PROVE  [Promise!Next]_(Promise!cache)
  <2>1. Stage[c] = "answered"
    BY <1>d, StageIsStageIn
  <2>2. Stage' \in {Stage, [Stage EXCEPT ![c] = "dropped"]}
    BY <1>d, StageIsStageIn
  <2>3. stored' = Promise!Dropping(I)
    BY <1>d DEF Promise!Dropping, Without
  <2>4. I \in SUBSET {i \in Ids : loaded[c][i] = Absent}
    BY <1>d
  <2>5. Promise!Drop(c)
    BY <1>d, <2>1, <2>2, <2>3, <2>4 DEF Promise!Drop
  <2> QED BY <2>5 DEF Promise!Next
<1>p. ASSUME NEW c \in Screens, StageIn(main, chain, c) = "dropped", loaded' = loaded,
             NEW failed, stored' = Upsert(stored, loaded[c], failed),
             \A r \in Screens \ {c} : StageIn(main', chain', r) = StageIn(main, chain, r),
             StageIn(main', chain', c) \in {"dropped", "over"}
      PROVE  [Promise!Next]_(Promise!cache)
  <2> DEFINE I == {i \in Ids : loaded[c][i] # Absent /\ i \notin failed}
  <2>1. Stage[c] = "dropped"
    BY <1>p, StageIsStageIn
  <2>2. Stage' \in {Stage, [Stage EXCEPT ![c] = "over"]}
    BY <1>p, StageIsStageIn
  <2>3. stored' = Promise!Putting(c, I)
    BY <1>p DEF Promise!Putting, Upsert
  <2>4. I \in SUBSET {i \in Ids : loaded[c][i] # Absent}
    OBVIOUS
  <2>5. Promise!Put(c)
    BY <1>p, <2>1, <2>2, <2>3, <2>4 DEF Promise!Put
  <2> QED BY <2>5 DEF Promise!Next
<1>1. ASSUME NEW s \in Screens, Open(s) PROVE [Promise!Next]_(Promise!cache)
  <2> DEFINE b == [op |-> "show", vc |-> s, rows |-> stored]
  <2>1. b \in Block /\ b.op = "show"
    BY <1>0 DEF Block, ShowBlock
  <2>2. chain[s] = "idle"
    BY <1>0, <1>1 DEF Open
  <2>3. \/ main' = Append(main, b) /\ chain' = chain
        \/ main' = main /\ chain' = [chain EXCEPT ![s] = "requested"]
    BY <1>1 DEF Open, ShowAndRefresh
  <2>4. \A c \in Screens : SameStage(main', main, c)
    <3>1. CASE main' = main
      BY <3>1 DEF SameStage
    <3>2. CASE main' = Append(main, b)
      <4> HIDE DEF b
      <4> QED BY <1>0, <2>1, <3>2, SameAppend
    <3> QED BY <2>3, <3>1, <3>2
  <2>5. \A c \in Screens : StageIn(main', chain', c) = StageIn(main, chain, c)
    BY <1>0, <2>2, <2>3, <2>4 DEF StageIn, SameStage
  <2> QED BY <1>1, <1>s, <2>5 DEF Open
<1>2. ASSUME NEW s \in Screens, Close(s) PROVE [Promise!Next]_(Promise!cache)
  BY <1>2, <1>s DEF Close
<1>3. ASSUME NEW c \in Screens, NoAnswer(c) PROVE [Promise!Next]_(Promise!cache)
  <2>1. \A r \in Screens \ {c} : StageIn(main', chain', r) = StageIn(main, chain, r)
    BY <1>0, <1>3 DEF NoAnswer, StageIn
  <2>2. StageIn(main', chain', c) = "over"
    BY <1>0, <1>3 DEF NoAnswer, StageIn
  <2> QED BY <1>3, <2>1, <2>2, <1>h DEF NoAnswer
<1>4. ASSUME NEW c \in Screens, Answer(c) PROVE [Promise!Next]_(Promise!cache)
  <2> DEFINE b == CompareBlock(c)
  <2>1. b \in Block /\ b.op = "diff"
    BY <1>0 DEF Block, DiffBlock, CompareBlock
  <2>2. /\ chain[c] = "requested" /\ chain' = [chain EXCEPT ![c] = "comparing"]
        /\ main' = Append(main, b) \/ main' = main
        /\ stored' = stored
    BY <1>4 DEF Answer
  <2>3. \A r \in Screens : SameStage(main', main, r)
    <3>1. CASE main' = main
      BY <3>1 DEF SameStage
    <3>2. CASE main' = Append(main, b)
      <4> HIDE DEF b
      <4> QED BY <1>0, <2>1, <3>2, SameAppend
    <3> QED BY <2>2, <3>1, <3>2
  <2>4. ~Holds(main, "saved", c) /\ ~Holds(main, "deleted", c)
    BY <1>0, <2>2, RequestedHasNone, NoneHolds
  <2>5. StageIn(main, chain, c) = "waiting" /\ StageIn(main', chain', c) = "answered"
    BY <1>0, <2>2, <2>3, <2>4 DEF StageIn, SameStage
  <2>6. \A r \in Screens \ {c} : StageIn(main', chain', r) = StageIn(main, chain, r)
    BY <1>0, <2>2, <2>3 DEF StageIn, SameStage
  <2>7. Stage[c] = "waiting" /\ Stage' = [Stage EXCEPT ![c] = "answered"]
    BY <2>5, <2>6, StageIsStageIn
  <2>8. \E rows \in Promise!Table : loaded' = [loaded EXCEPT ![c] = rows]
    BY <1>4 DEF Answer, Promise!Table, Rows
  <2>9. Promise!Answered(c)
    BY <2>2, <2>7, <2>8 DEF Promise!Answered
  <2> QED BY <2>9 DEF Promise!Next
<1>5. ASSUME RunShow PROVE [Promise!Next]_(Promise!cache)
  <2> DEFINE s == Head(main).vc
  <2>1. /\ main # <<>> /\ Head(main).op = "show" /\ main' = Tail(main)
        /\ chain' = [chain EXCEPT ![s] = "requested"] /\ stored' = stored /\ loaded' = loaded
    BY <1>5 DEF RunShow, AtHead, ShowAndRefresh
  <2>2. chain[s] = "idle"
    BY <1>0, <2>1 DEF InStep, Owned
  <2>3. \A c \in Screens : SameStage(main', main, c)
    BY <1>0, <2>1, SameTail
  <2>4. \A c \in Screens : StageIn(main', chain', c) = StageIn(main, chain, c)
    BY <1>0, <2>1, <2>2, <2>3 DEF StageIn, SameStage
  <2> QED BY <2>1, <2>4, <1>s
\* A storage call that stops: the refresh is over.
<1>6. ASSUME main # <<>>, Owned(Head(main)), Head(main).op # "show", ChainStops(Head(main).vc),
             stored' = stored, loaded' = loaded
      PROVE  [Promise!Next]_(Promise!cache)
  <2> DEFINE c == Head(main).vc
  <2>1. c \in Screens /\ main' = Tail(main) /\ chain' = [chain EXCEPT ![c] = "halted"]
    BY <1>6, HeadStage DEF ChainStops
  <2>2. \A r \in Screens \ {c} : SameStage(main', main, r)
    BY <1>0, <1>6, <2>1, SameTail
  <2>3. \A r \in Screens \ {c} : StageIn(main', chain', r) = StageIn(main, chain, r)
    BY <1>0, <2>1, <2>2 DEF StageIn, SameStage
  <2>4. StageIn(main', chain', c) = "over"
    BY <1>0, <2>1 DEF StageIn, SameStage
  <2> QED BY <1>6, <2>1, <2>3, <2>4, <1>h
<1>7. ASSUME RunDiff PROVE [Promise!Next]_(Promise!cache)
  <2> DEFINE c == Head(main).vc
  <2> DEFINE b == [op |-> "deleted", vc |-> c]
  <2>1. /\ main # <<>> /\ Head(main).op = "diff" /\ Owned(Head(main)) /\ loaded' = loaded
    BY <1>7 DEF RunDiff, AtHead, Owned
  <2>2. /\ c \in Screens /\ chain[c] = "comparing" /\ NoneOf(Tail(main), c)
        /\ ~Holds(main, "saved", c) /\ ~Holds(main, "deleted", c)
    BY <2>1, HeadStage
  <2>3. StageIn(main, chain, c) = "answered"
    BY <2>2 DEF StageIn, SameStage
  <2>4. CASE ChainStops(c)
    BY <2>1, <2>4, <1>6 DEF ChainStops
  <2>5. CASE DeletesRows
    <3> DEFINE doomed == ToDelete(Head(main).rows, loaded[c])
    <3>1. \A i \in doomed : i \in Ids /\ loaded[c][i] = Absent
      BY DEF ToDelete
    <3>2. PICK I \in SUBSET doomed :
            /\ stored' = Without(stored, I)
            /\ chain' = chain
            /\ main' = Append(Tail(main), b) \/ main' = main
      BY <2>5 DEF DeletesRows
    <3>3. Tail(main) \in Seq(Block) /\ b \in Block
      BY <1>0, <2>1, <2>2 DEF Block, ChainBlock
    <3>4. CASE main' = main
      BY <2>1, <2>2, <2>3, <3>1, <3>2, <3>4, <1>d
    <3>5. CASE main' = Append(Tail(main), b)
      <4>1. \A r \in Screens \ {c} : SameStage(main', main, r)
        <5>1. b.vc = c
          OBVIOUS
        <5> HIDE DEF b
        <5> QED BY <1>0, <2>1, <3>3, <3>5, <5>1, SameTailAppend
      <4>2. ~Holds(main', "saved", c) /\ Holds(main', "deleted", c)
        <5>1. b.op = "deleted" /\ b.vc = c
          OBVIOUS
        <5>2. ~Holds(Tail(main), "saved", c)
          BY <2>2, NoneHolds
        <5> HIDE DEF b
        <5> QED BY <3>3, <3>5, <5>1, <5>2, HoldsAppend
      <4>3. StageIn(main', chain', c) = "dropped"
        BY <2>2, <3>2, <4>2 DEF StageIn, SameStage
      <4>4. \A r \in Screens \ {c} : StageIn(main', chain', r) = StageIn(main, chain, r)
        BY <3>2, <4>1 DEF StageIn, SameStage
      <4> QED BY <2>1, <2>2, <2>3, <3>1, <3>2, <4>3, <4>4, <1>d
    <3> QED BY <3>2, <3>4, <3>5
  <2> QED BY <1>7, <2>4, <2>5 DEF RunDiff
<1>8. ASSUME RunDeleted PROVE [Promise!Next]_(Promise!cache)
  <2> DEFINE c == Head(main).vc
  <2> DEFINE b == [op |-> "saved", vc |-> c]
  <2>1. /\ main # <<>> /\ Head(main).op = "deleted" /\ Owned(Head(main)) /\ loaded' = loaded
    BY <1>8 DEF RunDeleted, AtHead, Owned
  <2>2. /\ c \in Screens /\ chain[c] = "comparing" /\ NoneOf(Tail(main), c)
        /\ ~Holds(main, "saved", c) /\ Holds(main, "deleted", c)
    BY <2>1, HeadStage
  <2>3. StageIn(main, chain, c) = "dropped"
    BY <2>2 DEF StageIn, SameStage
  <2>4. CASE ChainStops(c)
    BY <2>1, <2>4, <1>6 DEF ChainStops
  <2>5. ASSUME NEW failed, stored' = Upsert(stored, loaded[c], failed),
               main' = Append(Tail(main), b), chain' = chain
        PROVE  [Promise!Next]_(Promise!cache)
    <3>1. Tail(main) \in Seq(Block) /\ b \in Block
      BY <1>0, <2>1, <2>2 DEF Block, ChainBlock
    <3>2. \A r \in Screens \ {c} : SameStage(main', main, r)
      <4>1. b.vc = c
        OBVIOUS
      <4> HIDE DEF b
      <4> QED BY <1>0, <2>1, <2>5, <3>1, <4>1, SameTailAppend
    <3>3. Holds(main', "saved", c)
      BY <2>5, <3>1, HoldsAppend
    <3>4. StageIn(main', chain', c) = "over"
      BY <2>2, <2>5, <3>3 DEF StageIn, SameStage
    <3>5. \A r \in Screens \ {c} : StageIn(main', chain', r) = StageIn(main, chain, r)
      BY <2>5, <3>2 DEF StageIn, SameStage
    <3> QED BY <2>1, <2>2, <2>3, <2>5, <3>4, <3>5, <1>p
  <2> QED BY <1>8, <2>4, <2>5 DEF RunDeleted
<1>9. ASSUME RunSaved PROVE [Promise!Next]_(Promise!cache)
  <2> DEFINE c == Head(main).vc
  <2>1. /\ main # <<>> /\ Head(main).op = "saved" /\ Owned(Head(main))
        /\ loaded' = loaded /\ stored' = stored
        /\ chain' = [chain EXCEPT ![c] = "notified"]
    BY <1>9 DEF RunSaved, Notifies, AtHead, Owned
  <2>2. c \in Screens /\ chain[c] = "comparing" /\ Holds(main, "saved", c)
    BY <2>1, HeadStage
  <2>3. StageIn(main, chain, c) = "over" /\ StageIn(main', chain', c) = "over"
    BY <1>0, <2>1, <2>2 DEF StageIn, SameStage
  <2>4. \/ main' = Tail(main)
        \/ \E S \in SUBSET Screens :
             main' = Append(Tail(main), [op |-> "update", vcs |-> S, rows |-> stored])
    BY <1>9 DEF RunSaved, Notifies, Observers, OpenScreens
  <2>5. \A S \in SUBSET Screens : [op |-> "update", vcs |-> S, rows |-> stored] \in Block
    BY <1>0 DEF Block, UpdateBlock
  <2>6. \A r \in Screens \ {c} : SameStage(main', main, r)
    <3>1. CASE main' = Tail(main)
      BY <1>0, <2>1, <3>1, SameTail
    <3>2. ASSUME NEW S \in SUBSET Screens,
                 main' = Append(Tail(main), [op |-> "update", vcs |-> S, rows |-> stored])
          PROVE  \A r \in Screens \ {c} : SameStage(main', main, r)
      <4> DEFINE b == [op |-> "update", vcs |-> S, rows |-> stored]
      <4>1. b \in Block /\ b.op = "update" /\ main' = Append(Tail(main), b)
        BY <2>5, <3>2
      <4> HIDE DEF b
      <4> QED BY <1>0, <2>1, <4>1, SameTailAppend
    <3> QED BY <2>4, <3>1, <3>2
  <2>7. \A r \in Screens : StageIn(main', chain', r) = StageIn(main, chain, r)
    BY <1>0, <2>1, <2>3, <2>6 DEF StageIn, SameStage
  <2> QED BY <2>1, <2>7, <1>s
<1>10. ASSUME RunUpdate PROVE [Promise!Next]_(Promise!cache)
  <2>1. /\ main # <<>> /\ Head(main).op = "update" /\ main' = Tail(main)
        /\ chain' = chain /\ stored' = stored /\ loaded' = loaded
    BY <1>10 DEF RunUpdate, AtHead
  <2>2. \A c \in Screens : SameStage(main', main, c)
    BY <1>0, <2>1, SameTail
  <2> QED BY <2>1, <2>2, <1>s DEF StageIn, SameStage
<1>11. ASSUME Kill PROVE [Promise!Next]_(Promise!cache)
  <2>1. main' = main /\ chain' = chain /\ loaded' = loaded
    BY <1>11 DEF Kill
  <2>2. CASE stored' = stored
    BY <2>1, <2>2, <1>s
  <2> DEFINE c == Head(main).vc
  <2>3. ASSUME AtHead("diff"), NEW done \in SUBSET ToDelete(Head(main).rows, loaded[c]),
               stored' = Without(stored, done)
        PROVE  [Promise!Next]_(Promise!cache)
    <3>1. main # <<>> /\ Head(main).op = "diff" /\ Owned(Head(main))
      BY <2>3 DEF AtHead, Owned
    <3>2. c \in Screens /\ StageIn(main, chain, c) = "answered"
      BY <3>1, HeadStage DEF StageIn
    <3>3. \A i \in done : i \in Ids /\ loaded[c][i] = Absent
      BY DEF ToDelete
    <3> QED BY <2>1, <2>3, <3>2, <3>3, <1>d
  <2>4. ASSUME AtHead("deleted"), NEW rest, stored' = Upsert(stored, loaded[c], rest)
        PROVE  [Promise!Next]_(Promise!cache)
    <3>1. main # <<>> /\ Head(main).op = "deleted" /\ Owned(Head(main))
      BY <2>4 DEF AtHead, Owned
    <3>2. c \in Screens /\ StageIn(main, chain, c) = "dropped"
      BY <3>1, HeadStage DEF StageIn
    <3> QED BY <2>1, <2>4, <3>2, <1>p
  <2> QED BY <1>11, <2>2, <2>3, <2>4 DEF Kill
<1>12. ASSUME Restart PROVE [Promise!Next]_(Promise!cache)
  <2> DEFINE R == {s \in Screens : chain[s] # "idle"}
  <2>1. /\ stored' = stored /\ loaded' = loaded
        /\ chain' = [s \in Screens |-> IF s \in R THEN "lost" ELSE chain[s]]
    BY <1>12 DEF Restart
  <2>2. \A c \in R : StageIn(main', chain', c) = "over"
    BY <2>1 DEF StageIn, SameStage
  <2>3. \A c \in Screens \ R : StageIn(main', chain', c) = StageIn(main, chain, c)
    BY <1>0, <2>1 DEF StageIn, SameStage
  <2> QED BY <2>1, <2>2, <2>3, <1>g
<1>13. CASE UNCHANGED vars
  BY <1>13, <1>s DEF vars
<1> QED
  BY <1>1, <1>2, <1>3, <1>4, <1>5, <1>7, <1>8, <1>9, <1>10, <1>11, <1>12, <1>13
  DEF Next, MainStep

\* The detailed specification implements the abstract one: whatever overlaps, fails or is
\* killed, the file changes only by refreshes that first drop rows their answer lacks
\* and then put rows of their answer.
THEOREM ImplementsCacheRefresh == Spec => KeepsPromise
<1>1. Typed /\ StageInv /\ [Next]_vars => [Promise!Next]_(Promise!cache)
  BY ConstantsOK, StepImplements
<1>2. Init => Promise!Init
  BY ConstantsOK, InitImplements
<1> QED BY <1>1, <1>2, StageInvariant, PTL DEF Spec, KeepsPromise, Promise!Spec

(***************************************************************************)
(* Rows leave the file only because an answer lacks them.                  *)
(***************************************************************************)
LEMMA LeavingStep ==
  ASSUME Typed, [Next]_vars, NEW i \in Ids, stored[i] # Absent, stored'[i] = Absent
  PROVE  /\ AtHead("diff")
         /\ Head(main).rows[i] # Absent
         /\ loaded[Head(main).vc][i] = Absent
<1>1. stored \in Rows /\ loaded \in [Screens -> Rows] /\ main \in Seq(Block)
  BY DEF Typed
<1>2. stored' # stored
  OBVIOUS
\* Saving never takes a row away.
<1>3. ASSUME AtHead("deleted"), NEW failed, stored' = Upsert(stored, loaded[Head(main).vc], failed)
      PROVE  FALSE
  <2>1. Head(main) \in Block /\ Head(main).vc \in Screens
    BY <1>1, <1>3, BlockShape DEF AtHead
  <2> QED BY <1>1, <1>3, <2>1, UpsertGrows
<1>4. ASSUME AtHead("diff"), NEW I \in SUBSET ToDelete(Head(main).rows, loaded[Head(main).vc]),
             stored' = Without(stored, I)
      PROVE  i \in ToDelete(Head(main).rows, loaded[Head(main).vc])
  BY <1>4 DEF Without
<1>5. CASE RunDiff
  <2>1. AtHead("diff") /\ DeletesRows
    BY <1>2, <1>5 DEF RunDiff, ChainStops
  <2>2. \E I \in SUBSET ToDelete(Head(main).rows, loaded[Head(main).vc]) :
          stored' = Without(stored, I)
    BY <2>1 DEF DeletesRows
  <2> QED BY <1>4, <2>1, <2>2 DEF ToDelete
<1>6. CASE RunDeleted
  BY <1>2, <1>3, <1>6 DEF RunDeleted, ChainStops
<1>7. CASE Kill
  <2>1. \/ AtHead("diff") /\ \E I \in SUBSET ToDelete(Head(main).rows, loaded[Head(main).vc]) :
                               stored' = Without(stored, I)
        \/ AtHead("deleted") /\ \E rest \in SUBSET Ids :
                                  stored' = Upsert(stored, loaded[Head(main).vc], rest)
    BY <1>2, <1>7 DEF Kill
  <2> QED BY <1>3, <1>4, <2>1 DEF ToDelete
<1> QED
  BY <1>2, <1>5, <1>6, <1>7
  DEF Next, MainStep, Open, Close, NoAnswer, Answer, RunShow, RunSaved, Notifies, RunUpdate,
      Restart, vars

\* Whatever overlaps, fails or is killed, the file loses a row only to a refresh that had
\* loaded the row and was answered without it.
THEOREM RowsLeaveAsAsked == Spec => RowsLeaveOnlyAsked
<1>1. Typed /\ [Next]_vars =>
        [\A i \in Ids : stored[i] # Absent /\ stored'[i] = Absent =>
           /\ AtHead("diff")
           /\ Head(main).rows[i] # Absent
           /\ loaded[Head(main).vc][i] = Absent]_vars
  BY LeavingStep
<1> QED BY <1>1, TypedInvariant, PTL DEF Spec, RowsLeaveOnlyAsked

(***************************************************************************)
(* Refreshes that overlap no other.                                        *)
(***************************************************************************)
Windowed(b) == b.op \in {"diff", "deleted"}

\* The refreshes with the file open in q are c's alone.
Alone(q, c) == \A m \in DOMAIN q : Windowed(q[m]) => q[m].vc = c

\* What a block of a refresh that overlaps no other knows of the file.
Knows(b, rows, answers) ==
  /\ b.op = "diff" => b.rows = rows
  /\ b.op = "deleted" => \A i \in Ids : answers[b.vc][i] = Absent => rows[i] = Absent

WindowIn(q, rows, answers, lapped) ==
  \A k \in DOMAIN q : Windowed(q[k]) /\ q[k].vc \notin lapped =>
    Alone(q, q[k].vc) /\ Knows(q[k], rows, answers)

\* A refresh that overlaps no other is alone with the file, which is as it left it; and
\* once the last one answered has saved, the file is its answer.
WindowInv ==
  app = "running" =>
    /\ WindowIn(main, stored, loaded, overlapped)
    /\ latest # None /\ latest \notin overlapped =>
         /\ Alone(main, latest)
         /\ Holds(main, "saved", latest) \/ chain[latest] = "notified" => stored = loaded[latest]

LEMMA AloneTail ==
  ASSUME NEW q \in Seq(Block), q # <<>>, NEW c, Alone(q, c)
  PROVE  Alone(Tail(q), c)
<1>1. \A k \in DOMAIN Tail(q) : k + 1 \in DOMAIN q /\ Tail(q)[k] = q[k + 1]
  OBVIOUS
<1> QED BY <1>1 DEF Alone

LEMMA AloneAppend ==
  ASSUME NEW q \in Seq(Block), NEW b \in Block, NEW c, Alone(q, c), Windowed(b) => b.vc = c
  PROVE  Alone(Append(q, b), c)
<1>1. \A j \in DOMAIN Append(q, b) :
        (j \in DOMAIN q /\ Append(q, b)[j] = q[j]) \/ Append(q, b)[j] = b
  OBVIOUS
<1> QED BY <1>1 DEF Alone

LEMMA WindowTail ==
  ASSUME NEW q \in Seq(Block), q # <<>>, NEW rows, NEW answers, NEW lapped,
         WindowIn(q, rows, answers, lapped)
  PROVE  WindowIn(Tail(q), rows, answers, lapped)
<1>1. \A k \in DOMAIN Tail(q) : k + 1 \in DOMAIN q /\ Tail(q)[k] = q[k + 1]
  OBVIOUS
<1> QED BY <1>1, AloneTail DEF WindowIn

LEMMA WindowAppend ==
  ASSUME NEW q \in Seq(Block), NEW b \in Block, NEW rows, NEW answers, NEW lapped,
         WindowIn(q, rows, answers, lapped), ~Windowed(b)
  PROVE  WindowIn(Append(q, b), rows, answers, lapped)
<1>1. \A j \in DOMAIN Append(q, b) :
        (j \in DOMAIN q /\ Append(q, b)[j] = q[j]) \/ Append(q, b)[j] = b
  OBVIOUS
<1>2. \A c : Alone(q, c) => Alone(Append(q, b), c)
  BY AloneAppend
<1> HIDE DEF WindowIn
<1> QED BY <1>1, <1>2 DEF WindowIn

\* The head of the queue excludes every other block with the file open that overlaps none.
LEMMA HeadExcludes ==
  ASSUME Typed, StageInv, main # <<>>, Windowed(Head(main)),
         NEW k \in DOMAIN Tail(main), Windowed(Tail(main)[k])
  PROVE  /\ Tail(main)[k].vc # Head(main).vc
         /\ ~Alone(main, Tail(main)[k].vc)
         /\ ~Alone(main, Head(main).vc)
<1>1. Owned(Head(main)) /\ Head(main).op # "show" /\ Owned(Tail(main)[k])
  BY DEF Windowed, Owned
<1>2. NoneOf(Tail(main), Head(main).vc)
  BY <1>1, HeadStage
<1>3. Tail(main)[k].vc # Head(main).vc
  BY <1>1, <1>2 DEF NoneOf
<1>4. main \in Seq(Block)
  BY DEF Typed
<1>5. 1 \in DOMAIN main /\ main[1] = Head(main)
  BY <1>4
<1>6. k + 1 \in DOMAIN main /\ main[k + 1] = Tail(main)[k]
  BY <1>4
<1> QED BY <1>3, <1>5, <1>6 DEF Alone

LEMMA InitWindow == Init => WindowInv
BY DEF Init, WindowInv, WindowIn

\* Deleting what an up-to-date copy has and the answer lacks leaves no row the answer lacks.
LEMMA DeletesAll ==
  ASSUME NEW rows \in Rows, NEW ans \in Rows
  PROVE  \A i \in Ids : ans[i] = Absent => Without(rows, ToDelete(rows, ans))[i] = Absent
BY DEF Without, ToDelete, Rows

\* Saving an answer to a file without other rows leaves the answer.
LEMMA SavesExactly ==
  ASSUME NEW rows \in Rows, NEW ans \in Rows, \A i \in Ids : ans[i] = Absent => rows[i] = Absent
  PROVE  Upsert(rows, ans, {}) = ans
BY DEF Upsert, Rows

\* A step at the head that leaves file and answers alone.
LEMMA WindowQuiet ==
  ASSUME Typed, WindowInv, app = "running", app' = "running", stored' = stored,
         loaded' = loaded, latest' = latest, overlapped' = overlapped,
         NEW q \in Seq(Block), q = main \/ (main # <<>> /\ q = Tail(main)),
         \/ main' = q
         \/ \E b \in Block : main' = Append(q, b) /\ ~Windowed(b),
         latest # None /\ latest \notin overlapped =>
           (Holds(main', "saved", latest) \/ chain'[latest] = "notified" => stored = loaded[latest])
  PROVE  WindowInv'
<1>1. main \in Seq(Block)
  BY DEF Typed
<1>2. WindowIn(q, stored, loaded, overlapped)
  BY <1>1, WindowTail DEF WindowInv
<1>3. WindowIn(main', stored, loaded, overlapped)
  BY <1>2, WindowAppend
<1>4. latest # None /\ latest \notin overlapped => Alone(q, latest)
  BY <1>1, AloneTail DEF WindowInv
<1>5. latest # None /\ latest \notin overlapped => Alone(main', latest)
  BY <1>4, AloneAppend
<1> QED BY <1>3, <1>5 DEF WindowInv

LEMMA WindowStep ==
  ~WriteMayFail /\ ConstantsOK /\ Typed /\ StageInv /\ WindowInv /\ [Next]_vars => WindowInv'
<1> SUFFICES ASSUME ~WriteMayFail, ConstantsOK, Typed, StageInv, WindowInv, [Next]_vars
             PROVE  WindowInv'
  OBVIOUS
<1> USE DEF histories
<1>0. /\ main \in Seq(Block) /\ chain \in [Screens -> ChainStates]
      /\ stored \in Rows /\ loaded \in [Screens -> Rows]
      /\ latest \in Screens \cup {None} /\ overlapped \subseteq Screens
  BY DEF Typed
<1>1. ASSUME NEW s \in Screens, Open(s) PROVE WindowInv'
  <2> DEFINE b == [op |-> "show", vc |-> s, rows |-> stored]
  <2>1. b \in Block /\ ~Windowed(b) /\ b.op = "show"
    BY <1>0 DEF Block, ShowBlock, Windowed
  <2>2. main' = Append(main, b) \/ main' = main
    BY <1>1 DEF Open
  <2>3. latest # None => (Holds(main', "saved", latest) <=> Holds(main, "saved", latest))
    <3>1. CASE main' = main
      BY <3>1
    <3>2. CASE main' = Append(main, b)
      <4> HIDE DEF b
      <4> QED BY <1>0, <2>1, <3>2, HoldsAppend
    <3> QED BY <2>2, <3>1, <3>2
  <2>4. latest # None => (chain'[latest] = "notified" => chain[latest] = "notified")
    BY <1>0, <1>1 DEF Open, ShowAndRefresh
  <2>5. /\ app = "running" /\ app' = "running" /\ stored' = stored /\ loaded' = loaded
        /\ latest' = latest /\ overlapped' = overlapped
    BY <1>1 DEF Open
  <2>6. \/ main' = main
        \/ \E bb \in Block : main' = Append(main, bb) /\ ~Windowed(bb)
    BY <2>1, <2>2
  <2>7. latest # None /\ latest \notin overlapped =>
          (Holds(main', "saved", latest) \/ chain'[latest] = "notified" => stored = loaded[latest])
    BY <2>3, <2>4, <2>5 DEF WindowInv
  <2> QED BY <1>0, <2>5, <2>6, <2>7, WindowQuiet
<1>2. ASSUME NEW s \in Screens, Close(s) PROVE WindowInv'
  BY <1>2 DEF Close, WindowInv, WindowIn, Alone, Knows, Holds
<1>3. ASSUME NEW c \in Screens, NoAnswer(c) PROVE WindowInv'
  <2>1. latest # None => (chain'[latest] = "notified" => chain[latest] = "notified")
    BY <1>0, <1>3 DEF NoAnswer
  <2> QED BY <1>3, <2>1 DEF NoAnswer, WindowInv, WindowIn, Alone, Knows, Holds
<1>4. ASSUME NEW c \in Screens, Answer(c) PROVE WindowInv'
  <2> SUFFICES ASSUME app' = "running" PROVE WindowInv'
    BY DEF WindowInv
  <2> DEFINE b == CompareBlock(c)
  <2>1. b \in Block /\ b.op = "diff" /\ b.vc = c /\ b.rows = stored
    BY <1>0 DEF Block, DiffBlock, CompareBlock
  <2>2. /\ chain[c] = "requested" /\ chain' = [chain EXCEPT ![c] = "comparing"]
        /\ main' = Append(main, b) /\ stored' = stored /\ latest' = c
        /\ overlapped' = IF InWindow = {} THEN overlapped ELSE overlapped \cup InWindow \cup {c}
        /\ \E a \in Rows : loaded' = [loaded EXCEPT ![c] = a]
    BY <1>4 DEF Answer
  <2>3. \A j \in DOMAIN main' : (j \in DOMAIN main /\ main'[j] = main[j]) \/ main'[j] = b
    <3> HIDE DEF b
    <3> QED BY <1>0, <2>1, <2>2
  <2>4. \A j \in DOMAIN main : Windowed(main[j]) => main[j].vc \in InWindow
    <3>1. \A j \in DOMAIN main : main[j] \in Block
      BY <1>0
    <3> QED BY <3>1, BlockShape DEF InWindow, Windowed
  <2>5. CASE InWindow # {}
    <3>1. \A j \in DOMAIN main' : Windowed(main'[j]) => main'[j].vc \in overlapped'
      BY <2>1, <2>2, <2>3, <2>4, <2>5
    <3>2. latest' \in overlapped'
      BY <2>2, <2>5
    <3> QED BY <3>1, <3>2 DEF WindowInv, WindowIn
  <2>6. CASE InWindow = {}
    <3>1. \A j \in DOMAIN main' : Windowed(main'[j]) => main'[j] = b
      BY <2>3, <2>4, <2>6
    <3>2. Alone(main', c)
      BY <2>1, <3>1 DEF Alone
    <3>3. Knows(b, stored', loaded')
      BY <2>1, <2>2 DEF Knows
    <3>4. WindowIn(main', stored', loaded', overlapped')
      BY <2>1, <3>1, <3>2, <3>3 DEF WindowIn
    <3>5. ~Holds(main', "saved", c)
      <4>1. NoneOf(main, c)
        BY <2>2, RequestedHasNone DEF StageInv
      <4>2. ~Holds(main, "saved", c)
        BY <4>1, NoneHolds
      <4> HIDE DEF b
      <4> QED BY <1>0, <2>1, <2>2, <4>2, HoldsAppend
    <3>6. chain'[c] # "notified"
      BY <1>0, <2>2
    <3> QED BY <2>2, <3>2, <3>4, <3>5, <3>6 DEF WindowInv
  <2> QED BY <2>5, <2>6
<1>5. ASSUME RunShow PROVE WindowInv'
  <2>1. /\ app = "running" /\ app' = "running" /\ main # <<>> /\ Head(main).op = "show"
        /\ main' = Tail(main) /\ chain' = [chain EXCEPT ![Head(main).vc] = "requested"]
        /\ stored' = stored /\ loaded' = loaded /\ latest' = latest /\ overlapped' = overlapped
    BY <1>5 DEF RunShow, AtHead, ShowAndRefresh
  <2>2. Holds(main', "saved", latest) <=> Holds(main, "saved", latest)
    BY <1>0, <2>1, HoldsTail
  <2>3. latest # None => (chain'[latest] = "notified" => chain[latest] = "notified")
    BY <1>0, <2>1
  <2>4. Tail(main) \in Seq(Block)
    BY <1>0, <2>1
  <2> QED BY <2>1, <2>2, <2>3, <2>4, WindowQuiet DEF WindowInv
\* A storage call that stops.
<1>6. ASSUME app = "running", main # <<>>, Windowed(Head(main)), ChainStops(Head(main).vc),
             loaded' = loaded, latest' = latest, overlapped' = overlapped
      PROVE  WindowInv'
  <2>1. /\ app' = "running" /\ stored' = stored /\ main' = Tail(main)
        /\ chain' = [chain EXCEPT ![Head(main).vc] = "halted"]
    BY <1>6 DEF ChainStops
  <2>2. Holds(main', "saved", latest) => Holds(main, "saved", latest)
    <3>1. Head(main).op # "saved"
      BY <1>6 DEF Windowed
    <3> QED BY <1>0, <1>6, <2>1, <3>1, HoldsTail
  <2>3. latest # None => (chain'[latest] = "notified" => chain[latest] = "notified")
    BY <1>0, <2>1
  <2>4. Tail(main) \in Seq(Block)
    BY <1>0, <1>6
  <2> QED BY <1>6, <2>1, <2>2, <2>3, <2>4, WindowQuiet DEF WindowInv
<1>7. ASSUME RunDiff PROVE WindowInv'
  <2> DEFINE c == Head(main).vc
  <2> DEFINE b == [op |-> "deleted", vc |-> c]
  <2>1. /\ app = "running" /\ main # <<>> /\ Head(main).op = "diff"
        /\ loaded' = loaded /\ latest' = latest /\ overlapped' = overlapped
    BY <1>7 DEF RunDiff, AtHead
  <2>2. Windowed(Head(main)) /\ Owned(Head(main))
    BY <2>1 DEF Windowed, Owned
  <2>3. /\ c \in Screens /\ chain[c] = "comparing"
        /\ NoneOf(Tail(main), c) /\ Tail(main) \in Seq(Block)
    BY <1>0, <2>1, <2>2, HeadStage
  <2>4. CASE ChainStops(c)
    BY <2>1, <2>2, <2>4, <1>6
  <2>5. CASE DeletesRows
    <3> SUFFICES ASSUME app' = "running" PROVE WindowInv'
      BY DEF WindowInv
    <3>1. /\ stored' = Without(stored, ToDelete(Head(main).rows, loaded[c]))
          /\ main' = Append(Tail(main), b) /\ chain' = chain
      BY <2>5 DEF DeletesRows, Failures
    <3>2. b \in Block /\ b.op = "deleted" /\ b.vc = c
      BY <2>3 DEF Block, ChainBlock
    <3>3. \A j \in DOMAIN main' :
            (j \in DOMAIN Tail(main) /\ main'[j] = Tail(main)[j]) \/ main'[j] = b
      <4> HIDE DEF b
      <4> QED BY <2>3, <3>1, <3>2
    <3>4. 1 \in DOMAIN main /\ main[1] = Head(main)
      BY <1>0, <2>1
    <3>5. \A j \in DOMAIN Tail(main) : /\ j + 1 \in DOMAIN main
                                       /\ main[j + 1] = Tail(main)[j]
      BY <1>0, <2>1
    <3>6. \A j \in DOMAIN Tail(main) : Windowed(Tail(main)[j]) => Tail(main)[j].vc \in overlapped
      BY <2>1, <2>2, <3>5, HeadExcludes DEF WindowInv, WindowIn
    <3>7. ASSUME c \notin overlapped PROVE Alone(main', c) /\ Knows(b, stored', loaded')
      <4>1. Alone(main, c) /\ Head(main).rows = stored
        BY <2>1, <2>2, <3>4, <3>7 DEF WindowInv, WindowIn, Knows
      <4>2. Alone(main', c)
        BY <1>0, <2>1, <2>3, <3>1, <3>2, <4>1, AloneTail, AloneAppend
      <4>3. Knows(b, stored', loaded')
        BY <1>0, <2>1, <2>3, <3>1, <3>2, <4>1, DeletesAll DEF Knows
      <4> QED BY <4>2, <4>3
    <3>8. WindowIn(main', stored', loaded', overlapped')
      BY <2>1, <3>2, <3>3, <3>6, <3>7 DEF WindowIn
    <3>9. ASSUME latest # None, latest \notin overlapped
          PROVE  /\ Alone(main', latest) /\ latest = c
                 /\ ~Holds(main', "saved", latest) /\ chain'[latest] # "notified"
      <4>1. latest = c
        BY <2>1, <2>2, <3>4, <3>9 DEF WindowInv, Alone
      <4>2. ~Holds(Tail(main), "saved", c)
        BY <2>3, NoneHolds
      <4>3. ~Holds(main', "saved", c)
        <5> HIDE DEF b
        <5> QED BY <2>3, <3>1, <3>2, <4>2, HoldsAppend
      <4> QED BY <2>3, <3>1, <3>7, <3>9, <4>1, <4>3
    <3> QED BY <2>1, <3>8, <3>9 DEF WindowInv
  <2> QED BY <1>7, <2>4, <2>5 DEF RunDiff
<1>8. ASSUME RunDeleted PROVE WindowInv'
  <2> DEFINE c == Head(main).vc
  <2> DEFINE b == [op |-> "saved", vc |-> c]
  <2>1. /\ app = "running" /\ main # <<>> /\ Head(main).op = "deleted"
        /\ loaded' = loaded /\ latest' = latest /\ overlapped' = overlapped
    BY <1>8 DEF RunDeleted, AtHead
  <2>2. Windowed(Head(main)) /\ Owned(Head(main))
    BY <2>1 DEF Windowed, Owned
  <2>3. c \in Screens /\ Tail(main) \in Seq(Block)
    BY <1>0, <2>1, <2>2, HeadStage
  <2>4. CASE ChainStops(c)
    BY <2>1, <2>2, <2>4, <1>6
  <2>5. CASE ~ChainStops(c)
    <3>1. stored' = Upsert(stored, loaded[c], {}) /\ main' = Append(Tail(main), b) /\ chain' = chain
      BY <1>8, <2>5 DEF RunDeleted, Failures
    <3>2. b \in Block /\ ~Windowed(b)
      BY <2>3 DEF Block, ChainBlock, Windowed
    <3>3. \A j \in DOMAIN main' :
            (j \in DOMAIN Tail(main) /\ main'[j] = Tail(main)[j]) \/ main'[j] = b
      <4> HIDE DEF b
      <4> QED BY <2>3, <3>1, <3>2
    <3>4. 1 \in DOMAIN main /\ main[1] = Head(main)
      BY <1>0, <2>1
    <3>5. \A j \in DOMAIN Tail(main) : /\ j + 1 \in DOMAIN main
                                       /\ main[j + 1] = Tail(main)[j]
      BY <1>0, <2>1
    <3>6. \A j \in DOMAIN Tail(main) : Windowed(Tail(main)[j]) => Tail(main)[j].vc \in overlapped
      BY <2>1, <2>2, <3>5, HeadExcludes DEF WindowInv, WindowIn
    <3>7. WindowIn(main', stored', loaded', overlapped')
      BY <2>1, <3>2, <3>3, <3>6 DEF WindowIn
    <3>8. ASSUME latest # None, latest \notin overlapped
          PROVE  Alone(main', latest) /\ stored' = loaded[latest]
      <4>1. latest = c /\ Alone(main, c)
        BY <2>1, <2>2, <3>4, <3>8 DEF WindowInv, Alone
      <4>2. Knows(Head(main), stored, loaded)
        BY <2>1, <2>2, <3>4, <3>8, <4>1 DEF WindowInv, WindowIn
      <4>3. Alone(main', c)
        BY <1>0, <2>1, <2>3, <3>1, <3>2, <4>1, AloneTail, AloneAppend
      <4>4. stored' = loaded[c]
        BY <1>0, <2>1, <2>3, <3>1, <4>2, SavesExactly DEF Knows
      <4> QED BY <4>1, <4>3, <4>4
    <3> QED BY <2>1, <3>7, <3>8 DEF WindowInv
  <2> QED BY <2>4, <2>5
<1>9. ASSUME RunSaved PROVE WindowInv'
  <2> DEFINE c == Head(main).vc
  <2>1. /\ app = "running" /\ app' = "running" /\ main # <<>> /\ Head(main).op = "saved"
        /\ stored' = stored /\ loaded' = loaded /\ latest' = latest /\ overlapped' = overlapped
        /\ chain' = [chain EXCEPT ![c] = "notified"]
    BY <1>9 DEF RunSaved, Notifies, AtHead
  <2>2. Owned(Head(main)) /\ Tail(main) \in Seq(Block)
    BY <1>0, <2>1 DEF Owned
  <2>3. c \in Screens /\ Holds(main, "saved", c) /\ NoneOf(Tail(main), c)
    BY <2>1, <2>2, HeadStage
  <2>4. \/ main' = Tail(main)
        \/ \E bb \in Block : /\ main' = Append(Tail(main), bb) /\ ~Windowed(bb) /\ bb.op = "update"
    <3>1. \A S \in SUBSET Screens :
            /\ [op |-> "update", vcs |-> S, rows |-> stored] \in Block
            /\ ~Windowed([op |-> "update", vcs |-> S, rows |-> stored])
      BY <1>0 DEF Block, UpdateBlock, Windowed
    <3>2. \/ main' = Tail(main)
          \/ \E S \in SUBSET Screens :
               main' = Append(Tail(main), [op |-> "update", vcs |-> S, rows |-> stored])
      BY <1>9 DEF RunSaved, Notifies, Observers, OpenScreens
    <3> QED BY <3>1, <3>2
  <2>5. ASSUME latest # None, latest \notin overlapped,
               Holds(main', "saved", latest) \/ chain'[latest] = "notified"
        PROVE  stored = loaded[latest]
    <3>1. CASE latest = c
      BY <2>1, <2>3, <2>5, <3>1 DEF WindowInv
    <3>2. CASE latest # c
      <4>1. chain'[latest] = chain[latest]
        BY <1>0, <2>1, <2>5, <3>2
      <4>2. Holds(Tail(main), "saved", latest) => Holds(main, "saved", latest)
        BY <1>0, <2>1, <3>2, HoldsTail
      <4>3. Holds(main', "saved", latest) => Holds(Tail(main), "saved", latest)
        <5>1. ASSUME NEW bb \in Block, main' = Append(Tail(main), bb), bb.op = "update"
              PROVE  Holds(main', "saved", latest) => Holds(Tail(main), "saved", latest)
          BY <2>2, <5>1, HoldsAppend
        <5> QED BY <2>4, <5>1
      <4> QED BY <2>1, <2>5, <4>1, <4>2, <4>3 DEF WindowInv
    <3> QED BY <3>1, <3>2
  <2> QED BY <2>1, <2>2, <2>4, <2>5, WindowQuiet
<1>10. ASSUME RunUpdate PROVE WindowInv'
  <2>1. /\ app = "running" /\ app' = "running" /\ main # <<>> /\ Head(main).op = "update"
        /\ main' = Tail(main) /\ chain' = chain
        /\ stored' = stored /\ loaded' = loaded /\ latest' = latest /\ overlapped' = overlapped
    BY <1>10 DEF RunUpdate, AtHead
  <2>2. Holds(main', "saved", latest) <=> Holds(main, "saved", latest)
    BY <1>0, <2>1, HoldsTail
  <2>3. Tail(main) \in Seq(Block)
    BY <1>0, <2>1
  <2> QED BY <2>1, <2>2, <2>3, WindowQuiet DEF WindowInv
<1>11. ASSUME Kill PROVE WindowInv'
  BY <1>11 DEF Kill, WindowInv
<1>12. ASSUME Restart PROVE WindowInv'
  BY <1>12 DEF Restart, WindowInv, WindowIn
<1>13. CASE UNCHANGED vars
  BY <1>13 DEF vars, WindowInv, WindowIn, Alone, Knows, Holds
<1> QED
  BY <1>1, <1>2, <1>3, <1>4, <1>5, <1>7, <1>8, <1>9, <1>10, <1>11, <1>12, <1>13
  DEF Next, MainStep

LEMMA WindowInvariant ==
  ASSUME ~WriteMayFail
  PROVE  Spec => [](Typed /\ StageInv /\ WindowInv)
<1>1. Typed /\ StageInv /\ WindowInv /\ [Next]_vars => (Typed /\ StageInv /\ WindowInv)'
  BY ConstantsOK, TypedStep, StageInvStep, WindowStep
<1> QED BY <1>1, InitTyped, InitStageInv, InitWindow, PTL DEF Spec

LEMMA ExactStep ==
  ASSUME ~WriteMayFail, Typed, StageInv, WindowInv, RunDeleted, Len(main') = Len(main),
         Head(main).vc \notin overlapped
  PROVE  stored' = loaded[Head(main).vc]
<1> DEFINE c == Head(main).vc
<1>1. /\ app = "running" /\ main # <<>> /\ Head(main).op = "deleted" /\ main \in Seq(Block)
      /\ stored \in Rows /\ loaded \in [Screens -> Rows]
  BY DEF RunDeleted, AtHead, Typed
<1>2. Windowed(Head(main)) /\ Owned(Head(main)) /\ 1 \in DOMAIN main /\ main[1] = Head(main)
  BY <1>1 DEF Windowed, Owned
<1>3. c \in Screens
  BY <1>1, <1>2, HeadStage
<1>4. Knows(Head(main), stored, loaded)
  BY <1>1, <1>2 DEF WindowInv, WindowIn
<1>5. Len(Tail(main)) # Len(main)
  BY <1>1
<1>6. stored' = Upsert(stored, loaded[c], {})
  BY <1>5 DEF RunDeleted, ChainStops, Failures
<1> QED BY <1>1, <1>3, <1>4, <1>6, SavesExactly DEF Knows

\* When no single write throws, a refresh that overlapped no other leaves exactly its
\* answer in the file, whatever was left there before.
THEOREM LoneRefreshIsExact == ASSUME ~WriteMayFail PROVE Spec => ExactUnlessOverlapped
<1>1. Typed /\ StageInv /\ WindowInv /\ [Next]_vars =>
        [RunDeleted /\ Len(main') = Len(main) /\ Head(main).vc \notin overlapped
           => stored' = loaded[Head(main).vc]]_vars
  BY ExactStep
<1> QED BY <1>1, WindowInvariant, PTL DEF Spec, ExactUnlessOverlapped

(***************************************************************************)
(* The list of the screen on show.                                         *)
(***************************************************************************)
\* The block gives the list of s a value, and that value is these rows or another.
Sets(b, s) == (b.op = "show" /\ b.vc = s) \/ (b.op = "update" /\ s \in b.vcs)
Stale(b, s, rows) == Sets(b, s) /\ b.rows # rows
\* The block, or the notification it leads to, gives the list of s these rows.
Mends(b, s, rows) == b.op \in {"deleted", "saved"} \/ (Sets(b, s) /\ b.rows = rows)

\* A list with other rows than the file, now or by a block to come, is mended later.
Fresh(q, s, shown, rows) ==
  /\ shown = rows \/ \E k \in DOMAIN q : Mends(q[k], s, rows)
  /\ \A k \in DOMAIN q : Stale(q[k], s, rows) =>
       \E m \in DOMAIN q : m > k /\ Mends(q[m], s, rows)

QuietInv == app = "running" => \A s \in OpenScreens : Fresh(main, s, list[s], stored)

LEMMA FreshAppend ==
  ASSUME NEW q \in Seq(Block), NEW b \in Block, NEW s, NEW shown, NEW rows,
         Fresh(q, s, shown, rows), ~Stale(b, s, rows)
  PROVE  Fresh(Append(q, b), s, shown, rows)
<1> DEFINE r == Append(q, b)
<1>1. \A k \in DOMAIN r : (k \in DOMAIN q /\ r[k] = q[k]) \/ r[k] = b
  OBVIOUS
<1>2. \A k \in DOMAIN q : k \in DOMAIN r /\ r[k] = q[k]
  OBVIOUS
<1> HIDE DEF r
<1> QED BY <1>1, <1>2 DEF Fresh

LEMMA FreshByMending ==
  ASSUME NEW q \in Seq(Block), NEW b \in Block, NEW s, NEW shown, NEW rows, Mends(b, s, rows)
  PROVE  Fresh(Append(q, b), s, shown, rows)
<1> DEFINE r == Append(q, b)
<1>1. Len(q) + 1 \in DOMAIN r /\ r[Len(q) + 1] = b
  OBVIOUS
<1>2. \A k \in DOMAIN r : k < Len(q) + 1 \/ r[k] = b
  OBVIOUS
<1> HIDE DEF r
<1>3. ~Stale(b, s, rows) \/ b.op \in {"deleted", "saved"}
  BY DEF Mends, Stale
<1>4. ~Stale(b, s, rows)
  BY <1>3 DEF Stale, Sets
<1> QED BY <1>1, <1>2, <1>4 DEF Fresh

\* Taking the head keeps it so, if a head that mends the list has done so by then.
LEMMA FreshTail ==
  ASSUME NEW q \in Seq(Block), q # <<>>, NEW s, NEW shown, NEW now, NEW rows,
         Fresh(q, s, shown, rows),
         Head(q).op \notin {"deleted", "saved"},
         now = IF Sets(Head(q), s) THEN Head(q).rows ELSE shown
  PROVE  Fresh(Tail(q), s, now, rows)
<1>1. \A k \in DOMAIN Tail(q) : k + 1 \in DOMAIN q /\ Tail(q)[k] = q[k + 1] /\ k \in Nat
  OBVIOUS
<1>2. \A k \in DOMAIN q : k = 1 \/ (k - 1 \in DOMAIN Tail(q) /\ Tail(q)[k - 1] = q[k])
  OBVIOUS
<1>3. Head(q) = q[1] /\ 1 \in DOMAIN q /\ \A k \in DOMAIN q : k \in Nat \ {0}
  OBVIOUS
<1>4. \A k \in DOMAIN Tail(q) : Stale(Tail(q)[k], s, rows) =>
        \E m \in DOMAIN Tail(q) : m > k /\ Mends(Tail(q)[m], s, rows)
  <2> SUFFICES ASSUME NEW k \in DOMAIN Tail(q), Stale(Tail(q)[k], s, rows)
               PROVE  \E m \in DOMAIN Tail(q) : m > k /\ Mends(Tail(q)[m], s, rows)
    OBVIOUS
  <2>1. PICK m \in DOMAIN q : m > k + 1 /\ Mends(q[m], s, rows)
    BY <1>1 DEF Fresh
  <2>2. m - 1 \in DOMAIN Tail(q) /\ Tail(q)[m - 1] = q[m] /\ m - 1 > k
    BY <1>1, <1>2, <1>3, <2>1
  <2> QED BY <2>1, <2>2
<1>5. now = rows \/ \E k \in DOMAIN Tail(q) : Mends(Tail(q)[k], s, rows)
  <2>1. CASE Stale(Head(q), s, rows)
    <3>1. PICK m \in DOMAIN q : m > 1 /\ Mends(q[m], s, rows)
      BY <1>3, <2>1 DEF Fresh
    <3>2. m - 1 \in DOMAIN Tail(q) /\ Tail(q)[m - 1] = q[m]
      BY <1>2, <1>3, <3>1
    <3> QED BY <3>1, <3>2
  <2>2. CASE Sets(Head(q), s) /\ Head(q).rows = rows
    BY <2>2
  <2>3. CASE ~Sets(Head(q), s)
    <3>1. ~Mends(q[1], s, rows)
      BY <1>3, <2>3 DEF Mends
    <3> QED BY <1>2, <2>3, <3>1 DEF Fresh
  <2> QED BY <2>1, <2>2, <2>3 DEF Stale
<1> QED BY <1>4, <1>5 DEF Fresh

LEMMA QuietStep ==
  ASSUME ConstantsOK, ~RealmMayFail, Typed, QuietInv, [Next]_vars
  PROVE  QuietInv'
<1> SUFFICES ASSUME app' = "running" PROVE QuietInv'
  BY DEF QuietInv
<1>0. /\ main \in Seq(Block) /\ stored \in Rows /\ list \in [Screens -> Rows]
      /\ phase \in [Screens -> {"new", "open", "closed"}] /\ loaded \in [Screens -> Rows]
  BY DEF Typed
<1>1. ASSUME NEW s \in Screens, Open(s) PROVE QuietInv'
  <2> DEFINE b == [op |-> "show", vc |-> s, rows |-> stored]
  <2>1. main' = Append(main, b) /\ stored' = stored /\ OpenScreens = {}
        /\ phase' = [phase EXCEPT ![s] = "open"]
    BY <1>1 DEF Open
  <2>2. \A r \in OpenScreens' : r = s
    BY <1>0, <2>1 DEF OpenScreens
  <2>3. b \in Block /\ Mends(b, s, stored)
    BY <1>0 DEF Block, ShowBlock, Mends, Sets
  <2>4. Fresh(main', s, list'[s], stored')
    <3> HIDE DEF b
    <3> QED BY <1>0, <2>1, <2>3, FreshByMending
  <2> QED BY <2>2, <2>4 DEF QuietInv
<1>2. ASSUME NEW s \in Screens, Close(s) PROVE QuietInv'
  <2>1. OpenScreens' \subseteq OpenScreens
    BY <1>0, <1>2 DEF Close, OpenScreens
  <2> QED BY <1>2, <2>1 DEF Close, QuietInv
<1>3. ASSUME NEW c \in Screens, NoAnswer(c) PROVE QuietInv'
  BY <1>3 DEF NoAnswer, QuietInv, OpenScreens
<1>4. ASSUME NEW c \in Screens, Answer(c) PROVE QuietInv'
  <2> DEFINE b == CompareBlock(c)
  <2>1. app = "running" /\ main' = Append(main, b) /\ UNCHANGED <<stored, phase, list>>
    BY <1>4 DEF Answer
  <2>2. b \in Block /\ b.op = "diff"
    BY <1>0 DEF Block, DiffBlock, CompareBlock
  <2>3. ASSUME NEW s \in OpenScreens PROVE Fresh(main', s, list[s], stored)
    <3>1. ~Stale(b, s, stored)
      BY <2>2 DEF Stale, Sets
    <3>2. Fresh(main, s, list[s], stored)
      BY <2>1 DEF QuietInv
    <3> HIDE DEF b
    <3> QED BY <1>0, <2>1, <2>2, <3>1, <3>2, FreshAppend
  <2> QED BY <2>1, <2>3 DEF QuietInv, OpenScreens
\* A block that shows rows.
<1>5. ASSUME app = "running", main # <<>>, Head(main).op \in {"show", "update"},
             main' = Tail(main), stored' = stored, phase' = phase,
             \A s \in Screens :
               list'[s] = IF Sets(Head(main), s) THEN Head(main).rows ELSE list[s]
      PROVE  QuietInv'
  <2> SUFFICES ASSUME NEW s \in OpenScreens PROVE Fresh(Tail(main), s, list'[s], stored)
    BY <1>5 DEF QuietInv, OpenScreens
  <2>1. Fresh(main, s, list[s], stored) /\ s \in Screens
    BY <1>5 DEF QuietInv, OpenScreens
  <2>2. list'[s] = IF Sets(Head(main), s) THEN Head(main).rows ELSE list[s]
    BY <1>5, <2>1
  <2>3. Head(main).op \notin {"deleted", "saved"}
    BY <1>5
  <2> QED BY <1>0, <1>5, <2>1, <2>2, <2>3, FreshTail
<1>6. CASE RunShow
  <2>1. /\ app = "running" /\ main # <<>> /\ Head(main).op = "show"
        /\ main' = Tail(main) /\ stored' = stored /\ phase' = phase
        /\ list' = [list EXCEPT ![Head(main).vc] = Head(main).rows]
    BY <1>6 DEF RunShow, AtHead, ShowAndRefresh
  <2>2. \A s \in Screens : list'[s] = IF Sets(Head(main), s) THEN Head(main).rows ELSE list[s]
    BY <1>0, <2>1 DEF Sets
  <2> QED BY <1>5, <2>1, <2>2
<1>7. CASE RunUpdate
  <2>1. /\ app = "running" /\ main # <<>> /\ Head(main).op = "update"
        /\ main' = Tail(main) /\ stored' = stored /\ phase' = phase
        /\ list' = [s \in Screens |-> IF s \in Head(main).vcs THEN Head(main).rows ELSE list[s]]
    BY <1>7 DEF RunUpdate, AtHead
  <2>2. \A s \in Screens : list'[s] = IF Sets(Head(main), s) THEN Head(main).rows ELSE list[s]
    BY <2>1 DEF Sets
  <2> QED BY <1>5, <2>1, <2>2
\* A block after which every list on show is mended.
<1>8. ASSUME NEW b \in Block, main # <<>>, main' = Append(Tail(main), b),
             \A s \in OpenScreens' : Mends(b, s, stored')
      PROVE  QuietInv'
  <2>1. Tail(main) \in Seq(Block)
    BY <1>0, <1>8
  <2> QED BY <1>8, <2>1, FreshByMending DEF QuietInv
<1>9. CASE RunDiff
  <2> DEFINE b == [op |-> "deleted", vc |-> Head(main).vc]
  <2>1. app = "running" /\ main # <<>> /\ Head(main).op = "diff" /\ DeletesRows
    BY <1>9 DEF RunDiff, AtHead, ChainStops
  <2>2. main' = Append(Tail(main), b)
    BY <2>1 DEF DeletesRows
  <2>3. Head(main) \in Block
    BY <1>0, <2>1
  <2>4. b \in Block /\ b.op = "deleted"
    BY <2>1, <2>3, BlockShape DEF Block, ChainBlock
  <2> HIDE DEF b
  <2> QED BY <1>8, <2>1, <2>2, <2>4 DEF Mends
<1>10. CASE RunDeleted
  <2> DEFINE b == [op |-> "saved", vc |-> Head(main).vc]
  <2>1. main # <<>> /\ Head(main).op = "deleted" /\ main' = Append(Tail(main), b)
    BY <1>10 DEF RunDeleted, AtHead, ChainStops
  <2>2. Head(main) \in Block
    BY <1>0, <2>1
  <2>3. b \in Block /\ b.op = "saved"
    BY <2>1, <2>2, BlockShape DEF Block, ChainBlock
  <2> HIDE DEF b
  <2> QED BY <1>8, <2>1, <2>3 DEF Mends
<1>11. CASE RunSaved
  <2> DEFINE b == [op |-> "update", vcs |-> OpenScreens, rows |-> stored]
  <2>1. /\ main # <<>> /\ stored' = stored /\ phase' = phase
        /\ OpenScreens = {} \/ main' = Append(Tail(main), b)
    BY <1>11 DEF RunSaved, FailedLoads, Notifies, AtHead, Observers
  <2>2. b \in Block /\ \A s \in OpenScreens : Mends(b, s, stored)
    BY <1>0 DEF Block, UpdateBlock, Mends, Sets, OpenScreens
  <2>3. OpenScreens' = OpenScreens
    BY <2>1 DEF OpenScreens
  <2>4. CASE OpenScreens = {}
    BY <2>3, <2>4 DEF QuietInv
  <2>5. CASE main' = Append(Tail(main), b)
    <3> HIDE DEF b
    <3> QED BY <1>8, <2>1, <2>2, <2>3, <2>5
  <2> QED BY <2>1, <2>4, <2>5
<1>12. CASE Kill
  BY <1>12 DEF Kill
<1>13. CASE Restart
  <2>1. OpenScreens' = {}
    BY <1>0, <1>13 DEF Restart, OpenScreens
  <2> QED BY <2>1 DEF QuietInv
<1>14. CASE UNCHANGED vars
  BY <1>14 DEF vars, QuietInv, OpenScreens
<1> QED
  BY <1>1, <1>2, <1>3, <1>4, <1>6, <1>7, <1>9, <1>10, <1>11, <1>12, <1>13, <1>14
  DEF Next, MainStep

\* As long as the file opens, an empty main queue means that the screen on show holds
\* the rows of the file, however refreshes, logins and notifications were ordered.
THEOREM ListIsCurrent == ASSUME ~RealmMayFail PROVE Spec => []QuietListCurrent
<1>1. Init => QuietInv
  BY DEF Init, QuietInv, OpenScreens
<1>2. Typed /\ QuietInv /\ [Next]_vars => QuietInv'
  BY ConstantsOK, QuietStep
<1>3. QuietInv => QuietListCurrent
  BY DEF QuietInv, QuietListCurrent, Fresh
<1> QED BY <1>1, <1>2, <1>3, TypedInvariant, PTL DEF Spec

(***************************************************************************)
(* The list of the screen on show, when the file may not open.             *)
(***************************************************************************)
\* The rows answered away by a refresh that halted, or may yet halt after its deletions.
Halts(q, ch, answers) ==
  {i \in Ids : \E c \in Screens :
     (ch[c] = "halted" \/ Holds(q, "deleted", c)) /\ answers[c][i] = Absent}

\* These rows are those of the file, with some of H that it has no more, or none at all.
Near(shown, rows, H) ==
  shown = NoRows \/ \A i \in Ids : shown[i] # rows[i] => rows[i] = Absent /\ i \in H

\* A block behind the k-th shows s something else, or announces the file.
Outdated(q, k, s) == \E m \in DOMAIN q : m > k /\ (q[m].op = "saved" \/ Sets(q[m], s))

Told(q, s, shown, rows, H) ==
  /\ Near(shown, rows, H) \/ Outdated(q, 0, s)
  /\ \A k \in DOMAIN q : Sets(q[k], s) => Near(q[k].rows, rows, H) \/ Outdated(q, k, s)

HaltInv ==
  app = "running" => \A s \in Screens :
    /\ phase[s] = "new" => \A k \in DOMAIN main : ~Sets(main[k], s)
    /\ phase[s] = "open" => Told(main, s, list[s], stored, Halts(main, chain, loaded))

LEMMA NearStays ==
  ASSUME NEW rows, NEW more, NEW H, NEW G, H \subseteq G,
         \A i \in Ids : more[i] = rows[i] \/ (more[i] = Absent /\ i \in G)
  PROVE  \A shown : Near(shown, rows, H) => Near(shown, more, G)
BY DEF Near

LEMMA ToldStays ==
  ASSUME NEW q, NEW s, NEW shown, NEW rows, NEW more, NEW H, NEW G, H \subseteq G,
         \A i \in Ids : more[i] = rows[i] \/ (more[i] = Absent /\ i \in G),
         Told(q, s, shown, rows, H)
  PROVE  Told(q, s, shown, more, G)
BY NearStays DEF Told

LEMMA ToldAppend ==
  ASSUME NEW q \in Seq(Block), NEW b \in Block, NEW s, NEW shown, NEW rows, NEW H,
         Told(q, s, shown, rows, H), Sets(b, s) => Near(b.rows, rows, H)
  PROVE  Told(Append(q, b), s, shown, rows, H)
<1> DEFINE r == Append(q, b)
<1>1. \A k \in DOMAIN r : (k \in DOMAIN q /\ r[k] = q[k]) \/ r[k] = b
  OBVIOUS
<1>2. \A k \in DOMAIN q : k \in DOMAIN r /\ r[k] = q[k]
  OBVIOUS
<1> HIDE DEF r
<1>3. \A k : Outdated(q, k, s) => Outdated(r, k, s)
  BY <1>2 DEF Outdated
<1>4. Near(shown, rows, H) \/ Outdated(r, 0, s)
  BY <1>3 DEF Told
<1>5. \A k \in DOMAIN r : Sets(r[k], s) => Near(r[k].rows, rows, H) \/ Outdated(r, k, s)
  <2> SUFFICES ASSUME NEW k \in DOMAIN r, Sets(r[k], s)
               PROVE  Near(r[k].rows, rows, H) \/ Outdated(r, k, s)
    OBVIOUS
  <2>1. CASE k \in DOMAIN q /\ r[k] = q[k]
    <3>1. Near(q[k].rows, rows, H) \/ Outdated(q, k, s)
      BY <2>1 DEF Told
    <3> QED BY <1>3, <2>1, <3>1
  <2>2. CASE r[k] = b
    BY <2>2
  <2> QED BY <1>1, <2>1, <2>2
<1>6. Told(r, s, shown, rows, H)
  BY <1>4, <1>5 DEF Told
<1> QED BY <1>6 DEF r

\* A block that announces the file, or shows it, leaves nothing else to be said.
LEMMA ToldByShowing ==
  ASSUME NEW q \in Seq(Block), NEW b \in Block, NEW s, NEW shown, NEW rows, NEW H,
         b.op = "saved" \/ (Sets(b, s) /\ b.rows = rows)
  PROVE  Told(Append(q, b), s, shown, rows, H)
<1> DEFINE r == Append(q, b)
<1>1. Len(q) + 1 \in DOMAIN r /\ r[Len(q) + 1] = b /\ Len(q) + 1 > 0
  OBVIOUS
<1>2. \A k \in DOMAIN r : Len(q) + 1 > k \/ r[k] = b
  OBVIOUS
<1> HIDE DEF r
<1>3. Sets(b, s) => Near(b.rows, rows, H)
  BY DEF Sets, Near
<1>4. \A k : Len(q) + 1 > k => Outdated(r, k, s)
  BY <1>1 DEF Outdated
<1>5. \A k \in DOMAIN r : Sets(r[k], s) => Near(r[k].rows, rows, H) \/ Outdated(r, k, s)
  <2> SUFFICES ASSUME NEW k \in DOMAIN r, Sets(r[k], s)
               PROVE  Near(r[k].rows, rows, H) \/ Outdated(r, k, s)
    OBVIOUS
  <2>1. CASE r[k] = b
    BY <1>3, <2>1
  <2>2. CASE Len(q) + 1 > k
    BY <1>4, <2>2
  <2> QED BY <1>2, <2>1, <2>2
<1>6. Told(r, s, shown, rows, H)
  BY <1>1, <1>4, <1>5 DEF Told
<1> QED BY <1>6 DEF r

LEMMA ToldTail ==
  ASSUME NEW q \in Seq(Block), q # <<>>, NEW s, NEW shown, NEW now, NEW rows, NEW H,
         Told(q, s, shown, rows, H),
         \/ Near(now, rows, H)
         \/ Head(q).op # "saved" /\ now = IF Sets(Head(q), s) THEN Head(q).rows ELSE shown
  PROVE  Told(Tail(q), s, now, rows, H)
<1>1. \A k \in DOMAIN Tail(q) : k + 1 \in DOMAIN q /\ Tail(q)[k] = q[k + 1] /\ k \in Nat \ {0}
  OBVIOUS
<1>2. \A k \in DOMAIN q : k = 1 \/ (k - 1 \in DOMAIN Tail(q) /\ Tail(q)[k - 1] = q[k])
  OBVIOUS
<1>3. Head(q) = q[1] /\ 1 \in DOMAIN q /\ \A k \in DOMAIN q : k \in Nat \ {0}
  OBVIOUS
<1>4. ASSUME NEW k \in Nat, Outdated(q, k + 1, s) PROVE Outdated(Tail(q), k, s)
  <2>1. PICK m \in DOMAIN q : m > k + 1 /\ (q[m].op = "saved" \/ Sets(q[m], s))
    BY <1>4 DEF Outdated
  <2>2. m - 1 \in DOMAIN Tail(q) /\ Tail(q)[m - 1] = q[m] /\ m - 1 > k
    BY <1>2, <1>3, <2>1
  <2> QED BY <2>1, <2>2 DEF Outdated
<1>5. \A k \in DOMAIN Tail(q) : Sets(Tail(q)[k], s) =>
        Near(Tail(q)[k].rows, rows, H) \/ Outdated(Tail(q), k, s)
  BY <1>1, <1>4 DEF Told
<1>6. Near(now, rows, H) \/ Outdated(Tail(q), 0, s)
  <2>1. CASE Near(now, rows, H)
    BY <2>1
  <2>2. CASE Sets(Head(q), s) /\ now = Head(q).rows
    <3>1. Near(now, rows, H) \/ Outdated(q, 0 + 1, s)
      BY <1>3, <2>2 DEF Told
    <3> QED BY <1>4, <3>1
  <2>3. CASE ~Sets(Head(q), s) /\ now = shown /\ Head(q).op # "saved"
    <3>1. Near(now, rows, H) \/ Outdated(q, 0, s)
      BY <2>3 DEF Told
    <3>2. Outdated(q, 0, s) => Outdated(q, 0 + 1, s)
      BY <1>3, <2>3 DEF Outdated
    <3> QED BY <1>4, <3>1, <3>2
  <2> QED BY <2>1, <2>2, <2>3
<1> QED BY <1>5, <1>6 DEF Told

LEMMA HaltStep ==
  ASSUME ConstantsOK, Typed, StageInv, HaltInv, [Next]_vars
  PROVE  HaltInv'
<1> SUFFICES ASSUME app' = "running" PROVE HaltInv'
  BY DEF HaltInv
<1> USE DEF histories
<1> DEFINE H == Halts(main, chain, loaded)
<1>0. /\ main \in Seq(Block) /\ chain \in [Screens -> ChainStates]
      /\ stored \in Rows /\ list \in [Screens -> Rows] /\ loaded \in [Screens -> Rows]
      /\ phase \in [Screens -> {"new", "open", "closed"}]
      /\ OneEach(main) /\ InStep(main, chain)
      /\ \A s \in Screens : phase[s] = "new" => chain[s] = "idle" /\ NoneOf(main, s)
  BY DEF Typed, StageInv
<1>h. ASSUME \A c \in Screens : chain[c] = "halted" \/ Holds(main, "deleted", c) =>
               (chain'[c] = "halted" \/ Holds(main', "deleted", c)) /\ loaded'[c] = loaded[c]
      PROVE  H \subseteq H'
  BY <1>h DEF Halts
\* What each screen must be told, and never shown one nothing.
<1>t. ASSUME NEW s \in Screens, app = "running", phase[s] = "open"
      PROVE  Told(main, s, list[s], stored, H)
  BY <1>t DEF HaltInv
<1>n. ASSUME NEW s \in Screens, app = "running", phase[s] = "new", NEW k \in DOMAIN main
      PROVE  ~Sets(main[k], s)
  BY <1>n DEF HaltInv
\* A step that takes the head and may add a block that shows nothing.
<1>a. ASSUME app = "running", main # <<>>, phase' = phase, NEW q, q = Tail(main),
             main' = q \/ \E b \in Block : main' = Append(q, b) /\ b.op \in {"deleted", "saved"},
             \A s \in Screens : phase[s] = "open" => Told(main', s, list'[s], stored', H')
      PROVE  HaltInv'
  <2>1. \A k \in DOMAIN q : k + 1 \in DOMAIN main /\ q[k] = main[k + 1]
    BY <1>0, <1>a
  <2>2. q \in Seq(Block)
    BY <1>0, <1>a
  <2>3. \A b \in Block : \A k \in DOMAIN Append(q, b) :
          (k \in DOMAIN q /\ Append(q, b)[k] = q[k]) \/ Append(q, b)[k] = b
    BY <2>2
  <2>4. \A k \in DOMAIN main' : main'[k] \in {main[m] : m \in DOMAIN main}
                               \/ main'[k].op \in {"deleted", "saved"}
    BY <1>a, <2>1, <2>3
  <2>5. \A s \in Screens : phase[s] = "new" => \A k \in DOMAIN main' : ~Sets(main'[k], s)
    BY <1>a, <1>n, <2>4 DEF Sets
  <2> QED BY <1>a, <2>5 DEF HaltInv
<1>1. ASSUME NEW s \in Screens, Open(s) PROVE HaltInv'
  <2> DEFINE b == [op |-> "show", vc |-> s, rows |-> stored]
  <2>1. /\ app = "running" /\ stored' = stored /\ loaded' = loaded
        /\ phase' = [phase EXCEPT ![s] = "open"] /\ phase[s] = "new" /\ OpenScreens = {}
        /\ \/ main' = Append(main, b) /\ list' = list /\ chain' = chain
           \/ main' = main /\ list' = [list EXCEPT ![s] = NoRows]
    BY <1>1 DEF Open, ShowAndRefresh
  <2>2. b \in Block /\ b.op = "show" /\ Sets(b, s) /\ \A t : t # s => ~Sets(b, t)
    BY <1>0 DEF Block, ShowBlock, Sets
  <2>3. \A k \in DOMAIN main : ~Sets(main[k], s)
    BY <1>n, <2>1
  <2>4. \A t \in Screens : phase'[t] # "new" => t = s \/ phase[t] = "closed"
    BY <1>0, <2>1 DEF OpenScreens
  <2>5. \A t \in Screens : phase'[t] = "new" => t # s /\ phase[t] = "new"
    BY <1>0, <2>1
  <2>6. CASE main' = Append(main, b)
    <3> HIDE DEF b
    <3>1. Told(main', s, list'[s], stored', H')
      <4> HIDE DEF H
      <4>1. b.rows = stored'
        BY <2>1 DEF b
      <4> QED BY <1>0, <2>2, <2>6, <4>1, ToldByShowing
    <3>2. \A k \in DOMAIN main' : main'[k] = b \/ main'[k] \in {main[m] : m \in DOMAIN main}
      BY <1>0, <2>2, <2>6
    <3>3. \A t \in Screens : phase'[t] = "new" => \A k \in DOMAIN main' : ~Sets(main'[k], t)
      BY <1>n, <2>1, <2>2, <2>5, <3>2
    <3>4. \A t \in Screens : phase'[t] = "open" => t = s
      BY <1>0, <2>1, <2>4
    <3> QED BY <3>1, <3>3, <3>4 DEF HaltInv
  <2>7. CASE main' = main /\ list' = [list EXCEPT ![s] = NoRows]
    <3>1. list'[s] = NoRows
      BY <1>0, <2>7
    <3>2. Told(main', s, list'[s], stored', H')
      BY <2>3, <2>7, <3>1 DEF Told, Near
    <3>3. \A t \in Screens : phase'[t] = "new" => \A k \in DOMAIN main' : ~Sets(main'[k], t)
      BY <1>n, <2>1, <2>5, <2>7
    <3>4. \A t \in Screens : phase'[t] = "open" => t = s
      BY <1>0, <2>1, <2>4
    <3> QED BY <3>2, <3>3, <3>4 DEF HaltInv
  <2> QED BY <2>1, <2>6, <2>7
<1>2. ASSUME NEW s \in Screens, Close(s) PROVE HaltInv'
  <2>1. \A t \in Screens : phase'[t] \in {"new", "open"} => phase'[t] = phase[t]
    BY <1>0, <1>2 DEF Close
  <2> QED BY <1>2, <2>1 DEF Close, HaltInv
<1>3. ASSUME NEW c \in Screens, NoAnswer(c) PROVE HaltInv'
  <2>1. chain[c] = "requested" /\ chain' = [chain EXCEPT ![c] = "lost"] /\ app = "running"
        /\ UNCHANGED <<stored, main, phase, list, loaded>>
    BY <1>3 DEF NoAnswer
  <2>2. \A d \in Screens : chain[d] = "halted" => chain'[d] = "halted"
    BY <1>0, <2>1
  <2>3. H \subseteq H'
    BY <1>h, <2>1, <2>2
  <2>4. \A s \in Screens : phase[s] = "open" => Told(main, s, list[s], stored, H')
    BY <1>t, <2>1, <2>3, ToldStays
  <2> QED BY <1>n, <2>1, <2>4 DEF HaltInv
<1>4. ASSUME NEW c \in Screens, Answer(c) PROVE HaltInv'
  <2> DEFINE b == CompareBlock(c)
  <2>1. /\ chain[c] = "requested" /\ chain' = [chain EXCEPT ![c] = "comparing"]
        /\ app = "running" /\ UNCHANGED <<stored, phase, list>>
        /\ \A d \in Screens : d # c => loaded'[d] = loaded[d]
        /\ main' = Append(main, b)
    BY <1>0, <1>4 DEF Answer
  <2>2. b \in Block /\ b.op = "diff" /\ b.vc = c
    BY <1>0 DEF Block, DiffBlock, CompareBlock
  <2>3. ~Holds(main, "deleted", c)
    BY <1>0, <2>1, NoneHolds, RequestedHasNone
  <2> HIDE DEF b
  <2>4. \A d \in Screens : Holds(main, "deleted", d) => Holds(main', "deleted", d)
    BY <1>0, <2>1, <2>2, HoldsAppend
  <2>5. \A d \in Screens : chain[d] = "halted" => chain'[d] = "halted" /\ d # c
    BY <1>0, <2>1
  <2>6. H \subseteq H'
    BY <1>h, <2>1, <2>3, <2>4, <2>5
  <2>7. \A s : ~Sets(b, s)
    BY <2>2 DEF Sets
  <2>8. \A s \in Screens : phase[s] = "open" => Told(main', s, list[s], stored, H')
    <3> SUFFICES ASSUME NEW s \in Screens, phase[s] = "open" PROVE Told(main', s, list[s], stored, H')
      OBVIOUS
    <3>1. Told(main, s, list[s], stored, H')
      BY <1>t, <2>1, <2>6, ToldStays
    <3> HIDE DEF H
    <3> QED BY <1>0, <2>1, <2>2, <2>7, <3>1, ToldAppend
  <2>9. \A k \in DOMAIN main' : main'[k] = b \/ main'[k] \in {main[m] : m \in DOMAIN main}
    BY <1>0, <2>1, <2>2
  <2> QED BY <1>n, <2>1, <2>7, <2>8, <2>9 DEF HaltInv
\* A block that shows rows.
<1>5. ASSUME app = "running", main # <<>>, Head(main).op \in {"show", "update"},
             main' = Tail(main), UNCHANGED <<stored, phase, loaded>>,
             \A c \in Screens : chain[c] = "halted" => chain'[c] = "halted",
             \A s \in Screens :
               list'[s] = IF Sets(Head(main), s) THEN Head(main).rows ELSE list[s]
      PROVE  HaltInv'
  <2>1. \A d \in Screens : Holds(main, "deleted", d) => Holds(main', "deleted", d)
    BY <1>0, <1>5, HoldsTail
  <2>2. H \subseteq H'
    BY <1>h, <1>5, <2>1
  <2>3. \A s \in Screens : phase[s] = "open" => Told(main', s, list'[s], stored', H')
    <3> SUFFICES ASSUME NEW s \in Screens, phase[s] = "open"
                 PROVE  Told(Tail(main), s, list'[s], stored, H')
      BY <1>5
    <3>1. Told(main, s, list[s], stored, H')
      BY <1>t, <1>5, <2>2, ToldStays
    <3> HIDE DEF H
    <3>2. Head(main).op # "saved" /\ list'[s] = IF Sets(Head(main), s) THEN Head(main).rows ELSE list[s]
      BY <1>5
    <3> QED BY <1>0, <1>5, <3>1, <3>2, ToldTail
  <2> QED BY <1>5, <1>a, <2>3
<1>6. CASE RunShow
  <2>1. /\ app = "running" /\ main # <<>> /\ Head(main).op = "show"
        /\ main' = Tail(main) /\ UNCHANGED <<stored, phase, loaded>>
        /\ list' = [list EXCEPT ![Head(main).vc] = Head(main).rows]
        /\ chain' = [chain EXCEPT ![Head(main).vc] = "requested"]
    BY <1>6 DEF RunShow, AtHead, ShowAndRefresh
  <2>2. \A s \in Screens : list'[s] = IF Sets(Head(main), s) THEN Head(main).rows ELSE list[s]
    BY <1>0, <2>1 DEF Sets
  <2>3. 1 \in DOMAIN main /\ main[1] = Head(main)
    BY <1>0, <2>1
  <2>4. chain[Head(main).vc] = "idle"
    BY <1>0, <2>1, <2>3 DEF InStep, Owned
  <2>5. \A c \in Screens : chain[c] = "halted" => chain'[c] = "halted"
    BY <1>0, <2>1, <2>4
  <2> QED BY <1>5, <2>1, <2>2, <2>5
<1>7. CASE RunUpdate
  <2>1. /\ app = "running" /\ main # <<>> /\ Head(main).op = "update"
        /\ main' = Tail(main) /\ UNCHANGED <<stored, phase, loaded, chain>>
        /\ list' = [s \in Screens |-> IF s \in Head(main).vcs THEN Head(main).rows ELSE list[s]]
    BY <1>7 DEF RunUpdate, AtHead
  <2>2. \A s \in Screens : list'[s] = IF Sets(Head(main), s) THEN Head(main).rows ELSE list[s]
    BY <2>1 DEF Sets
  <2> QED BY <1>5, <2>1, <2>2
\* A refresh the file stops.
<1>8. ASSUME app = "running", main # <<>>, Head(main).op \in {"diff", "deleted"},
             ChainStops(Head(main).vc), UNCHANGED <<phase, list, loaded>>
      PROVE  HaltInv'
  <2>1. Owned(Head(main)) /\ Head(main).op \notin {"show", "saved"}
    BY <1>8 DEF Owned
  <2>2. Head(main).vc \in Screens
    BY <1>8, <2>1, HeadStage
  <2>3. main' = Tail(main) /\ chain' = [chain EXCEPT ![Head(main).vc] = "halted"] /\ stored' = stored
    BY <1>8 DEF ChainStops
  <2>4. \A d \in Screens : Holds(main, "deleted", d) => d = Head(main).vc \/ Holds(main', "deleted", d)
    BY <1>0, <1>8, <2>3, HoldsTail
  <2>5. H \subseteq H'
    BY <1>0, <1>8, <1>h, <2>2, <2>3, <2>4
  <2>6. \A s \in Screens : phase[s] = "open" => Told(main', s, list'[s], stored', H')
    <3> SUFFICES ASSUME NEW s \in Screens, phase[s] = "open"
                 PROVE  Told(Tail(main), s, list[s], stored, H')
      BY <1>8, <2>3
    <3>1. Told(main, s, list[s], stored, H')
      BY <1>t, <1>8, <2>5, ToldStays
    <3>2. ~Sets(Head(main), s)
      BY <1>8 DEF Sets
    <3> HIDE DEF H
    <3> QED BY <1>0, <1>8, <2>1, <3>1, <3>2, ToldTail
  <2> QED BY <1>8, <1>a, <2>3, <2>6
<1>9. CASE RunDiff
  <2> DEFINE b == [op |-> "deleted", vc |-> Head(main).vc]
  <2>1. app = "running" /\ main # <<>> /\ Head(main).op = "diff" /\ UNCHANGED <<phase, list, loaded>>
    BY <1>9 DEF RunDiff, AtHead
  <2>2. CASE ChainStops(Head(main).vc)
    BY <1>8, <2>1, <2>2
  <2>3. CASE DeletesRows
    <3> DEFINE c == Head(main).vc
    <3>1. c \in Screens /\ Owned(Head(main))
      BY <2>1, HeadStage DEF Owned
    <3>2. b \in Block /\ b.op = "deleted" /\ b.vc = c
      BY <3>1 DEF Block, ChainBlock
    <3>3. main' = Append(Tail(main), b) /\ chain' = chain
      BY <2>3 DEF DeletesRows
    <3>4. \A i \in Ids : stored'[i] = stored[i] \/ (stored'[i] = Absent /\ loaded[c][i] = Absent)
      <4>1. PICK I : stored' = Without(stored, I) /\ \A i \in I : i \in ToDelete(Head(main).rows, loaded[c])
        BY <2>3 DEF DeletesRows, Failures
      <4> QED BY <1>0, <4>1 DEF Without, ToDelete
    <3>5. Tail(main) \in Seq(Block)
      BY <1>0, <2>1
    <3> HIDE DEF b
    <3>6. \A d \in Screens : Holds(main, "deleted", d) => Holds(main', "deleted", d)
      BY <1>0, <2>1, <3>2, <3>3, <3>5, HoldsTail, HoldsAppend
    <3>7. Holds(main', "deleted", c)
      BY <3>2, <3>3, <3>5, HoldsAppend
    <3>8. H \subseteq H'
      BY <1>h, <2>1, <3>3, <3>6
    <3>9. \A i \in Ids : stored'[i] = stored[i] \/ (stored'[i] = Absent /\ i \in H')
      BY <2>1, <3>1, <3>4, <3>7 DEF Halts
    <3>10. \A s \in Screens : phase[s] = "open" => Told(main', s, list'[s], stored', H')
      <4> SUFFICES ASSUME NEW s \in Screens, phase[s] = "open"
                   PROVE  Told(Append(Tail(main), b), s, list[s], stored', H')
        BY <2>1, <3>3
      <4>1. Told(main, s, list[s], stored', H')
        BY <1>t, <2>1, <3>8, <3>9, ToldStays
      <4>2. ~Sets(Head(main), s) /\ ~Sets(b, s)
        BY <2>1, <3>2 DEF Sets
      <4> HIDE DEF H
      <4>3. Told(Tail(main), s, list[s], stored', H')
        BY <1>0, <2>1, <4>1, <4>2, ToldTail
      <4> QED BY <3>2, <3>5, <4>2, <4>3, ToldAppend
    <3> QED BY <1>a, <2>1, <3>2, <3>3, <3>10
  <2> QED BY <1>9, <2>2, <2>3 DEF RunDiff
<1>10. CASE RunDeleted
  <2> DEFINE b == [op |-> "saved", vc |-> Head(main).vc]
  <2>1. app = "running" /\ main # <<>> /\ Head(main).op = "deleted" /\ UNCHANGED <<phase, list, loaded>>
    BY <1>10 DEF RunDeleted, AtHead
  <2>2. CASE ChainStops(Head(main).vc)
    BY <1>8, <2>1, <2>2
  <2>3. CASE main' = Append(Tail(main), b)
    <3>1. Head(main).vc \in Screens
      BY <2>1, HeadStage DEF Owned
    <3>2. b \in Block /\ b.op = "saved"
      BY <3>1 DEF Block, ChainBlock
    <3>3. Tail(main) \in Seq(Block)
      BY <1>0, <2>1
    <3> HIDE DEF b, H
    <3>4. \A s \in Screens : Told(main', s, list'[s], stored', H')
      BY <2>3, <3>2, <3>3, ToldByShowing
    <3> QED BY <1>a, <2>1, <2>3, <3>2, <3>4
  <2> QED BY <1>10, <2>2, <2>3 DEF RunDeleted
\* The notification: each screen on show is shown the file, or nothing.
<1>11. ASSUME NEW failed \in FailedLoads, Notifies(failed) PROVE HaltInv'
  <2> DEFINE S == Observers \ failed
  <2> DEFINE b == [op |-> "update", vcs |-> S, rows |-> stored]
  <2>1. /\ app = "running" /\ main # <<>> /\ Head(main).op = "saved"
        /\ UNCHANGED <<stored, phase, loaded>>
        /\ chain' = [chain EXCEPT ![Head(main).vc] = "notified"]
        /\ \A s \in Screens : list'[s] = IF s \in failed THEN NoRows ELSE list[s]
        /\ main' = IF S = {} THEN Tail(main) ELSE Append(Tail(main), b)
    BY <1>11 DEF Notifies, AtHead
  <2>2. Head(main).vc \in Screens /\ chain[Head(main).vc] = "comparing"
    BY <2>1, HeadStage DEF Owned
  <2>3. \A s : Sets(b, s) <=> s \in S
    BY DEF Sets
  <2>4. b \in Block /\ b.op = "update" /\ b.rows = stored
    BY <1>0 DEF Block, UpdateBlock, Observers, OpenScreens
  <2>5. Tail(main) \in Seq(Block)
    BY <1>0, <2>1
  <2>6. S \subseteq OpenScreens /\ \A s \in OpenScreens : s \in S \/ s \in failed
    BY DEF Observers
  <2> HIDE DEF b, S
  <2>7. \A d \in Screens : Holds(main, "deleted", d) => Holds(main', "deleted", d)
    BY <1>0, <2>1, <2>4, <2>5, HoldsTail, HoldsAppend
  <2>8. \A d \in Screens : chain[d] = "halted" => chain'[d] = "halted"
    BY <1>0, <2>1, <2>2
  <2>9. H \subseteq H'
    BY <1>h, <2>1, <2>7, <2>8
  <2> HIDE DEF H
  <2>10. ASSUME NEW s \in Screens, phase[s] = "open" PROVE Told(main', s, list'[s], stored, H')
    <3>1. CASE s \in S
      BY <2>1, <2>3, <2>4, <2>5, <3>1, ToldByShowing
    <3>2. CASE s \notin S
      <4>1. list'[s] = NoRows
        BY <2>1, <2>6, <2>10, <3>2 DEF OpenScreens
      <4>2. Near(list'[s], stored, H')
        BY <4>1 DEF Near
      <4>3. Told(main, s, list[s], stored, H)
        BY <1>t, <2>1, <2>10
      <4>4. Told(main, s, list[s], stored, H')
        BY <2>9, <4>3, ToldStays
      <4>5. Told(Tail(main), s, list'[s], stored, H')
        BY <1>0, <2>1, <4>2, <4>4, ToldTail
      <4> QED BY <2>1, <2>3, <2>4, <2>5, <3>2, <4>5, ToldAppend
    <3> QED BY <3>1, <3>2
  <2>11. ASSUME NEW s \in Screens, phase[s] = "new", NEW k \in DOMAIN main' PROVE ~Sets(main'[k], s)
    <3>1. ~Sets(b, s)
      BY <2>3, <2>6, <2>11 DEF OpenScreens
    <3>2. \A m \in DOMAIN Tail(main) : m + 1 \in DOMAIN main /\ Tail(main)[m] = main[m + 1]
      BY <1>0, <2>1
    <3>3. main'[k] = b \/ (k \in DOMAIN Tail(main) /\ main'[k] = Tail(main)[k])
      BY <2>1, <2>4, <2>5, <2>11
    <3> QED BY <1>n, <2>1, <2>11, <3>1, <3>2, <3>3
  <2> QED BY <2>1, <2>10, <2>11 DEF HaltInv, H
<1>12. CASE Kill
  BY <1>12 DEF Kill
<1>13. CASE Restart
  <2>1. main' = <<>> /\ \A s \in Screens : phase'[s] # "open"
    BY <1>0, <1>13 DEF Restart
  <2> QED BY <2>1 DEF HaltInv
<1>14. CASE UNCHANGED vars
  BY <1>14 DEF vars, HaltInv
<1> QED
  BY <1>1, <1>2, <1>3, <1>4, <1>6, <1>7, <1>9, <1>10, <1>11, <1>12, <1>13, <1>14
  DEF Next, MainStep, RunSaved

\* Whatever fails, overlaps or is killed: with nothing left in the main queue the screen on
\* show misses and mistakes no row of the file, and shows one more only where a refresh of
\* the process deleted it and halted before its notification.
THEOREM ListIsStaleOnlyIfHalted == Spec => []StaleOnlyIfHalted
<1>1. Init => HaltInv
  BY DEF Init, HaltInv
<1>2. Typed /\ StageInv /\ HaltInv /\ [Next]_vars => HaltInv'
  BY ConstantsOK, HaltStep
<1>3. HaltInv => StaleOnlyIfHalted
  <2> SUFFICES ASSUME HaltInv, app = "running", main = <<>>, NEW s \in OpenScreens
               PROVE  \/ list[s] = NoRows
                      \/ \A i \in Ids : list[s][i] # stored[i] =>
                           /\ stored[i] = Absent
                           /\ \E c \in Screens : chain[c] = "halted" /\ loaded[c][i] = Absent
    BY DEF StaleOnlyIfHalted
  <2>1. Near(list[s], stored, Halts(main, chain, loaded))
    BY DEF HaltInv, Told, Outdated, OpenScreens
  <2>2. \A c : ~Holds(main, "deleted", c)
    BY DEF Holds
  <2> QED BY <2>1, <2>2 DEF Near, Halts
<1> QED BY <1>1, <1>2, <1>3, StageInvariant, PTL DEF Spec

(***************************************************************************)
(* The answer that came last.                                              *)
(***************************************************************************)
NoneWith(q, op) == \A k \in DOMAIN q : q[k].op # op
\* The last block of this kind is the refresh c's.
Last(q, op, c) ==
  \E k \in DOMAIN q : /\ q[k].op = op /\ q[k].vc = c
                      /\ \A m \in DOMAIN q : m > k => q[m].op # op
Holding(rows, answer) == \A i \in Ids : answer[i] # Absent => rows[i] = answer[i]

\* The refresh c deletes and saves after all others do, or has and nothing is to come.
Winning(q, c, answer, rows) ==
  \/ Last(q, "diff", c)
  \/ NoneWith(q, "diff") /\ Last(q, "deleted", c)
  \/ NoneWith(q, "diff") /\ NoneWith(q, "deleted") /\ Holding(rows, answer)

WinsInv == app = "running" /\ latest # None => Winning(main, latest, loaded[latest], stored)

LEMMA NoneWithSteps ==
  ASSUME NEW q \in Seq(Block), NEW op, NoneWith(q, op)
  PROVE  /\ q # <<>> => NoneWith(Tail(q), op)
         /\ \A b \in Block : b.op # op => NoneWith(Append(q, b), op)
<1>1. \A k \in DOMAIN Tail(q) : q # <<>> => k + 1 \in DOMAIN q /\ Tail(q)[k] = q[k + 1]
  OBVIOUS
<1>2. ASSUME NEW b \in Block, b.op # op PROVE NoneWith(Append(q, b), op)
  <2> DEFINE r == Append(q, b)
  <2>1. \A k \in DOMAIN r : (k \in DOMAIN q /\ r[k] = q[k]) \/ r[k] = b
    OBVIOUS
  <2> HIDE DEF r
  <2> QED BY <1>2, <2>1 DEF NoneWith
<1> QED BY <1>1, <1>2 DEF NoneWith

LEMMA LastAppend ==
  ASSUME NEW q \in Seq(Block), NEW b \in Block, NEW op, NEW c
  PROVE  /\ Last(q, op, c) /\ b.op # op => Last(Append(q, b), op, c)
         /\ b.op = op /\ b.vc = c => Last(Append(q, b), op, c)
<1> DEFINE r == Append(q, b)
<1>1. \A k \in DOMAIN r : (k \in DOMAIN q /\ r[k] = q[k]) \/ r[k] = b
  OBVIOUS
<1>2. \A k \in DOMAIN q : k \in DOMAIN r /\ r[k] = q[k]
  OBVIOUS
<1>3. /\ Len(q) + 1 \in DOMAIN r /\ r[Len(q) + 1] = b
      /\ \A k \in DOMAIN r : ~(k > Len(q) + 1)
  OBVIOUS
<1> HIDE DEF r
<1>4. ASSUME Last(q, op, c), b.op # op PROVE Last(r, op, c)
  <2>1. PICK k \in DOMAIN q : /\ q[k].op = op /\ q[k].vc = c
                              /\ \A m \in DOMAIN q : m > k => q[m].op # op
    BY <1>4 DEF Last
  <2>2. \A m \in DOMAIN r : m > k => r[m].op # op
    BY <1>1, <1>4, <2>1
  <2> QED BY <1>2, <2>1, <2>2 DEF Last
<1>5. ASSUME b.op = op, b.vc = c PROVE Last(r, op, c)
  BY <1>3, <1>5 DEF Last
<1> QED BY <1>4, <1>5 DEF r

LEMMA LastTail ==
  ASSUME NEW q \in Seq(Block), q # <<>>, NEW op, NEW c, Last(q, op, c)
  PROVE  \/ Last(Tail(q), op, c)
         \/ Head(q).op = op /\ Head(q).vc = c /\ NoneWith(Tail(q), op)
<1>1. \A k \in DOMAIN Tail(q) : k + 1 \in DOMAIN q /\ Tail(q)[k] = q[k + 1] /\ k \in Nat \ {0}
  OBVIOUS
<1>2. \A k \in DOMAIN q : k \in Nat /\ (k = 1 \/ (k - 1 \in DOMAIN Tail(q) /\ Tail(q)[k - 1] = q[k]))
  OBVIOUS
<1>3. Head(q) = q[1]
  OBVIOUS
<1>4. PICK k \in DOMAIN q : /\ q[k].op = op /\ q[k].vc = c
                            /\ \A m \in DOMAIN q : m > k => q[m].op # op
  BY DEF Last
<1>5. CASE k = 1
  <2>1. \A m \in DOMAIN Tail(q) : Tail(q)[m].op # op
    BY <1>1, <1>4, <1>5
  <2> QED BY <1>3, <1>4, <1>5, <2>1 DEF NoneWith
<1>6. CASE k # 1
  <2>1. k - 1 \in DOMAIN Tail(q) /\ Tail(q)[k - 1] = q[k] /\ k \in Nat
    BY <1>2, <1>6
  <2>2. \A m \in DOMAIN Tail(q) : m > k - 1 => Tail(q)[m].op # op
    BY <1>1, <1>4, <2>1
  <2> QED BY <1>4, <2>1, <2>2 DEF Last
<1> QED BY <1>5, <1>6

\* A step that takes a block which is neither a deletion nor a save, or none, and may add
\* such a block.
LEMMA WinsQuiet ==
  ASSUME Typed, WinsInv, app = "running", stored' = stored, loaded' = loaded, latest' = latest,
         NEW q \in Seq(Block),
         \/ q = main
         \/ main # <<>> /\ q = Tail(main) /\ Head(main).op \notin {"diff", "deleted"},
         main' = q \/ \E b \in Block : main' = Append(q, b) /\ b.op \notin {"diff", "deleted"}
  PROVE  WinsInv'
<1> SUFFICES ASSUME latest # None PROVE Winning(main', latest, loaded[latest], stored)
  BY DEF WinsInv
<1>1. main \in Seq(Block) /\ Winning(main, latest, loaded[latest], stored)
  BY DEF Typed, WinsInv
<1>2. Winning(q, latest, loaded[latest], stored)
  <2>1. CASE q = main
    BY <1>1, <2>1
  <2>2. CASE main # <<>> /\ q = Tail(main) /\ Head(main).op \notin {"diff", "deleted"}
    <3>1. Last(main, "diff", latest) => Last(q, "diff", latest)
      BY <1>1, <2>2, LastTail
    <3>2. Last(main, "deleted", latest) => Last(q, "deleted", latest)
      BY <1>1, <2>2, LastTail
    <3>3. /\ NoneWith(main, "diff") => NoneWith(q, "diff")
          /\ NoneWith(main, "deleted") => NoneWith(q, "deleted")
      BY <1>1, <2>2, NoneWithSteps
    <3> QED BY <1>1, <3>1, <3>2, <3>3 DEF Winning
  <2> QED BY <2>1, <2>2
<1>3. ASSUME NEW b \in Block, main' = Append(q, b), b.op \notin {"diff", "deleted"}
      PROVE  Winning(main', latest, loaded[latest], stored)
  <2>1. /\ Last(q, "diff", latest) => Last(main', "diff", latest)
        /\ Last(q, "deleted", latest) => Last(main', "deleted", latest)
    BY <1>3, LastAppend
  <2>2. /\ NoneWith(q, "diff") => NoneWith(main', "diff")
        /\ NoneWith(q, "deleted") => NoneWith(main', "deleted")
    BY <1>3, NoneWithSteps
  <2> QED BY <1>2, <2>1, <2>2 DEF Winning
<1> QED BY <1>2, <1>3

LEMMA WinsStep ==
  ASSUME ConstantsOK, ~RealmMayFail, ~WriteMayFail, Typed, WinsInv, [Next]_vars
  PROVE  WinsInv'
<1> SUFFICES ASSUME app' = "running" PROVE WinsInv'
  BY DEF WinsInv
<1> USE DEF histories
<1>0. /\ main \in Seq(Block) /\ stored \in Rows /\ loaded \in [Screens -> Rows]
      /\ main # <<>> => Head(main) \in Block /\ Tail(main) \in Seq(Block)
  BY DEF Typed
<1>1. ASSUME NEW s \in Screens, Open(s) PROVE WinsInv'
  <2> DEFINE b == [op |-> "show", vc |-> s, rows |-> stored]
  <2>1. app = "running" /\ main' = Append(main, b) /\ UNCHANGED <<stored, loaded, latest>>
    BY <1>1 DEF Open
  <2>2. b \in Block /\ b.op = "show"
    BY <1>0 DEF Block, ShowBlock
  <2> HIDE DEF b
  <2> QED BY <1>0, <2>1, <2>2, WinsQuiet
<1>2. ASSUME NEW s \in Screens, Close(s) \/ NoAnswer(s) PROVE WinsInv'
  BY <1>0, <1>2, WinsQuiet DEF Close, NoAnswer
<1>3. ASSUME NEW c \in Screens, Answer(c) PROVE WinsInv'
  <2> DEFINE b == CompareBlock(c)
  <2>1. main' = Append(main, b) /\ latest' = c
    BY <1>3 DEF Answer
  <2>2. b \in Block /\ b.op = "diff" /\ b.vc = c
    BY <1>0 DEF Block, DiffBlock, CompareBlock
  <2>3. Last(main', "diff", c)
    <3> HIDE DEF b
    <3> QED BY <1>0, <2>1, <2>2, LastAppend
  <2> QED BY <2>1, <2>3 DEF WinsInv, Winning
<1>4. CASE RunShow \/ RunUpdate
  <2>1. /\ app = "running" /\ main # <<>> /\ Head(main).op \in {"show", "update"}
        /\ main' = Tail(main) /\ UNCHANGED <<stored, loaded, latest>>
    BY <1>4 DEF RunShow, RunUpdate, AtHead
  <2> QED BY <1>0, <2>1, WinsQuiet
<1>5. CASE RunSaved
  <2> DEFINE b == [op |-> "update", vcs |-> OpenScreens, rows |-> stored]
  <2>1. /\ app = "running" /\ main # <<>> /\ Head(main).op = "saved"
        /\ main' = Tail(main) \/ main' = Append(Tail(main), b)
        /\ UNCHANGED <<stored, loaded, latest>>
    BY <1>5 DEF RunSaved, FailedLoads, Notifies, AtHead, Observers
  <2>2. b \in Block /\ b.op = "update"
    BY <1>0 DEF Block, UpdateBlock, OpenScreens
  <2> HIDE DEF b
  <2> QED BY <1>0, <2>1, <2>2, WinsQuiet
<1>6. CASE RunDiff
  <2> DEFINE b == [op |-> "deleted", vc |-> Head(main).vc]
  <2>1. /\ app = "running" /\ main # <<>> /\ Head(main).op = "diff" /\ DeletesRows
        /\ loaded' = loaded /\ latest' = latest
    BY <1>6 DEF RunDiff, AtHead, ChainStops
  <2>2. main' = Append(Tail(main), b)
    BY <2>1 DEF DeletesRows
  <2>3. b \in Block /\ b.op = "deleted" /\ b.vc = Head(main).vc
    BY <1>0, <2>1, BlockShape DEF Block, ChainBlock
  <2>4. SUFFICES ASSUME latest # None PROVE Winning(main', latest, loaded[latest], stored')
    BY <2>1 DEF WinsInv
  <2>5. ~NoneWith(main, "diff")
    BY <1>0, <2>1 DEF NoneWith
  <2>6. Last(main, "diff", latest)
    BY <2>1, <2>4, <2>5 DEF WinsInv, Winning
  <2> HIDE DEF b
  <2>7. CASE Last(Tail(main), "diff", latest)
    BY <1>0, <2>1, <2>2, <2>3, <2>7, LastAppend DEF Winning
  <2>8. CASE Head(main).vc = latest /\ NoneWith(Tail(main), "diff")
    <3>1. Last(main', "deleted", latest)
      BY <1>0, <2>1, <2>2, <2>3, <2>8, LastAppend
    <3>2. NoneWith(main', "diff")
      BY <1>0, <2>1, <2>2, <2>3, <2>8, NoneWithSteps
    <3> QED BY <3>1, <3>2 DEF Winning
  <2> QED BY <1>0, <2>1, <2>6, <2>7, <2>8, LastTail
<1>7. CASE RunDeleted
  <2> DEFINE c == Head(main).vc
  <2> DEFINE b == [op |-> "saved", vc |-> c]
  <2>1. /\ app = "running" /\ main # <<>> /\ Head(main).op = "deleted"
        /\ main' = Append(Tail(main), b) /\ stored' = Upsert(stored, loaded[c], {})
        /\ loaded' = loaded /\ latest' = latest
    BY <1>7 DEF RunDeleted, AtHead, ChainStops, Failures
  <2>2. b \in Block /\ b.op = "saved" /\ c \in Screens
    BY <1>0, <2>1, BlockShape DEF Block, ChainBlock
  <2>3. SUFFICES ASSUME latest # None PROVE Winning(main', latest, loaded[latest], stored')
    BY <2>1 DEF WinsInv
  <2>4. ~NoneWith(main, "deleted") /\ Winning(main, latest, loaded[latest], stored)
    BY <1>0, <2>1, <2>3 DEF NoneWith, WinsInv
  <2>5. Holding(stored', loaded[c])
    BY <2>1 DEF Holding, Upsert
  <2> HIDE DEF b
  <2>6. CASE Last(main, "diff", latest)
    <3>1. Last(Tail(main), "diff", latest)
      BY <1>0, <2>1, <2>6, LastTail
    <3> QED BY <1>0, <2>1, <2>2, <3>1, LastAppend DEF Winning
  <2>7. CASE NoneWith(main, "diff") /\ Last(main, "deleted", latest)
    <3>1. NoneWith(main', "diff")
      BY <1>0, <2>1, <2>2, <2>7, NoneWithSteps
    <3>2. CASE Last(Tail(main), "deleted", latest)
      <4>1. Last(main', "deleted", latest)
        BY <1>0, <2>1, <2>2, <3>2, LastAppend
      <4> QED BY <3>1, <4>1 DEF Winning
    <3>3. CASE c = latest /\ NoneWith(Tail(main), "deleted")
      <4>1. NoneWith(main', "deleted")
        BY <1>0, <2>1, <2>2, <3>3, NoneWithSteps
      <4> QED BY <2>5, <3>1, <3>3, <4>1 DEF Winning
    <3> QED BY <1>0, <2>1, <2>7, <3>2, <3>3, LastTail
  <2> QED BY <2>4, <2>6, <2>7 DEF Winning
<1>8. CASE Kill
  BY <1>8 DEF Kill
<1>9. CASE Restart
  BY <1>9 DEF Restart, WinsInv
<1>10. CASE UNCHANGED vars
  BY <1>10 DEF vars, WinsInv
<1> QED
  BY <1>1, <1>2, <1>3, <1>4, <1>5, <1>6, <1>7, <1>8, <1>9, <1>10 DEF Next, MainStep

\* As long as the file opens and writes do not throw, an empty main queue means that the
\* file holds every row of the answer that came last, in that answer's version.
THEOREM LastAnswerWins ==
  ASSUME ~RealmMayFail, ~WriteMayFail PROVE Spec => []LatestAnswerWins
<1>1. Init => WinsInv
  BY DEF Init, WinsInv
<1>2. Typed /\ WinsInv /\ [Next]_vars => WinsInv'
  BY ConstantsOK, WinsStep
<1>3. WinsInv => LatestAnswerWins
  BY DEF WinsInv, LatestAnswerWins, Winning, Last, Holding
<1> QED BY <1>1, <1>2, <1>3, TypedInvariant, PTL DEF Spec

(***************************************************************************)
(* The list of the screen whose refresh was answered last.                 *)
(***************************************************************************)
Chained(b) == b.op \in {"diff", "deleted", "saved"}
NoChain(q) == \A k \in DOMAIN q : ~Chained(q[k])

\* Behind the "diff" block of s no refresh goes on.
DiffIsLast(q, s) ==
  \A k, m \in DOMAIN q : q[k].op = "diff" /\ q[k].vc = s /\ m > k => ~Chained(q[m])

\* While s is to be saved or announced no other refresh goes on, and its list stays.
AloneAndLast(q, s) ==
  \A k, m \in DOMAIN q : q[k].op \in {"deleted", "saved"} /\ q[k].vc = s /\ m # k =>
    ~Chained(q[m]) /\ (m > k => ~Sets(q[m], s))

\* No refresh goes on, and the list is, or will be, these rows, or none.
Shown(q, s, shown, rows) ==
  /\ NoChain(q)
  /\ \A k \in DOMAIN q : Sets(q[k], s) => q[k].rows = rows
  /\ shown \in {rows, NoRows} \/ \E k \in DOMAIN q : Sets(q[k], s)

ShownInv ==
  app = "running" => \A s \in Screens : phase[s] = "open" /\ latest = s /\ s \notin overlapped =>
    /\ DiffIsLast(main, s)
    /\ AloneAndLast(main, s)
    /\ chain[s] = "notified" => Shown(main, s, list[s], stored)

LEMMA ShownTail ==
  ASSUME NEW q \in Seq(Block), q # <<>>, NEW s
  PROVE  /\ DiffIsLast(q, s) => DiffIsLast(Tail(q), s)
         /\ AloneAndLast(q, s) => AloneAndLast(Tail(q), s)
<1>1. \A k \in DOMAIN Tail(q) : k + 1 \in DOMAIN q /\ Tail(q)[k] = q[k + 1] /\ k \in Nat
  OBVIOUS
<1>2. ASSUME DiffIsLast(q, s) PROVE DiffIsLast(Tail(q), s)
  BY <1>1, <1>2 DEF DiffIsLast
<1>3. ASSUME AloneAndLast(q, s) PROVE AloneAndLast(Tail(q), s)
  BY <1>1, <1>3 DEF AloneAndLast
<1> QED BY <1>2, <1>3

LEMMA ShownDrop ==
  ASSUME NEW q \in Seq(Block), q # <<>>, NEW s, NEW shown, NEW now, NEW rows,
         Shown(q, s, shown, rows), now = IF Sets(Head(q), s) THEN Head(q).rows ELSE shown
  PROVE  Shown(Tail(q), s, now, rows)
<1>1. \A k \in DOMAIN Tail(q) : k + 1 \in DOMAIN q /\ Tail(q)[k] = q[k + 1]
  OBVIOUS
<1>2. \A k \in DOMAIN q : k = 1 \/ (k - 1 \in DOMAIN Tail(q) /\ Tail(q)[k - 1] = q[k])
  OBVIOUS
<1>3. Head(q) = q[1] /\ 1 \in DOMAIN q
  OBVIOUS
<1>4. NoChain(Tail(q)) /\ \A k \in DOMAIN Tail(q) : Sets(Tail(q)[k], s) => Tail(q)[k].rows = rows
  BY <1>1 DEF Shown, NoChain
<1>5. now \in {rows, NoRows} \/ \E k \in DOMAIN Tail(q) : Sets(Tail(q)[k], s)
  <2>1. CASE Sets(q[1], s)
    BY <1>3, <2>1 DEF Shown
  <2>2. CASE ~Sets(q[1], s)
    BY <1>2, <1>3, <2>2 DEF Shown
  <2> QED BY <2>1, <2>2
<1> QED BY <1>4, <1>5 DEF Shown

\* A block that belongs to no refresh comes in behind the others.
LEMMA DiffIsLastAppend ==
  ASSUME NEW q \in Seq(Block), NEW b \in Block, NEW s, DiffIsLast(q, s), ~Chained(b)
  PROVE  DiffIsLast(Append(q, b), s)
<1> DEFINE r == Append(q, b)
<1>1. \A k \in DOMAIN r : (k \in DOMAIN q /\ r[k] = q[k]) \/ r[k] = b
  OBVIOUS
<1> HIDE DEF r
<1>2. DiffIsLast(r, s)
  BY <1>1 DEF DiffIsLast, Chained
<1> QED BY <1>2 DEF r

\* The next block of s, or another, when s has none in the queue.
LEMMA ShownNext ==
  ASSUME NEW q \in Seq(Block), NEW b \in Block, NEW s, NoneOf(q, s),
         NoChain(q) \/ b.op \notin {"deleted", "saved"}
  PROVE  DiffIsLast(Append(q, b), s) /\ AloneAndLast(Append(q, b), s)
<1> DEFINE r == Append(q, b)
<1>1. \A k \in DOMAIN r : (k \in DOMAIN q /\ r[k] = q[k]) \/ (k = Len(q) + 1 /\ r[k] = b)
  OBVIOUS
<1>2. \A k \in DOMAIN r : ~(k > Len(q) + 1)
  OBVIOUS
<1> HIDE DEF r
<1>3. \A k \in DOMAIN r : Chained(r[k]) /\ r[k].vc = s => k = Len(q) + 1 /\ r[k] = b
  BY <1>1 DEF NoneOf, Owned, Chained
<1>4. DiffIsLast(r, s)
  BY <1>2, <1>3 DEF DiffIsLast, Chained
<1>5. AloneAndLast(r, s)
  <2> SUFFICES ASSUME NEW k \in DOMAIN r, NEW m \in DOMAIN r,
                      r[k].op \in {"deleted", "saved"}, r[k].vc = s, m # k
               PROVE  ~Chained(r[m]) /\ ~(m > k)
    BY DEF AloneAndLast
  <2>1. k = Len(q) + 1 /\ r[k] = b
    BY <1>3 DEF Chained
  <2>2. m \in DOMAIN q /\ r[m] = q[m]
    BY <1>1, <2>1
  <2> QED BY <1>2, <2>1, <2>2 DEF NoChain
<1> QED BY <1>4, <1>5 DEF r

LEMMA ShownNone ==
  ASSUME NEW q \in Seq(Block), NEW s, NoneOf(q, s)
  PROVE  DiffIsLast(q, s) /\ AloneAndLast(q, s)
BY DEF NoneOf, Owned, DiffIsLast, AloneAndLast

LEMMA ShownStep ==
  ASSUME ConstantsOK, Typed, StageInv, WindowInv, ShownInv, [Next]_vars
  PROVE  ShownInv'
<1> SUFFICES ASSUME app' = "running", NEW s \in Screens,
                    phase'[s] = "open", latest' = s, s \notin overlapped'
             PROVE  /\ DiffIsLast(main', s)
                    /\ AloneAndLast(main', s)
                    /\ chain'[s] = "notified" => Shown(main', s, list'[s], stored')
  BY DEF ShownInv
<1> DEFINE Goal == /\ DiffIsLast(main', s)
                   /\ AloneAndLast(main', s)
                   /\ chain'[s] = "notified" => Shown(main', s, list'[s], stored')
<1>0. /\ main \in Seq(Block) /\ stored \in Rows /\ list \in [Screens -> Rows]
      /\ phase \in [Screens -> {"new", "open", "closed"}] /\ chain \in [Screens -> ChainStates]
      /\ InStep(main, chain)
  BY DEF Typed, StageInv
<1>a. ASSUME app = "running", phase[s] = "open", latest = s, s \notin overlapped
      PROVE  /\ DiffIsLast(main, s) /\ AloneAndLast(main, s) /\ Alone(main, s)
             /\ chain[s] = "notified" => Shown(main, s, list[s], stored)
  BY <1>a, ConstantsOK DEF ShownInv, WindowInv
<1>1. ASSUME NEW t \in Screens, Open(t) PROVE Goal
  <2> DEFINE b == [op |-> "show", vc |-> t, rows |-> stored]
  <2>1. /\ phase[s] # "open" /\ phase' = [phase EXCEPT ![t] = "open"] /\ phase[t] = "new"
        /\ main' = main \/ main' = Append(main, b)
        /\ chain' = chain \/ chain' = [chain EXCEPT ![t] = "requested"]
    BY <1>1 DEF Open, OpenScreens, ShowAndRefresh
  <2>2. t = s /\ NoneOf(main, s) /\ chain[s] = "idle"
    BY <1>0, <2>1 DEF StageInv
  <2>3. b \in Block /\ b.op = "show"
    BY <1>0 DEF Block, ShowBlock
  <2>4. chain'[s] # "notified"
    BY <1>0, <2>1, <2>2
  <2> HIDE DEF b
  <2> QED BY <1>0, <2>1, <2>2, <2>3, <2>4, ShownNext, ShownNone
<1>2. ASSUME NEW t \in Screens, Close(t) PROVE Goal
  <2>1. /\ app = "running" /\ phase' = [phase EXCEPT ![t] = "closed"] /\ latest' = latest
        /\ UNCHANGED <<main, stored, list, chain, overlapped>>
    BY <1>2 DEF Close, histories
  <2>2. phase[s] = "open"
    BY <1>0, <2>1
  <2> QED BY <1>a, <2>1, <2>2
<1>3. ASSUME NEW c \in Screens, NoAnswer(c) PROVE Goal
  <2>1. /\ app = "running" /\ chain' = [chain EXCEPT ![c] = "lost"]
        /\ UNCHANGED <<main, phase, stored, list, latest, overlapped>>
    BY <1>3 DEF NoAnswer, histories
  <2>2. chain'[s] = "notified" => chain[s] = "notified"
    BY <1>0, <2>1
  <2> QED BY <1>a, <2>1, <2>2
<1>4. ASSUME NEW c \in Screens, Answer(c) PROVE Goal
  <2>1. /\ c = s /\ chain[c] = "requested" /\ chain' = [chain EXCEPT ![c] = "comparing"]
        /\ app = "running" /\ main' = Append(main, CompareBlock(c))
    BY <1>4 DEF Answer
  <2>2. NoneOf(main, s)
    BY <1>0, <2>1, RequestedHasNone
  <2>3. CompareBlock(c) \in Block /\ CompareBlock(c).op = "diff"
    BY <1>0 DEF CompareBlock, Block, DiffBlock
  <2>4. chain'[s] # "notified"
    BY <1>0, <2>1
  <2> QED BY <1>0, <2>1, <2>2, <2>3, <2>4, ShownNext
<1>5. CASE RunShow
  <2>1. /\ app = "running" /\ main # <<>> /\ Head(main).op = "show" /\ main' = Tail(main)
        /\ list' = [list EXCEPT ![Head(main).vc] = Head(main).rows]
        /\ chain' = [chain EXCEPT ![Head(main).vc] = "requested"]
        /\ UNCHANGED <<phase, stored, latest, overlapped>>
    BY <1>5 DEF RunShow, AtHead, ShowAndRefresh, histories
  <2>2. chain'[s] = "notified" => chain[s] = "notified" /\ Head(main).vc # s
    BY <1>0, <2>1
  <2>3. Head(main).vc # s => list'[s] = list[s] /\ ~Sets(Head(main), s)
    BY <1>0, <2>1 DEF Sets
  <2> QED BY <1>0, <1>a, <2>1, <2>2, <2>3, ShownTail, ShownDrop
<1>6. CASE RunUpdate
  <2>1. /\ app = "running" /\ main # <<>> /\ Head(main).op = "update" /\ main' = Tail(main)
        /\ list' = [t \in Screens |-> IF t \in Head(main).vcs THEN Head(main).rows ELSE list[t]]
        /\ UNCHANGED <<phase, stored, chain, latest, overlapped>>
    BY <1>6 DEF RunUpdate, AtHead, histories
  <2>2. list'[s] = IF Sets(Head(main), s) THEN Head(main).rows ELSE list[s]
    BY <2>1 DEF Sets
  <2> QED BY <1>0, <1>a, <2>1, <2>2, ShownTail, ShownDrop
<1>7. CASE RunDiff \/ RunDeleted \/ RunSaved
  <2> DEFINE c == Head(main).vc
  <2>1. /\ app = "running" /\ main # <<>> /\ Chained(Head(main))
        /\ UNCHANGED <<phase, latest, overlapped>>
    BY <1>7 DEF RunDiff, RunDeleted, RunSaved, Notifies, AtHead, Chained, histories
  <2>2. /\ DiffIsLast(main, s) /\ AloneAndLast(main, s) /\ Alone(main, s)
        /\ chain[s] = "notified" => Shown(main, s, list[s], stored)
    BY <1>a, <2>1
  <2>3. Owned(Head(main)) /\ Head(main).op # "show"
    BY <2>1 DEF Owned, Chained
  <2>4. c \in Screens /\ chain[c] = "comparing" /\ NoneOf(Tail(main), c)
    BY <2>1, <2>3, HeadStage
  <2>5. /\ 1 \in DOMAIN main /\ main[1] = Head(main) /\ Tail(main) \in Seq(Block)
        /\ Head(main) \in Block
        /\ \A k \in DOMAIN Tail(main) : /\ k + 1 \in DOMAIN main /\ k + 1 > 1
                                        /\ Tail(main)[k] = main[k + 1]
    BY <1>0, <2>1
  <2>6. CASE c = s
    <3>1. NoChain(Tail(main))
      BY <2>1, <2>2, <2>5, <2>6 DEF DiffIsLast, AloneAndLast, NoChain, Chained
    <3>2. ASSUME NEW b \in Block, main' = Append(Tail(main), b) \/ main' = Tail(main)
          PROVE  DiffIsLast(main', s) /\ AloneAndLast(main', s)
      BY <2>4, <2>5, <2>6, <3>1, <3>2, ShownNext, ShownNone
    <3>3. CASE RunDiff \/ RunDeleted
      <4>1. /\ chain' = chain \/ chain' = [chain EXCEPT ![c] = "halted"]
            /\ \/ main' = Tail(main)
               \/ main' = Append(Tail(main), [op |-> "deleted", vc |-> c])
               \/ main' = Append(Tail(main), [op |-> "saved", vc |-> c])
        BY <2>1, <3>3 DEF RunDiff, RunDeleted, ChainStops, DeletesRows
      <4>2. chain'[s] # "notified"
        BY <1>0, <2>4, <2>6, <4>1
      <4>3. [op |-> "deleted", vc |-> c] \in Block /\ [op |-> "saved", vc |-> c] \in Block
        BY <2>4 DEF Block, ChainBlock
      <4> QED BY <2>5, <3>2, <4>1, <4>2, <4>3
    <3>4. ASSUME NEW failed, Notifies(failed) PROVE Goal
      <4> DEFINE b == [op |-> "update", vcs |-> Observers \ failed, rows |-> stored]
      <4>1. /\ main' = IF Observers \ failed = {} THEN Tail(main) ELSE Append(Tail(main), b)
            /\ list' = [t \in Screens |-> IF t \in failed THEN NoRows ELSE list[t]]
            /\ stored' = stored /\ Head(main).op = "saved"
        BY <3>4 DEF Notifies, AtHead
      <4>2. b \in Block /\ b.op = "update" /\ b.rows = stored /\ b.vcs = Observers \ failed
        BY <1>0 DEF Block, UpdateBlock, Observers, OpenScreens
      <4>3. s \in Observers
        BY <2>1 DEF Observers, OpenScreens
      <4> HIDE DEF b
      <4>4. \A k \in DOMAIN Tail(main) : ~Sets(Tail(main)[k], s)
        BY <2>2, <2>5, <2>6, <4>1 DEF AloneAndLast
      <4>5. CASE main' = Tail(main)
        <5>1. list'[s] = NoRows
          BY <2>5, <4>1, <4>3, <4>5
        <5> QED BY <2>5, <3>1, <3>2, <4>2, <4>4, <4>5, <5>1 DEF Shown
      <4>6. CASE main' = Append(Tail(main), b)
        <5> DEFINE r == Append(Tail(main), b)
        <5>1. \A k \in DOMAIN r : (k \in DOMAIN Tail(main) /\ r[k] = Tail(main)[k]) \/ r[k] = b
          BY <2>5
        <5>2. Len(Tail(main)) + 1 \in DOMAIN r /\ r[Len(Tail(main)) + 1] = b
          BY <2>5
        <5> HIDE DEF r
        <5>3. NoChain(r)
          BY <3>1, <4>2, <5>1 DEF NoChain, Chained
        <5>4. \A k \in DOMAIN r : Sets(r[k], s) => r[k].rows = stored
          BY <4>2, <4>4, <5>1
        <5>5. list'[s] = NoRows \/ Sets(b, s)
          BY <4>1, <4>2, <4>3 DEF Sets
        <5>6. Shown(r, s, list'[s], stored)
          BY <5>2, <5>3, <5>4, <5>5 DEF Shown
        <5>7. DiffIsLast(main', s) /\ AloneAndLast(main', s)
          BY <3>2, <4>2, <4>6
        <5> QED BY <4>1, <4>6, <5>6, <5>7 DEF r
      <4> QED BY <4>1, <4>5, <4>6
    <3> QED BY <1>7, <3>3, <3>4 DEF RunSaved
  <2>7. CASE c # s
    <3>1. ~Windowed(Head(main))
      BY <2>2, <2>5, <2>7 DEF Alone
    <3>2. Head(main).op = "saved" /\ RunSaved
      BY <1>7, <2>1, <3>1 DEF Windowed, Chained, RunDiff, RunDeleted, AtHead
    <3>3. PICK failed : Notifies(failed)
      BY <3>2 DEF RunSaved
    <3> DEFINE b == [op |-> "update", vcs |-> Observers \ failed, rows |-> stored]
    <3>4. /\ main' = Tail(main) \/ main' = Append(Tail(main), b)
          /\ chain' = [chain EXCEPT ![c] = "notified"]
      BY <3>3 DEF Notifies
    <3>5. chain[s] # "notified"
      BY <2>1, <2>2, <2>5 DEF Shown, NoChain
    <3>6. chain'[s] # "notified"
      BY <1>0, <2>4, <2>7, <3>4, <3>5
    <3>7. b \in Block /\ b.op = "update"
      BY <1>0 DEF Block, UpdateBlock, Observers, OpenScreens
    <3> HIDE DEF b
    <3>8. \A k \in DOMAIN Tail(main) :
            ~(Tail(main)[k].op \in {"deleted", "saved"} /\ Tail(main)[k].vc = s)
      BY <2>1, <2>2, <2>5 DEF AloneAndLast
    <3>9. DiffIsLast(Tail(main), s)
      BY <1>0, <2>1, <2>2, ShownTail
    <3>10. CASE main' = Tail(main)
      BY <3>6, <3>8, <3>9, <3>10 DEF AloneAndLast
    <3>11. CASE main' = Append(Tail(main), b)
      <4> DEFINE r == Append(Tail(main), b)
      <4>1. \A k \in DOMAIN r : (k \in DOMAIN Tail(main) /\ r[k] = Tail(main)[k]) \/ r[k] = b
        BY <2>5
      <4> HIDE DEF r
      <4>2. AloneAndLast(r, s)
        BY <3>7, <3>8, <4>1 DEF AloneAndLast
      <4>3. DiffIsLast(r, s)
        BY <2>5, <3>7, <3>9, DiffIsLastAppend DEF r, Chained
      <4> QED BY <3>6, <3>11, <4>2, <4>3 DEF r
    <3> QED BY <3>4, <3>10, <3>11
  <2> QED BY <2>6, <2>7
<1>8. CASE Kill
  BY <1>8 DEF Kill
<1>9. CASE Restart
  BY <1>9, ConstantsOK DEF Restart
<1>10. CASE UNCHANGED vars
  <2>1. /\ app = "running" /\ phase[s] = "open" /\ latest = s /\ s \notin overlapped
        /\ UNCHANGED <<main, chain, list, stored>>
    BY <1>10 DEF vars
  <2> QED BY <1>a, <2>1
<1> QED
  BY <1>1, <1>2, <1>3, <1>4, <1>5, <1>6, <1>7, <1>8, <1>9, <1>10 DEF Next, MainStep

LEMMA ShownInvariant == ASSUME ~WriteMayFail PROVE Spec => []ShownInv
<1>1. Init => ShownInv
  BY DEF Init, ShownInv
<1>2. Typed /\ StageInv /\ WindowInv /\ ShownInv /\ [Next]_vars => ShownInv'
  BY ConstantsOK, ShownStep
<1> QED BY <1>1, <1>2, WindowInvariant, PTL DEF Spec

(***************************************************************************)
(* Sessions.  Every step of a session is a step of EntitySync or leaves it *)
(* alone, so that what is proved of EntitySync holds here and is cited.    *)
(***************************************************************************)
LEMMA SessionStepRefines == ASSUME [SessionNext]_sessionVars PROVE [Next]_vars
<1>1. CASE (\E t \in Versions : VKLogin(t)) \/ VKRefused \/ DemoLogin
  BY <1>1 DEF VKLogin, VKRefused, DemoLogin
<1>2. CASE LogOut
  <2>1. (\E s \in Screens : Close(s)) \/ UNCHANGED vars
    BY <1>2 DEF LogOut, OpenScreens
  <2> QED BY <2>1 DEF Next
<1>3. CASE Relaunch
  BY <1>3 DEF Relaunch, Next
<1>4. ASSUME NEW s \in Screens, ShowTab(s) \/ Send(s) \/ Ends(s) PROVE [Next]_vars
  <2>1. Open(s) \/ NoAnswer(s) \/ Answer(s) \/ UNCHANGED vars
    BY <1>4 DEF ShowTab, Send, Ends
  <2> QED BY <2>1 DEF Next
<1>5. CASE (MainStep \/ Kill) /\ UNCHANGED session
  BY <1>5 DEF Next
<1>6. CASE UNCHANGED sessionVars
  BY <1>6 DEF sessionVars
<1> QED BY <1>1, <1>2, <1>3, <1>4, <1>5, <1>6 DEF SessionNext

LEMMA RefinesEntitySync == SessionSpec => Spec
<1>1. SessionInit => Init
  BY DEF SessionInit
<1>2. [SessionNext]_sessionVars => [Next]_vars
  BY SessionStepRefines
<1> QED BY <1>1, <1>2, PTL DEF SessionSpec, Spec

LEMMA StagesInSession == SessionSpec => [](Typed /\ StageInv)
<1>1. Typed /\ StageInv /\ [Next]_vars => (Typed /\ StageInv)'
  BY ConstantsOK, TypedStep, StageInvStep
<1> QED BY <1>1, InitTyped, InitStageInv, RefinesEntitySync, PTL DEF Spec

(***************************************************************************)
(* Whose token a request carries.                                          *)
(***************************************************************************)
\* The token is the one VK granted last, only a session has a screen on show, and has
\* one at most, and a screen never shown has not asked.
RequestInv ==
  /\ token = granted
  /\ ~signedIn => \A s \in Screens : phase[s] # "open"
  /\ \A s, t \in Screens : phase[s] = "open" /\ phase[t] = "open" => s = t
  /\ \A s \in Screens : phase[s] = "new" => sentAs[s] = Unsent
  /\ \A s \in Screens : phase[s] = "open" => sentAs[s] \in {Unsent, granted}

LEMMA SessionTypeStep ==
  ASSUME ConstantsOK, SessionTypeOK, [SessionNext]_sessionVars
  PROVE  SessionTypeOK'
<1>2. TypeOK'
  BY SessionStepRefines, TypeOKStep DEF SessionTypeOK
<1>3. /\ token' \in Tokens /\ granted' \in Tokens /\ signedIn' \in BOOLEAN
      /\ sentAs' \in [Screens -> Tokens \cup {Unsent}]
  BY DEF SessionTypeOK, SessionNext, sessionVars, session, VKLogin, TokenAfter, VKRefused,
         DemoLogin, LogOut, Relaunch, ShowTab, Send, Ends, Tokens
<1> QED BY <1>2, <1>3 DEF SessionTypeOK

\* Only Open, Close and Restart change what is on show.
LEMMA PhaseSteps ==
  ASSUME \/ \E c \in Screens : NoAnswer(c) \/ Answer(c)
         \/ MainStep \/ Kill
  PROVE  phase' = phase
BY DEF NoAnswer, Answer, MainStep, RunShow, RunDiff, RunDeleted, RunSaved, Notifies,
       RunUpdate, Kill

LEMMA RequestStep ==
  ASSUME SessionTypeOK, StageInv, RequestInv, [SessionNext]_sessionVars
  PROVE  RequestInv'
<1>0. /\ phase \in [Screens -> {"new", "open", "closed"}] /\ sentAs \in [Screens -> Tokens \cup {Unsent}]
  BY DEF SessionTypeOK, TypeOK
<1>1. ASSUME NEW t \in Versions, VKLogin(t) PROVE RequestInv'
  BY <1>1 DEF VKLogin, TokenAfter, RequestInv, vars
<1>2. CASE VKRefused \/ DemoLogin
  BY <1>2 DEF VKRefused, DemoLogin, RequestInv, vars
<1>3. CASE LogOut
  <2>1. ASSUME NEW s \in Screens, phase[s] = "open", Close(s), UNCHANGED <<token, sentAs, granted>>
        PROVE  RequestInv'
    <3>1. phase' = [phase EXCEPT ![s] = "closed"]
      BY <2>1 DEF Close
    <3> QED BY <1>0, <2>1, <3>1 DEF RequestInv
  <2>2. ASSUME OpenScreens = {}, UNCHANGED <<vars, token, sentAs, granted>>
        PROVE  RequestInv'
    <3>1. \A s \in Screens : phase[s] # "open"
      BY <2>2 DEF OpenScreens
    <3> QED BY <2>2, <3>1 DEF RequestInv, vars
  <2> QED BY <1>3, <2>1, <2>2 DEF LogOut, OpenScreens
<1>4. CASE Relaunch
  BY <1>0, <1>4 DEF Relaunch, Restart, RequestInv
<1>5. ASSUME NEW s \in Screens, ShowTab(s) PROVE RequestInv'
  <2>1. /\ \A t \in Screens : phase[t] # "open"
        /\ phase[s] = "new" /\ phase' = [phase EXCEPT ![s] = "open"]
        /\ signedIn /\ signedIn' = signedIn /\ UNCHANGED <<token, sentAs, granted>>
    BY <1>5 DEF ShowTab, Open, OpenScreens, session
  <2> QED BY <1>0, <2>1 DEF RequestInv
<1>6. ASSUME NEW c \in Screens, Send(c) PROVE RequestInv'
  <2>1. phase[c] # "new" /\ phase' = phase /\ sentAs' = [sentAs EXCEPT ![c] = token]
    BY <1>6 DEF Send, StageInv, vars
  <2> QED BY <1>0, <1>6, <2>1 DEF Send, RequestInv
<1>7. CASE phase' = phase /\ UNCHANGED session
  BY <1>7 DEF RequestInv, session
<1>8. ASSUME NEW c \in Screens, Ends(c) PROVE phase' = phase /\ UNCHANGED session
  BY <1>8, PhaseSteps DEF Ends
<1>9. CASE (MainStep \/ Kill) /\ UNCHANGED session
  BY <1>7, <1>9, PhaseSteps
<1>10. CASE UNCHANGED sessionVars
  BY <1>7, <1>10 DEF sessionVars, vars
<1> QED
  BY <1>1, <1>2, <1>3, <1>4, <1>5, <1>6, <1>7, <1>8, <1>9, <1>10 DEF SessionNext

LEMMA RequestInvariant == SessionSpec => [](SessionTypeOK /\ RequestInv)
<1>1. SessionInit => SessionTypeOK /\ RequestInv
  BY InitTypeOK DEF SessionInit, SessionTypeOK, RequestInv, Init, Tokens
<1>2. SessionTypeOK /\ StageInv /\ RequestInv /\ [SessionNext]_sessionVars
        => (SessionTypeOK /\ RequestInv)'
  BY ConstantsOK, SessionTypeStep, RequestStep
<1> QED BY <1>1, <1>2, StagesInSession, PTL DEF SessionSpec

(***************************************************************************)
(* Whose rows an answer holds.                                             *)
(***************************************************************************)
\* A refresh that was answered was answered with rows of the token it was sent with.
AnswerInv ==
  \A c \in Screens : chain[c] \in {"comparing", "halted", "notified"} =>
    sentAs[c] # Unsent /\ loaded[c] \in RowsFor(sentAs[c])

\* A block of the main queue moves no refresh but one that was answered to these states.
LEMMA MainMoves ==
  ASSUME Typed, StageInv, MainStep, NEW c \in Screens,
         chain'[c] \in {"comparing", "halted", "notified"}
  PROVE  chain[c] \in {"comparing", "halted", "notified"}
<1>0. chain \in [Screens -> ChainStates] /\ main \in Seq(Block)
  BY DEF Typed
<1>1. CASE RunShow
  <2>1. chain' = [chain EXCEPT ![Head(main).vc] = "requested"]
    BY <1>1 DEF RunShow, ShowAndRefresh
  <2> QED BY <1>0, <2>1
<1>2. CASE RunUpdate
  BY <1>2 DEF RunUpdate
<1>3. CASE RunDiff \/ RunDeleted \/ RunSaved
  <2>1. main # <<>> /\ Owned(Head(main)) /\ Head(main).op # "show"
    BY <1>3 DEF RunDiff, RunDeleted, RunSaved, Notifies, AtHead, Owned
  <2>2. chain[Head(main).vc] = "comparing"
    BY <2>1, HeadStage
  <2>3. \/ chain' = chain
        \/ chain' = [chain EXCEPT ![Head(main).vc] = "halted"]
        \/ chain' = [chain EXCEPT ![Head(main).vc] = "notified"]
    BY <1>3 DEF RunDiff, RunDeleted, RunSaved, Notifies, ChainStops, DeletesRows
  <2> QED BY <1>0, <2>2, <2>3
<1> QED BY <1>1, <1>2, <1>3 DEF MainStep

LEMMA AnswerStep ==
  ASSUME SessionTypeOK, StageInv, AnswerInv, [SessionNext]_sessionVars
  PROVE  AnswerInv'
<1>0. /\ chain \in [Screens -> ChainStates] /\ loaded \in [Screens -> Rows]
      /\ sentAs \in [Screens -> Tokens \cup {Unsent}] /\ Typed
  BY DEF SessionTypeOK, TypeOK, Typed
<1>1. CASE /\ loaded' = loaded /\ sentAs' = sentAs
           /\ \A c \in Screens : chain'[c] \in {"comparing", "halted", "notified"} =>
                chain[c] \in {"comparing", "halted", "notified"}
  BY <1>1 DEF AnswerInv
<1>2. CASE \E t \in Versions : VKLogin(t)
  BY <1>1, <1>2 DEF VKLogin, vars
<1>3. CASE VKRefused \/ DemoLogin
  BY <1>1, <1>3 DEF VKRefused, DemoLogin, vars
<1>4. CASE LogOut
  BY <1>1, <1>4 DEF LogOut, Close, vars
<1>5. CASE Relaunch
  <2>1. chain' = [s \in Screens |-> IF chain[s] = "idle" THEN "idle" ELSE "lost"]
    BY <1>5 DEF Relaunch, Restart
  <2> QED BY <1>1, <1>5, <2>1 DEF Relaunch, Restart
<1>6. ASSUME NEW s \in Screens, ShowTab(s) PROVE AnswerInv'
  <2>1. chain' = chain \/ chain' = [chain EXCEPT ![s] = "requested"]
    BY <1>6 DEF ShowTab, Open, ShowAndRefresh
  <2> QED BY <1>0, <1>1, <1>6, <2>1 DEF ShowTab, Open, session
<1>7. ASSUME NEW c \in Screens, Send(c) PROVE AnswerInv'
  BY <1>0, <1>7 DEF Send, AnswerInv, vars
<1>8. ASSUME NEW c \in Screens, Ends(c) PROVE AnswerInv'
  <2>1. CASE NoAnswer(c)
    <3>1. chain' = [chain EXCEPT ![c] = "lost"]
      BY <2>1 DEF NoAnswer
    <3> QED BY <1>0, <1>1, <1>8, <2>1, <3>1 DEF NoAnswer, Ends, session
  <2>2. CASE Answer(c) /\ loaded'[c] \in RowsFor(sentAs[c])
    <3>1. /\ chain' = [chain EXCEPT ![c] = "comparing"]
          /\ \E answer \in Rows : loaded' = [loaded EXCEPT ![c] = answer]
      BY <2>2 DEF Answer
    <3> QED BY <1>0, <1>8, <2>2, <3>1 DEF Ends, session, AnswerInv
  <2> QED BY <1>8, <2>1, <2>2 DEF Ends
<1>9. CASE MainStep /\ UNCHANGED session
  <2>1. loaded' = loaded
    BY <1>9 DEF MainStep, RunShow, RunDiff, RunDeleted, RunSaved, Notifies, RunUpdate
  <2> QED BY <1>0, <1>1, <1>9, <2>1, MainMoves DEF session
<1>10. CASE Kill /\ UNCHANGED session
  BY <1>1, <1>10 DEF Kill, session
<1>11. CASE UNCHANGED sessionVars
  BY <1>1, <1>11 DEF sessionVars, session, vars
<1> QED
  BY <1>2, <1>3, <1>4, <1>5, <1>6, <1>7, <1>8, <1>9, <1>10, <1>11 DEF SessionNext

LEMMA AnswerInvariant == SessionSpec => []AnswerInv
<1>1. SessionInit => AnswerInv
  BY DEF SessionInit, Init, AnswerInv
<1>2. SessionTypeOK /\ StageInv /\ AnswerInv /\ [SessionNext]_sessionVars => AnswerInv'
  BY AnswerStep
<1> QED BY <1>1, <1>2, StagesInSession, RequestInvariant, PTL DEF SessionSpec

\* As long as no single write throws, the file holds rows of one account only once the
\* refresh answered last is done and overlapped no other, whoever was signed in before
\* and wherever an earlier process ended.
THEOREM FileOfOneAccount == ASSUME ~WriteMayFail PROVE SessionSpec => []FileIsOneAccounts
<1>1. SessionTypeOK /\ WindowInv /\ AnswerInv => FileIsOneAccounts
  <2> SUFFICES ASSUME SessionTypeOK, WindowInv, AnswerInv, app = "running", latest # None,
                      chain[latest] = "notified", latest \notin overlapped, NEW i \in Ids
               PROVE  stored[i] \in {Absent, sentAs[latest]}
    BY DEF FileIsOneAccounts
  <2>1. latest \in Screens
    BY DEF SessionTypeOK, TypeOK
  <2>2. stored = loaded[latest] /\ loaded[latest] \in RowsFor(sentAs[latest])
    BY <2>1 DEF WindowInv, AnswerInv
  <2> QED BY <2>2 DEF RowsFor, NoRows
<1> QED
  BY <1>1, WindowInvariant, RefinesEntitySync, RequestInvariant, AnswerInvariant, PTL

\* As long as no single write throws, the screen on show asks with the token VK granted
\* last and, once its own refresh is done, shows rows of that account only, unless an
\* earlier screen's refresh overlapped it or was answered after it.
THEOREM ScreenOfOwnAccount == ASSUME ~WriteMayFail PROVE SessionSpec => []OwnSession
<1>1. RequestInv => OwnRequest
  BY DEF RequestInv, OwnRequest, OpenScreens
<1>2. SessionTypeOK /\ RequestInv /\ AnswerInv /\ FileIsOneAccounts /\ ShownInv => OwnRows
  <2> SUFFICES ASSUME SessionTypeOK, RequestInv, AnswerInv, FileIsOneAccounts, ShownInv,
                      app = "running", main = <<>>, NEW s \in OpenScreens,
                      latest = s, chain[s] = "notified", s \notin overlapped, NEW i \in Ids
               PROVE  list[s][i] \in {Absent, granted}
    BY DEF OwnRows
  <2>1. s \in Screens /\ phase[s] = "open" /\ s # None
    BY ConstantsOK DEF OpenScreens
  <2>2. list[s] = stored \/ list[s] = NoRows
    BY <2>1 DEF ShownInv, Shown
  <2>3. stored[i] \in {Absent, sentAs[s]}
    BY <2>1 DEF FileIsOneAccounts
  <2>4. sentAs[s] = granted
    BY <2>1 DEF AnswerInv, RequestInv
  <2> QED BY <2>2, <2>3, <2>4 DEF NoRows
<1> QED
  BY <1>1, <1>2, FileOfOneAccount, ShownInvariant, RefinesEntitySync, RequestInvariant,
     AnswerInvariant, PTL DEF OwnSession

(***************************************************************************)
(* A list the user edits.  An edit touches neither the file nor the queue, *)
(* so that what is proved of the file and of the refreshes holds here too. *)
(***************************************************************************)
PublicsTyped ==
  /\ Typed
  /\ added \in [Screens -> SUBSET Demos]
  /\ removed \in [Screens -> SUBSET Ids]
  /\ \A s \in Screens : phase[s] = "new" => removed[s] = {}

\* What an edit, or the end of the process it leads to, leaves as it is.
Untouched == UNCHANGED <<stored, main, phase, chain, loaded, histories>>

LEMMA PublicsStepKinds ==
  ASSUME [PublicsNext]_publicsVars
  PROVE  \/ [Next]_vars
         \/ \E s \in OpenScreens, i \in Ids : SwipeOff(s, i)
         \/ Untouched /\ list' = list /\ app = "running" /\ app' = "demoTrap" /\ UNCHANGED edits
<1>1. CASE PublicsStep
  BY <1>1 DEF PublicsStep, Next, MainStep, RunSaved
<1>2. ASSUME NEW s \in Screens, NEW d \in Demos, AddPublic(s, d) PROVE UNCHANGED vars
  BY <1>2 DEF AddPublic
<1>3. ASSUME NEW s \in Screens, NEW i \in Ids, SwipeOff(s, i) PROVE s \in OpenScreens
  BY <1>3 DEF SwipeOff
<1>4. ASSUME NEW s \in Screens, LayOutAdded(s)
      PROVE  Untouched /\ list' = list /\ app = "running" /\ app' = "demoTrap" /\ UNCHANGED edits
  BY <1>4 DEF LayOutAdded, Untouched
<1>5. CASE UNCHANGED publicsVars
  BY <1>5 DEF publicsVars, vars
<1> QED BY <1>1, <1>2, <1>3, <1>4, <1>5 DEF PublicsNext, Next

LEMMA EditsGoneTyped ==
  ASSUME PublicsTyped, NEW S, EditsGone(S)
  PROVE  /\ added' \in [Screens -> SUBSET Demos] /\ removed' \in [Screens -> SUBSET Ids]
         /\ \A s \in Screens : removed[s] = {} => removed'[s] = {}
BY DEF PublicsTyped, EditsGone, AddedAfter

LEMMA PhaseStaysOld ==
  ASSUME Typed, [Next]_vars, NEW s \in Screens, phase'[s] = "new"
  PROVE  phase[s] = "new"
<1>1. phase \in [Screens -> {"new", "open", "closed"}]
  BY DEF Typed
<1>2. CASE MainStep
  BY <1>2 DEF MainStep, RunShow, RunDiff, RunDeleted, RunSaved, RunUpdate, Notifies
<1>3. CASE ~MainStep
  BY <1>1, <1>3 DEF Next, Open, Close, NoAnswer, Answer, Kill, Restart, vars
<1> QED BY <1>2, <1>3

LEMMA PublicsTypedStep == PublicsTyped /\ [PublicsNext]_publicsVars => PublicsTyped'
<1> SUFFICES ASSUME PublicsTyped, [PublicsNext]_publicsVars PROVE PublicsTyped'
  OBVIOUS
<1>1. Typed /\ list \in [Screens -> Rows] /\ removed \in [Screens -> SUBSET Ids]
      /\ added \in [Screens -> SUBSET Demos] /\ phase \in [Screens -> {"new", "open", "closed"}]
      /\ \A s \in Screens : phase[s] = "new" => removed[s] = {}
  BY DEF PublicsTyped, Typed
<1>2. CASE [Next]_vars
  <2>1. Typed'
    BY <1>1, <1>2, ConstantsOK, TypedStep
  <2>2. /\ added' \in [Screens -> SUBSET Demos] /\ removed' \in [Screens -> SUBSET Ids]
        /\ \A s \in Screens : phase[s] = "new" => removed'[s] = {}
    <3>1. ASSUME NEW S, EditsGone(S)
          PROVE  /\ added' \in [Screens -> SUBSET Demos] /\ removed' \in [Screens -> SUBSET Ids]
                 /\ \A s \in Screens : phase[s] = "new" => removed'[s] = {}
      BY <1>1, <3>1, EditsGoneTyped
    <3>2. CASE UNCHANGED edits
      BY <1>1, <3>2 DEF edits
    <3>3. CASE PublicsStep
      BY <3>1, <3>2, <3>3 DEF PublicsStep
    <3>4. CASE UNCHANGED publicsVars
      BY <3>2, <3>4 DEF publicsVars
    <3>5. ASSUME NEW s \in Screens, NEW d \in Demos, AddPublic(s, d)
          PROVE  added' \in [Screens -> SUBSET Demos] /\ removed' = removed
      BY <1>1, <3>5 DEF AddPublic
    <3>6. ASSUME NEW s \in Screens, NEW i \in Ids, SwipeOff(s, i)
          PROVE  /\ added' = added /\ removed' \in [Screens -> SUBSET Ids]
                 /\ \A t \in Screens : phase[t] = "new" => removed'[t] = {}
      BY <1>1, <3>6 DEF SwipeOff, OpenScreens
    <3>7. ASSUME NEW s \in Screens, LayOutAdded(s) PROVE UNCHANGED edits
      BY <3>7 DEF LayOutAdded
    <3> QED BY <1>1, <3>1, <3>2, <3>3, <3>4, <3>5, <3>6, <3>7 DEF PublicsNext
  <2>3. \A s \in Screens : phase'[s] = "new" => phase[s] = "new"
    BY <1>1, <1>2, PhaseStaysOld
  <2> QED BY <2>1, <2>2, <2>3 DEF PublicsTyped
<1>3. ASSUME NEW s \in OpenScreens, NEW i \in Ids, SwipeOff(s, i) PROVE PublicsTyped'
  <2>1. s \in Screens /\ phase[s] = "open"
    BY DEF OpenScreens
  <2>2. Without(list[s], {i}) \in Rows
    BY <1>1, <2>1, WithoutIsRows
  <2>3. list' \in [Screens -> Rows]
    BY <1>1, <1>3, <2>1, <2>2 DEF SwipeOff
  <2>4. Typed'
    BY <1>1, <1>3, <2>3 DEF SwipeOff, Typed, histories
  <2>5. /\ added' = added /\ removed' \in [Screens -> SUBSET Ids] /\ phase' = phase
        /\ \A t \in Screens : phase[t] = "new" => removed'[t] = {}
    BY <1>1, <1>3, <2>1 DEF SwipeOff
  <2> QED BY <1>1, <2>4, <2>5 DEF PublicsTyped
<1>4. CASE Untouched /\ list' = list /\ app' = "demoTrap" /\ UNCHANGED edits
  BY <1>1, <1>4 DEF Untouched, edits, histories, PublicsTyped, Typed
<1> QED BY <1>2, <1>3, <1>4, PublicsStepKinds

LEMMA PublicsTypedInvariant == PublicsSpec => []PublicsTyped
<1>1. PublicsInit => PublicsTyped
  BY InitTyped DEF PublicsInit, PublicsTyped
<1> QED BY <1>1, PublicsTypedStep, PTL DEF PublicsSpec

\* The refreshes of an edited screen take their blocks and stages as those of any other.
LEMMA PublicsStages == PublicsSpec => []StageInv
<1>1. ASSUME PublicsTyped, StageInv, [PublicsNext]_publicsVars PROVE StageInv'
  <2>1. CASE [Next]_vars
    BY <1>1, <2>1, ConstantsOK, StageInvStep DEF PublicsTyped
  <2>2. CASE UNCHANGED <<main, chain, phase>>
    BY <1>1, <2>2 DEF StageInv, OneEach, InStep, NoneOf
  <2> QED BY <1>1, <2>1, <2>2, PublicsStepKinds DEF SwipeOff, Untouched
<1>2. PublicsTyped /\ StageInv /\ [PublicsNext]_publicsVars => StageInv'
  BY <1>1
<1>3. PublicsInit => StageInv
  BY InitStageInv DEF PublicsInit
<1> QED BY <1>2, <1>3, PublicsTypedInvariant, PTL DEF PublicsSpec

\* Adding a public and swiping one off never reach the file: with an edited list, too, the
\* file changes only as CacheRefresh allows (addPublic and commit editingStyle of
\* MyPublicsTableViewController).
THEOREM EditsStayOnScreen == PublicsSpec => KeepsPromise
<1>1. ASSUME PublicsTyped, StageInv, [PublicsNext]_publicsVars
      PROVE  [Promise!Next]_(Promise!cache)
  <2>1. CASE [Next]_vars
    BY <1>1, <2>1, ConstantsOK, StepImplements DEF PublicsTyped
  <2>2. CASE UNCHANGED <<stored, main, chain, loaded>>
    <3>1. Stage' = Stage
      BY <2>2 DEF Stage, InQueue
    <3> QED BY <2>2, <3>1 DEF Promise!cache
  <2> QED BY <1>1, <2>1, <2>2, PublicsStepKinds DEF SwipeOff, Untouched
<1>2. PublicsTyped /\ StageInv /\ [PublicsNext]_publicsVars => [Promise!Next]_(Promise!cache)
  BY <1>1
<1>3. PublicsInit => Promise!Init
  BY ConstantsOK, InitImplements DEF PublicsInit
<1> QED
  BY <1>2, <1>3, PublicsTypedInvariant, PublicsStages, PTL
  DEF PublicsSpec, KeepsPromise, Promise!Spec

\* The list of an edited screen is rows it was given, without those swiped off since; and
\* if those are not the rows of the file, a block that mends them is in the queue.
Edited(q, shown, off, s, rows) ==
  \E was \in Rows : Fresh(q, s, was, rows) /\ shown = Without(was, off)
EditInv ==
  app = "running" => \A s \in OpenScreens : Edited(main, list[s], removed[s], s, stored)

LEMMA NothingSwiped == ASSUME NEW rows \in Rows PROVE Without(rows, {}) = rows
BY DEF Without, Rows

LEMMA SwipedTwice ==
  ASSUME NEW rows \in Rows, NEW I, NEW i
  PROVE  Without(Without(rows, I), {i}) = Without(rows, I \cup {i})
BY DEF Without, Rows

LEMMA EditStep ==
  ASSUME ~RealmMayFail, PublicsTyped, EditInv, [PublicsNext]_publicsVars
  PROVE  EditInv'
<1> SUFFICES ASSUME app' = "running" PROVE EditInv'
  BY DEF EditInv
<1>0. /\ main \in Seq(Block) /\ stored \in Rows /\ list \in [Screens -> Rows]
      /\ phase \in [Screens -> {"new", "open", "closed"}] /\ loaded \in [Screens -> Rows]
      /\ removed \in [Screens -> SUBSET Ids]
      /\ \A s \in Screens : phase[s] = "new" => removed[s] = {}
  BY DEF PublicsTyped, Typed
\* A step that changes neither the queue nor what is shown, for the screens on show after it.
<1>q. ASSUME UNCHANGED <<main, stored>>, app = "running", OpenScreens' \subseteq OpenScreens,
             \A s \in OpenScreens' : list'[s] = list[s] /\ removed'[s] = removed[s]
      PROVE  EditInv'
  BY <1>q DEF EditInv
<1>1. ASSUME NEW s \in Screens, Open(s), UNCHANGED edits PROVE EditInv'
  <2> DEFINE b == [op |-> "show", vc |-> s, rows |-> stored]
  <2>1. main' = Append(main, b) /\ stored' = stored /\ OpenScreens = {} /\ phase[s] = "new"
        /\ phase' = [phase EXCEPT ![s] = "open"] /\ list' = list /\ removed' = removed
    BY <1>1 DEF Open, edits
  <2>2. \A r \in OpenScreens' : r = s
    BY <1>0, <2>1 DEF OpenScreens
  <2>3. b \in Block /\ Mends(b, s, stored)
    BY <1>0 DEF Block, ShowBlock, Mends, Sets
  <2> HIDE DEF b
  <2>4. Fresh(main', s, list[s], stored')
    BY <1>0, <2>1, <2>3, FreshByMending
  <2>5. list[s] \in Rows /\ list'[s] = Without(list[s], removed'[s])
    BY <1>0, <2>1, NothingSwiped
  <2>6. Edited(main', list'[s], removed'[s], s, stored')
    BY <2>4, <2>5 DEF Edited
  <2> QED BY <2>2, <2>6 DEF EditInv
<1>2. ASSUME NEW s \in Screens, Close(s), EditsGone({s}) PROVE EditInv'
  <2>1. OpenScreens' = OpenScreens \ {s} /\ UNCHANGED <<app, main, list, stored>> /\ app = "running"
    BY <1>0, <1>2 DEF Close, OpenScreens
  <2>2. \A r \in Screens \ {s} : removed'[r] = removed[r]
    BY <1>2 DEF EditsGone
  <2>3. OpenScreens \subseteq Screens
    BY DEF OpenScreens
  <2> QED BY <1>q, <2>1, <2>2, <2>3
<1>3. ASSUME NEW c \in Screens, NoAnswer(c), UNCHANGED edits PROVE EditInv'
  BY <1>q, <1>3 DEF NoAnswer, OpenScreens, edits
<1>4. ASSUME NEW c \in Screens, Answer(c), UNCHANGED edits PROVE EditInv'
  <2> DEFINE b == CompareBlock(c)
  <2>1. /\ app = "running" /\ main' = Append(main, b) /\ UNCHANGED <<stored, phase, list>>
        /\ removed' = removed
    BY <1>4 DEF Answer, edits
  <2>2. b \in Block /\ b.op = "diff"
    BY <1>0 DEF Block, DiffBlock, CompareBlock
  <2>3. \A s : ~Stale(b, s, stored)
    BY <2>2 DEF Stale, Sets
  <2> HIDE DEF b
  <2>4. ASSUME NEW s \in OpenScreens PROVE Edited(main', list[s], removed[s], s, stored)
    <3>1. PICK was \in Rows : Fresh(main, s, was, stored) /\ list[s] = Without(was, removed[s])
      BY <2>1 DEF EditInv, Edited
    <3>2. Fresh(main', s, was, stored)
      BY <1>0, <2>1, <2>2, <2>3, <3>1, FreshAppend
    <3> QED BY <3>1, <3>2 DEF Edited
  <2> QED BY <2>1, <2>4 DEF EditInv, OpenScreens
\* A block that shows rows, and so ends the edits of the screens it shows them on.
<1>5. ASSUME app = "running", main # <<>>, Head(main).op \in {"show", "update"},
             main' = Tail(main), stored' = stored, phase' = phase,
             \A s \in Screens :
               /\ list'[s] = IF Sets(Head(main), s) THEN Head(main).rows ELSE list[s]
               /\ removed'[s] = IF Sets(Head(main), s) THEN {} ELSE removed[s]
      PROVE  EditInv'
  <2> SUFFICES ASSUME NEW s \in OpenScreens
               PROVE  Edited(Tail(main), list'[s], removed'[s], s, stored)
    BY <1>5 DEF EditInv, OpenScreens
  <2>1. PICK was \in Rows : Fresh(main, s, was, stored) /\ list[s] = Without(was, removed[s])
    BY <1>5 DEF EditInv, Edited
  <2> DEFINE now == IF Sets(Head(main), s) THEN Head(main).rows ELSE was
  <2>2. s \in Screens /\ Head(main).op \notin {"deleted", "saved"} /\ Head(main).rows \in Rows
    <3>1. Head(main) \in Block
      BY <1>0, <1>5
    <3> QED BY <1>5, <3>1, BlockShape DEF OpenScreens
  <2>3. Fresh(Tail(main), s, now, stored)
    BY <1>0, <1>5, <2>1, <2>2, FreshTail
  <2>4. now \in Rows /\ list'[s] = Without(now, removed'[s])
    BY <1>5, <2>1, <2>2, NothingSwiped
  <2> HIDE DEF now
  <2> QED BY <2>3, <2>4 DEF Edited
<1>6. ASSUME RunShow, EditsGone({Head(main).vc}) PROVE EditInv'
  <2>1. /\ app = "running" /\ main # <<>> /\ Head(main).op = "show"
        /\ main' = Tail(main) /\ stored' = stored /\ phase' = phase
        /\ list' = [list EXCEPT ![Head(main).vc] = Head(main).rows]
    BY <1>6 DEF RunShow, AtHead, ShowAndRefresh
  <2>2. \A s \in Screens :
          /\ list'[s] = IF Sets(Head(main), s) THEN Head(main).rows ELSE list[s]
          /\ removed'[s] = IF Sets(Head(main), s) THEN {} ELSE removed[s]
    BY <1>0, <1>6, <2>1 DEF Sets, EditsGone
  <2> QED BY <1>5, <2>1, <2>2
<1>7. ASSUME RunUpdate, EditsGone(Head(main).vcs) PROVE EditInv'
  <2>1. /\ app = "running" /\ main # <<>> /\ Head(main).op = "update"
        /\ main' = Tail(main) /\ stored' = stored /\ phase' = phase
        /\ list' = [s \in Screens |-> IF s \in Head(main).vcs THEN Head(main).rows ELSE list[s]]
    BY <1>7 DEF RunUpdate, AtHead
  <2>2. \A s \in Screens :
          /\ list'[s] = IF Sets(Head(main), s) THEN Head(main).rows ELSE list[s]
          /\ removed'[s] = IF Sets(Head(main), s) THEN {} ELSE removed[s]
    BY <1>7, <2>1 DEF Sets, EditsGone
  <2> QED BY <1>5, <2>1, <2>2
\* A block after which every list on show is mended.
<1>8. ASSUME NEW b \in Block, main # <<>>, main' = Append(Tail(main), b), app = "running",
             phase' = phase, \A s \in Screens : list'[s] = list[s] /\ removed'[s] = removed[s],
             \A s \in OpenScreens : Mends(b, s, stored')
      PROVE  EditInv'
  <2>1. Tail(main) \in Seq(Block)
    BY <1>0, <1>8
  <2>2. OpenScreens' = OpenScreens /\ OpenScreens \subseteq Screens
    BY <1>8 DEF OpenScreens
  <2>3. ASSUME NEW s \in OpenScreens PROVE Edited(main', list'[s], removed'[s], s, stored')
    <3>1. PICK was \in Rows : list[s] = Without(was, removed[s])
      BY <1>8 DEF EditInv, Edited
    <3>2. Fresh(main', s, was, stored')
      BY <1>8, <2>1, FreshByMending
    <3>3. list'[s] = list[s] /\ removed'[s] = removed[s]
      BY <1>8, <2>2
    <3> QED BY <3>1, <3>2, <3>3 DEF Edited
  <2> QED BY <2>2, <2>3 DEF EditInv
<1>9. ASSUME RunDiff, UNCHANGED edits PROVE EditInv'
  <2> DEFINE b == [op |-> "deleted", vc |-> Head(main).vc]
  <2>1. app = "running" /\ main # <<>> /\ Head(main).op = "diff" /\ DeletesRows
    BY <1>9 DEF RunDiff, AtHead, ChainStops
  <2>2. main' = Append(Tail(main), b)
    BY <2>1 DEF DeletesRows
  <2>3. Head(main) \in Block
    BY <1>0, <2>1
  <2>4. b \in Block /\ b.op = "deleted"
    BY <2>1, <2>3, BlockShape DEF Block, ChainBlock
  <2>5. list' = list /\ phase' = phase /\ removed' = removed
    BY <1>9 DEF RunDiff, edits
  <2> HIDE DEF b
  <2> QED BY <1>8, <2>1, <2>2, <2>4, <2>5 DEF Mends
<1>10. ASSUME RunDeleted, UNCHANGED edits PROVE EditInv'
  <2> DEFINE b == [op |-> "saved", vc |-> Head(main).vc]
  <2>1. app = "running" /\ main # <<>> /\ Head(main).op = "deleted" /\ main' = Append(Tail(main), b)
    BY <1>10 DEF RunDeleted, AtHead, ChainStops
  <2>2. Head(main) \in Block
    BY <1>0, <2>1
  <2>3. b \in Block /\ b.op = "saved"
    BY <2>1, <2>2, BlockShape DEF Block, ChainBlock
  <2>4. list' = list /\ phase' = phase /\ removed' = removed
    BY <1>10 DEF RunDeleted, edits
  <2> HIDE DEF b
  <2> QED BY <1>8, <2>1, <2>3, <2>4 DEF Mends
<1>11. ASSUME NEW failed \in FailedLoads, Notifies(failed), EditsGone(failed) PROVE EditInv'
  <2> DEFINE b == [op |-> "update", vcs |-> OpenScreens, rows |-> stored]
  <2>1. failed = {}
    BY <1>11 DEF FailedLoads
  <2>2. /\ app = "running" /\ main # <<>> /\ stored' = stored /\ phase' = phase
        /\ OpenScreens = {} \/ main' = Append(Tail(main), b)
    BY <1>11, <2>1 DEF Notifies, AtHead, Observers
  <2>3. \A s \in Screens : list'[s] = list[s] /\ removed'[s] = removed[s]
    BY <1>11, <2>1 DEF Notifies, EditsGone
  <2>4. b \in Block /\ \A s \in OpenScreens : Mends(b, s, stored)
    BY <1>0 DEF Block, UpdateBlock, Mends, Sets, OpenScreens
  <2>5. CASE OpenScreens = {}
    BY <2>2, <2>5 DEF EditInv, OpenScreens
  <2>6. CASE main' = Append(Tail(main), b)
    <3> HIDE DEF b
    <3> QED BY <1>8, <2>2, <2>3, <2>4, <2>6
  <2> QED BY <2>2, <2>5, <2>6
<1>12. CASE Kill
  BY <1>12 DEF Kill
<1>13. CASE Restart
  <2>1. OpenScreens' = {}
    BY <1>0, <1>13 DEF Restart, OpenScreens
  <2> QED BY <2>1 DEF EditInv
<1>14. ASSUME NEW s \in Screens, NEW d \in Demos, AddPublic(s, d) PROVE EditInv'
  BY <1>q, <1>14 DEF AddPublic, vars, OpenScreens
<1>15. ASSUME NEW s \in Screens, NEW i \in Ids, SwipeOff(s, i) PROVE EditInv'
  <2>1. /\ app = "running" /\ s \in OpenScreens /\ UNCHANGED <<stored, main, phase>>
        /\ list' = [list EXCEPT ![s] = Without(list[s], {i})]
        /\ removed' = [removed EXCEPT ![s] = removed[s] \cup {i}]
    BY <1>15 DEF SwipeOff
  <2>2. ASSUME NEW r \in OpenScreens PROVE Edited(main, list'[r], removed'[r], r, stored)
    <3>1. PICK was \in Rows : Fresh(main, r, was, stored) /\ list[r] = Without(was, removed[r])
      BY <2>1 DEF EditInv, Edited
    <3>2. CASE r = s
      <4>1. list'[s] = Without(list[s], {i}) /\ removed'[s] = removed[s] \cup {i}
        BY <1>0, <1>15, <2>1
      <4>2. Without(Without(was, removed[s]), {i}) = Without(was, removed[s] \cup {i})
        BY SwipedTwice
      <4>3. list[s] = Without(was, removed[s]) /\ Fresh(main, s, was, stored)
        BY <3>1, <3>2
      <4>4. list'[s] = Without(was, removed'[s])
        BY <4>1, <4>2, <4>3
      <4> QED BY <3>2, <4>3, <4>4 DEF Edited
    <3>3. CASE r # s
      <4>1. list'[r] = list[r] /\ removed'[r] = removed[r]
        BY <1>0, <2>1, <3>3 DEF OpenScreens
      <4> QED BY <3>1, <4>1 DEF Edited
    <3> QED BY <3>2, <3>3
  <2> QED BY <2>1, <2>2 DEF EditInv, OpenScreens
<1>16. ASSUME NEW s \in Screens, LayOutAdded(s) PROVE EditInv'
  BY <1>16 DEF LayOutAdded
<1>17. CASE UNCHANGED publicsVars
  BY <1>17 DEF publicsVars, vars, edits, EditInv, OpenScreens
<1>18. CASE PublicsStep
  BY <1>6, <1>7, <1>9, <1>10, <1>11, <1>18 DEF PublicsStep
<1> QED
  BY <1>1, <1>2, <1>3, <1>4, <1>12, <1>13, <1>14, <1>15, <1>16, <1>17, <1>18 DEF PublicsNext

\* As long as the file opens, an empty main queue means that the publics on the screen are
\* the rows of the file without those swiped off since they were loaded, whatever was
\* edited while a refresh was under way (MyPublicsTableViewController).
THEOREM EditedListIsCurrent == ASSUME ~RealmMayFail PROVE PublicsSpec => []EditedListCurrent
<1>1. PublicsInit => EditInv
  BY DEF PublicsInit, Init, EditInv, OpenScreens
<1>2. PublicsTyped /\ EditInv /\ [PublicsNext]_publicsVars => EditInv'
  BY EditStep
<1>3. EditInv => EditedListCurrent
  <2> SUFFICES ASSUME EditInv, app = "running", main = <<>>, NEW s \in OpenScreens
               PROVE  list[s] = Without(stored, removed[s])
    BY DEF EditedListCurrent
  <2>1. PICK was \in Rows : Fresh(main, s, was, stored) /\ list[s] = Without(was, removed[s])
    BY DEF EditInv, Edited
  <2>2. was = stored
    BY <2>1 DEF Fresh
  <2> QED BY <2>1, <2>2
<1> QED BY <1>1, <1>2, <1>3, PublicsTypedInvariant, PTL DEF PublicsSpec
=============================================================================
