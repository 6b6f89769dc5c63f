-------------------------- MODULE PhotoViewer_proofs --------------------------
(***************************************************************************)
(* Proofs about PhotoViewer, for any number of photos and positions of the *)
(* finger.  What the pans pulled in lies on the sides this pan has been    *)
(* towards and on those earlier pans owe, and the end of a pan puts back   *)
(* the side it is towards.                                                 *)
(***************************************************************************)
EXTENDS PhotoViewer, TLAPS

\* A side image view that shows has a photo to show there, between pans too.
ShownHasPhoto == pan # "closed" => \A s \in Sides : hidden[s] \/ HasNeighbour(s)

\* Between pans only the sides owed may be away, and animators may be left paused only
\* while both are; during a pan the sides it has been towards may be away too.
AtRest ==
  pan = "idle" =>
    /\ owes # Sides => ~scaled /\ \A s \in Sides : animator[s] # "paused"
    /\ \A s \in Sides : moved[s] => s \in owes
AwayIsAimed == pan = "on" => \A s \in Sides : moved[s] => s \in owes \cup aims

Inv == TypeOK /\ ShowsNeighbours /\ ShownHasPhoto /\ AtRest /\ AwayIsAimed

LEMMA InitInv == Init => Inv
<1> SUFFICES ASSUME Init PROVE Inv
  OBVIOUS
<1>0. 0 \in Photos /\ 0 \in Positions
  BY ViewerConstants DEF Photos, Positions
<1>1. TypeOK
  BY <1>0 DEF Init, TypeOK
<1>2. ShowsNeighbours /\ ShownHasPhoto /\ AtRest /\ AwayIsAimed
  BY DEF Init, ShowsNeighbours, ShownHasPhoto, AtRest, AwayIsAimed
<1> QED BY <1>1, <1>2 DEF Inv

LEMMA OpenStep ==
  ASSUME Inv, NEW id \in 1 .. Count, Open(id)
  PROVE  Inv'
<1>1. IndexOf(id) \in Photos /\ 0 \in Positions
  BY ViewerConstants DEF IndexOf, Photos, Positions
<1>2. TypeOK'
  BY <1>1 DEF Inv, TypeOK, Open
<1>3. (ShowsNeighbours /\ ShownHasPhoto /\ AtRest /\ AwayIsAimed)'
  BY DEF Open, ShowsNeighbours, ShownHasPhoto, AtRest, AwayIsAimed
<1> QED BY <1>2, <1>3 DEF Inv

\* An animator that was left paused runs on, and moves a side that is owed.
LEMMA BeganStep ==
  ASSUME Inv, NEW x \in Positions, Began(x)
  PROVE  Inv'
<1>1. TypeOK'
  BY DEF Inv, TypeOK, Began, HasNeighbour
<1>2. index' = index /\ \A s \in Sides : Neighbour(s)' = Neighbour(s)
  BY DEF Began, Neighbour
<1>3. ShowsNeighbours' /\ ShownHasPhoto'
  BY <1>2 DEF Inv, ShowsNeighbours, ShownHasPhoto, Began, HasNeighbour, Photos
<1>4. AtRest' /\ AwayIsAimed'
  <2>1. pan = "idle" /\ pan' = "on" /\ owes' = owes
    BY DEF Began
  <2>2. ASSUME NEW s \in Sides, moved'[s] PROVE s \in owes
    <3>1. moved[s] \/ animator[s] = "paused"
      BY <2>2 DEF Began
    <3> QED BY <2>1, <3>1 DEF Inv, AtRest
  <2> QED BY <2>1, <2>2 DEF AtRest, AwayIsAimed
<1> QED BY <1>1, <1>3, <1>4 DEF Inv

LEMMA ChangedStep ==
  ASSUME Inv, NEW x \in Positions, Changed(x)
  PROVE  Inv'
<1>1. TypeOK'
  BY DEF Inv, TypeOK, Changed, HasNeighbour, Towards
<1>2. (ShowsNeighbours /\ ShownHasPhoto)'
  BY DEF Inv, ShowsNeighbours, ShownHasPhoto, Changed, HasNeighbour, Neighbour
<1>3. AtRest'
  BY DEF AtRest, Changed
<1>4. AwayIsAimed'
  <2>1. aims' = aims \cup {s \in Sides : Towards(s, x)} /\ pan = "on" /\ owes' = owes
    BY DEF Changed
  <2>2. \A s \in Sides : moved'[s] => moved[s] \/ Towards(s, x)
    BY DEF Changed
  <2> QED BY <2>1, <2>2 DEF Inv, AwayIsAimed
<1> QED BY <1>1, <1>2, <1>3, <1>4 DEF Inv

\* The end of a pan puts the one side back that it pulled in.
LEMMA EndedStep ==
  ASSUME Inv, NEW s \in Sides, Ended(s)
  PROVE  Inv'
<1>1. TypeOK'
  <2>1. index' \in Photos /\ photo' \in Photos /\ label' \in Photos
    BY DEF Inv, TypeOK, Ended, HasNeighbour
  <2> QED BY <2>1 DEF Inv, TypeOK, Ended, PutBack, Restored
<1>2. hidden' = [hidden EXCEPT ![s] = TRUE] /\ moved' = [moved EXCEPT ![s] = FALSE]
  BY DEF Ended, PutBack, Restored
<1>3. ShowsNeighbours'
  BY DEF Inv, ShowsNeighbours, Ended
<1>4. ShownHasPhoto'
  <2> SUFFICES ASSUME NEW t \in Sides, ~hidden'[t] PROVE HasNeighbour(t)'
    BY DEF ShownHasPhoto
  <2>1. t # s /\ ~hidden[t]
    BY <1>2 DEF Inv, TypeOK
  <2>2. HasNeighbour(t) /\ index \in Photos
    BY <2>1 DEF Inv, ShownHasPhoto, TypeOK, Ended
  <2>3. index' = IF HasNeighbour(s) THEN Neighbour(s) ELSE index
    BY DEF Ended
  <2> QED BY <2>1, <2>2, <2>3, ViewerConstants DEF HasNeighbour, Neighbour, Photos, Sides
<1>5. AtRest'
  <2>1. pan = "on" /\ owes' = (owes \cup aims) \ {s} /\ ~scaled'
        /\ animator' = [t \in Sides |-> "stopped"]
    BY DEF Ended
  <2>2. ASSUME NEW t \in Sides, moved'[t] PROVE t \in owes'
    <3>1. t # s /\ moved[t]
      BY <1>2, <2>2 DEF Inv, TypeOK
    <3> QED BY <2>1, <3>1 DEF Inv, AwayIsAimed
  <2> QED BY <2>1, <2>2 DEF AtRest
<1>6. AwayIsAimed'
  BY DEF AwayIsAimed, Ended
<1> QED BY <1>1, <1>3, <1>4, <1>5, <1>6 DEF Inv

\* A pan that ends as it is, a dismissal and a stutter.
LEMMA RestStep ==
  ASSUME Inv, LeftAsIs \/ Dismiss \/ UNCHANGED vars
  PROVE  Inv'
<1>1. CASE LeftAsIs
  <2>1. TypeOK'
    BY <1>1 DEF Inv, TypeOK, LeftAsIs
  <2>2. ShowsNeighbours' /\ ShownHasPhoto'
    BY <1>1 DEF Inv, ShowsNeighbours, ShownHasPhoto, LeftAsIs, HasNeighbour, Neighbour
  <2>3. AtRest' /\ AwayIsAimed'
    BY <1>1 DEF AtRest, AwayIsAimed, LeftAsIs, Inv, TypeOK
  <2> QED BY <2>1, <2>2, <2>3 DEF Inv
<1>2. CASE Dismiss
  <2>1. TypeOK'
    BY <1>2 DEF Inv, TypeOK, Dismiss
  <2>2. (ShowsNeighbours /\ ShownHasPhoto /\ AtRest /\ AwayIsAimed)'
    BY <1>2 DEF Inv, ShowsNeighbours, ShownHasPhoto, AtRest, AwayIsAimed, Dismiss
  <2> QED BY <2>1, <2>2 DEF Inv
<1>3. CASE UNCHANGED vars
  <2> USE <1>3 DEF vars
  <2>1. TypeOK'
    BY DEF Inv, TypeOK
  <2>2. ShowsNeighbours' /\ ShownHasPhoto'
    BY DEF Inv, ShowsNeighbours, ShownHasPhoto, HasNeighbour, Neighbour
  <2>3. AtRest' /\ AwayIsAimed'
    BY DEF Inv, AtRest, AwayIsAimed
  <2> QED BY <2>1, <2>2, <2>3 DEF Inv
<1> QED BY <1>1, <1>2, <1>3

\* The invariant holds in every reachable state.
LEMMA InvHolds == Spec => []Inv
<1>1. Inv /\ [Next]_vars => Inv'
  BY OpenStep, BeganStep, ChangedStep, EndedStep, RestStep DEF Next, EndedAtStart, Cancelled
<1> QED BY InitInv, <1>1, PTL DEF Spec

\* The index stays within the photos, however pans end and wherever they started.
THEOREM TypeCorrect == Spec => []TypeOK
BY InvHolds, PTL DEF Inv

\* The photo, its label and the side image views that show always go together.
THEOREM NeighboursShown == Spec => []ShowsNeighbours
BY InvHolds, PTL DEF Inv

\* After any pans, also cancelled ones and ones that crossed their start, a side image
\* lies over the photo only until a pan has ended towards its side.
THEOREM EndsPutBack == Spec => []RestIsClean
<1>1. Inv => RestIsClean
  BY DEF Inv, AtRest, RestIsClean
<1> QED BY <1>1, InvHolds, PTL
=============================================================================
