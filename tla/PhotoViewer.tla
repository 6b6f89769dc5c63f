----------------------------- MODULE PhotoViewer -----------------------------
(***************************************************************************)
(* DetailNewsPhotoViewController: the photos of a row of the feed, paged   *)
(* through by a pan.                                                       *)
(*                                                                         *)
(* Two image views rest on the left and on the right of the photo.  When a *)
(* pan begins they get the neighbouring photos and a paused animator each; *)
(* the pan drives one animator or the other, and its end stops both, puts  *)
(* one image view back and steps to the photo on that side.  A pan that    *)
(* is cancelled, or ends where it started, leaves everything as it is, and *)
(* the next one lets the animators it left paused run on to their ends.    *)
(***************************************************************************)
EXTENDS Integers

CONSTANTS
  Count,  (* the number of photos of the row                               *)
  MaxX    (* bound: the finger's positions are 0 .. MaxX                   *)

ASSUME ViewerConstants == Count \in Nat \ {0} /\ MaxX \in Nat

VARIABLES
  pan,       (* "closed": no viewer; "idle"; "on": a finger is panning     *)
  index,     (* selectedPhotoIndex                                         *)
  photo,     (* the photo in the middle                                    *)
  label,     (* the index infoLable names                                  *)
  startX,    (* startPoint.x                                               *)
  atX,       (* translation.x, the position of the last .changed           *)
  scaled,    (* is the photo scaled down?                                  *)
  side,      (* the photo of each side image view                          *)
  hidden,    (* isHidden of each side image view                           *)
  moved,     (* is its transform another than the identity?                *)
  animator,  (* the state of the animator of each side                     *)
  aims,      (* history: the sides this pan has been towards               *)
  owes       (* history: the sides earlier pans pulled in, or left to the  *)
             (* next, and no pan has ended towards since                   *)

vars == <<pan, index, photo, label, startX, atX, scaled, side, hidden, moved,
          animator, aims, owes>>

Sides == {"left", "right"}
Photos == 0 .. Count - 1
Positions == 0 .. MaxX
Nothing == Count    (* no photo *)

Neighbour(s) == IF s = "left" THEN index - 1 ELSE index + 1
HasNeighbour(s) == Neighbour(s) \in Photos

\* The side that a finger at x pulls in, and to which the end of a pan moves.
Towards(s, x) == IF s = "right" THEN x < startX ELSE x > startX

Init ==
  /\ pan = "closed"
  /\ index = 0 /\ photo = 0 /\ label = 0
  /\ startX = 0 /\ atX = 0
  /\ scaled = FALSE
  /\ side = [s \in Sides |-> Nothing]
  /\ hidden = [s \in Sides |-> TRUE]
  /\ moved = [s \in Sides |-> FALSE]
  /\ animator = [s \in Sides |-> "none"]
  /\ aims = {}
  /\ owes = {}

\* A tap on a picture of a row: its id is its place counted from one.
\* Mutant: the id is the index.
IndexOf_Id(id) == id
IndexOf(id) == id - 1

\* touchUpInside, didSelectedImage, getImageIndex and viewDidLoad: a new viewer.
Open(id) ==
  /\ pan = "closed"
  /\ pan' = "idle"
  /\ index' = IndexOf(id) /\ photo' = IndexOf(id) /\ label' = IndexOf(id)
  /\ startX' = 0 /\ atX' = 0
  /\ scaled' = FALSE
  /\ side' = [s \in Sides |-> Nothing]
  /\ hidden' = [s \in Sides |-> TRUE]
  /\ moved' = [s \in Sides |-> FALSE]
  /\ animator' = [s \in Sides |-> "none"]
  /\ aims' = {}
  /\ owes' = {}

\* .began.  An animator of the last pan that was paused is started before it is replaced.
Began(x) ==
  /\ pan = "idle"
  /\ pan' = "on"
  /\ startX' = x
  /\ scaled' = TRUE
  /\ side' = [s \in Sides |-> IF HasNeighbour(s) THEN Neighbour(s) ELSE side[s]]
  /\ hidden' = [s \in Sides |-> hidden[s] /\ ~HasNeighbour(s)]
  /\ moved' = [s \in Sides |-> moved[s] \/ animator[s] = "paused"]
  /\ animator' = [s \in Sides |-> "paused"]
  /\ aims' = {}
  /\ UNCHANGED <<index, photo, label, atX, owes>>

\* .changed: fractionComplete of the animator of the side pulled in.
Changed(x) ==
  /\ pan = "on"
  /\ atX' = x
  /\ moved' = [s \in Sides |-> moved[s] \/ (Towards(s, x) /\ HasNeighbour(s))]
  /\ aims' = aims \cup {s \in Sides : Towards(s, x)}
  /\ UNCHANGED <<pan, index, photo, label, startX, scaled, side, hidden, animator, owes>>

\* The side image view put back at the end of a pan.
\* Mutant: it is not hidden.
PutBack_Shown(s) ==
  /\ hidden' = hidden
  /\ moved' = [moved EXCEPT ![s] = FALSE]
PutBack(s) ==
  /\ hidden' = [hidden EXCEPT ![s] = TRUE]
  /\ moved' = [moved EXCEPT ![s] = FALSE]

\* .ended on one side of the start.  The position is that of the last .changed, which
\* is of an earlier pan when this one had none.
\* Mutant: the image view of the other side is put back.
Restored_Other(s) == IF s = "left" THEN "right" ELSE "left"
Restored(s) == s
Ended(s) ==
  /\ pan = "on"
  /\ Towards(s, atX)
  /\ pan' = "idle"
  /\ animator' = [t \in Sides |-> "stopped"]
  /\ scaled' = FALSE
  /\ PutBack(Restored(s))
  /\ index' = IF HasNeighbour(s) THEN Neighbour(s) ELSE index
  /\ photo' = IF HasNeighbour(s) THEN Neighbour(s) ELSE photo
  /\ label' = IF HasNeighbour(s) THEN Neighbour(s) ELSE label
  /\ owes' = (owes \cup aims) \ {s}
  /\ UNCHANGED <<startX, atX, side, aims>>

\* .ended where the pan started, and .cancelled: neither does anything.
LeftAsIs ==
  /\ pan = "on"
  /\ pan' = "idle"
  /\ owes' = Sides
  /\ UNCHANGED <<index, photo, label, startX, atX, scaled, side, hidden, moved, animator, aims>>
EndedAtStart == startX = atX /\ LeftAsIs
Cancelled == LeftAsIs

\* The swipe up: the viewer is dismissed and released; its deinit stops the animators.
Dismiss ==
  /\ pan = "idle"
  /\ pan' = "closed"
  /\ UNCHANGED <<index, photo, label, startX, atX, scaled, side, hidden, moved, animator,
                 aims, owes>>

Next ==
  \/ \E id \in 1 .. Count : Open(id)
  \/ \E x \in Positions : Began(x) \/ Changed(x)
  \/ \E s \in Sides : Ended(s)
  \/ EndedAtStart \/ Cancelled \/ Dismiss

Spec == Init /\ [][Next]_vars
-----------------------------------------------------------------------------
(* Properties.                                                             *)

TypeOK ==
  /\ pan \in {"closed", "idle", "on"}
  /\ index \in Photos /\ photo \in Photos /\ label \in Photos
  /\ startX \in Positions /\ atX \in Positions
  /\ scaled \in BOOLEAN
  /\ side \in [Sides -> Photos \cup {Nothing}]
  /\ hidden \in [Sides -> BOOLEAN]
  /\ moved \in [Sides -> BOOLEAN]
  /\ animator \in [Sides -> {"none", "paused", "stopped"}]
  /\ aims \subseteq Sides
  /\ owes \subseteq Sides

\* The photo and the label are those of the index, and whatever the last pans left on
\* the sides, an image view that shows during a pan shows the neighbour on its side.
ShowsNeighbours ==
  /\ photo = index /\ label = index
  /\ pan = "on" => \A s \in Sides : hidden[s] \/ (HasNeighbour(s) /\ side[s] = Neighbour(s))

\* Between pans a side image lies over the photo only if a pan pulled it in, or was
\* cancelled or ended where it started, and no pan has ended towards that side since:
\* the ends that leave everything as it is, and the paused animators the next pan lets
\* run on, are all made good by one end towards each side.  The first such end gives
\* the photo its size back.
RestIsClean ==
  pan = "idle" =>
    /\ owes # Sides => ~scaled
    /\ \A s \in Sides \ owes : hidden[s] \/ ~moved[s]
=============================================================================
