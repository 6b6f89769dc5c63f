------------------------------- MODULE Decoding -------------------------------
(***************************************************************************)
(* What Parser and APIManager make of an answer of VK: which keys an       *)
(* answer may lack, the photos of a post, and the author of a post or of a *)
(* comment.                                                                *)
(*                                                                         *)
(* An answer is a record of what the program tells apart.  A key decoded   *)
(* with `try` rejects what holds it when it is missing or malformed; a key *)
(* decoded with `try?` becomes nil.  A text is its measured height, 0 when *)
(* it is empty or nil.  A size of a photo is known by its type, which      *)
(* stands for its URL too.                                                 *)
(***************************************************************************)
EXTENDS Integers, Sequences

CONSTANT Nil    (* Swift's nil *)

CellSize == <<"x", "m", "s", "o", "p", "q", "r", "y", "z", "w">>
DetailSize == <<"w", "z", "y", "x", "r", "q", "p", "o", "m", "s">>

ASSUME NilIsApart == Nil \notin Int /\ \A i \in DOMAIN CellSize : CellSize[i] # Nil

\* getSize: the first type of the preferred order that the photo has.
GetSize(sizes, order) ==
  LET found == {i \in DOMAIN order : order[i] \in sizes}
  IN IF found = {} THEN Nil ELSE order[CHOOSE i \in found : \A j \in found : i <= j]

PhotoOf(a) == [cell |-> GetSize(a.sizes, CellSize), detail |-> GetSize(a.sizes, DetailSize)]

\* The photos of the attachments.  An attachment without its type makes the whole
\* list nil; a photo that does not decode makes its attachment's photo nil.
Photos(attachments) ==
  IF attachments = Nil \/ \E i \in DOMAIN attachments : ~attachments[i].typed THEN <<>>
  ELSE LET upTo[n \in 0..Len(attachments)] ==
             IF n = 0 THEN <<>>
             ELSE IF attachments[n].sizes = Nil THEN upTo[n - 1]
             ELSE Append(upTo[n - 1], PhotoOf(attachments[n]))
       IN upTo[Len(attachments)]

\* Whom a positive or negative id names among the profiles and groups of the answer.
\* Mutant: a group is looked up by the negative id itself.
AuthorOf_Signed(id, answer) ==
  IF (id > 0 /\ id \in answer.profiles) \/ (id < 0 /\ id \in answer.groups) THEN id ELSE Nil
AuthorOf(id, answer) ==
  IF (id > 0 /\ id \in answer.profiles) \/ (id < 0 /\ -id \in answer.groups) THEN id ELSE Nil

\* Items decode as one array: one bad item, or a bad list beside it, rejects all.
\* Mutant: the bad items are left out.
IsWhole(answer) == answer.whole /\ \A i \in DOMAIN answer.items : answer.items[i].whole
Items_Some(answer) == IF answer.whole THEN SelectSeq(answer.items, LAMBDA it : it.whole) ELSE <<>>
Items(answer) == IF IsWhole(answer) THEN answer.items ELSE <<>>

\* The thread below a comment is optional, and nil unless all of it decodes.
ThreadOf(item) == IF item.thread = Nil \/ ~IsWhole(item.thread) THEN Nil ELSE item.thread
=============================================================================
