---------------------------- MODULE MCFriendsList ----------------------------
(* FriendsList with three friends below two letters, and two search texts.   *)
EXTENDS FriendsList, TLC

CONSTANTS f1, f2, f3, t1, t2

MCInitial == f1 :> 1 @@ f2 :> 1 @@ f3 :> 2
MCMatches == t1 :> {f1, f3} @@ t2 :> {f3}
=============================================================================
