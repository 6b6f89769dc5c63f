---------------------------- MODULE CacheRefresh ----------------------------
(***************************************************************************)
(* What the synchronisation of LoadManager and RealmDataStorage promises   *)
(* of the file, whatever fails and however refreshes overlap, without the  *)
(* queues, the snapshots and the screens that bring it about.              *)
(*                                                                         *)
(* A refresh is answered with rows, drops rows the answer lacks, then puts *)
(* rows of the answer, and is over.  It may do either in any number of     *)
(* parts and may be given up at any point, but it never drops again once   *)
(* it has begun to put, never drops a row of its answer, and never puts    *)
(* what was not answered.  EntitySync implements this module.              *)
(***************************************************************************)
CONSTANTS Ids, Versions, Absent, Refreshes

VARIABLES
  stored,  (* the rows of the file                                         *)
  stage,   (* of each refresh: "waiting", "answered", "dropped" or "over"  *)
  answer   (* the rows each refresh was last answered with                 *)

cache == <<stored, stage, answer>>

Table == [Ids -> Versions \cup {Absent}]

Init ==
  /\ stored \in Table
  /\ stage = [r \in Refreshes |-> "waiting"]
  /\ answer \in [Refreshes -> Table]

\* The rows of the table without those of I, and with those of I as the answer has them.
Dropping(I) == [i \in Ids |-> IF i \in I THEN Absent ELSE stored[i]]
Putting(r, I) == [i \in Ids |-> IF i \in I THEN answer[r][i] ELSE stored[i]]

Answered(r) ==
  /\ stage[r] = "waiting"
  /\ \E rows \in Table : answer' = [answer EXCEPT ![r] = rows]
  /\ stage' = [stage EXCEPT ![r] = "answered"]
  /\ UNCHANGED stored

Drop(r) ==
  /\ stage[r] = "answered"
  /\ \E I \in SUBSET {i \in Ids : answer[r][i] = Absent} : stored' = Dropping(I)
  /\ stage' \in {stage, [stage EXCEPT ![r] = "dropped"]}
  /\ UNCHANGED answer

Put(r) ==
  /\ stage[r] = "dropped"
  /\ \E I \in SUBSET {i \in Ids : answer[r][i] # Absent} : stored' = Putting(r, I)
  /\ stage' \in {stage, [stage EXCEPT ![r] = "over"]}
  /\ UNCHANGED answer

\* Answers that never come, a file that does not open, the end of the process.
GiveUp(R) ==
  /\ stage' = [r \in Refreshes |-> IF r \in R THEN "over" ELSE stage[r]]
  /\ UNCHANGED <<stored, answer>>

Next ==
  \/ \E r \in Refreshes : Answered(r) \/ Drop(r) \/ Put(r)
  \/ \E R \in SUBSET Refreshes : GiveUp(R)

Spec == Init /\ [][Next]_cache
=============================================================================
