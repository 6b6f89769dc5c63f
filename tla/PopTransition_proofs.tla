------------------------ MODULE PopTransition_proofs ------------------------
(***************************************************************************)
(* What holds of PopTransition for stacks of any height and turns of any   *)
(* length: its types, and that a swipe ends on the screen it asked for.    *)
(***************************************************************************)
EXTENDS PopTransition, TLAPS

(***************************************************************************)
(* The gesture always pops through a screen that is on the stack: through  *)
(* the one below the top, except on the lowest screen that can be popped,  *)
(* where an earlier swipe or push may have left it at the top.             *)
(***************************************************************************)
TargetInv ==
  /\ phase = "push" => depth < MaxDepth /\ target = depth + 1
  /\ phase # "push" /\ depth > 1 => target \in 1 .. depth
  /\ phase \in {"pop", "swipe", "finish", "cancel"} =>
       depth > 1 /\ (depth > 2 => target = depth - 1)
  /\ phase # "held"

\* The screens that do not stand upright: the one turning, and those interrupted.
TurnedInv ==
  \A d \in turned :
    \/ d \in interrupted
    \/ phase = "push" /\ d = depth + 1
    \/ phase \in {"pop", "swipe", "finish", "cancel"} /\ d = depth

\* What the finger has asked for, the flag that decides, and the way the turn goes on.
AskedInv ==
  /\ phase \in {"push", "pop"} => asked = "nothing"
  /\ phase \in {"swipe", "finish", "cancel"} => depth = from
  /\ phase = "swipe" => (asked = "pop" => shouldFinish) /\ (asked = "stay" => ~shouldFinish)
  /\ phase = "finish" => asked # "stay"
  /\ phase = "cancel" => asked # "pop"
  /\ phase = "rest" => (asked = "pop" => depth = from - 1) /\ (asked = "stay" => depth = from)

PopInv == TypeOK /\ TargetInv /\ TurnedInv /\ AskedInv

LEMMA InitPop == Init => PopInv
<1> SUFFICES ASSUME Init PROVE PopInv
  OBVIOUS
<1>1. TypeOK
  <2>1. ~hasStarted /\ phase \notin {"swipe", "held"} /\ hasStarted \in BOOLEAN
    BY DEF Init
  <2>2. depth \in Screens /\ from \in Screens /\ target \in Screens \cup {Gone}
    BY PopConstants DEF Init, Screens
  <2> QED BY <2>1, <2>2 DEF Init, TypeOK
<1>2. TargetInv /\ TurnedInv
  BY DEF Init, TargetInv, TurnedInv
<1>3. AskedInv
  BY DEF Init, AskedInv
<1> QED BY <1>1, <1>2, <1>3 DEF PopInv

LEMMA PopStep == PopInv /\ [Next]_vars => PopInv'
<1> SUFFICES ASSUME PopInv, [Next]_vars PROVE PopInv'
  OBVIOUS
<1>0. TypeOK /\ TargetInv /\ TurnedInv /\ AskedInv
  BY DEF PopInv
<1>a. phase = "rest" => ~hasStarted
  BY <1>0 DEF TypeOK
<1>1. CASE Push
  <2>1. TypeOK'
    BY PopConstants, <1>0, <1>1 DEF Push, TargetOfPush, TypeOK, TargetInv, Screens, Gone
  <2>2. TargetInv'
    BY PopConstants, <1>0, <1>1 DEF Push, TargetOfPush, TypeOK, TargetInv, Screens, Gone
  <2>3. TurnedInv'
    BY PopConstants, <1>0, <1>1 DEF Push, TargetOfPush, TypeOK, TargetInv, TurnedInv, Screens, Gone
  <2>4. AskedInv'
    BY PopConstants, <1>0, <1>1 DEF Push, TargetOfPush, TypeOK, TargetInv, AskedInv, Screens
  <2> QED BY <2>1, <2>2, <2>3, <2>4 DEF PopInv
<1>2. CASE Pushed
  <2>1. TypeOK'
    BY PopConstants, <1>0, <1>2 DEF Pushed, TypeOK, TargetInv, Screens, Gone
  <2>2. TargetInv'
    BY PopConstants, <1>0, <1>2 DEF Pushed, TypeOK, TargetInv, Screens, Gone
  <2>3. TurnedInv'
    BY PopConstants, <1>0, <1>2 DEF Pushed, TypeOK, TargetInv, TurnedInv, Screens, Gone
  <2>4. AskedInv'
    BY PopConstants, <1>0, <1>2 DEF Pushed, TypeOK, TargetInv, AskedInv, Screens
  <2> QED BY <2>1, <2>2, <2>3, <2>4 DEF PopInv
<1>3. CASE Back
  <2>0. phase = "rest" /\ phase' = "pop"
    BY <1>3, <1>a DEF Back
  <2>1. TypeOK'
    <3>1. ~hasStarted' /\ hasStarted' \in BOOLEAN
      BY <1>0, <1>3, <1>a, <2>0 DEF Back, TypeOK
    <3> QED
      BY <3>1, PopConstants, <1>0, <1>3, <2>0 DEF Back, TargetOfPop, TypeOK, Screens, Gone
  <2>2. TargetInv'
    BY PopConstants, <1>0, <1>3 DEF Back, TargetOfPop, TypeOK, TargetInv, Screens, Gone
  <2>3. TurnedInv'
    BY PopConstants, <1>0, <1>3 DEF Back, TargetOfPop, TypeOK, TargetInv, TurnedInv, Screens, Gone
  <2>4. AskedInv'
    BY PopConstants, <1>0, <1>3 DEF Back, TargetOfPop, TypeOK, TargetInv, AskedInv, Screens
  <2> QED BY <2>1, <2>2, <2>3, <2>4 DEF PopInv
<1>4. CASE Began
  <2>0. /\ phase = "rest" /\ phase' = "swipe" /\ depth > 1
        /\ target' = TargetOfPop /\ turned' = turned \cup {depth}
        /\ UNCHANGED <<depth, shouldFinish, interrupted>>
    BY <1>0, <1>4 DEF Began, TargetInv
  <2>1. TypeOK'
    <3>1. hasStarted' /\ hasStarted' \in BOOLEAN /\ phase' \in {"swipe", "held"}
      BY <1>4, <2>0 DEF Began
    <3> QED
      BY <3>1, PopConstants, <1>0, <1>4, <2>0 DEF Began, TargetOfPop, TypeOK, Screens, Gone
  <2>2. TargetInv'
    BY PopConstants, <1>0, <1>4 DEF Began, TargetOfPop, TypeOK, TargetInv, Screens, Gone
  <2>3. TurnedInv'
    BY <1>0, <2>0 DEF TurnedInv
  <2>4. AskedInv'
    BY PopConstants, <1>0, <1>4 DEF Began, TargetOfPop, TypeOK, TargetInv, AskedInv, Screens
  <2> QED BY <2>1, <2>2, <2>3, <2>4 DEF PopInv
<1>5. ASSUME NEW p \in 0 .. Whole, Changed(p) PROVE PopInv'
  <2>1. TypeOK'
    BY PopConstants, <1>0, <1>5 DEF Changed, Decided, TypeOK, TargetInv, Screens, Gone
  <2>2. TargetInv'
    BY PopConstants, <1>0, <1>5 DEF Changed, Decided, TypeOK, TargetInv, Screens, Gone
  <2>3. TurnedInv'
    BY PopConstants, <1>0, <1>5 DEF Changed, Decided, TypeOK, TargetInv, TurnedInv, Screens, Gone
  <2>4. AskedInv'
    BY PopConstants, <1>0, <1>5 DEF Changed, Decided, TypeOK, TargetInv, AskedInv, Screens
  <2> QED BY <2>1, <2>2, <2>3, <2>4 DEF PopInv
<1>6. CASE Ended
  <2>1. TypeOK'
    <3>1. phase' \in {"finish", "cancel", "rest"} /\ ~hasStarted' /\ hasStarted' \in BOOLEAN
      BY <1>6 DEF Ended, LetGo, StartedAfter
    <3> QED BY <3>1, <1>0, <1>6 DEF Ended, TypeOK
  <2>2. TargetInv'
    BY PopConstants, <1>0, <1>6 DEF Ended, LetGo, StartedAfter, TypeOK, TargetInv, Screens, Gone
  <2>3. TurnedInv'
    BY PopConstants, <1>0, <1>6 DEF Ended, LetGo, StartedAfter, TypeOK, TargetInv, TurnedInv, Screens, Gone
  <2>4. AskedInv'
    BY PopConstants, <1>0, <1>6 DEF Ended, LetGo, StartedAfter, TypeOK, TargetInv, AskedInv, Screens
  <2> QED BY <2>1, <2>2, <2>3, <2>4 DEF PopInv
<1>7. CASE Cancelled
  <2>1. TypeOK'
    <3>1. phase' \in {"finish", "cancel", "rest"} /\ ~hasStarted' /\ hasStarted' \in BOOLEAN
      BY <1>7 DEF Cancelled, LetGo, StartedAfter
    <3> QED BY <3>1, <1>0, <1>7 DEF Cancelled, TypeOK
  <2>2. TargetInv'
    BY PopConstants, <1>0, <1>7 DEF Cancelled, LetGo, StartedAfter, TypeOK, TargetInv, Screens, Gone
  <2>3. TurnedInv'
    BY PopConstants, <1>0, <1>7 DEF Cancelled, LetGo, StartedAfter, TypeOK, TargetInv, TurnedInv, Screens, Gone
  <2>4. AskedInv'
    BY PopConstants, <1>0, <1>7 DEF Cancelled, LetGo, StartedAfter, TypeOK, TargetInv, AskedInv, Screens
  <2> QED BY <2>1, <2>2, <2>3, <2>4 DEF PopInv
<1>8. CASE Popped
  <2>1. TypeOK'
    BY PopConstants, <1>0, <1>8 DEF Popped, TypeOK, TargetInv, Screens, Gone
  <2>2. TargetInv'
    BY PopConstants, <1>0, <1>8 DEF Popped, TypeOK, TargetInv, Screens, Gone
  <2>3. TurnedInv'
    BY PopConstants, <1>0, <1>8 DEF Popped, TypeOK, TargetInv, TurnedInv, Screens, Gone
  <2>4. AskedInv'
    BY PopConstants, <1>0, <1>8 DEF Popped, TypeOK, TargetInv, AskedInv, Screens
  <2> QED BY <2>1, <2>2, <2>3, <2>4 DEF PopInv
<1>9. CASE Stayed
  <2>1. TypeOK'
    BY PopConstants, <1>0, <1>9 DEF Stayed, TypeOK, TargetInv, Screens, Gone
  <2>2. TargetInv'
    BY PopConstants, <1>0, <1>9 DEF Stayed, TypeOK, TargetInv, Screens, Gone
  <2>3. TurnedInv'
    BY PopConstants, <1>0, <1>9 DEF Stayed, TypeOK, TargetInv, TurnedInv, Screens, Gone
  <2>4. AskedInv'
    BY PopConstants, <1>0, <1>9 DEF Stayed, TypeOK, TargetInv, AskedInv, Screens
  <2> QED BY <2>1, <2>2, <2>3, <2>4 DEF PopInv
<1>10. CASE Interrupted
  <2>1. TypeOK'
    BY PopConstants, <1>0, <1>10 DEF Interrupted, TypeOK, TargetInv, Screens, Gone
  <2>2. TargetInv'
    BY PopConstants, <1>0, <1>10 DEF Interrupted, TypeOK, TargetInv, Screens, Gone
  <2>3. TurnedInv'
    BY PopConstants, <1>0, <1>10 DEF Interrupted, TypeOK, TargetInv, TurnedInv, Screens, Gone
  <2>4. AskedInv'
    BY PopConstants, <1>0, <1>10 DEF Interrupted, TypeOK, TargetInv, AskedInv, Screens
  <2> QED BY <2>1, <2>2, <2>3, <2>4 DEF PopInv
<1>11. CASE UNCHANGED vars
  BY <1>11 DEF vars, PopInv, TypeOK, TargetInv, TurnedInv, AskedInv
<1> QED
  BY <1>1, <1>2, <1>3, <1>4, <1>5, <1>6, <1>7, <1>8, <1>9, <1>10, <1>11 DEF Next

LEMMA PopInvariant == Spec => []PopInv
BY InitPop, PopStep, PTL DEF Spec

\* Every reachable state is well typed: in particular hasStarted, which makes a pop
\* interactive, is up exactly while a finger swipes.
THEOREM TypeCorrect == Spec => []TypeOK
<1>1. PopInv => TypeOK
  BY DEF PopInv
<1> QED BY <1>1, PopInvariant, PTL

\* At rest the screen on top stands upright unless its pop was interrupted, and it is the
\* one the last progress of the finger asked for.
THEOREM SwipeEndsWhereAsked == Spec => []EndsWhereAsked
<1>1. PopInv => EndsWhereAsked
  BY DEF PopInv, TurnedInv, AskedInv, EndsWhereAsked
<1> QED BY <1>1, PopInvariant, PTL
=============================================================================
