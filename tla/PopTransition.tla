--------------------------- MODULE PopTransition ---------------------------
(***************************************************************************)
(* CustomNavigationController, its animators and CustomInteractive-        *)
(* Transition: screens are pushed and popped with a turn of the whole      *)
(* screen, and popped by a swipe from the left edge.                       *)
(*                                                                         *)
(* The swipe's handler pops through the navigation controller of the       *)
(* screen it was given last, and the delegate makes the pop interactive    *)
(* while hasStarted holds.  The finger's last progress decides whether the *)
(* pop is finished or cancelled.  UIKit keeps the popped screen when the   *)
(* animator completes the transition with false.  The animation of a pop   *)
(* ends unfinished when the application leaves the foreground.             *)
(***************************************************************************)
EXTENDS Integers

CONSTANTS
  MaxDepth,  (* bound: screens on the stack; the app has two                *)
  Whole      (* the progress of a whole turn; a swipe's is 0 .. Whole      *)

ASSUME PopConstants == MaxDepth \in Nat \ {0} /\ Whole \in Nat \ {0}

VARIABLES
  depth,         (* the number of screens on the stack                     *)
  phase,         (* "rest", "push", "pop", "swipe": a finger turns the     *)
                 (* screen; "held": it swipes and nothing turns;           *)
                 (* "finish", "cancel": the turn goes on without it        *)
  target,        (* the screen interactiveTransition.viewController is,    *)
                 (* by its place on the stack, Gone when it left the stack *)
  hasStarted,    (* interactiveTransition.hasStarted                       *)
  shouldFinish,  (* interactiveTransition.shouldFinish                     *)
  turned,        (* the screens whose transform is not the identity        *)
  from,          (* history: the depth when the last swipe began           *)
  asked,         (* history: what that swipe asked for                     *)
  interrupted    (* history: the screens whose pop ended unfinished        *)

vars == <<depth, phase, target, hasStarted, shouldFinish, turned, from, asked, interrupted>>

Gone == 0
Screens == 1 .. MaxDepth

Init ==
  /\ depth = 1
  /\ phase = "rest"
  /\ target = Gone
  /\ hasStarted = FALSE
  /\ shouldFinish = FALSE
  /\ turned = {}
  /\ from = 1
  /\ asked = "nothing"
  /\ interrupted = {}

\* animationControllerFor a push gives the swipe to the new screen, and for a pop to
\* the screen below unless that is the first, which cannot be popped.
TargetOfPush == depth + 1
TargetOfPop == IF depth > 2 THEN depth - 1 ELSE target

\* A push begins: the new screen lies turned on top.
Push ==
  /\ phase = "rest"
  /\ depth < MaxDepth
  /\ phase' = "push"
  /\ target' = TargetOfPush
  /\ turned' = turned \cup {depth + 1}
  /\ asked' = "nothing"
  /\ UNCHANGED <<depth, hasStarted, shouldFinish, from, interrupted>>

\* The completion of CustomPushAnomator, whether or not its animation finished.
Pushed ==
  /\ phase = "push"
  /\ phase' = "rest"
  /\ depth' = depth + 1
  /\ turned' = turned \ {depth + 1}
  /\ UNCHANGED <<target, hasStarted, shouldFinish, from, asked, interrupted>>

\* The back button, or the way back from the list of all publics.
Back ==
  /\ phase = "rest"
  /\ depth > 1
  /\ phase' = IF hasStarted THEN "swipe" ELSE "pop"
  /\ target' = TargetOfPop
  /\ turned' = turned \cup {depth}
  /\ asked' = "nothing"
  /\ UNCHANGED <<depth, hasStarted, shouldFinish, from, interrupted>>

\* .began on a screen that can be touched, and the pop it starts.
Began ==
  /\ phase = "rest"
  /\ depth > 1
  /\ depth \notin turned
  /\ hasStarted' = TRUE
  /\ from' = depth
  /\ asked' = "unsure"
  /\ IF target \in 1 .. depth
     THEN phase' = "swipe" /\ target' = TargetOfPop /\ turned' = turned \cup {depth}
     ELSE phase' = "held" /\ UNCHANGED <<target, turned>>
  /\ UNCHANGED <<depth, shouldFinish, interrupted>>

\* .changed: more than 0.33 of the turn asks for the pop.
\* Mutant: once asked for, it stays so.
Decided_Sticky(p) == shouldFinish \/ 100 * p > 33 * Whole
Decided(p) == 100 * p > 33 * Whole

Changed(p) ==
  /\ phase \in {"swipe", "held"}
  /\ shouldFinish' = Decided(p)
  /\ asked' = IF 100 * p > 33 * Whole THEN "pop" ELSE "stay"
  /\ UNCHANGED <<depth, phase, target, hasStarted, turned, from, interrupted>>

\* hasStarted after the finger has left.  Mutant: it is not reset.
StartedAfter_Kept == hasStarted
StartedAfter == FALSE

LetGo(outcome) ==
  /\ phase \in {"swipe", "held"}
  /\ phase' = IF phase = "swipe" THEN outcome ELSE "rest"
  /\ hasStarted' = StartedAfter

\* .ended
Ended ==
  /\ LetGo(IF shouldFinish THEN "finish" ELSE "cancel")
  /\ UNCHANGED <<depth, target, shouldFinish, turned, from, asked, interrupted>>

\* .cancelled, also when the application leaves the foreground.
Cancelled ==
  /\ LetGo("cancel")
  /\ asked' = "stay"
  /\ UNCHANGED <<depth, target, shouldFinish, turned, from, interrupted>>

\* The completion of CustomPopAnimator after the whole turn: the screen is gone.
Popped ==
  /\ phase \in {"pop", "finish"}
  /\ phase' = "rest"
  /\ depth' = depth - 1
  /\ target' = IF target = depth THEN Gone ELSE target
  /\ turned' = turned \ {depth}
  /\ interrupted' = interrupted \ {depth}
  /\ UNCHANGED <<hasStarted, shouldFinish, from, asked>>

\* The completion after a cancelled turn: the screen is turned back.
Stayed ==
  /\ phase = "cancel"
  /\ phase' = "rest"
  /\ turned' = turned \ {depth}
  /\ interrupted' = interrupted \ {depth}
  /\ UNCHANGED <<depth, target, hasStarted, shouldFinish, from, asked>>

\* The completion after a turn that was neither finished nor cancelled: the transition is
\* completed with false, so that the screen stays, but it is not turned back.
Interrupted ==
  /\ phase \in {"pop", "finish"}
  /\ phase' = "rest"
  /\ interrupted' = interrupted \cup {depth}
  /\ asked' = "nothing"
  /\ UNCHANGED <<depth, target, hasStarted, shouldFinish, turned, from>>

Next ==
  \/ Push \/ Pushed \/ Back \/ Began
  \/ \E p \in 0 .. Whole : Changed(p)
  \/ Ended \/ Cancelled \/ Popped \/ Stayed \/ Interrupted

Spec == Init /\ [][Next]_vars
-----------------------------------------------------------------------------
(* Properties.                                                             *)

\* The flag that makes a pop interactive is up exactly while a finger swipes.
TypeOK ==
  /\ depth \in Screens
  /\ phase \in {"rest", "push", "pop", "swipe", "held", "finish", "cancel"}
  /\ target \in Screens \cup {Gone}
  /\ hasStarted \in BOOLEAN
  /\ hasStarted <=> phase \in {"swipe", "held"}
  /\ shouldFinish \in BOOLEAN
  /\ turned \subseteq Screens
  /\ from \in Screens
  /\ asked \in {"nothing", "unsure", "pop", "stay"}
  /\ interrupted \subseteq Screens

\* At rest the screen on top stands upright, and after a swipe whose progress was seen
\* it is the one the finger's last progress asked for, as long as no animation of a pop
\* was interrupted.
EndsWhereAsked ==
  phase = "rest" =>
    /\ depth \in turned => depth \in interrupted
    /\ asked = "pop" => depth = from - 1
    /\ asked = "stay" => depth = from
=============================================================================
