----------------------------- MODULE AppSession -----------------------------
(***************************************************************************)
(* The sessions of the app around EntitySync: who is signed in, and with   *)
(* whose access token a refresh is sent.                                   *)
(*                                                                         *)
(* Session.instance keeps the token in memory.  The page of VKLoginView-   *)
(* Controller writes it when VK redirects with one; a redirect without one *)
(* (the user refused) opens the app as well and leaves the token as it is. *)
(* A request is built, with the token of that moment, in a block of a      *)
(* global queue, some time after the refresh was asked for.  The server    *)
(* answers with rows of the token's account: what a row holds tells here   *)
(* whose it is.                                                            *)
(*                                                                         *)
(* As Main.storyboard is wired (~MayLogOut) this is all: a process has one *)
(* session, and the file alone passes from one to the next.  With          *)
(* loginViewController in the application, for which its logOutAction, its *)
(* demo login and the "Log out" button are written, sessions follow one    *)
(* another in a process.  Logging out releases the screens and clears      *)
(* neither the token nor the file, and a request may be built when another *)
(* user is in.                                                             *)
(***************************************************************************)
EXTENDS EntitySync

CONSTANTS
  NoToken,  (* the empty token; the others are Versions                    *)
  Unsent    (* of a refresh whose request is not built yet                 *)

ASSUME TokensOK == NoToken \notin Versions \cup {Absent} /\ Unsent \notin Versions \cup {NoToken}

VARIABLES
  token,    (* Session.instance.sessionInfo.token                          *)
  signedIn, (* is the tab bar on the screen, rather than a login screen?   *)
  sentAs,   (* the token in the request of each refresh                    *)
  granted   (* history: the token VK granted last in this process          *)

session == <<token, signedIn, sentAs, granted>>
sessionVars == <<vars, session>>

Tokens == Versions \cup {NoToken}

\* The rows the server may answer to a token.  An error, which is all an empty token
\* gets, does not parse and counts as no rows.
RowsFor(t) == IF t = NoToken THEN {NoRows} ELSE [Ids -> {t, Absent}]

SessionInit ==
  /\ Init
  /\ token = NoToken
  /\ signedIn = FALSE
  /\ sentAs = [s \in Screens |-> Unsent]
  /\ granted = NoToken
-----------------------------------------------------------------------------
\* The token after a redirect with the access token t.  Mutant: only the first is taken.
TokenAfter_First(t) == IF token = NoToken THEN t ELSE token
TokenAfter(t) == t

\* decidePolicyFor of a redirect that holds an access token.
VKLogin(t) ==
  /\ app = "running" /\ ~signedIn
  /\ token' = TokenAfter(t)
  /\ granted' = t
  /\ signedIn' = TRUE
  /\ UNCHANGED <<vars, sentAs>>

\* decidePolicyFor of a redirect without one, which opens the app all the same.
VKRefused ==
  /\ app = "running" /\ ~signedIn
  /\ signedIn' = TRUE
  /\ UNCHANGED <<vars, token, sentAs, granted>>

\* loginButtonAction with the demo login: the app opens without VK.
DemoLogin ==
  /\ MayLogOut
  /\ app = "running" /\ ~signedIn
  /\ signedIn' = TRUE
  /\ UNCHANGED <<vars, token, sentAs, granted>>

\* logOutAction is empty; the unwind releases the screen, if it was ever shown.
LogOut ==
  /\ app = "running" /\ signedIn
  /\ signedIn' = FALSE
  /\ \/ \E s \in OpenScreens : Close(s)
     \/ LogOutIsHandled /\ OpenScreens = {} /\ UNCHANGED vars
  /\ UNCHANGED <<token, sentAs, granted>>

\* The tab of the screen is shown for the first time in the session.
ShowTab(s) ==
  /\ signedIn
  /\ Open(s)
  /\ UNCHANGED session

\* The block getFriends puts on the global queue.
Send(c) ==
  /\ app = "running"
  /\ chain[c] = "requested" /\ sentAs[c] = Unsent
  /\ sentAs' = [sentAs EXCEPT ![c] = token]
  /\ UNCHANGED <<vars, token, signedIn, granted>>

\* The request ends.
Ends(c) ==
  /\ sentAs[c] # Unsent
  /\ NoAnswer(c) \/ (Answer(c) /\ loaded'[c] \in RowsFor(sentAs[c]))
  /\ UNCHANGED session

\* The next process starts at the login screen, without a token.
Relaunch ==
  /\ Restart
  /\ token' = NoToken
  /\ granted' = NoToken
  /\ signedIn' = FALSE
  /\ UNCHANGED sentAs

SessionNext ==
  \/ \E t \in Versions : VKLogin(t)
  \/ VKRefused \/ DemoLogin \/ LogOut \/ Relaunch
  \/ \E s \in Screens : ShowTab(s) \/ Send(s) \/ Ends(s)
  \/ (MainStep \/ Kill) /\ UNCHANGED session

SessionSpec == SessionInit /\ [][SessionNext]_sessionVars
-----------------------------------------------------------------------------
(* Properties.                                                             *)

SessionTypeOK ==
  /\ TypeOK
  /\ token \in Tokens /\ granted \in Tokens
  /\ signedIn \in BOOLEAN
  /\ sentAs \in [Screens -> Tokens \cup {Unsent}]

\* After a refresh that overlapped no other, and until the next answer, the file holds
\* rows of one account only, that of the refresh, and none when it had no token:
\* nothing of an earlier user or an earlier process stays.
FileIsOneAccounts ==
  app = "running" /\ latest # None =>
    (chain[latest] = "notified" /\ latest \notin overlapped =>
       \A i \in Ids : stored[i] \in {Absent, sentAs[latest]})

\* Neither a block left on the global queue nor a login in between gives the refresh of
\* the screen on show the token of anyone but the user VK let in last.
OwnRequest ==
  \A s \in OpenScreens : sentAs[s] \in {Unsent, granted}

\* Once its own refresh is done, the screen shows rows of the account VK let in last,
\* and none when that was nobody, unless the refresh overlapped an earlier screen's
\* or an earlier screen's was answered after it.
OwnRows ==
  app = "running" /\ main = <<>> =>
    \A s \in OpenScreens :
      latest = s /\ chain[s] = "notified" /\ s \notin overlapped =>
        \A i \in Ids : list[s][i] \in {Absent, granted}

\* The screen on show asks as the user VK let in last and comes to show that account.
OwnSession == OwnRequest /\ OwnRows
=============================================================================
