--------------------------- MODULE ControlProofs ---------------------------
(***************************************************************************)
(* Proofs about what decides when the program ends and what it shows: the  *)
(* main loop, for any messages and any queue length, and the screens with  *)
(* their buttons, for a campaign of any number of levels.  The two modules *)
(* share nothing; each has its own invariant.                              *)
(***************************************************************************)
EXTENDS MainLoop, MenuFlow, TLAPS

-----------------------------------------------------------------------------
(* The main loop.                                                          *)

\* What makes NeverDeaf inductive: from Register on the responder listens,
\* and the flag stands exactly as long as the window.
FlagFollowsWindow ==
  /\ pc = "create" => window = "none" /\ running
  /\ pc \in {"loop", "process"} => registered
  /\ pc = "register" => window = "open"
  /\ pc \in {"register", "loop", "process"} => (running <=> window = "open")
  /\ pc = "return" => window # "open"

MainInv == MainTypeOK /\ FlagFollowsWindow

\* MainInv holds before the window is created.
LEMMA MainInitRight == MainInit => MainInv
<1> SUFFICES ASSUME MainInit PROVE MainInv
  OBVIOUS
<1>1. MainTypeOK
  <2>1. messages \in Seq(Message) /\ (messages # <<>> => window = "open")
    BY DEF MainInit
  <2>2. registered \in BOOLEAN /\ running \in BOOLEAN
    BY DEF MainInit
  <2>3. pc \in {"create", "register", "loop", "process", "return"}
    BY DEF MainInit
  <2>4. window \in {"none", "open", "closed"}
    BY DEF MainInit
  <2> QED  BY <2>1, <2>2, <2>3, <2>4 DEF MainTypeOK
<1>2. FlagFollowsWindow
  BY DEF MainInit, FlagFollowsWindow
<1> QED  BY <1>1, <1>2 DEF MainInv

\* Every step of main, of the window system and of the user keeps MainInv.
LEMMA MainNextRight == MainInv /\ [MainNext]_mainVars => MainInv'
<1> SUFFICES ASSUME MainInv, [MainNext]_mainVars PROVE MainInv'
  OBVIOUS
<1> USE DEF MainInv
<1>1. CASE CreateWindow
  <2>1. MainTypeOK'
    BY <1>1 DEF CreateWindow, MainTypeOK, FlagFollowsWindow
  <2>2. FlagFollowsWindow'
    BY <1>1 DEF CreateWindow, FlagFollowsWindow
  <2> QED  BY <2>1, <2>2
<1>2. CASE Register
  <2>1. MainTypeOK'
    BY <1>2 DEF Register, Heard, MainTypeOK
  <2>2. FlagFollowsWindow'
    BY <1>2 DEF Register, Heard, FlagFollowsWindow
  <2> QED  BY <2>1, <2>2
<1>3. CASE Iterate
  <2>1. MainTypeOK'
    BY <1>3 DEF Iterate, MainTypeOK
  <2>2. FlagFollowsWindow'
    BY <1>3 DEF Iterate, FlagFollowsWindow
  <2> QED  BY <2>1, <2>2
<1>4. CASE Dispatch
  <2>1. pc = "process" /\ pc' = pc /\ registered /\ registered' = registered
    BY <1>4 DEF Dispatch, FlagFollowsWindow
  <2>2. messages \in Seq(Message) /\ messages # <<>> /\ window = "open" /\ running
    BY <1>4, <2>1 DEF Dispatch, MainTypeOK, FlagFollowsWindow
  <2>3. CASE Head(messages) = "close"
    <3>1. ~running' /\ window' = "closed" /\ messages' = <<>>
      BY <1>4, <2>1, <2>3 DEF Dispatch, RestOnClose, Pushed, Responder
    <3>2. MainTypeOK'
      BY <2>1, <3>1, <1>4 DEF Dispatch, MainTypeOK, RestOnClose, Pushed, Responder
    <3>3. FlagFollowsWindow'
      BY <2>1, <3>1 DEF FlagFollowsWindow
    <3> QED  BY <3>2, <3>3
  <2>4. CASE Head(messages) # "close"
    <3>1. Head(messages) \in Chatter
      BY <2>2, <2>4 DEF Message
    <3>2. running' /\ window' = "open" /\ messages' = Tail(messages)
      BY <1>4, <2>1, <2>2, <2>4, <3>1, MainLoopAssumption DEF Dispatch, Pushed, Responder
    <3>3. messages' \in Seq(Message)
      BY <2>2, <3>2
    <3>4. running' \in BOOLEAN
      BY <1>4, <2>1, <2>4 DEF Dispatch, Pushed, Responder, MainTypeOK
    <3>5. MainTypeOK'
      BY <2>1, <3>2, <3>3, <3>4 DEF MainTypeOK
    <3>6. FlagFollowsWindow'
      BY <2>1, <3>2 DEF FlagFollowsWindow
    <3> QED  BY <3>5, <3>6
  <2> QED  BY <2>3, <2>4
<1>5. CASE Processed
  <2>1. running' = running
    BY <1>5 DEF Processed, Pushed, Responder, MainTypeOK
  <2>2. MainTypeOK'
    BY <1>5, <2>1 DEF Processed, MainTypeOK
  <2>3. FlagFollowsWindow'
    BY <1>5, <2>1 DEF Processed, FlagFollowsWindow
  <2> QED  BY <2>2, <2>3
<1>6. CASE Leave
  <2>1. MainTypeOK'
    BY <1>6 DEF Leave, MainTypeOK
  <2>2. FlagFollowsWindow'
    BY <1>6 DEF Leave, FlagFollowsWindow
  <2> QED  BY <2>1, <2>2
<1>7. ASSUME NEW m \in Message, Send(m) PROVE MainInv'
  <2>1. MainTypeOK'
    BY <1>7 DEF Send, MainTypeOK
  <2>2. FlagFollowsWindow'
    BY <1>7 DEF Send, FlagFollowsWindow
  <2> QED  BY <2>1, <2>2
<1>8. CASE UNCHANGED mainVars
  BY <1>8 DEF mainVars, MainTypeOK, FlagFollowsWindow
<1> QED  BY <1>1, <1>2, <1>3, <1>4, <1>5, <1>6, <1>7, <1>8 DEF MainNext, Main

\* MainInv is an invariant of the program.
THEOREM MainInvHolds == MainSpec => []MainInv
BY MainInitRight, MainNextRight, PTL DEF MainSpec

\* Types, and the queue is empty once the window is gone.
THEOREM MainTypeCorrect == MainSpec => []MainTypeOK
<1>1. MainInv => MainTypeOK
  BY DEF MainInv
<1> QED  BY <1>1, MainInvHolds, PTL

\* The loop never spins on a window that is closed, whatever is queued when.
THEOREM LoopNeverDeaf == MainSpec => []NeverDeaf
<1>1. MainInv => NeverDeaf
  BY DEF MainInv, FlagFollowsWindow, NeverDeaf
<1> QED  BY <1>1, MainInvHolds, PTL

\* Only the window's DESTROY ends the loop.
THEOREM LeavesAfterDestroy == MainSpec => []LeavesOnlyClosed
<1>1. MainInv => LeavesOnlyClosed
  BY DEF MainInv, FlagFollowsWindow, LeavesOnlyClosed
<1> QED  BY <1>1, MainInvHolds, PTL

-----------------------------------------------------------------------------
(* The screens.                                                            *)

\* MainMenuAlone is not inductive: a pause menu over a won game would leave
\* the win screen behind the main menu.  No two screens are up together but
\* those of a game won and lost in one step.
OneScreen ==
  tags \in {{}, {"MainMenu"}, {"Paused"}, {"WinMenu"}, {"GameOver"}, {"WinMenu", "GameOver"}}

Inv == TypeOK /\ OneScreen /\ ("MainMenu" \in tags => ~music)

\* The level after level c exists, and is another one if there is another.
LEMMA FollowingRight ==
  ASSUME currentLevel \in Level \cup {0}
  PROVE  /\ Following \in Level
         /\ LevelCount > 1 => Following # currentLevel
<1> DEFINE n == LevelCount
           c == currentLevel
<1>1. n \in Nat \ {0} /\ c \in 0..n
  BY MenuFlowAssumption DEF Level
<1>2. CASE c < n
  <2>1. c % n = c
    BY <1>1, <1>2
  <2> QED  BY <1>1, <1>2, <2>1 DEF Following, Level
<1>3. CASE c = n
  <2>1. c % n = 0
    BY <1>1, <1>3
  <2> QED  BY <1>1, <1>3, <2>1 DEF Following, Level
<1> QED  BY <1>1, <1>2, <1>3

\* The game starts in the main menu, silent.
LEMMA InitInv == Init => Inv
BY DEF Init, Inv, TypeOK, OneScreen, Tag

\* Every button and every step of the game keeps the invariant.
LEMMA NextInv == Inv /\ [Next]_vars => Inv'
<1> SUFFICES ASSUME Inv, [Next]_vars PROVE Inv'
  OBVIOUS
<1> USE DEF Inv, TypeOK, OneScreen, Tag
<1>1. CASE StartGame
  BY <1>1 DEF StartGame
<1>2. CASE ToMainMenu
  BY <1>2 DEF ToMainMenu, Shows, Screen, PausedToMain, WonToMain, OverToMain
<1>3. CASE NextLevel
  BY <1>3, FollowingRight, MenuFlowAssumption DEF NextLevel, Shows, Screen
<1>4. CASE Restart
  BY <1>4, MenuFlowAssumption DEF Restart, TagsOfRestart, Shows, Screen, Level
<1>5. CASE Quit
  BY <1>5 DEF Quit, game
<1>6. CASE DestroyRenderer
  BY <1>6 DEF DestroyRenderer, game
<1>7. CASE EnterKey
  BY <1>7 DEF EnterKey
<1>8. CASE Play
  BY <1>8 DEF Play
<1>9. CASE Resume
  BY <1>9 DEF Resume
<1>10. CASE ServeRequest
  BY <1>10 DEF ServeRequest
<1>11. CASE UNCHANGED vars
  BY <1>11 DEF vars, game
<1> QED  BY <1>1, <1>2, <1>3, <1>4, <1>5, <1>6, <1>7, <1>8, <1>9, <1>10, <1>11 DEF Next

\* Inv is an invariant of the menus.
THEOREM InvHolds == Spec => []Inv
BY InitInv, NextInv, PTL DEF Spec

\* Types: in particular a level asked for or played is one of the campaign.
THEOREM TypeCorrect == Spec => []TypeOK
<1>1. Inv => TypeOK
  BY DEF Inv
<1> QED  BY <1>1, InvHolds, PTL

\* Whatever way the main menu is reached, it is alone and silent.
THEOREM MainMenuIsAlone == Spec => []MainMenuAlone
<1>1. Inv => MainMenuAlone
  BY DEF Inv, OneScreen, MainMenuAlone
<1> QED  BY <1>1, InvHolds, PTL

\* Next Level asks for another level of the campaign, also after the last.
THEOREM CampaignMovesOn == Spec => NextLevelMovesOn
<1>1. Inv /\ [Next]_vars =>
        [NextLevel /\ LevelCount > 1 => request' \in Level \ {currentLevel}]_vars
  BY FollowingRight DEF Inv, TypeOK, NextLevel
<1> QED  BY <1>1, InvHolds, PTL DEF Spec, NextLevelMovesOn

\* A level asked for is never hidden by the screen it was asked from.
THEOREM RequestsStartPlay == Spec => RequestStartsPlay
<1> DEFINE Starts == request' \notin {0, request} =>
                       /\ music' = HasMusic
                       /\ tags' \subseteq {"GameOver"}
                       /\ "WinMenu" \notin tags => tags' = {}
<1>1. Inv /\ [Next]_vars => [Starts]_vars
  <2> SUFFICES ASSUME Inv, Next, request' \notin {0, request}
               PROVE  /\ music' = HasMusic
                      /\ tags' \subseteq {"GameOver"}
                      /\ "WinMenu" \notin tags => tags' = {}
    OBVIOUS
  <2>1. NextLevel \/ Restart
    BY DEF Next, StartGame, ToMainMenu, Quit, DestroyRenderer, EnterKey, Play, Resume,
           ServeRequest, game
  <2>2. CASE NextLevel
    BY <2>2 DEF Inv, OneScreen, NextLevel, Shows, Screen
  <2>3. CASE Restart
    BY <2>3 DEF Inv, OneScreen, Restart, TagsOfRestart, Shows, Screen
  <2> QED  BY <2>1, <2>2, <2>3
<1> QED  BY <1>1, InvHolds, PTL DEF Spec, RequestStartsPlay
===========================================================================
