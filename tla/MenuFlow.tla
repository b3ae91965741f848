----------------------------- MODULE MenuFlow -----------------------------
(***************************************************************************)
(* The screens Update_VulkanRenderer draws over the game and what their    *)
(* buttons do.  Which screen a frame shows follows from four tag components *)
(* of the GameManager, read once at the head of the frame; its buttons     *)
(* remove and emplace these tags, ask for a level, start and stop the music *)
(* and ask the application to close.                                       *)
(*                                                                         *)
(* The game code (GAME/GameComponents.h and its systems) is not in the     *)
(* repository.  It is modelled from how the renderer reacts to it: it      *)
(* raises a tag only while the game is played, it can win and lose in the  *)
(* same step (the win screen clears both tags), and it serves a            *)
(* LevelLoadRequest by writing LevelProgress.                              *)
(*                                                                         *)
(* A definition noted "mutated" is not part of the model: it is the form   *)
(* its neighbour would have with a plausible bug, for the runs to catch.   *)
(***************************************************************************)
EXTENDS Naturals

CONSTANTS
  LevelCount,   \* levels of the campaign; the source says 3
  HasMusic      \* a GMusic is in the context of the registry

ASSUME MenuFlowAssumption == LevelCount \in Nat \ {0} /\ HasMusic \in BOOLEAN

Level == 1..LevelCount
Tag == {"MainMenu", "Paused", "WinMenu", "GameOver"}

VARIABLES
  tags,         \* tag components on the GameManager
  request,      \* LevelLoadRequest on the GameManager, 0 without one
  currentLevel, \* LevelProgress.currentLevel, 0 without a LevelProgress
  music,        \* the music plays
  windowClosed, \* APP::WindowClosed is on the renderer's entity
  shuttingDown, \* VulkanRenderer::shuttingDown
  alive         \* the VulkanRenderer component exists

game == <<tags, request, currentLevel, music>>
vars == <<game, windowClosed, shuttingDown, alive>>

TypeOK ==
  /\ tags \subseteq Tag
  /\ request \in Level \cup {0}
  /\ currentLevel \in Level \cup {0}
  /\ music \in BOOLEAN /\ (music => HasMusic)
  /\ windowClosed \in BOOLEAN /\ shuttingDown \in BOOLEAN /\ alive \in BOOLEAN

Init ==
  /\ tags = {"MainMenu"}
  /\ request = 0
  /\ currentLevel \in Level \cup {0}
  /\ music = FALSE
  /\ windowClosed = FALSE /\ shuttingDown = FALSE /\ alive = TRUE

\* The screen a frame shows: the main menu hides all others, then come the
\* pause, the win and the game over screen.
Screen ==
  CASE "MainMenu" \in tags -> "main"
    [] "MainMenu" \notin tags /\ "Paused" \in tags -> "paused"
    [] tags \in {{"WinMenu"}, {"WinMenu", "GameOver"}} -> "won"
    [] tags = {"GameOver"} -> "over"
    [] tags = {} -> "play"

\* A frame whose StartFrame succeeds handles the buttons of the screen.
Shows(screen) == alive /\ Screen = screen

---------------------------------------------------------------------------
(* The buttons.                                                            *)

\* "Start Game" of the main menu.
StartGame ==
  /\ Shows("main")
  /\ tags' = tags \ {"MainMenu"}
  /\ UNCHANGED <<request, currentLevel, music, windowClosed, shuttingDown, alive>>

\* "Main Menu" of the three other screens: what each removes.
PausedToMain == tags \ {"Paused"}
WinTagOnly == tags \ {"WinMenu"}   \* mutated
WonToMain == tags \ {"GameOver", "WinMenu"}
OverToMain == tags \ {"GameOver"}

ToMainMenu ==
  /\ \/ Shows("paused") /\ tags' = PausedToMain \cup {"MainMenu"}
     \/ Shows("won")    /\ tags' = WonToMain \cup {"MainMenu"}
     \/ Shows("over")   /\ tags' = OverToMain \cup {"MainMenu"}
  /\ music' = FALSE
  /\ UNCHANGED <<request, currentLevel, windowClosed, shuttingDown, alive>>

\* "Next Level" of the win screen: after the last level comes the first.
FollowingUnwrapped == currentLevel + 1   \* mutated
Following == (currentLevel % LevelCount) + 1
NextLevel ==
  /\ Shows("won")
  /\ tags' = tags \ {"WinMenu"}
  /\ music' = HasMusic
  /\ request' = Following
  /\ UNCHANGED <<currentLevel, windowClosed, shuttingDown, alive>>

\* "Restart" of the game over screen: level 1, whatever was being played.
TagsKept == tags   \* mutated
TagsOfRestart == tags \ {"GameOver"}
Restart ==
  /\ Shows("over")
  /\ tags' = TagsOfRestart
  /\ music' = HasMusic
  /\ request' = 1
  /\ UNCHANGED <<currentLevel, windowClosed, shuttingDown, alive>>

\* "Quit" of all four: the frame ends, then WindowClosed is emplaced.
Quit ==
  /\ \E screen \in {"main", "paused", "won", "over"} : Shows(screen)
  /\ windowClosed' = TRUE
  /\ UNCHANGED <<game, shuttingDown, alive>>

\* Destroy_VulkanRenderer, when the application takes the renderer down.
DestroyRenderer ==
  /\ alive
  /\ alive' = FALSE
  /\ shuttingDown' = TRUE
  /\ UNCHANGED <<game, windowClosed>>

---------------------------------------------------------------------------
(* The game.                                                               *)

\* Enter in the main menu takes the same path as the button: it removes
\* MainMenu only.
EnterKey ==
  /\ "MainMenu" \in tags
  /\ tags' = tags \ {"MainMenu"}
  /\ UNCHANGED <<request, currentLevel, music, windowClosed, shuttingDown, alive>>

\* While the game is played it may be paused, and it may be won, lost or
\* both; the music is the game's to start and stop.
Play ==
  /\ tags = {}
  /\ tags' \in {{}, {"Paused"}, {"WinMenu"}, {"GameOver"}, {"WinMenu", "GameOver"}}
  /\ music' \in BOOLEAN /\ (music' => HasMusic)
  /\ UNCHANGED <<request, currentLevel, windowClosed, shuttingDown, alive>>

Resume ==
  /\ "Paused" \in tags
  /\ tags' = tags \ {"Paused"}
  /\ UNCHANGED <<request, currentLevel, music, windowClosed, shuttingDown, alive>>

ServeRequest ==
  /\ request # 0
  /\ currentLevel' = request
  /\ request' = 0
  /\ UNCHANGED <<tags, music, windowClosed, shuttingDown, alive>>

Next ==
  \/ StartGame \/ ToMainMenu \/ NextLevel \/ Restart \/ Quit \/ DestroyRenderer
  \/ EnterKey \/ Play \/ Resume \/ ServeRequest

Spec == Init /\ [][Next]_vars

---------------------------------------------------------------------------
(* Properties.                                                             *)

\* The main menu is reached from three screens by three pieces of code: each
\* leaves no other screen behind it, to pop up when the next game starts,
\* and no music of the game that was left.
MainMenuAlone == "MainMenu" \in tags => tags = {"MainMenu"} /\ ~music

\* A level is asked for only by leaving a screen for the game: the music
\* plays, and no screen is left over the level that is coming.  (The win
\* screen's Next Level keeps a GameOver raised in the same step: see the
\* README.)
RequestStartsPlay ==
  [][request' \notin {0, request} =>
       /\ music' = HasMusic
       /\ tags' \subseteq {"GameOver"}
       /\ "WinMenu" \notin tags => tags' = {}]_vars

\* Next Level goes through the campaign in a circle: the level asked for
\* exists, and is another one than the level just won (the renderer reloads
\* its textures only when the number changes).
NextLevelMovesOn ==
  [][NextLevel /\ LevelCount > 1 => request' \in Level \ {currentLevel}]_vars

\* What the source says of Quit: "Set true when Quit pressed, tells buffer
\* cleanup to skip Vulkan calls" and "marks window closed and sets shutdown
\* flag".  The code only does the first half.
QuitSetsFlag == [][windowClosed' /\ ~windowClosed => shuttingDown']_vars
===========================================================================
