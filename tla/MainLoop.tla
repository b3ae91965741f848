----------------------------- MODULE MainLoop -----------------------------
(***************************************************************************)
(* The program main.cpp builds today: a window, a responder that listens   *)
(* to it, and a loop that lets the window dispatch its messages until the  *)
(* responder has seen DESTROY.                                             *)
(*                                                                         *)
(* The window system queues messages at any time; Gateware's window only   *)
(* dispatches them inside ProcessWindowEvents, on the thread of main, and  *)
(* calls the responder from there.  Once the window is closed              *)
(* ProcessWindowEvents does nothing and fails, and main ignores its result: *)
(* a DESTROY nobody heard would leave the loop spinning for ever.          *)
(*                                                                         *)
(* A definition noted "mutated" is not part of the model: it is the form   *)
(* its neighbour would have with a plausible bug, for the runs to catch.   *)
(***************************************************************************)
EXTENDS Naturals, Sequences

CONSTANTS
  Chatter,   \* messages other than closing the window
  Capacity   \* bound: messages waiting in the queue of the window system

ASSUME MainLoopAssumption ==
  /\ Capacity \in Nat
  /\ "close" \notin Chatter /\ "DESTROY" \notin Chatter

Message == Chatter \cup {"close"}

VARIABLES
  pc,         \* where main is
  window,     \* "none", "open" or "closed"
  messages,   \* the window system's queue for the window
  registered, \* the responder listens to the window
  running     \* main's variable, captured by the responder

mainVars == <<pc, window, messages, registered, running>>

\* Types, and no message is left for a window that is gone.
MainTypeOK ==
  /\ pc \in {"create", "register", "loop", "process", "return"}
  /\ window \in {"none", "open", "closed"}
  /\ messages \in Seq(Message)
  /\ registered \in BOOLEAN
  /\ running \in BOOLEAN
  /\ messages # <<>> => window = "open"

MainInit ==
  /\ pc = "create"
  /\ window = "none"
  /\ messages = <<>>
  /\ registered = FALSE
  /\ running = TRUE

---------------------------------------------------------------------------
\* The responder: DESTROY ends the loop, any other event changes nothing.
RunningAssigned(event) == event # "DESTROY"   \* mutated
Responder(event) == running /\ event # "DESTROY"

\* Push calls the listeners that are registered, on the pushing thread.
Pushed(event) == IF registered THEN Responder(event) ELSE running

\* win.Create; on failure main has nothing more to do.
CreateWindow ==
  /\ pc = "create"
  /\ \/ pc' = "register" /\ window' = "open"
     \/ pc' = "return" /\ window' = "none"
  /\ UNCHANGED <<messages, registered, running>>

\* responder.Create and win.Register.
NotHeard == FALSE   \* mutated
Heard == TRUE
Register ==
  /\ pc = "register"
  /\ registered' = Heard
  /\ pc' = "loop"
  /\ UNCHANGED <<window, messages, running>>

\* while (running) win.ProcessWindowEvents(): it fails at once when the
\* window is closed.
Iterate ==
  /\ pc = "loop" /\ running
  /\ pc' = IF window = "open" THEN "process" ELSE "loop"
  /\ UNCHANGED <<window, messages, registered, running>>

\* One message is dispatched: closing pushes DESTROY and takes the window
\* and whatever was queued for it away; another pushes its event.
RestOnClose == <<>>
Dispatch ==
  /\ pc = "process" /\ messages # <<>>
  /\ \/ /\ Head(messages) = "close"
        /\ running' = Pushed("DESTROY")
        /\ window' = "closed"
        /\ messages' = RestOnClose
     \/ /\ Head(messages) # "close"
        /\ running' = Pushed(Head(messages))
        /\ messages' = Tail(messages)
        /\ window' = window
  /\ UNCHANGED <<pc, registered>>

\* The queue is empty: a last event tells so (EVENTS_PROCESSED, or
\* DISPLAY_CLOSED when the window of an X display was closed).
Processed ==
  /\ pc = "process" /\ messages = <<>>
  /\ running' = Pushed("processed")
  /\ pc' = "loop"
  /\ UNCHANGED <<window, messages, registered>>

Leave ==
  /\ pc = "loop" /\ ~running
  /\ pc' = "return"
  /\ UNCHANGED <<window, messages, registered, running>>

Main == CreateWindow \/ Register \/ Iterate \/ Dispatch \/ Processed \/ Leave

\* The user, or the window system.
Send(m) ==
  /\ window = "open" /\ Len(messages) < Capacity
  /\ messages' = Append(messages, m)
  /\ UNCHANGED <<pc, window, registered, running>>

MainNext == Main \/ \E m \in Message : Send(m)

\* The thread of main keeps running; nobody has to close the window.
MainSpec == MainInit /\ [][MainNext]_mainVars /\ WF_mainVars(Main)

---------------------------------------------------------------------------
(* Properties.                                                             *)

\* A window that is gone never leaves the loop spinning: whenever main comes
\* back to "while (running)" with the window closed it leaves, so the
\* responder was registered before any message could be dispatched, and no
\* event pushed after DESTROY revived the flag.
NeverDeaf == pc = "loop" /\ window = "closed" => ~running

\* main does not give up a window that is still open: only DESTROY, not any
\* other event the responder is called with, ends the loop.
LeavesOnlyClosed == pc = "return" => window # "open"

\* Closing the window ends the program, however many messages are queued
\* before it and keep coming after it.
CloseEndsProgram ==
  (\E i \in 1..Len(messages) : messages[i] = "close") ~> (pc = "return")
===========================================================================
