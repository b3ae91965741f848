------------------------------ MODULE EventBus ------------------------------
(***************************************************************************)
(* What an event generator promises.  An event is due to whoever is on the *)
(* list at one instant, each as often as it is on it, in the order of      *)
(* registration; afterwards the list may change, and further events may be *)
(* pushed, without touching what is due.  A dead listener may be forgotten *)
(* at any time, but a living one only by Deregister.                       *)
(***************************************************************************)
EXTENDS Naturals, Sequences, SequencesExt

CONSTANTS Threads, Listeners

VARIABLES
  listeners,   \* who is registered, in order
  dead,        \* listeners whose owner let go of them
  due          \* per thread, the calls its pushes still owe, the innermost push last

vars == <<listeners, dead, due>>

Init == listeners = <<>> /\ dead = {} /\ due = [t \in Threads |-> <<>>]

Register(l) ==
  /\ listeners' = Append(listeners, l)
  /\ UNCHANGED <<dead, due>>

Deregister(l) ==
  /\ listeners' = RemoveFirst(listeners, l)
  /\ UNCHANGED <<dead, due>>

Die(l) ==
  /\ dead' = dead \cup {l}
  /\ UNCHANGED <<listeners, due>>

Forget(i) ==
  /\ listeners[i] \in dead
  /\ listeners' = RemoveAt(listeners, i)
  /\ UNCHANGED <<dead, due>>

Push(t) ==
  /\ due' = [due EXCEPT ![t] = Append(@, listeners)]
  /\ UNCHANGED <<listeners, dead>>

Call(t) ==
  /\ due[t] # <<>> /\ Last(due[t]) # <<>>
  /\ due' = [due EXCEPT ![t] = Append(Front(@), Tail(Last(@)))]
  /\ UNCHANGED <<listeners, dead>>

Return(t) ==
  /\ due[t] # <<>> /\ Last(due[t]) = <<>>
  /\ due' = [due EXCEPT ![t] = Front(@)]
  /\ UNCHANGED <<listeners, dead>>

Next ==
  \/ \E l \in Listeners : Register(l) \/ Deregister(l) \/ Die(l)
  \/ \E i \in DOMAIN listeners : Forget(i)
  \/ \E t \in Threads : Push(t) \/ Call(t) \/ Return(t)

Spec == Init /\ [][Next]_vars
=============================================================================
