--------------------------- MODULE EventGenerator ---------------------------
(***************************************************************************)
(* Gateware's GEventGenerator: the window, through which the program and   *)
(* the surface hear of events, is one.  Several threads register,          *)
(* deregister and push; callbacks do the same from inside a push, and a    *)
(* listener, which the generator holds weakly, may die at any moment.      *)
(*                                                                         *)
(* Push collects the listeners under the lock into arrays of a fixed size, *)
(* one per level of a recursion, and calls them after the lock is free:    *)
(* RecursivePush is followed one listener at a time.                       *)
(*                                                                         *)
(* A definition noted "mutated" is not part of the model: it is the form   *)
(* its neighbour would have with a plausible bug, for the runs to catch.   *)
(***************************************************************************)
EXTENDS Integers, Sequences, FiniteSets, SequencesExt

CONSTANTS
  Threads, Listeners,
  NoThread,
  Stack,          \* GWI_MAX_TRAVERSAL_STACK
  MaxListeners,   \* bound of the model: entries on the list
  MaxPushes       \* bound of the model: pushes at once, of all threads

ASSUME EventGeneratorAssumption ==
  /\ Stack \in Nat \ {0} /\ MaxListeners \in Nat /\ MaxPushes \in Nat
  /\ NoThread \notin Threads

VARIABLES
  listeners,  \* the vector; position i here is index i - 1 there
  dead,       \* listeners whose last strong handle is gone
  asked,      \* per thread, the Register or Deregister it is in
  locker,     \* the thread that holds the write lock
  pushes      \* per thread its pushes, the innermost last

vars == <<listeners, dead, asked, locker, pushes>>

NoCall == <<>>

\* A push: the local arrays of its RecursivePush calls, the outermost first,
\* and where it is; current belongs to the innermost call while it collects.
PushState == [at      : {"lock", "collect", "invoke", "callback"},
              current : Int,
              arrays  : Seq(Seq(Listeners))]

Init ==
  /\ listeners = <<>>
  /\ dead = {}
  /\ asked = [t \in Threads |-> NoCall]
  /\ locker = NoThread
  /\ pushes = [t \in Threads |-> <<>>]

-----------------------------------------------------------------------------

Busy(t) == pushes[t] # <<>>
At(t, where) == Busy(t) /\ Last(pushes[t]).at = where

\* A thread calls the generator from outside any push or from a callback.
MayCall(t) == Busy(t) => At(t, "callback")

Continue(t, push) == pushes' = [pushes EXCEPT ![t] = Append(Front(@), push)]

\* Register and Deregister first look at the handle they are given, and a push
\* at the list, before they have the lock.
Ask(t, what, l) ==
  /\ MayCall(t) /\ asked[t] = NoCall
  /\ l \notin dead
  /\ asked' = [asked EXCEPT ![t] = <<what, l>>]
  /\ UNCHANGED <<listeners, dead, locker, pushes>>

\* From taking the lock to releasing it they wait for nobody and call nobody:
\* one step, which a thread that finds the lock taken has to wait for.
Register(t, l) ==
  /\ asked[t] = <<"register", l>> /\ locker = NoThread
  /\ Len(listeners) < MaxListeners
  /\ listeners' = Append(listeners, l)
  /\ asked' = [asked EXCEPT ![t] = NoCall]
  /\ UNCHANGED <<dead, locker, pushes>>

\* The first entry with that handle.  The handles of the dead are all equal:
\* if the listener died since it was looked at, one of the dead may go.
EraseFirst(l) ==
  LET same  == {i \in DOMAIN listeners : IF l \in dead THEN listeners[i] \in dead
                                                       ELSE listeners[i] = l}
      first == {i \in same : l \notin dead => \A j \in same : i <= j}
  IN {RemoveAt(listeners, i) : i \in first}
       \cup (IF l \in dead \/ same = {} THEN {listeners} ELSE {})

Deregister(t, l) ==
  /\ asked[t] = <<"deregister", l>> /\ locker = NoThread
  /\ listeners' \in EraseFirst(l)
  /\ asked' = [asked EXCEPT ![t] = NoCall]
  /\ UNCHANGED <<dead, locker, pushes>>

\* The owner of a listener lets go of it; no lock of the generator is involved.
Die(l) ==
  /\ dead' = dead \cup {l}
  /\ UNCHANGED <<listeners, asked, locker, pushes>>

\* Push looks whether anybody listens without taking the lock.  A concurrent
\* change of the vector makes that a data race; it sees the vector before or
\* after the change.
Push(t) ==
  /\ MayCall(t) /\ asked[t] = NoCall
  /\ MapThenSumSet(LAMBDA u : Len(pushes[u]), Threads) < MaxPushes
  /\ listeners # <<>>
  /\ pushes' = [pushes EXCEPT ![t] = Append(@, [at |-> "lock", current |-> -1, arrays |-> <<>>])]
  /\ UNCHANGED <<listeners, dead, asked, locker>>

\* Entering RecursivePush: an array of its own, and the search starts below
\* what the calls above it have collected.
OffsetLate(push) == (Stack + 1) * Len(push.arrays)   \* mutated
Offset(push) == Stack * Len(push.arrays)

Entered(push) ==
  [at      |-> "collect",
   current |-> Len(listeners) - 1 - Offset(push),
   arrays  |-> Append(push.arrays, <<>>)]

LockSyncWrite(t) ==
  /\ At(t, "lock") /\ locker = NoThread
  /\ locker' = t
  /\ Continue(t, Entered(Last(pushes[t])))
  /\ UNCHANGED <<listeners, dead, asked>>

HasRoom(push) == Len(Last(push.arrays)) < Stack
Looking(t) == At(t, "collect") /\ LET push == Last(pushes[t]) IN push.current >= 0 /\ HasRoom(push)

TakeListener(t) ==
  LET push == Last(pushes[t])
      next == listeners[push.current + 1]
  IN /\ Looking(t)
     /\ next \notin dead
     /\ Continue(t, [push EXCEPT !.current = @ - 1,
                                 !.arrays = Append(Front(@), Append(Last(@), next))])
     /\ UNCHANGED <<listeners, dead, asked, locker>>

EraseDead(t) ==
  LET push == Last(pushes[t])
  IN /\ Looking(t)
     /\ listeners[push.current + 1] \in dead
     /\ listeners' = RemoveAt(listeners, push.current + 1)
     /\ Continue(t, [push EXCEPT !.current = @ - 1])
     /\ UNCHANGED <<dead, asked, locker>>

Recurse(t) ==
  LET push == Last(pushes[t])
  IN /\ At(t, "collect") /\ push.current >= 0 /\ ~HasRoom(push)
     /\ Continue(t, Entered(push))
     /\ UNCHANGED <<listeners, dead, asked, locker>>

\* The deepest call frees the lock before it calls anybody.
Kept == locker          \* mutated
Released == NoThread

UnlockSyncWrite(t) ==
  LET push == Last(pushes[t])
  IN /\ At(t, "collect") /\ push.current < 0
     /\ locker' = Released
     /\ Continue(t, [push EXCEPT !.at = "invoke"])
     /\ UNCHANGED <<listeners, dead, asked>>

\* The local array is called from its end, the array of the innermost call first.
LastOut(array) == Front(array)

Invoke(t) ==
  LET push == Last(pushes[t])
  IN /\ At(t, "invoke") /\ Last(push.arrays) # <<>>
     /\ Continue(t, [push EXCEPT !.at = "callback",
                                 !.arrays = Append(Front(@), LastOut(Last(@)))])
     /\ UNCHANGED <<listeners, dead, asked, locker>>

CallbackReturns(t) ==
  /\ At(t, "callback") /\ asked[t] = NoCall
  /\ Continue(t, [Last(pushes[t]) EXCEPT !.at = "invoke"])
  /\ UNCHANGED <<listeners, dead, asked, locker>>

\* A RecursivePush returns to the one that called it, the outermost to Push.
Return(t) ==
  LET push == Last(pushes[t])
      outer == Front(push.arrays)
  IN /\ At(t, "invoke") /\ Last(push.arrays) = <<>>
     /\ IF outer = <<>> THEN pushes' = [pushes EXCEPT ![t] = Front(@)]
                        ELSE Continue(t, [push EXCEPT !.arrays = outer])
     /\ UNCHANGED <<listeners, dead, asked, locker>>

InsidePush(t) ==
  \/ LockSyncWrite(t) \/ TakeListener(t) \/ EraseDead(t) \/ Recurse(t)
  \/ UnlockSyncWrite(t) \/ Invoke(t) \/ CallbackReturns(t) \/ Return(t)

Next ==
  \/ \E t \in Threads : Push(t) \/ InsidePush(t)
  \/ \E t \in Threads, l \in Listeners : 
       \/ Ask(t, "register", l) \/ Ask(t, "deregister", l)
       \/ Register(t, l) \/ Deregister(t, l)
  \/ \E l \in Listeners \ dead : Die(l)

\* A thread that needs nobody else goes on; nothing is said of who gets a
\* contended lock.
Fairness == \A t \in Threads :
  WF_vars(TakeListener(t) \/ EraseDead(t) \/ Recurse(t) \/ UnlockSyncWrite(t))

Spec == Init /\ [][Next]_vars /\ Fairness

-----------------------------------------------------------------------------

\* Types; no local array overflows, and no search starts beyond the list.
TypeOK ==
  /\ listeners \in Seq(Listeners)
  /\ dead \subseteq Listeners
  /\ asked \in [Threads -> {NoCall} \cup ({"register", "deregister"} \X Listeners)]
  /\ locker \in Threads \cup {NoThread}
  /\ pushes \in [Threads -> Seq(PushState)]
  /\ \A t \in Threads : \A p \in DOMAIN pushes[t] :
       /\ pushes[t][p].current >= -1
       /\ \A a \in DOMAIN pushes[t][p].arrays : Len(pushes[t][p].arrays[a]) <= Stack

\* No callback runs under the lock: one that registers, deregisters or pushes
\* would wait for its own thread (the debug build of the lock answers DEADLOCK
\* and the call is lost).  The lock is held exactly while a push collects.
CallbacksUnlocked ==
  \A t \in Threads :
    /\ locker = t <=> At(t, "collect")
    /\ \A p \in DOMAIN pushes[t] : p < Len(pushes[t]) => pushes[t][p].at = "callback"

\* What the pushes of a thread still owe: nothing before the lock is released,
\* then the arrays from the end of the last one.  Only the innermost push can
\* be before its release (CallbacksUnlocked).
Owed(push) == Reverse(FlattenSeq(push.arrays))
Collected(ps) == IF ps # <<>> /\ Last(ps).at \in {"lock", "collect"} THEN Front(ps) ELSE ps
Due(ps) == [p \in DOMAIN ps |-> Owed(ps[p])]
due == [t \in Threads |-> Due(Collected(pushes[t]))]

Bus == INSTANCE EventBus WITH due <- due

\* Every push is one to the listeners of one instant, in the order they
\* registered, no matter what other threads, callbacks and owners do meanwhile
\* ("execute FIFO traversal!", "This should be safe from multiple threads").
RefinesEventBus == Bus!Spec

\* Whoever takes the lock releases it again, without help from anybody else.
LockComesFree == \A t \in Threads : locker = t ~> locker # t
=============================================================================
