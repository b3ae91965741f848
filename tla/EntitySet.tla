----------------------------- MODULE EntitySet -----------------------------
(***************************************************************************)
(* What game code takes the EnTT registry for: a set of entities that are  *)
(* alive, some with a MeshCollection.  A handle is a number and a version; *)
(* the version tells the lives of a number apart, until it comes round.    *)
(***************************************************************************)
EXTENDS Naturals, Sequences, Functions

CONSTANTS
  Ids,       \* numbers of entities
  Versions   \* a version comes round after so many lives of a number

VARIABLES
  lives,   \* how often each number has been given out
  alive,   \* the handles of the entities that exist
  named    \* MeshCollection of an entity -> the handles it names

Init ==
  /\ lives = [i \in Ids |-> 0]
  /\ alive = {}
  /\ named = <<>>

\* Any number no entity has, with the next version.
Create(i) ==
  /\ \A e \in alive : e.id # i
  /\ alive' = alive \cup {[id |-> i, version |-> lives[i] % Versions]}
  /\ lives' = [lives EXCEPT ![i] = @ + 1]
  /\ UNCHANGED named

Emplace(e) ==
  /\ e \notin DOMAIN named
  /\ DOMAIN named' = DOMAIN named \cup {e}
  /\ Restrict(named', DOMAIN named) = named
  /\ named'[e] \in Seq([id : Ids, version : 0..(Versions - 1)])
  /\ UNCHANGED <<lives, alive>>

\* An entity goes after all that its MeshCollection names, and takes nothing
\* else with it.
Destroy(e) ==
  /\ e \in DOMAIN named => Range(named[e]) \cap alive = {}
  /\ alive' = alive \ {e}
  /\ named' = Restrict(named, DOMAIN named \ {e})
  /\ UNCHANGED lives

Next ==
  \/ \E i \in Ids : Create(i)
  \/ \E e \in alive : Emplace(e) \/ Destroy(e)

Spec == Init /\ [][Next]_<<lives, alive, named>>
=============================================================================
