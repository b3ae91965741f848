----------------------------- MODULE LevelLoad -----------------------------
(***************************************************************************)
(* The entities of a level: Construct_GPULevel makes one per mesh of every *)
(* object of the level, and one more per further tile of scrolling terrain; *)
(* dynamic objects are hidden templates, kept by name in the ModelManager. *)
(* Destroy_MeshCollection destroys the entities of a MeshCollection from   *)
(* inside the destruction of the entity it is on, while that entity, and   *)
(* all whose destruction led to it, are still valid.                       *)
(*                                                                         *)
(* Handles are numbers that are never used twice: an EnTT handle carries a *)
(* version, and registry.valid tells an old one from its successor.        *)
(*                                                                         *)
(* The game code is not in the repository.  It is modelled from what the   *)
(* renderer provides for it: it copies the meshes of a template into an    *)
(* actor with a MeshCollection of its own, destroys what can be seen, and  *)
(* deletes everything tagged LevelEntity on a level swap.                  *)
(*                                                                         *)
(* A definition noted "mutated" is not part of the model: it is the form   *)
(* its neighbour would have with a plausible bug, for the runs to catch.   *)
(***************************************************************************)
EXTENDS Naturals, Sequences

CONSTANTS
  Name,       \* blendername of the objects
  Object,     \* objects a level may have: [name, meshes, isDynamic, isCollidable, tiles]
  Levels,     \* the levels that can be loaded: sequences of objects
  MaxEntity   \* bound: handles created altogether

ASSUME LevelLoadAssumption ==
  /\ Object \subseteq [name : Name, meshes : Nat, isDynamic : BOOLEAN,
                       isCollidable : BOOLEAN, tiles : Nat \ {0}]
  /\ Levels \subseteq Seq(Object)
  /\ MaxEntity \in Nat

VARIABLES
  pc,          \* "none", "building", "loaded" or "leaving"
  level,       \* the objects of the level
  object,      \* loop variables of Construct_GPULevel: positions in level
  meshIndex,   \*   and in the meshes of the object
  origin,      \* per handle: the level object or the actor it is part of
  valid,       \* handles registry.valid accepts
  hidden,      \* entities with DoNotRender
  collection,  \* MeshCollection components: entity -> the entities it names
  gathered,    \* dynamicObjects.entities of the object being built
  modelList,   \* ModelManager::meshCollections: name -> entities
  destroying   \* calls of registry.destroy under way, the innermost last:
               \*   [entity, rest of the collection it still has to go through]

build == <<level, object, meshIndex, gathered, modelList>>
vars  == <<pc, build, origin, valid, hidden, collection, destroying>>

Entity == 1..MaxEntity
Origin == [of : {"level", "actor"}, number : Nat]
Made   == Len(origin)

TypeOK ==
  /\ pc \in {"none", "building", "loaded", "leaving"}
  /\ level \in Seq(Object)
  /\ object \in 1..(Len(level) + 1)
  /\ meshIndex \in Nat \ {0}
  /\ origin \in Seq(Origin) /\ Made <= MaxEntity
  /\ valid \subseteq 1..Made
  /\ hidden \subseteq valid
  /\ DOMAIN collection \subseteq valid
  /\ \A e \in DOMAIN collection : collection[e] \in Seq(1..Made)
  /\ gathered \in Seq(1..Made) /\ Len(gathered) < meshIndex
  /\ DOMAIN modelList \subseteq Name
  /\ \A n \in DOMAIN modelList : modelList[n] \in Seq(1..Made)
  /\ destroying \in Seq([entity : 1..Made, rest : Seq(1..Made)])

Init ==
  /\ pc = "none"
  /\ level = <<>> /\ object = 1 /\ meshIndex = 1 /\ gathered = <<>>
  /\ modelList = <<>>
  /\ origin = <<>> /\ valid = {} /\ hidden = {} /\ collection = <<>>
  /\ destroying = <<>>

With(f, x, y) == [z \in DOMAIN f \cup {x} |-> IF z = x THEN y ELSE f[z]]
Without(f, x) == [z \in DOMAIN f \ {x} |-> f[z]]

LevelEntities == {e \in valid : origin[e].of = "level"}
Elements(s) == {s[i] : i \in DOMAIN s}

---------------------------------------------------------------------------
(* Construct_GPULevel.                                                     *)

\* The ModelManager lives in the context of the registry and is only cleared.
ModelsKept == modelList   \* mutated
ModelsCleared == <<>>

BeginLoad(l) ==
  /\ pc = "none"
  /\ pc' = "building"
  /\ level' = l /\ object' = 1 /\ meshIndex' = 1 /\ gathered' = <<>>
  /\ modelList' = ModelsCleared
  /\ UNCHANGED <<origin, valid, hidden, collection, destroying>>

Building == pc = "building" /\ object <= Len(level)

\* What the MeshCollection of a collidable mesh names: the meshes that were
\* pushed to dynamicObjects before this one.
NamedWithSelf(e) ==   \* mutated
  IF level[object].isDynamic THEN Append(gathered, e) ELSE gathered
Named(e) == gathered

BuildMesh ==
  /\ Building
  /\ meshIndex <= level[object].meshes
  /\ LET o     == level[object]
         e     == Made + 1
         built == e..(Made + o.tiles)
     IN /\ Made + o.tiles <= MaxEntity
        /\ origin' = origin \o [t \in 1..o.tiles |-> [of |-> "level", number |-> object]]
        /\ valid' = valid \cup built
        /\ collection' = IF o.isCollidable THEN With(collection, e, Named(e)) ELSE collection
        /\ hidden' = IF o.isDynamic THEN hidden \cup {e} ELSE hidden
        /\ gathered' = IF o.isDynamic THEN Append(gathered, e) ELSE gathered
  /\ meshIndex' = meshIndex + 1
  /\ UNCHANGED <<pc, level, object, modelList, destroying>>

\* After the meshes of an object: insert keeps what is there already, and the
\* next object starts with an empty dynamicObjects.
GatheredKept == gathered   \* mutated
GatheredOfNext == <<>>
Replaced(o) == With(modelList, o.name, gathered)   \* mutated
Inserted(o) ==
  IF o.name \in DOMAIN modelList THEN modelList ELSE With(modelList, o.name, gathered)

EndObject ==
  /\ Building
  /\ meshIndex > level[object].meshes
  /\ modelList' = IF level[object].isDynamic THEN Inserted(level[object]) ELSE modelList
  /\ object' = object + 1 /\ meshIndex' = 1 /\ gathered' = GatheredOfNext
  /\ UNCHANGED <<pc, level, origin, valid, hidden, collection, destroying>>

EndLoad ==
  /\ pc = "building" /\ object > Len(level)
  /\ pc' = "loaded"
  /\ UNCHANGED <<build, origin, valid, hidden, collection, destroying>>

---------------------------------------------------------------------------
(* registry.destroy and Destroy_MeshCollection.  The loop over a collection *)
(* keeps its place when its component is moved within the pool by a nested  *)
(* destroy, as moving a vector moves its buffer.  The components of an      *)
(* entity go in one step, after the cascade.                                *)

Frame(e) == [entity |-> e,
             rest   |-> IF e \in DOMAIN collection THEN collection[e] ELSE <<>>]
Top == destroying[Len(destroying)]
Callers == SubSeq(destroying, 1, Len(destroying) - 1)

\* "if (registry.valid(meshEnt))": an entity being destroyed is valid still.
AnyHandle(e) == TRUE   \* mutated
StillThere(e) == e \in valid

VisitNamed ==
  /\ destroying # <<>> /\ Top.rest # <<>>
  /\ LET e    == Head(Top.rest)
         here == Append(Callers, [Top EXCEPT !.rest = Tail(@)])
     IN destroying' = IF StillThere(e) THEN Append(here, Frame(e)) ELSE here
  /\ UNCHANGED <<pc, build, origin, valid, hidden, collection>>

FinishDestroy ==
  /\ destroying # <<>> /\ Top.rest = <<>>
  /\ valid' = valid \ {Top.entity}
  /\ hidden' = hidden \ {Top.entity}
  /\ collection' = Without(collection, Top.entity)
  /\ destroying' = Callers
  /\ UNCHANGED <<pc, build, origin>>

---------------------------------------------------------------------------
(* The game.                                                               *)

\* An actor made from a template: copies of its meshes, and an entity whose
\* MeshCollection names them.
Spawn(n) ==
  /\ pc = "loaded" /\ destroying = <<>>
  /\ n \in DOMAIN modelList
  /\ LET a == Made + 1
         copies == [i \in 1..Len(modelList[n]) |-> a + i]
     IN /\ a + Len(copies) <= MaxEntity
        /\ origin' = origin \o [i \in 1..(Len(copies) + 1) |-> [of |-> "actor", number |-> a]]
        /\ valid' = valid \cup {a} \cup Elements(copies)
        /\ collection' = With(collection, a, copies)
  /\ UNCHANGED <<pc, build, hidden, destroying>>

\* An actor, a wall or any other visible entity is hit.
Hit(e) ==
  /\ pc = "loaded" /\ destroying = <<>>
  /\ e \in valid \ hidden
  /\ destroying' = <<Frame(e)>>
  /\ UNCHANGED <<pc, build, origin, valid, hidden, collection>>

\* The level swap deletes what is tagged LevelEntity, in any order.
Leave ==
  /\ pc = "loaded" /\ destroying = <<>>
  /\ pc' = "leaving"
  /\ UNCHANGED <<build, origin, valid, hidden, collection, destroying>>

DeleteLevelEntity(e) ==
  /\ pc = "leaving" /\ destroying = <<>>
  /\ e \in LevelEntities
  /\ destroying' = <<Frame(e)>>
  /\ UNCHANGED <<pc, build, origin, valid, hidden, collection>>

Left ==
  /\ pc = "leaving" /\ destroying = <<>> /\ LevelEntities = {}
  /\ pc' = "none"
  /\ UNCHANGED <<build, origin, valid, hidden, collection, destroying>>

Next ==
  \/ \E l \in Levels : BeginLoad(l)
  \/ BuildMesh \/ EndObject \/ EndLoad
  \/ VisitNamed \/ FinishDestroy
  \/ \E n \in Name : Spawn(n)
  \/ \E e \in Entity : Hit(e)
  \/ Leave
  \/ \E e \in Entity : DeleteLevelEntity(e)
  \/ Left

Spec == Init /\ [][Next]_vars

---------------------------------------------------------------------------
(* Properties.                                                             *)

\* No entity is destroyed from inside its own destruction: a collection never
\* leads back to an entity it came from, although that one is still valid.
\* (The component is emplaced before the mesh is pushed to dynamicObjects.)
NoReentry ==
  \A i, j \in 1..Len(destroying) :
    destroying[i].entity = destroying[j].entity => i = j

\* "avoid stale refs": while a level is being built or played every handle
\* of the ModelManager is a hidden mesh of an object of this level with that
\* name, whatever was hit meanwhile.
ModelsFresh ==
  pc \in {"building", "loaded"} =>
    \A n \in DOMAIN modelList : \A e \in Elements(modelList[n]) :
      /\ e \in hidden
      /\ origin[e].of = "level" /\ level[origin[e].number].name = n

\* A name leads to all meshes of one object, in the order of its meshes: the
\* first object with the name.
ModelsComplete ==
  pc = "loaded" =>
    \A n \in DOMAIN modelList : \E i \in 1..Len(level) :
      /\ level[i].name = n /\ level[i].isDynamic
      /\ \A j \in 1..(i - 1) : level[j].name = n => ~level[j].isDynamic
      /\ Len(modelList[n]) = level[i].meshes
      /\ \A e \in Elements(modelList[n]) : origin[e] = [of |-> "level", number |-> i]

\* Destruction stays inside what it began with: one object of the level, or
\* one actor.
CascadeConfined ==
  \A i \in 1..Len(destroying) :
    origin[destroying[i].entity] = origin[destroying[1].entity]

\* What a destruction has begun to destroy exists until it is done with it:
\* the collection being gone through is still the one of a valid entity.
DestroyedOnce == \A i \in 1..Len(destroying) : destroying[i].entity \in valid
===========================================================================
