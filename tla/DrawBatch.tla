----------------------------- MODULE DrawBatch -----------------------------
(***************************************************************************)
(* How one frame turns entities into draw calls: Update_VulkanRenderer     *)
(* copies the geometry and the instance of every entity that is not hidden *)
(* into a list, sorts it by material and mesh, merges neighbours into      *)
(* batches, uploads the instances in the order of the list and issues one  *)
(* instanced draw per batch, counting the instances it is past.            *)
(*                                                                         *)
(* A batch keeps the geometry of its first item only, and which instances  *)
(* it draws is told by nothing but the running count: both loops have to   *)
(* agree on the order std::sort, which is not stable, left.                *)
(*                                                                         *)
(* A definition noted "mutated" is not part of the model: it is the form   *)
(* its neighbour would have with a plausible bug, for the runs to catch.   *)
(***************************************************************************)
EXTENDS Naturals, Sequences, FiniteSets

CONSTANTS
  Entity,     \* entities with a GeometryData and a GPUInstance
  Geometry    \* the GeometryData Construct_GPULevel gave them

\* Meshes that are not empty have index ranges of their own, and all meshes
\* of a model its vertices: where a mesh starts tells which mesh it is.
ASSUME GeometryAssumption ==
  /\ IsFiniteSet(Entity)
  /\ Geometry \subseteq [materialIndex : Nat, indexStart : Nat, indexCount : Nat \ {0},
                         vertexStart : Nat]
  /\ \A g, h \in Geometry :
       g.indexStart = h.indexStart =>
         g.indexCount = h.indexCount /\ g.vertexStart = h.vertexStart

VARIABLES
  geometry,      \* the GeometryData of each entity
  hidden,        \* entities tagged DoNotRender
  pc,            \* "collect", "batch", "draw" or "done"
  renderList,    \* the sorted list; an entity stands for its DrawItem
  bufferList,    \* instances in the order they are uploaded
  instructions,  \* drawInstructions: [geo, count]
  issued,        \* draw calls issued
  instanceCount, \* the running count of the draw loop
  drawn          \* per entity, the geometry each draw of its instance used

world == <<geometry, hidden>>
vars == <<world, pc, renderList, bufferList, instructions, issued, instanceCount, drawn>>

Instruction == [geo : Geometry, count : Nat \ {0}]

TypeOK ==
  /\ geometry \in [Entity -> Geometry]
  /\ hidden \subseteq Entity
  /\ pc \in {"collect", "batch", "draw", "done"}
  /\ renderList \in Seq(Entity)
  /\ bufferList \in Seq(Entity)
  /\ instructions \in Seq(Instruction)
  /\ issued \in 0..Len(instructions)
  /\ instanceCount \in 0..Len(bufferList)
  /\ drawn \in [Entity -> Seq(Geometry)]

Init ==
  /\ geometry \in [Entity -> Geometry]
  /\ hidden \in SUBSET Entity
  /\ pc = "collect"
  /\ renderList = <<>> /\ bufferList = <<>> /\ instructions = <<>>
  /\ issued = 0 /\ instanceCount = 0
  /\ drawn = [e \in Entity |-> <<>>]

---------------------------------------------------------------------------
Visible == Entity \ hidden

\* The comparison std::sort is given.
BeforeByMesh(g, h) == g.indexStart < h.indexStart   \* mutated
Before(g, h) ==
  \/ g.materialIndex < h.materialIndex
  \/ g.materialIndex = h.materialIndex /\ g.indexStart < h.indexStart

\* The lists std::sort may leave: the visible entities, each once, none
\* after one it comes before.  Equal items may be in any order.
Sorted(s) ==
  /\ \A e \in Visible : \E i \in DOMAIN s : s[i] = e
  /\ \A i, j \in DOMAIN s :
       i < j => s[i] # s[j] /\ ~Before(geometry[s[j]], geometry[s[i]])

Collect ==
  /\ pc = "collect"
  /\ renderList' \in {s \in [1..Cardinality(Visible) -> Visible] : Sorted(s)}
  /\ pc' = "batch"
  /\ UNCHANGED <<world, bufferList, instructions, issued, instanceCount, drawn>>

\* One item of the list: its instance is appended, and it opens a batch
\* unless it has the material and the start of the batch before.
SameStart(g, h) == g.indexStart = h.indexStart   \* mutated
SameMesh(g, h) == g.materialIndex = h.materialIndex /\ g.indexStart = h.indexStart

Opens(item) ==
  \/ instructions = <<>>
  \/ ~SameMesh(instructions[Len(instructions)].geo, geometry[item])

BatchItem ==
  /\ pc = "batch" /\ Len(bufferList) < Len(renderList)
  /\ LET item == renderList[Len(bufferList) + 1]
         top  == Len(instructions)
     IN /\ bufferList' = Append(bufferList, item)
        /\ instructions' = IF Opens(item)
                             THEN Append(instructions, [geo |-> geometry[item], count |-> 1])
                             ELSE [instructions EXCEPT ![top].count = @ + 1]
  /\ UNCHANGED <<world, pc, renderList, issued, instanceCount, drawn>>

Upload ==
  /\ pc = "batch" /\ Len(bufferList) = Len(renderList)
  /\ pc' = "draw"
  /\ UNCHANGED <<world, renderList, bufferList, instructions, issued, instanceCount, drawn>>

\* vkCmdDrawIndexed draws count instances of one mesh, from instanceCount on.
Past(count) == count
DrawCall ==
  /\ pc = "draw" /\ issued < Len(instructions)
  /\ LET draw  == instructions[issued + 1]
         slots == (instanceCount + 1)..(instanceCount + draw.count)
     IN /\ drawn' = [e \in Entity |->
                       IF \E i \in slots : bufferList[i] = e
                         THEN Append(drawn[e], draw.geo) ELSE drawn[e]]
        /\ instanceCount' = instanceCount + Past(draw.count)
  /\ issued' = issued + 1
  /\ UNCHANGED <<world, pc, renderList, bufferList, instructions>>

EndFrame ==
  /\ pc = "draw" /\ issued = Len(instructions)
  /\ pc' = "done"
  /\ UNCHANGED <<world, renderList, bufferList, instructions, issued, instanceCount, drawn>>

\* The next frame starts from nothing; in between the game hides and shows
\* entities and gives them other geometry.
NextFrame ==
  /\ pc = "done"
  /\ \E e \in Entity, g \in Geometry :
       /\ geometry' = [geometry EXCEPT ![e] = g]
       /\ hidden' \in {hidden \cup {e}, hidden \ {e}}
  /\ pc' = "collect"
  /\ renderList' = <<>> /\ bufferList' = <<>> /\ instructions' = <<>>
  /\ issued' = 0 /\ instanceCount' = 0
  /\ drawn' = [e \in Entity |-> <<>>]

Next == Collect \/ BatchItem \/ Upload \/ DrawCall \/ EndFrame \/ NextFrame

Spec == Init /\ [][Next]_vars

---------------------------------------------------------------------------
(* Properties.                                                             *)

\* The frame shows every visible entity exactly once, with its own mesh and
\* its own material, and no hidden one: however std::sort ordered equals,
\* each instance was in the range of the batch that has its geometry, and, as
\* TypeOK says, no draw went past the instances that were uploaded.
DrawnRight ==
  /\ TypeOK
  /\ pc = "done" =>
       \A e \in Entity : drawn[e] = IF e \in Visible THEN <<geometry[e]>> ELSE <<>>

\* The sort is there to save draw calls: no mesh is drawn with one material
\* by two of them.
OneCallPerMesh ==
  \A i, j \in 1..Len(instructions) :
    i # j => \/ instructions[i].geo.materialIndex # instructions[j].geo.materialIndex
             \/ instructions[i].geo.indexStart # instructions[j].geo.indexStart
===========================================================================
