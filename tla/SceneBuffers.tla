--------------------------- MODULE SceneBuffers ---------------------------
(***************************************************************************)
(* The GPU buffers on the renderer's entity: the vertex and index buffer   *)
(* of the level, and per swapchain image an instance (storage) buffer and  *)
(* a uniform buffer, with the descriptor set of that image that points at  *)
(* both.  Components come and go through the EnTT signals VulkanBuffers.cpp *)
(* connects; frames read the buffers while later frames are prepared; the  *)
(* instance buffers are replaced when a frame has more instances than fit; *)
(* at the end registry.destroy visits the component pools one by one.      *)
(*                                                                         *)
(* The device belongs to the GVulkanSurface.  It goes away when the window *)
(* sends DESTROY, or with the surface when the renderer component is gone; *)
(* the copy of its handle in the renderer is never reset, and that copy is *)
(* all the handlers test: they go on calling Vulkan after DESTROY.         *)
(*                                                                         *)
(* A definition noted "mutated" is not part of the model: it is the form   *)
(* its neighbour would have with a plausible bug, for the runs to catch.   *)
(***************************************************************************)
EXTENDS Naturals, Sequences

CONSTANTS
  FrameCount,      \* swapchain images, and frames that can be in flight
  Slot,            \* what tells the handles of one kind of buffer apart
  FirstCount,      \* element_count InitializeDescriptors asks for
  MaxInstances,    \* bound: instances a frame draws at most
  CreateMayFail,   \* vkCreateBuffer can fail and leave the handle null (a failed
                   \*   vkAllocateMemory, a buffer with no memory, is not modelled)
  NULL

Frame == 0..(FrameCount - 1)
Use == {"vertex", "index", "instance", "uniform"}
BufferOf(use) == {use} \X Slot
Buffer == Use \X Slot
Handle == Buffer \cup {NULL}
Component == Use \cup {"renderer"}

ASSUME SceneBuffersAssumption ==
  /\ FrameCount \in Nat \ {0} /\ FirstCount \in Nat \ {0} /\ MaxInstances \in Nat
  /\ CreateMayFail \in BOOLEAN
  /\ NULL \notin Buffer /\ NULL \notin Seq(Component)

VARIABLES
  has,          \* components present on the entity
  mesh,         \* [vertex, index]: handles of those two components
  instance,     \* VulkanGPUInstanceBuffer::buffer, per frame
  uniform,      \* VulkanUniformBuffer::buffer, per frame
  elementCount, \* VulkanGPUInstanceBuffer::element_count
  sceneSet,     \* VulkanRenderer::descriptorSets: what each describes
  current,      \* the surface's m_CurrentFrame
  shuttingDown, \* VulkanRenderer::shuttingDown
  todo,         \* pools registry.destroy has still to visit, NULL before
  device,       \* "live" or "destroyed"
  heap,         \* existing buffers, with the instances each has room for
  inFlight,     \* per frame: what its unfinished submission reads, or NULL
  lost,         \* buffers that still existed when the device went away
  touchedDead,  \* the phases, "running" and "end", in which a Vulkan call was
                \*   made on the destroyed device
  raced         \* the host wrote a buffer a frame in flight reads

components == <<has, mesh, instance, uniform, elementCount, sceneSet, shuttingDown>>
driver == <<device, heap, inFlight, lost, touchedDead, raced>>
vars == <<components, current, todo, driver>>

Scene == [uniform : Handle, storage : Handle]
View  == [scene : Scene, mesh : SUBSET Handle, count : Nat]

TypeOK ==
  /\ has \subseteq Component
  /\ mesh \in [vertex : Handle, index : Handle]
  /\ instance \in [Frame -> Handle] /\ uniform \in [Frame -> Handle]
  /\ elementCount \in Nat \ {0}
  /\ sceneSet \in [Frame -> Scene]
  /\ current \in Frame
  /\ shuttingDown \in BOOLEAN
  /\ todo \in Seq(Component) \cup {NULL}
  /\ device \in {"live", "destroyed"}
  /\ DOMAIN heap \subseteq Buffer /\ \A b \in DOMAIN heap : heap[b] \in Nat
  /\ inFlight \in [Frame -> View \cup {NULL}]
  /\ lost \subseteq Buffer
  /\ touchedDead \subseteq {"running", "end"} /\ raced \in BOOLEAN

---------------------------------------------------------------------------
(* The driver.                                                             *)

NoMesh   == [vertex |-> NULL, index |-> NULL]
NoFrames == [f \in Frame |-> NULL]   \* what vkDeviceWaitIdle leaves in flight

Without(h, bs) == [b \in DOMAIN h \ bs |-> h[b]]
With(h, bs, room) == [b \in DOMAIN h \cup bs |-> IF b \in bs THEN room ELSE h[b]]

\* touchedDead once a handler has called Vulkan.
Phase == IF todo = NULL THEN "running" ELSE "end"
Called == touchedDead \cup IF device = "destroyed" THEN {Phase} ELSE {}

\* The handles GvkHelper::create_buffer leaves in one field per frame.
Created(use, h) ==
  {f \in [Frame -> (BufferOf(use) \ DOMAIN h) \cup IF CreateMayFail THEN {NULL} ELSE {}] :
     \A i, j \in Frame : f[i] = f[j] => i = j \/ f[i] = NULL}

Reads(v) == ({v.scene.uniform, v.scene.storage} \cup v.mesh) \ {NULL}

\* The host writes buffer b while the frames of "flying" are in flight.
Races(b, flying) ==
  b # NULL /\ \E f \in Frame : flying[f] # NULL /\ b \in Reads(flying[f])

---------------------------------------------------------------------------
\* Construct_VulkanRenderer through InitializeDescriptors: the instance and
\* uniform buffers are emplaced, their on_construct handlers create one
\* buffer per swapchain image, and the descriptor sets are written.
Init ==
  /\ has = {"renderer", "instance", "uniform"}
  /\ mesh = NoMesh
  /\ elementCount = FirstCount
  /\ instance \in Created("instance", <<>>)
  /\ uniform \in Created("uniform", <<>>)
  /\ sceneSet = [f \in Frame |-> [uniform |-> uniform[f], storage |-> instance[f]]]
  /\ current = 0
  /\ shuttingDown = FALSE
  /\ todo = NULL
  /\ device = "live"
  /\ heap = With([b \in {uniform[f] : f \in Frame} \ {NULL} |-> 1],
                 {instance[f] : f \in Frame} \ {NULL}, FirstCount)
  /\ inFlight = NoFrames
  /\ lost = {} /\ touchedDead = {} /\ raced = FALSE

\* Update_VulkanRenderer goes on, and the handlers work, while the renderer has
\* a device handle; it has one as long as it is there.
Running == todo = NULL /\ "renderer" \in has

\* The surface still has its device: after the window's DESTROY every
\* StartFrame fails and the window sends nothing more.
SurfaceUp == device = "live"

\* What is left when the handlers have destroyed the buffers attached before.
MeshFreed == Without(heap, {mesh.vertex, mesh.index})

\* Construct_GPULevel emplaces the two mesh components and the CPU vectors,
\* and patches; Update_VulkanVertexBuffer and Update_VulkanIndexBuffer destroy
\* the buffer that is attached, if somebody patches components that were
\* there, create and fill a new one, wait for the device and drop the vectors.
\* On a device that is gone creating is undefined: anything may come back.
LoadMesh ==
  /\ Running
  /\ \E v \in BufferOf("vertex") \cup {NULL}, i \in BufferOf("index") \cup {NULL} :
       /\ device = "live" => /\ {v, i} \cap DOMAIN MeshFreed = {}
                             /\ NULL \in {v, i} => CreateMayFail
       /\ mesh' = [vertex |-> v, index |-> i]
       /\ heap' = With(MeshFreed, {v, i} \ {NULL}, 1)
  /\ has' = has \cup {"vertex", "index"}
  /\ inFlight' = NoFrames
  /\ touchedDead' = Called
  /\ UNCHANGED <<instance, uniform, elementCount, sceneSet, shuttingDown,
                 current, todo, device, lost, raced>>

\* The on_destroy handlers of the four buffers do something only while the
\* renderer is on the entity and not shutting down.
CleansAtQuit(flag) == "renderer" \in has /\ flag   \* mutated
Cleans(flag) == "renderer" \in has /\ ~flag

\* What a handler that does something does to the driver: it waits for the
\* device, then destroys the buffers of the component.
DestroyedUnwaited(bs) ==   \* mutated
  /\ heap' = Without(heap, bs)
  /\ inFlight' = inFlight
  /\ touchedDead' = Called
Destroyed(bs) ==
  /\ heap' = Without(heap, bs)
  /\ inFlight' = NoFrames
  /\ touchedDead' = Called

\* The game code unloads a level: it removes both mesh components.
UnloadMesh ==
  /\ Running
  /\ {"vertex", "index"} \subseteq has
  /\ has' = has \ {"vertex", "index"}
  /\ mesh' = NoMesh
  /\ Destroyed({mesh.vertex, mesh.index})
  /\ UNCHANGED <<instance, uniform, elementCount, sceneSet, shuttingDown,
                 current, todo, device, lost, raced>>

\* element_count after "while (instances.size() > element_count) *= 2", when
\* the n instances do not fit in count.
Doubled(count, n) ==
  CHOOSE c \in n..(2 * n - 1) : \E k \in 1..n : c = count * 2^k

\* The descriptor sets the growth loop rewrites: those of every frame.
RewrittenCurrent(buffers) ==   \* mutated
  [sceneSet EXCEPT ![current].storage = buffers[current]]
Rewritten(buffers) == [f \in Frame |-> [sceneSet[f] EXCEPT !.storage = buffers[f]]]

\* The growth first destroys the instance buffers of every frame.
OnlyCurrentFreed == Without(heap, {instance[current]})   \* mutated
InstancesFreed == Without(heap, {instance[f] : f \in Frame})

\* Update_VulkanGPUInstanceBuffer for n instances, up to the write: when they
\* do not fit all frames' buffers are destroyed and replaced.
FitInstances(n) ==
  IF n > elementCount
    THEN \E buffers \in Created("instance", InstancesFreed) :
           /\ instance' = buffers
           /\ elementCount' = Doubled(elementCount, n)
           /\ sceneSet' = Rewritten(buffers)
           /\ heap' = With(InstancesFreed, {buffers[f] : f \in Frame} \ {NULL},
                           Doubled(elementCount, n))
    ELSE UNCHANGED <<instance, elementCount, sceneSet, heap>>
StillFlying(n) == IF n > elementCount THEN NoFrames ELSE inFlight

\* GVulkanSurface::StartFrame blocks until the fence of the current frame is
\* signalled: the last submission that used it has finished.
FenceIgnored == TRUE   \* mutated
FenceSignalled == inFlight[current] = NULL

NeverWrapped == current + 1   \* mutated
NextFrame == (current + 1) % FrameCount

\* EndFrame submits the frame and goes on to the next; stays where it is when
\* presenting fails; or finds that the swapchain is out of date, waits for the
\* device and starts again at 0.
EndFrame(flying, view) ==
  \/ /\ inFlight' = [flying EXCEPT ![current] = view]
     /\ current' \in {NextFrame, current}
  \/ /\ inFlight' = NoFrames
     /\ current' = 0

\* Update_VulkanRenderer drawing n instances: the uniform buffer of the
\* frame is written, the instances are made to fit and written, the set of
\* the frame is bound and everything is submitted.
DrawFrame(n) ==
  /\ Running /\ SurfaceUp
  /\ FenceSignalled
  /\ {"vertex", "index"} \subseteq has
  /\ FitInstances(n)
  /\ raced' = (raced \/ Races(uniform[current], inFlight)
                     \/ (n > 0 /\ Races(instance'[current], StillFlying(n))))
  /\ EndFrame(StillFlying(n),
              [scene |-> sceneSet'[current], mesh |-> {mesh.vertex, mesh.index}, count |-> n])
  /\ UNCHANGED <<has, mesh, uniform, shuttingDown, todo, device, lost, touchedDead>>

\* Update_VulkanRenderer before a level is loaded: only the uniform buffer
\* is written, and the frame reads none of the buffers.
EmptyFrame ==
  /\ Running /\ SurfaceUp
  /\ FenceSignalled
  /\ ~({"vertex", "index"} \subseteq has)
  /\ raced' = (raced \/ Races(uniform[current], inFlight))
  /\ EndFrame(inFlight, NULL)
  /\ UNCHANGED <<components, todo, device, heap, lost, touchedDead>>

\* The window is resized, or StartFrame finds the swapchain out of date.
ResetSwapchain ==
  /\ Running /\ SurfaceUp
  /\ inFlight' = NoFrames
  /\ current' = 0
  /\ UNCHANGED <<components, todo, device, heap, lost, touchedDead, raced>>

GpuFinishes(f) ==
  /\ inFlight[f] # NULL
  /\ inFlight' = [inFlight EXCEPT ![f] = NULL]
  /\ UNCHANGED <<components, current, todo, device, heap, lost, touchedDead, raced>>

---------------------------------------------------------------------------
(* The end.                                                                *)

\* GVulkanSurface::CleanupVulkanSurface waits for the device and destroys it.
DeviceGone == device' = "destroyed" /\ lost' = DOMAIN heap

\* The user closes the window: the surface handles DESTROY.  From here on
\* frames do nothing, but levels can still be loaded and unloaded.
CloseWindow ==
  /\ Running /\ SurfaceUp
  /\ DeviceGone
  /\ inFlight' = NoFrames
  /\ UNCHANGED <<components, current, todo, heap, touchedDead, raced>>

\* registry.destroy(entity) visits the pools from the youngest to the oldest.
\* Which is the youngest is up to CCL.h, which is not in the repository.
RendererFirst == <<"renderer", "uniform", "instance", "index", "vertex">>
RendererLast == <<"uniform", "instance", "index", "vertex", "renderer">>

BeginDestroy ==
  /\ todo = NULL
  /\ todo' \in {RendererFirst, RendererLast}
  /\ UNCHANGED <<components, current, driver>>

HandlesOf(c) ==
  (CASE c \in {"vertex", "index"} -> {mesh[c]}
     [] c = "instance" -> {instance[f] : f \in Frame}
     [] c = "uniform"  -> {uniform[f] : f \in Frame}) \ {NULL}

\* The pool of a buffer component publishes on_destroy, then erases.
DestroyBuffer(c) ==
  /\ c \in has \ {"renderer"}
  /\ IF Cleans(shuttingDown)
       THEN Destroyed(HandlesOf(c))
       ELSE UNCHANGED <<heap, inFlight, touchedDead>>
  /\ has' = has \ {c}
  /\ UNCHANGED <<mesh, instance, uniform, elementCount, sceneSet, shuttingDown,
                 current, device, lost, raced>>

\* Destroy_VulkanRenderer sets shuttingDown and removes the buffer components
\* that are left, whose handlers then skip; with the component goes the
\* surface, and with it the device if the window had not taken it already.
FlagUnset == shuttingDown   \* mutated
FlagAtRemoval == TRUE
DestroyRenderer ==
  /\ "renderer" \in has
  /\ shuttingDown' = TRUE
  /\ IF Cleans(FlagAtRemoval) /\ has # {"renderer"}
       THEN Destroyed(UNION {HandlesOf(c) : c \in has \ {"renderer"}})
       ELSE /\ heap' = heap /\ inFlight' = NoFrames /\ touchedDead' = touchedDead
  /\ has' = {}
  /\ IF device = "live" THEN device' = "destroyed" /\ lost' = DOMAIN heap'
                        ELSE UNCHANGED <<device, lost>>
  /\ UNCHANGED <<mesh, instance, uniform, elementCount, sceneSet, current, raced>>

VisitPool ==
  /\ todo # NULL /\ todo # <<>>
  /\ todo' = Tail(todo)
  /\ \/ Head(todo) \notin has /\ UNCHANGED <<components, current, driver>>
     \/ DestroyBuffer(Head(todo))
     \/ Head(todo) = "renderer" /\ DestroyRenderer

Next ==
  \/ LoadMesh
  \/ UnloadMesh
  \/ \E n \in 0..MaxInstances : DrawFrame(n)
  \/ EmptyFrame
  \/ ResetSwapchain
  \/ \E f \in Frame : GpuFinishes(f)
  \/ CloseWindow
  \/ BeginDestroy
  \/ VisitPool

Spec == Init /\ [][Next]_vars

---------------------------------------------------------------------------
(* Properties.                                                             *)

InUse == "renderer" \in has /\ device = "live"

\* A frame the GPU has not finished keeps what it was submitted with: its
\* descriptor set is not rewritten, the buffers it reads exist, the storage
\* buffer has room for the instances it draws; and unless a creation failed
\* it reads no null buffer.
InFlightIntact ==
  \A f \in Frame : inFlight[f] # NULL =>
    LET v == inFlight[f]
    IN /\ v.scene = sceneSet[f]
       /\ Reads(v) \subseteq DOMAIN heap
       /\ v.scene.storage # NULL => v.count <= heap[v.scene.storage]
       /\ ~CreateMayFail => NULL \notin v.mesh \cup {v.scene.uniform, v.scene.storage}

\* Every write of the host into a per-frame buffer goes to one that no frame
\* in flight reads: the fence of the current frame is enough.
HostWritesPrivate == ~raced

\* The descriptor set of every frame describes the two buffers of that
\* frame, also after the buffers were replaced while another frame was drawn.
SceneSetsRight ==
  InUse => \A f \in Frame :
             sceneSet[f] = [uniform |-> uniform[f], storage |-> instance[f]]

\* While the program runs every buffer of the driver is held by exactly one
\* component: growth and level swaps neither leak nor double-own.
NothingLeaked ==
  todo = NULL /\ InUse =>
    /\ DOMAIN heap = UNION {HandlesOf(c) : c \in has \ {"renderer"}}
    /\ \A f, g \in Frame : f # g =>
         /\ instance[f] # NULL => instance[f] # instance[g]
         /\ uniform[f] # NULL => uniform[f] # uniform[g]

\* The order the end has chosen, told from what it has yet to visit.
BuffersGoFirst == todo # NULL /\ todo # <<>> /\ todo[Len(todo)] = "renderer"

\* "Skip cleanup during quit to avoid vkDeviceWaitIdle crash": at the end of
\* the program, when the renderer's pool is visited first, no handler makes a
\* Vulkan call on a device that is gone, whoever took it down and whatever was
\* loaded or unloaded on it before.  While the program runs a level that comes
\* or goes after the window closed does make such calls.
EndSkipsDeadDevice == []["end" \in touchedDead' \ touchedDead => BuffersGoFirst]_vars

\* When the pools of the buffers are visited before that of the renderer and
\* the window is still open, every buffer is destroyed before the device.
OrderlyEndFrees ==
  [][device = "live" /\ BuffersGoFirst /\ device' = "destroyed" => lost' = {}]_vars

\* A frame uses a slot only after the GPU has finished the frame before it in
\* that slot, and in turn, whatever is grown, loaded, unloaded or rebuilt
\* between: these buffers keep to the ring of frames the surface promises.
Ring == INSTANCE FrameRing WITH
  Frames <- FrameCount, slot <- current, size <- FrameCount,
  flying <- {f \in Frame : inFlight[f] # NULL}, gone <- (device = "destroyed")
KeepsToFrameRing == Ring!Spec
===========================================================================
