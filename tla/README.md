# A verification project for 3DShooter

TLA+ models of the program's own code, TLC configurations that check them on
small instances, and TLAPS proofs of their safety for all instances.

    tlc -config MCTextureTable.cfg MCTextureTable.tla     # a run
    tlapm TextureTableProofs.tla                          # a proof

## What the repository is, today

The program's own code is 2400 lines under `Source/`; everything else is vendored
(`gateware-main/Gateware.h`, EnTT, inifile-cpp), generated (`build/`) or assets.
Two facts shape this project:

* Only `main.cpp` is live. It includes `VulkanRenderer.cpp`, but all lines of
  `VulkanRenderer.cpp`, `VulkanBuffers.cpp` and `LevelComponents.cpp` are
  commented out ("Phase 1" shows an empty window). The models of the renderer
  are translated from that parked text, as the code that comes back when the
  comments go.
* The game (`GAME/`, `APP/`, `UTIL/`), the component-logic macros (`CCL.h`), the
  level loader and the Vulkan helper functions are not in the repository. They
  are modelled only as far as the renderer reacts to them, and marked external.

## Inventory

| component | source | state | operations |
|---|---|---|---|
| main program | `main.cpp` | `running`, the window, its queue | create, register, loop, responder |
| texture table | `VulkanRenderer.cpp` 255-574, 897-958, 1559-1567 | `textureList`, `textureSets`, `textureRegistry`, `g_lastLoadedLevel`, descriptor pool | `LoadTexture`, `DestroyAllTextures`, `LoadLevelTextures`, `GetTexture`, the reload test of a frame |
| texture name resolution | `VulkanRenderer.cpp` 75-254 | none (a directory listing) | pure functions of names |
| scene buffers | `VulkanBuffers.cpp`, `VulkanRenderer.cpp` 575-630 | four buffer components, per-frame descriptor sets, frames in flight | EnTT construct, update and destroy handlers |
| draw batching | `VulkanRenderer.cpp` 1492-1573 | local lists of one frame | collect, sort, batch, upload, draw |
| menus and HUD | `VulkanRenderer.cpp` 959-1471, 1578 | four tags, `LevelLoadRequest`, music, `WindowClosed` | nine buttons |
| level construction | `LevelComponents.cpp` | mesh entities, `ModelManager`, `MeshCollection` | `Construct_GPULevel`, `Destroy_MeshCollection` |
| renderer construction | `VulkanRenderer.cpp` 631-896 | pipeline, ImGui context, window hook | runs once, aborts on failure |
| Gateware surface | `Gateware.h` (vendored) | swapchain, fences and semaphores per frame, `m_CurrentFrame`, lock | `StartFrame`, `EndFrame`, window events, `ResetSwapchain`, clean-up |
| Gateware events | `Gateware.h` (vendored) | a vector of weak listeners, a lock | `Register`, `Deregister`, `Push` |
| EnTT storage | `entt-3.13.1` (vendored) | entities and pools as sparse sets | `create`, `valid`, `emplace`, `destroy` |
| shaders, inifile-cpp, build | assets, vendored, generated | - | - |

**How they interact.** All CPU code runs on the thread of `main`. The renderer is
one EnTT entity with many components; `registry.patch` and `registry.remove` call
handlers synchronously. Two things run beside that thread: the GPU, which executes
submitted frames and reads buffers, images and descriptor sets while later frames
are prepared, and the window system, which queues messages. The game code runs
between frames: it replaces the level, creates and hides entities, asks for
textures by name and raises tags; the renderer's buttons answer with tags and
level requests.

**What is hard.** Freeing or rewriting what the GPU still reads; indices that
outlive the list they index; allocations that fail half way; the order in which
components of one entity are destroyed; four menus that each undo the state by
their own code; a loop that can only be ended from a callback.

**What makes each component correct.**

* Texture table: its parallel vectors agree; nothing is lost from the fixed pool;
  a cached name leads to its own texture; frames show the textures of their own
  level; no frame in flight loses what it bound.
* Scene buffers: the same for buffers and scene sets, through growth; host writes
  never touch a buffer being read; the end neither leaks nor calls a dead device.
* Batching: every visible entity is drawn once with its own geometry.
* Texture names: a ship's texture in every level, terrain of this level only.
* Levels: cascading destructions end, and end inside one object; templates are complete;
  scrolling tiles stay one row.
* Surface: no wait that cannot end, no semaphore in use twice, the frame index in range.
* Events: a push reaches exactly the listeners of one instant; callbacks run unlocked.
* EnTT: a stale handle is refused; a loop over a component survives what it destroys.
* Menus: leaving a screen leaves nothing of it behind; the campaign moves on.
* Main: closing the window, and only that, ends the program.

## Modules

### TextureTable

`textureList` is a sequence of records, its index `i` at position `i + 1`; an
image stands for the image, memory, view and sampler of a `TextureData`, created
and destroyed together, plus what it *shows*. `written` is the driver's view of
the descriptor pool: which sets are allocated and which texture each describes.
`pending` holds the (set, texture) pairs bound by frames the GPU has not finished.
What the name rules of lines 177-254 and `ResolveTexturePath` make of a level's
materials is the constant `Resolved[data][number]`, since the same data resolves
differently under another level number (`ForceTerrainTextureForLevel`);
`TextureResolve` models the rules themselves.

| action | code |
|---|---|
| `LoadLevelTextures` | 459-574, with `DestroyAllTextures` (416-457) and `LoadTexture` (268-414) |
| `GetTexture(k)` | 897-937 |
| `FrameWithoutDraw`, `DrawFrame` | `Update_VulkanRenderer`: the reload test, then a `StartFrame` that fails, or the draw loop |
| `DestroyRenderer` | 1592, the skipping branch 418-424 |
| `SwapLevel`, `GpuRetires` | the game, the GPU |

The set allocations of one call are one step: nothing else runs on the main thread
in between and the GPU reads none of the new sets. `vkAllocateDescriptorSets` may
fail at any time, and must when the pool is empty. `SwapLevel` replaces the
`CPULevel` and the published number together; code that changes them in different
frames would show the wrong terrain, since `LoadLevelTextures` remembers the number
and not the data. Without a GameManager (`progress = 0`) there is one level.

**Not promised.** Without a GameManager, a `GetTexture` that comes before the first
frame with a level makes `textureList.empty()` false, and the level's textures are
never loaded. `ScreenRight` is therefore stated for a published level number.

### SceneBuffers

A buffer is a pair of its use and a handle; `heap` maps the existing ones to the
number of instances they have room for; `inFlight[f]` is what the unfinished
submission of frame `f` reads: the scene set *as it was when submitted*, the mesh
buffers and the number of instances. `has` is the set of components on the entity.
`Cleans` is the guard that the four `Destroy_` handlers share, `Destroyed` their
effect. `StartFrame` blocks on the fence of the current frame (`FenceSignalled`);
`EndFrame` submits and moves on, fails to present and stays, or resets the
swapchain, which waits for the device. A load replaces buffers that are still attached (`MeshFreed`).

The window takes the device down when it is closed, but the handlers test only the renderer's copy
of the handle, which is never reset (`Running`). So after `CloseWindow` frames do nothing (every
`StartFrame` fails, `SurfaceUp`), while a level that is loaded or unloaded calls Vulkan on the dead
device; what it gets back from there is undefined, and anything in the model. `touchedDead` keeps
the phases in which that happened. The textures of a level loaded after the close are not
modelled: `TextureTable` has no window.

`registry.destroy` visits pools from the youngest to the oldest. Whether the pool of
`VulkanRenderer` is younger than those of the buffers depends on the order in which
`CCL.h` connects the component logic, and `CCL.h` is missing: `BeginDestroy` takes
either (`RendererFirst`, `RendererLast`):

* the renderer first: `Destroy_VulkanRenderer` sets `shuttingDown`, the handlers
  skip, no call of theirs reaches a dead device any more (`EndSkipsDeadDevice`), and the
  buffers are abandoned to the device (they are still there when it is destroyed);
* the buffers first: with the window still open each is destroyed before the device
  (`OrderlyEndFrees`). If the window was closed before, the handlers call Vulkan on
  the device the surface has already destroyed.

No order gives both. Any creation of a buffer may fail and leave a null handle. The memory of a buffer is part of it: a `vkAllocateMemory`
that fails after `vkCreateBuffer` succeeded is not modelled.

Of the surface this module knows only the steps of `FrameRing`, with one frame per image.
`KeepsToFrameRing` checks that it asks for no more; that the surface gives as much, when the
number of images changes too, is `RefinesFrameRing` of `VulkanSurface`. A submit that fails is in
that module only. The growth loop is its result (`Doubled`): doubling a number below `n` reaches
exactly one number in `n..2n-1`, which the proofs show from the powers of two (`DoublingEnds`).

### VulkanSurface and FrameRing

`FrameRing` is what the renderer takes the surface for: a ring of slots, each used again only when
its last frame has finished; a rebuilt swapchain may use fewer of them (`size`), never more. `VulkanSurface` is how Gateware does it: `sync` holds the two
semaphores and the fence of each slot, `gpu` the submissions that are not finished, `queue` the
presents not shown, `held` the images acquired and not presented. `failed` is
a ghost: the calls that have failed so far, and `"turn"` once the driver has handed out an image
before its turn.

| action | code |
|---|---|
| `StartFrame`, `FencePassed`, `ImageReady`, `AcquireOutOfDate`, `AcquireFails`, `SkipFrame` | `StartFrame`, one action for each place it waits or returns |
| `EndFrame`, `EndFrameRebuilds`, `SubmitFails`, `PresentFails` | `EndFrame(true)` |
| `ResetSwapchain(v)` in them, with `Rebuilt`, `NoFramebuffer`, `SyncCutShort`, `KeptRetired` | the rebuilding, and the places where a call in it may fail |
| `Minimize`, `Resize`, `Destroy` | the listener to the window, and the clean-up |
| `GpuFinishes`, `ImageShown` | the driver |

`pc = "hung"` is the wait, without a timeout, for a fence that is not going to be signalled. One
rebuilding meets at most one failure. The renderer counts the images once, when the surface is
made and vsync is on; the first `EndFrame` after turning vsync off rebuilds with vsync, and the
driver gives at least as many images with it as without (the assumption Gateware's comment makes).
That is why the index stays in range (`IndexInRange`, proved, and part of `RefinesFrameRing`)
although the number changes and the vectors of the renderer do not. A `vkCreateSwapchainKHR` that
fails goes unnoticed: the rebuilding goes on with the images of the retired swapchain and makes
new synchronisation objects over the old ones, which are leaked and not waited for (`KeptRetired`).

**What it shows.** The frame buffer drawn into is that of `m_CurrentFrame`, the image presented is
`m_TargetImage`: they agree as long as the driver hands out images in turn and no call has failed
(`DrawsWhatItPresents`). `EndFrame` resets the fence before `vkQueueSubmit`, so that a submit that
fails leaves a fence nobody signals, and the next clean-up or the next `StartFrame` in that slot
waits for ever: `FenceComes` states that nothing else does this.

### EventGenerator and EventBus

`EventBus` is the promise: an event is owed to those on the list at one instant, in the order of
registration. `EventGenerator` is the code: `Push` looks whether anybody listens without the lock,
takes it, and `RecursivePush` copies the weak handles of living listeners into a local array of
`GWI_MAX_TRAVERSAL_STACK` (one that dies after that is still called, with a handle that leads
nowhere), calling itself with an offset when it is full; the innermost call
releases the lock, then the arrays are called from the innermost outward and each from its end.
`pushes[t]` is the stack of pushes of a thread (a callback may push again), each with its arrays.

The look at the vector without the lock is a data race; it is modelled as seeing the vector before
or after the change. A push in flight may still call a listener after `Deregister` has returned,
and the event of a nested push may reach later listeners before the outer one does: both follow
from the promise as it is. A call from a callback would block itself were the lock still held
(`CallbacksUnlocked`).

The refinement mapping: what a push owes is nothing before it has released the lock (`Collected`
leaves it out), then its arrays, flattened and read from the end (`Owed`). So the release is the
bus's `Push`, erasing a dead entry its `Forget`, and everything else inside `RecursivePush` a
stutter, but for the calls and the last return.

### TextureResolve

A name is given with what the rules ask of it (the words in it, what it begins and ends with, the
names with extension it stands for), lower case and unique. A behaviour is one load, of any files,
materials and level number; `Requested` is the search and `Checked` the second look at what was
found. `ResolveTexturePath` is a set, since the last resort is the first match in a hash table.
The fallback of line 501 can never be taken, as the name was replaced before the search already;
it is in the model. The last test of a path assumes a regular file where a file of that name is.
What a name contains, begins and ends with is given by constants; `TextureResolveAssumption` says
of the names of the terrain files what is true of those strings in the code.

**Met on the way.** Two things the rules do and perhaps should not. "Terrain rules: only load the
correct terrain for each level" (`VulkanRenderer.cpp:243`): since any name with "diffuse" in it is
a ship's (`:202`), `Albedo-diffuse.jpg`, the terrain of level 3, is loaded in every level whose
material names it; `OneTerrain` and `VehiclesEverywhere` leave it out, and the assumption says
that it is the only such name. And without
a GameManager that file next to other terrain makes the guess of the level wrong.

### DrawBatch

One frame is `Collect` (the view and the sort), `BatchItem` per item, `Upload`,
`DrawCall` per batch, `EndFrame`; then the game changes an entity. `std::sort` is any
ordered permutation, since it is not stable. An entity stands for its `DrawItem`.
Frames before the mesh buffers exist draw nothing and are not modelled here.
`GeometryAssumption` is what `Construct_GPULevel` gives: non-empty meshes with index
ranges of their own. Two meshes with the same material and start, one of them
empty, would be merged into one batch and are excluded by it.

### LevelLoad

A load makes one entity per mesh of every object (`BuildMesh`, with the further tiles of scrolling
ground) and files the meshes of each dynamic object under its name (`EndObject`). `origin`
remembers what an entity was made for; it is read by the properties only, except for the tag
`LevelEntity` (`LevelEntities`). A collidable mesh gets a copy of `dynamicObjects` *as it is
before the mesh itself is pushed*: that order is what keeps a collection from naming its own
entity. `destroying` is the stack of nested `registry.destroy` calls. An entity is valid until its
own call ends, so `registry.valid` does not stop a cascade that leads back to where it began;
`NoReentry` says that none does, and EnTT relies on it (`mixin.hpp:50-52` looks the entity up
again after publishing and erases without a check).

`Spawn`, `Hit`, `Leave`, `DeleteLevelEntity` and `Left` are the game: it copies templates into
actors, destroys what can be seen, and deletes by the tag on a level swap, in any order. Two
objects with one name leave the meshes of the second hidden and filed nowhere; `ModelsComplete`
states that the first wins, whole. Transforms and heights are left out; the numbers of scrolling
are in `TileScroll`. Handles are never used twice, which `StaleRefused` of `EntityStore` justifies
for the first 4095 lives of a number.

### TileScroll

`LayTiles` clamps what the configuration says and lays the row; `Scroll` is the game's system,
which is not in the repository and is modelled from the three numbers it is given (external).
Lengths are whole hundredths, the smallest step of the clamps; the rounding of floats is not
modelled. `Scroll` moves the ground by at most the length of the row in one frame: where the
overlap was clamped to just below the length (line 194) the row is a few hundredths long, and a
system that wraps once a frame would not keep up.

### EntityStore and EntitySet

`EntitySet` is what the game takes EnTT for: a set of living handles, each with or without a
collection of names, and a destruction that goes through the collection first. `EntityStore` is
the arrays: `packed` and `sparse` of the entities, with the free ones behind `head`, and `pool`
and `poolSparse` of one component with an `on_destroy` listener. `Destroyed` is the swap and pop,
which may happen in the middle of a listener's loop over another component of the same pool;
`LoopIntact` states that the loop does not notice. `NextVersion` skips the tombstone. Collections
name entities with higher numbers only, which stands for `NoReentry` of `LevelLoad`; a cascade
that came back would erase twice. Hints, ranges, pools that do not move, sorting, groups and views
are not used by the listener and not modelled.

### MenuFlow

`tags` is the set of the four tag components on the GameManager, `Screen` the
if-chain that picks the screen. One action per button; what each "Main Menu" removes
is a definition of its own, because each is its own code. `Play`, `Resume`, `EnterKey`
and `ServeRequest` are the game: tags are raised while the game is played, winning and
losing can fall into one step (the win screen's code removes both tags, so the code
reckons with it).

**Met on the way.** *Next Level* removes `WinMenu` only. If the player also lost in that
step the game over screen appears over the next level, where *Main Menu*
takes care to remove both. No text says which is meant, so `RequestStartsPlay` admits
the `GameOver` that is kept.

**Finding.** Three comments (`DrawComponents.h:63`, `VulkanRenderer.cpp:1202`, `:1444`)
say that Quit sets the shutdown flag. It does not: `shuttingDown` is assigned in
`Destroy_VulkanRenderer` only. The run `menu_flow_quit` shows it.

### MainLoop

`pc` is where `main` is, `messages` the window's queue. `Dispatch` is one turn of the loop in
Gateware's `ProcessWindowEvents`, with the synchronous `Push` to the responder; `Iterate`
with a closed window is the call that fails at once and whose result `main` ignores.

## Runs

| run | bounds | states | shows |
|---|---|---|---|
| texture_table | 4 images, 3 sets, 2 levels of 1 and 2 materials, 2 names, one without a file | 5371 | `NothingLeaked RegistryRight InFlightIntact ScreenRight` |
| scene_buffers | 2 frames, 3 handles per use, growth 1-2-4, at most 3 instances, failing creations, both orders of the pools, levels that come and go after the window closed | 778680 | `InFlightIntact HostWritesPrivate SceneSetsRight NothingLeaked EndSkipsDeadDevice OrderlyEndFrees KeepsToFrameRing` |
| main_loop | 2 kinds of other messages, queue of 3 | 125 | `NeverDeaf CloseEndsProgram` |
| menu_flow | the 3 levels of the source | 440 | `MainMenuAlone RequestStartsPlay NextLevelMovesOn` |
| menu_flow_quit | the same | violation | `QuitSetsFlag` |
| draw_batch | 4 entities, 3 meshes, one with two materials | 2460 | `DrawnRight OneCallPerMesh` |
| level_load | 10 handles, 2 levels: a collidable template of two meshes and two ground tiles; two templates of one name | 5614 | `NoReentry ModelsFresh ModelsComplete CascadeConfined DestroyedOnce` |
| vulkan_surface | 3 images with vsync, 2 without, in turn or not; six calls may fail at any time | 161680 | `FenceComes SemaphoresFree DrawsWhatItPresents LockFreeBetweenCalls StartFrameReturns RefinesFrameRing` |
| event_generator | 2 threads, 2 listeners, arrays of 2, at most 3 entries, 2 pushes at once | 489154 | `CallbacksUnlocked RefinesEventBus LockComesFree` |
| texture_resolve | any part of 7 files, up to 2 of 9 names, levels 1 to 3 or none | 227328 | `VehiclesEverywhere OneTerrain TerrainShown` |
| entity_store | 3 numbers, 3 lives, 3 versions (one the tombstone's), collections of up to 2 handles | 741480 | `LoopIntact StaleRefused RefinesEntitySet` |
| tile_scroll | every clamp from both sides, steps shorter and longer than a tile | 6921 | `RowUnbroken StaysBeforeEdge` |

The type invariants are proved (below) and not checked by a run of their own; in `DrawBatch`,
`EntityStore` and `TileScroll` they are conjuncts of `DrawnRight`, `LoopIntact` and `RowUnbroken`.

**Why the bounds are enough.** Texture table: the larger level plus one name fills the images, and
three sets are one too few for it, so every load can meet an exhausted pool at every position; two
levels with different terrains make stale textures visible; one name with and one without a file
gives both results of `GetTexture`. Scene buffers: two frames are the least that have one in
flight while the other is written; three instances force two doublings at once (1 to 4) and two in
a row. Main loop: three messages are one before, the close and one after. Batches: four entities
make two batches of two, and three of one mesh with a stranger between equals. Level load: ten
handles are a level, an actor and a second level, or two actors; two meshes are the least of which
one names the other. In `TextureTable`, `SceneBuffers` and `DrawBatch` handles and
entities are symmetric: no action and no property compares them but for equality. Surface: three images and two make the ring shrink and grow; with three the
present of a slot can still be queued when the slot comes round. Events: arrays of two with three
entries force the recursion, the second array partly filled; two threads are one inside and one
who changes the list under it, and two pushes are one of each or one from a callback of the other;
two listeners with three entries register one twice. A push that recurses after it has erased an
entry needs four, and the run does not reach it: that the offset is right then too rests on the
theorem `EventsReachTheirListeners`, which is about any number. Names:
two materials of one level can disagree, and every branch of every rule has a name of its own.
Entities: three numbers give a cascade two calls deep inside another; two usable versions come
round in three lives. Tiles: rows of two (the least) and three.

`CHECK_DEADLOCK FALSE` is set where the system really stops: after the renderer is destroyed (the
GPU has retired everything), after `main` returned, and (a bound of the model, not of the code)
when `LevelLoad` has used up its handles or `EntityStore` its lives; when every listener is dead;
when a failed call has left the thread of the surface in a wait that never ends. Deadlock *is*
checked in `draw_batch`, `texture_resolve` and `tile_scroll`.

**Fairness.** Three modules have liveness properties.

* `MainLoop`: `WF_mainVars(Main)`: the thread of `main` is never blocked in the loop
  (`ProcessWindowEvents` polls), so a step of it that stays possible is taken. The user is not
  fair: nobody has to close the window, and messages may keep coming. `CloseEndsProgram` starts
  from a close that is in the queue.
* `VulkanSurface`: the GPU finishes what it was given, the presentation engine shows what is
  rendered, and a thread inside `StartFrame` goes on when what it waits for is there: one weak
  fairness each for the fence that is signalled and the image that is free. Neither wait has a
  timeout, and the driver need never report that the swapchain is out of date or that the acquire
  failed: nothing is assumed of those. Nobody has to call anything. `StartFrameReturns` is about
  the calls made while no other has failed. It needs as many slots as images: with fewer, a
  present could lose the signal of its semaphore to the next one in the slot and be shown never.
* `EventGenerator`: the steps a thread takes while it has the lock need nobody else, so weak
  fairness of each thread in them is the scheduler's. Who gets a contended lock is left open, and
  nothing is said about how long callbacks take: `LockComesFree` needs neither.

## Proofs

Every safety property of the runs that pass, invariant, action property or refinement, is proved
for all values of the constants, from the named assumptions of the modules: `LevelAssumption`,
`ContentAssumption` and `NullAssumption` (numbers of levels are not 0, a level has as many
materials under every number), `MainLoopAssumption`, `MenuFlowAssumption`,
`SceneBuffersAssumption`, `LevelLoadAssumption`, `VulkanSurfaceAssumption`,
`EventGeneratorAssumption`, `TextureResolveAssumption` (what the terrain's own names begin with,
end with and contain), `GeometryAssumption` (meshes as `Construct_GPULevel` makes them, finitely
many entities), `TileScrollAssumption` and `EntityStoreAssumption` (types, and more than one
version). TLC evaluates each of them in the runs.

What needs an induction is argued from the least counterexample: a non-empty set of naturals has a
least element (`LeastNat`, from the library's `WFMin`, which has no operator parameter).

| module | about |
|---|---|
| `TextureTableProofs` | `TextureTable` |
| `SceneBuffersProofs` | `SceneBuffers` |
| `ControlProofs` | `MainLoop`, `MenuFlow` |
| `DrawingProofs` | `DrawBatch`, `TextureResolve` |
| `LevelLoadProofs` | `LevelLoad`, `TileScroll` |
| `VulkanSurfaceProofs` | `VulkanSurface`, `FrameRing` |
| `EventGeneratorProofs` | `EventGenerator`, `EventBus` |
| `EntityStoreProofs` | `EntityStore`, `EntitySet` |

* **Texture table**: all six invariants. `ScreenRight` is not inductive: that a frame need not
  reload is decided by a number, so the proof needs to know what the number stands for.
  `LoadedPrefix` says that the list still begins with the textures of level `lastLoaded`
  (`GetTexture` only appends), `SameLevel` that data and number are swapped together.
  `NothingLeaked` makes `DestroyAllTextures` free everything (`DestroyFreesAll`), from which a
  load starts from an empty driver (`LoadStep`); `ShownRight` reads the screen off the prefix.
* **Scene buffers**: `TypeOK`, `InFlightIntact`, `HostWritesPrivate`, `SceneSetsRight` and
  `NothingLeaked` for any number of frames, handles and instances, in both orders of the pools and
  with failing creations. The inductive invariant says that each handle is of its kind and has one
  owner (`Kinds`, `OneEach`), that the buffers on the heap are those the components hold, with the
  room the count promises (`Owned`), that every set describes the buffers of its own frame
  (`SetsRight`), and what kind of buffers a frame in flight took from the mesh (`FlyingMesh`);
  `OthersRead` turns it into "the other frames read nothing of this one", the reason a growth may
  destroy and rewrite. `TakesRing` proves `KeepsToFrameRing` step by step (`RingStep`).
  `QuitIsQuiet` proves `EndSkipsDeadDevice` by `QuietEnd`: the renderer's pool is the next to be
  visited or the last, and what is between keeps it so. `OrderlyEndIsClean` proves
  `OrderlyEndFrees` by `OrderlyEnd`: while the buffers' pools are being visited the device is there,
  the renderer's comes last, and the heap is what the components still to be visited hold.
  `DoublingEnds` is the growth loop: the least power of two that is enough is less than twice of it.
* **Main program**: `TypeOK`, `NeverDeaf`, `LeavesOnlyClosed`, by `FlagFollowsWindow`: from
  `Register` on the responder listens, and the flag stands exactly as long as the window.
* **Menus**: `TypeOK`, `MainMenuAlone`, and the action properties `NextLevelMovesOn` and
  `RequestStartsPlay` for campaigns of any length, by `OneScreen` (which sets of tags can be on
  the GameManager) and the arithmetic of the wrap (`FollowingRight`).
* **Batching**: `DrawnRight` and `OneCallPerMesh` for any entities and any geometry, whatever order
  `std::sort` leaves among equals. `InOrder` says that the list is sorted and the instances are a
  prefix of it, `Ascending` that the batches come in the order of the sort (so that no two are of
  one mesh and material), `DrawnSoFar` where each batch begins, that its instances have its mesh,
  and that the running count of the draw loop stands where the next one begins.
* **Texture names**: `VehiclesEverywhere`, `OneTerrain` and `TerrainShown` for any folder, names and
  materials, by what one search can lead to (`Resolved`), what the two together can
  (`TextureFound`), and that the search for the terrain of the level finds it (`TerrainFound`).
* **Levels**: `TypeOK`, `NoReentry`, `CascadeConfined`, `DestroyedOnce` and `ModelsFresh` for any
  levels. A chain of nested destructions goes down: in a level a collection names entities older
  than its own, in an actor copies that have no collection (`Kin`, `ChainRight`); `ChainTells`
  reads `NoReentry` and confinement off the chain. `ModelsComplete` needs what is true before the
  load is complete: `ModelsSoFar` says it of the objects built, and of the meshes of the one that
  is being built.
* **Scrolling tiles**: `RowUnbroken` and `StaysBeforeEdge` for any configuration, by `Ring`:
  the tiles stand one spacing apart, in the order of their numbers from some tile on and going
  round. Wrapping those past the edge turns the ring as far (`RingTurns`).
* **Surface**: `IndexInRange`, `FenceComes` and `LockFreeBetweenCalls` for any number of images and
  any calls that may fail. `FencesTell` relates fences to the frames on the GPU; `Blame` adds which
  failure explains each fence that is null or is not going to be signalled.
  `SurfaceImplementsFrameRing` is the refinement, whatever fails: `RingFrame` is the step that
  needs an argument, that a frame goes into a slot the GPU has finished with. `SemaphoresFree` and
  `DrawsWhatItPresents` rest on `Semaphores`: whose signals are still to be waited for
  (`AcquiredFree`, `RenderedQueued`), that an image is in one place only (`ImagesApart`), that
  presents are shown in the order of their slots (`PresentsInOrder`), and that image and slot are
  in step while the driver hands out images in turn (`InStep`). That a slot comes round only after
  its present was shown is a counting argument: presents not shown hold different images, so that
  with one more acquired there are fewer of them than slots (`RoomForOne`).
* **Events**: `TypeOK` (no array overflows, no search starts outside the list) and
  `CallbacksUnlocked` for any threads, listeners and array size. The argument is `Counted`: every
  entry of the list is still to be looked at or in an array, and all arrays but the last are full,
  so the offset a nested call is given leads below all that is collected.
  `EventsReachTheirListeners` is the refinement of `EventBus`. It adds `CollectRight`: whoever
  holds the lock has collected exactly the list from the entry it looks at to the end, since a
  living entry joins both (`OwedOneMore`), a dead one leaves the list (`SuffixOfRemoved`) and a new
  level adds nothing (`OwedEmptyArray`, which is why `current` must not move: `RecurseOnBus`).
  When nothing is left to look at, that is the whole list, which is what the bus pushes. The
  lemmas about flattening follow from the recursion of `FlattenSeq` (`FlattenAppend`).
* **Entities**: `LoopIntact`, `StaleRefused` and the refinement of `EntitySet`, for any depth of
  cascades. `Inv` says that both sparse sets are linked both ways and a version counts the lives of
  its number (`Counted`), that components belong to the living (`Owned`), and, for every destruction
  under way, that its loop has the rest of the names its entity has in the pool and that what it
  has visited is dead, but for the one being destroyed inside it (`Nested`).
  The lemmas `LinkedAppend`, `LinkedPop` and `LinkedErase` are about any sparse set;
  `PoolPops` and `Erased` apply them to the loops further out.

**Only model-checked.** Liveness: `CloseEndsProgram`, `StartFrameReturns` and `LockComesFree` are
beyond this prover.

## Plan

Done: models and runs of TextureTable, SceneBuffers, MainLoop, MenuFlow, DrawBatch, LevelLoad;
then VulkanSurface with FrameRing, EventGenerator with EventBus, TextureResolve, EntityStore with
EntitySet, TileScroll; proofs of the safety of all of them. What is left:

1. A composition of MenuFlow, the level swap and TextureTable (a request becomes a reload before
   the level is shown). The step between the two is game code and not in the repository.
2. Buffers whose memory could not be allocated (`VulkanBuffers.cpp:155`).

## Not modelled

Pipeline creation, shader compilation, ImGui layout and texts (straight-line calls and data),
camera and light values, the shaders, and the window hook of Win32 (one renderer exists, so it is
set and restored once).

`Gateware.h` and EnTT together are some 200000 lines, most of them for platforms, graphics
interfaces, containers and reflection that this program never calls. Modelled is what the
program's own 2400 lines stand on: the Vulkan surface, the events, the dispatch of messages, and
the storage of entities. Choosing devices and formats, the query functions of the surface, input,
audio, and the parts of EnTT listed above are not.

Left out of the list of hazards, because they are values no state here depends on: a queue family
copied at construction (`VulkanRenderer.cpp:875`), texture indices the game keeps (`:936`), the
window procedure that is replaced for good (`:866`), a 32-bit size (`VulkanBuffers.cpp:204`). Those
that no property covers are in `PROJECT.json` with their reasons: a `GetTexture` before the first
level (`VulkanRenderer.cpp:953`), memory that could not be allocated (`VulkanBuffers.cpp:155`), the
null handle a failed growth leaves (`:185`), and the terrain file that counts as a ship's
(`VulkanRenderer.cpp:202`).
