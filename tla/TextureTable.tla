--------------------------- MODULE TextureTable ---------------------------
(***************************************************************************)
(* The texture table of the renderer: the vectors textureList and          *)
(* textureSets and the map textureRegistry of struct VulkanRenderer, the   *)
(* Vulkan objects behind them, and the operations that change them         *)
(* (LoadLevelTextures, GetTexture, DestroyAllTextures and the part of      *)
(* Update_VulkanRenderer that reloads and binds textures).                 *)
(*                                                                         *)
(* The table lives for many levels.  Its indices are stored in the         *)
(* geometry of the level, its descriptor sets come from one fixed pool,    *)
(* and frames the GPU has not finished still use what a reload throws      *)
(* away.  Indices here are the source's, from 0; the element with index i  *)
(* is at position i + 1 of the sequence.                                   *)
(*                                                                         *)
(* A definition noted "mutated" is not part of the model: it is the form   *)
(* its neighbour would have with a plausible bug, for the runs to catch.   *)
(***************************************************************************)
EXTENDS Naturals, Sequences

CONSTANTS
  Image,      \* handles vkCreateImage can return
  PoolSet,    \* texture descriptor sets the descriptor pool can hold
  Content,    \* what an image can show
  White,      \* the 1x1 white texture LoadTexture falls back to
  Key,        \* texture names, lower case, GetTexture is called with
  FileOf,     \* what the file a key resolves to shows (White: no file)
  Level,      \* numbers of the levels
  Resolved,   \* Resolved[d][n]: what the materials of the data of level d
              \*   show when they are loaded for level number n
  Detect,     \* the number DetectLevelFromMaterials finds in the data of d
  NULL        \* VK_NULL_HANDLE, and the absence of a level or a frame

Number == Level \cup {0}   \* a level number, or 0 for "none yet"

ASSUME LevelAssumption == Level \subseteq Nat \ {0}
ASSUME ContentAssumption ==
  /\ White \in Content
  /\ FileOf \in [Key -> Content]
  /\ Resolved \in [Level -> [Level -> Seq(Content)]]
  /\ Detect \in [Level -> Level]
  /\ \A d, n \in Level : Len(Resolved[d][n]) = Len(Resolved[d][d])
ASSUME NullAssumption == NULL \notin PoolSet /\ NULL \notin Level

Texture == [image : Image, shows : Content]    \* struct TextureData

VARIABLES
  alive,       \* the VulkanRenderer component exists (device is not null)
  textureList,       \* Seq(Texture)
  textureSets,       \* Seq(PoolSet \cup {NULL}), one per texture
  textureRegistry,   \* partial function Key -> index
  lastLoaded,  \* g_lastLoadedLevel
  cpuLevel,    \* the level whose CPULevel is on the renderer's entity
  progress,    \* LevelProgress.currentLevel, 0 without a GameManager
  live,        \* images that exist in the driver
  written,     \* <<set, texture>>: allocated sets and what they describe
  pending,     \* <<set, texture>> bound by frames the GPU has not finished
  screen       \* what the last drawn frame showed for its level

table == <<textureList, textureSets, textureRegistry, lastLoaded, live, written>>
game  == <<cpuLevel, progress>>
vars  == <<alive, table, game, pending, screen>>

Allocated == {w[1] : w \in written}

Screen == [level  : Level,
           shows  : Seq(Content \cup {NULL}),
           failed : SUBSET Nat]

TypeOK ==
  /\ alive \in BOOLEAN
  /\ textureList \in Seq(Texture)
  /\ textureSets \in Seq(PoolSet \cup {NULL})
  /\ DOMAIN textureRegistry \subseteq Key
  /\ \A k \in DOMAIN textureRegistry : textureRegistry[k] \in Nat
  /\ lastLoaded \in Number
  /\ cpuLevel \in Level \cup {NULL}
  /\ progress \in Number
  /\ live \subseteq Image
  /\ written \subseteq PoolSet \X Texture
  /\ pending \subseteq PoolSet \X Texture
  /\ screen \in Screen \cup {NULL}

---------------------------------------------------------------------------
(* The driver: any free handle may be returned, any allocation of a        *)
(* descriptor set may fail, and it does when the pool has none left.       *)

\* The handles of n images created one after the other.
NewImages(n, free) ==
  {f \in [1..n -> free] : \A i, j \in 1..n : f[i] = f[j] => i = j}

\* The results of n allocations of one set each, NULL where one failed.
NewSets(n, free) ==
  {f \in [1..n -> free \cup {NULL}] :
     \A i, j \in 1..n : f[i] = f[j] => i = j \/ f[i] = NULL}

\* What vkUpdateDescriptorSets leaves in the sets that were allocated.
Describe(sets, list) ==
  {<<sets[i], list[i]>> : i \in {j \in 1..Len(sets) : sets[j] # NULL}}

---------------------------------------------------------------------------
\* Construct_VulkanRenderer and InitializeDescriptors leave an empty table
\* and an unused pool.  A GameManager may or may not exist.
Init ==
  /\ alive = TRUE
  /\ textureList = <<>> /\ textureSets = <<>> /\ textureRegistry = <<>>
  /\ lastLoaded = 0
  /\ cpuLevel = NULL
  /\ progress \in Number
  /\ live = {} /\ written = {} /\ pending = {}
  /\ screen = NULL

\* The images and descriptor sets that are left once DestroyAllTextures has
\* freed the sets of textureSets and the images of textureList.
LiveAfterDestroy ==
  live \ {textureList[i].image : i \in 1..Len(textureList)}
SetsNotFreed == written   \* mutated
WrittenAfterDestroy ==
  {w \in written : \A i \in 1..Len(textureSets) : textureSets[i] # w[1]}

\* It clears the cache of GetTexture with the textures ...
RegistryKept == textureRegistry   \* mutated
RegistryAfterDestroy == <<>>

\* ... and waits for the device before it frees anything, so that no frame
\* is in flight any more.
InFlightUnwaited == pending   \* mutated
InFlightAfterDestroy == {}

\* The level number LoadLevelTextures works with, and the textures it
\* pushes: index 0 the default white, index m + 1 material m.
DetectedLevel == IF progress # 0 THEN progress ELSE Detect[cpuLevel]
LevelContents(d, n) ==
  [i \in 1..(Len(Resolved[d][n]) + 1) |->
     IF i = 1 THEN White ELSE Resolved[d][n][i - 1]]

LoadLevelTextures ==
  LET contents == LevelContents(cpuLevel, DetectedLevel)
      n        == Len(contents)
      freeSets == PoolSet \ {w[1] : w \in WrittenAfterDestroy}
  IN \E imgs \in NewImages(n, Image \ LiveAfterDestroy),
        sets \in NewSets(n, freeSets) :
       /\ textureList' = [i \in 1..n |-> [image |-> imgs[i], shows |-> contents[i]]]
       /\ textureSets' = sets
       /\ textureRegistry' = RegistryAfterDestroy
       /\ lastLoaded' = DetectedLevel
       /\ live' = LiveAfterDestroy \cup {imgs[i] : i \in 1..n}
       /\ written' = WrittenAfterDestroy \cup Describe(sets, textureList')

\* The test at the head of Update_VulkanRenderer.
ReloadOnlyWhenEmpty == cpuLevel # NULL /\ textureList = <<>>   \* mutated
MustReload ==
  /\ cpuLevel # NULL
  /\ textureList = <<>> \/ (progress # 0 /\ progress # lastLoaded)

\* The head of a frame, and the frames in flight it leaves.
PrepareFrame(inFlight) ==
  \/ /\ MustReload
     /\ inFlight = InFlightAfterDestroy
     /\ LoadLevelTextures
  \/ /\ ~MustReload
     /\ inFlight = pending
     /\ UNCHANGED table

\* The descriptor set the draw loop binds for a material index: an index
\* out of range becomes 0, a set that could not be allocated becomes set 0.
SetFor(sets, i) ==
  LET s == IF i < Len(sets) THEN sets[i + 1] ELSE sets[1]
  IN IF s = NULL THEN sets[1] ELSE s

\* What a shader sees through a set: nothing defined for a null set, a set
\* that is not allocated, or an image that was destroyed.
Seen(s, ws, images) ==
  LET ts == {w[2] : w \in {v \in ws : v[1] = s}}
  IN IF s # NULL /\ \E t \in ts : t.image \in images
       THEN (CHOOSE t \in ts : t.image \in images).shows
       ELSE NULL

\* Update_VulkanRenderer up to a StartFrame that fails (or to the end, when
\* there is no geometry to draw yet).
FrameWithoutDraw ==
  /\ alive
  /\ PrepareFrame(pending')
  /\ UNCHANGED <<alive, game, screen>>

\* Update_VulkanRenderer drawing the level: vertex and index buffers only
\* exist once a CPULevel does.  Index m is material m - 1 of the level.
DrawFrame ==
  /\ alive
  /\ cpuLevel # NULL
  /\ \E rest \in {pending, InFlightAfterDestroy} :
       /\ PrepareFrame(rest)
       /\ pending' = rest \cup {w \in written' :
                       \E i \in 1..Len(textureSets') : textureSets'[i] = w[1]}
  /\ screen' = [level  |-> cpuLevel,
                shows  |-> [m \in 1..Len(Resolved[cpuLevel][cpuLevel]) |->
                              Seen(SetFor(textureSets', m), written', live')],
                failed |-> {i \in 0..Len(Resolved[cpuLevel][cpuLevel]) :
                              i < Len(textureSets') /\ textureSets'[i + 1] = NULL}]
  /\ UNCHANGED <<alive, game>>

\* The index LoadTexture returns for the texture it is about to push, and
\* textureSets resized to textureList with its last element set.
NewIndex == Len(textureList)
GrownSets(s) == Append(textureSets, s)

\* GetTexture(k), called by the game code at any time between frames.  A
\* name that was asked for before only returns its index.
GetTexture(k) ==
  /\ alive
  /\ k \notin DOMAIN textureRegistry
  /\ \E img \in Image \ live, s \in (PoolSet \ Allocated) \cup {NULL} :
       LET t == [image |-> img, shows |-> FileOf[k]]
       IN /\ textureList' = Append(textureList, t)
          /\ textureSets' = GrownSets(s)
          /\ textureRegistry' =
               [x \in DOMAIN textureRegistry \cup {k} |->
                  IF x = k THEN NewIndex ELSE textureRegistry[x]]
          /\ live' = live \cup {img}
          /\ written' = IF s = NULL THEN written ELSE written \cup {<<s, t>>}
  /\ UNCHANGED <<alive, lastLoaded, game, pending, screen>>

\* The game code replaces the CPULevel and the level number between two
\* frames; without a GameManager there is one level and nobody to swap it.
SwapLevel(l) ==
  /\ alive
  /\ progress = 0 => cpuLevel = NULL
  /\ cpuLevel' = l
  /\ progress' = IF progress = 0 THEN 0 ELSE l
  /\ UNCHANGED <<alive, table, pending, screen>>

\* The GPU finishes some of the frames in flight.
GpuRetires ==
  /\ pending # {}
  /\ pending' \in SUBSET pending
  /\ UNCHANGED <<alive, table, game, screen>>

\* Destroy_VulkanRenderer: DestroyAllTextures with skipVulkanDestroy clears
\* the vectors and leaves the Vulkan objects to the device.
DestroyRenderer ==
  /\ alive
  /\ alive' = FALSE
  /\ textureList' = <<>> /\ textureSets' = <<>> /\ textureRegistry' = <<>>
  /\ UNCHANGED <<lastLoaded, live, written, game, pending, screen>>

Next ==
  \/ FrameWithoutDraw
  \/ DrawFrame
  \/ \E k \in Key : GetTexture(k)
  \/ \E l \in Level : SwapLevel(l)
  \/ GpuRetires
  \/ DestroyRenderer

Spec == Init /\ [][Next]_vars

---------------------------------------------------------------------------
(* Properties.                                                             *)

\* textureList and textureSets grow in two separate statements of two
\* functions: while the renderer exists they stay in step, and a set that
\* is not null is allocated, describes the texture of the same index, and
\* that texture's image has not been destroyed.
TableAligned ==
  alive =>
    /\ Len(textureSets) = Len(textureList)
    /\ \A i \in 1..Len(textureSets) :
         /\ textureList[i].image \in live
         /\ textureSets[i] # NULL => <<textureSets[i], textureList[i]>> \in written

\* "free old texture descriptor sets so we don't exhaust the pool on level
\* reloads": every image and every set the driver holds is reachable from
\* the table, and from one index only, so the next DestroyAllTextures frees
\* each exactly once.
NothingLeaked ==
  alive =>
    /\ live = {textureList[i].image : i \in 1..Len(textureList)}
    /\ Allocated = {textureSets[i] : i \in 1..Len(textureSets)} \ {NULL}
    /\ \A i, j \in 1..Len(textureList) :
         textureList[i].image = textureList[j].image => i = j
    /\ \A i, j \in 1..Len(textureSets) :
         textureSets[i] = textureSets[j] => i = j \/ textureSets[i] = NULL
    /\ \A v, w \in written : v[1] = w[1] => v = w

\* The cache of GetTexture never outlives the textures it indexes: what it
\* returns for a key is an index of the list, and the texture there is the
\* one the key stands for, whatever levels were loaded in between.
RegistryRight ==
  \A k \in DOMAIN textureRegistry :
    LET i == textureRegistry[k]
    IN i < Len(textureList) /\ textureList[i + 1].shows = FileOf[k]

\* DestroyAllTextures waits for the device: under a frame the GPU has not
\* finished no bound set is freed, none is given another texture, and none
\* loses its image.
InFlightIntact ==
  alive => \A p \in pending : p \in written /\ p[2].image \in live

\* While a GameManager publishes the level number, a drawn frame shows every
\* material of its level with the texture of that level, never one of the
\* level before; a material whose set could not be allocated shows white if
\* at least the set of index 0 could be.
ScreenRight ==
  screen # NULL /\ progress # 0 =>
    LET l == screen.level
    IN \A m \in 1..Len(Resolved[l][l]) :
         \/ m \notin screen.failed /\ screen.shows[m] = Resolved[l][l][m]
         \/ m \in screen.failed /\ 0 \notin screen.failed /\ screen.shows[m] = White
         \/ m \in screen.failed /\ 0 \in screen.failed
===========================================================================
