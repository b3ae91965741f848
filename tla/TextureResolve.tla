--------------------------- MODULE TextureResolve ---------------------------
(***************************************************************************)
(* Which texture file a material of a level gets: the name rules of        *)
(* VulkanRenderer.cpp, as LoadLevelTextures applies them.  The renderer    *)
(* has one texture per material, so a wrong answer here shows on screen    *)
(* as the terrain of another level, or as white.                           *)
(*                                                                         *)
(* A name is a file name in lower case.  What the rules ask of one, which  *)
(* words it holds and what it starts and ends with, is given with it.      *)
(*                                                                         *)
(* A definition noted "mutated" is not part of the model: it is the form   *)
(* its neighbour would have with a plausible bug, for the runs to catch.   *)
(***************************************************************************)
EXTENDS Naturals, Sequences, Functions

CONSTANTS
  FileNames,    \* what may be in the Textures folder
  Kd,           \* what a material may name
  Nearby,       \* what may also be a path from the working directory
  Words,        \* the words of each
  Begins,       \* the word it begins with, if any
  EndsWith,     \* the shorter names it ends with
  WithExt,      \* for a name without an extension, the five it is tried as
  White,        \* no file: the 1x1 white texture
  MaxMaterials  \* bound of the model: materials of a level

TerrainFiles ==
  {"ground_material_0_basecolor.jpeg", "ground_material_0_metallicroughness.png",
   "ground_material_0_normal.png", "ground_material_0_specularf0.png",
   "ocean_material_0_basecolor.png", "ocean_diff.png", "ocean_bump.png",
   "albedo-diffuse.jpg", "globe_bumb.jpg", "globe_clouds.png", "globe_mask.png",
   "night_lights_modified.png"}

Vehicles == {"plane", "player", "ship", "spaceship1", "enemy", "diffuse"}

Levels == 1..3

ForceTerrainTextureForLevel(level) ==
  CASE level = 2 -> "ocean_material_0_basecolor.png"
    [] level = 3 -> "albedo-diffuse.jpg"
    [] OTHER     -> "ground_material_0_basecolor.jpeg"

Names == FileNames \cup Kd

ASSUME TextureResolveAssumption ==
  /\ \A level \in Levels : ForceTerrainTextureForLevel(level) \in FileNames
  /\ Nearby \subseteq Kd
  /\ Words \in [Names -> SUBSET STRING]
  /\ Begins \in [Names -> STRING]
  /\ EndsWith \in [Names -> SUBSET Names]
  /\ WithExt \in [Names -> Seq(Names)]
  /\ White \notin Names \cup TerrainFiles
  /\ MaxMaterials \in Nat
  \* what the terrain's own names give: each has an extension, none ends
  \* with another, and "diffuse" is in one of them
  /\ \A n \in Names, m \in Names \cap TerrainFiles : n \in EndsWith[m] => n = m \/ n \notin TerrainFiles
  /\ \A n \in Names \cap TerrainFiles : WithExt[n] = <<>>
  /\ \A n \in Names \cap TerrainFiles : Words[n] \cap Vehicles # {} <=> n = "albedo-diffuse.jpg"
  \* and what those of a level begin with: one of them alone with "albedo"
  /\ Begins["ground_material_0_basecolor.jpeg"] = "ground"
  /\ Begins["ocean_material_0_basecolor.png"] = "ocean"
  /\ \A n \in Names \cap TerrainFiles : Begins[n] = "albedo" <=> n = "albedo-diffuse.jpg"

VARIABLES
  files,       \* the regular files of the Textures folder
  nearby,      \* names that are also paths from the working directory
  progress,    \* the number the game publishes, 0 without a GameManager
  materials,   \* map_Kd of the level's materials, White where there is none
  loaded,      \* the file of each material's texture, after the default one
  loadedAs     \* g_lastLoadedLevel

resolveVars == <<files, nearby, progress, materials, loaded, loadedAs>>

-----------------------------------------------------------------------------

IsAnyTerrainTextureName(n) == n \in TerrainFiles
IsPlaneOrShipTextureName(n) == Words[n] \cap Vehicles # {}

GlobeInTheOcean(n, level) ==            \* mutated
  \/ IsPlaneOrShipTextureName(n)
  \/ IF Begins[n] = "ground" THEN level = 1
     ELSE IF Begins[n] = "ocean" THEN level = 3
     ELSE IF Begins[n] = "globe" \/ Words[n] \cap {"albedo", "night_lights"} # {} THEN level = 2
     ELSE TRUE
ShouldLoadForLevel(n, level) ==
  \/ IsPlaneOrShipTextureName(n)
  \/ IF Begins[n] = "ground" THEN level = 1
     ELSE IF Begins[n] = "ocean" THEN level = 2
     ELSE IF Begins[n] = "globe" \/ Words[n] \cap {"albedo", "night_lights"} # {} THEN level = 3
     ELSE TRUE

DetectLevelFromMaterials(mats) ==
  LET named == {mats[i] : i \in DOMAIN mats} \ {White}
      Some(words) == \E n \in named : Words[n] \cap words # {}
  IN IF Some({"globe", "night_lights", "albedo"}) THEN 3
     ELSE IF Some({"ocean"}) THEN 2
     ELSE 1

\* The files a name can lead to: itself, with one of the usual extensions, or,
\* in the order of a hash table, any that ends with it.
ResolveTexturePath(n) ==
  LET found == {i \in DOMAIN WithExt[n] : WithExt[n][i] \in files}
      tails == {f \in files : n \in EndsWith[f]}
  IN CASE n \in nearby \cup files -> {n}
       [] n \notin nearby \cup files /\ found # {} ->
            {WithExt[n][i] : i \in {j \in found : \A k \in found : j <= k}}
       [] n \notin nearby \cup files /\ found = {} /\ tails # {} -> tails
       [] OTHER -> {White}

ForcedAll(n, level) ==                  \* mutated
  level \in {2, 3} \/ IsAnyTerrainTextureName(n)
Forced(n, level) ==
  /\ ~IsPlaneOrShipTextureName(n)
  /\ level \in {2, 3} \/ IsAnyTerrainTextureName(n)

\* The first search: for the material's own file or the terrain of the level.
Requested(n, level) ==
  LET terrain == ForceTerrainTextureForLevel(level)
      raw     == ResolveTexturePath(IF Forced(n, level) THEN terrain ELSE n)
  IN IF White \in raw /\ IsAnyTerrainTextureName(n) /\ ~IsPlaneOrShipTextureName(n)
     THEN ResolveTexturePath(terrain) ELSE raw

\* The second look, at what was found.
Unchecked(r, level) == {r}              \* mutated
Checked(r, level) ==
  LET terrain == ForceTerrainTextureForLevel(level)
  IN CASE r = White -> {White}
       [] r # White /\ ~ShouldLoadForLevel(r, level) -> {White}
       [] r # White /\ ShouldLoadForLevel(r, level) /\ r # terrain
            /\ IsAnyTerrainTextureName(r) /\ ~IsPlaneOrShipTextureName(r) -> ResolveTexturePath(terrain)
       [] OTHER -> {r}

Textures(n, level) ==
  IF n = White \/ ~ShouldLoadForLevel(n, level) THEN {White}
  ELSE UNION {Checked(r, level) : r \in Requested(n, level)}

-----------------------------------------------------------------------------

MaterialLists == UNION {[1..k -> Kd \cup {White}] : k \in 0..MaxMaterials}

ResolveInit ==
  /\ files \in SUBSET FileNames
  /\ nearby \in SUBSET Nearby
  /\ progress \in {0} \cup Levels
  /\ materials \in MaterialLists
  /\ loaded = <<>>
  /\ loadedAs = 0

DetectedLevel == IF progress # 0 THEN progress ELSE DetectLevelFromMaterials(materials)

LoadLevelTextures ==
  /\ loadedAs' = DetectedLevel
  /\ LET found == [i \in DOMAIN materials |-> Textures(materials[i], DetectedLevel)]
     IN loaded' \in {l \in [DOMAIN materials -> UNION Range(found)] :
                       \A i \in DOMAIN materials : l[i] \in found[i]}
  /\ UNCHANGED <<files, nearby, progress, materials>>

ResolveNext == LoadLevelTextures

ResolveSpec == ResolveInit /\ [][ResolveNext]_resolveVars

-----------------------------------------------------------------------------
(* Properties *)

Loaded == loadedAs # 0

\* The renderer has one texture for each material, from the folder or white.
ResolveTypeOK ==
  /\ files \subseteq FileNames
  /\ nearby \subseteq Nearby
  /\ progress \in {0} \cup Levels
  /\ materials \in MaterialLists
  /\ loadedAs \in {0} \cup Levels
  /\ Loaded => loaded \in [DOMAIN materials -> files \cup nearby \cup {White}]

\* "Always allow plane and ships in EVERY level": neither the terrain forced on
\* levels 2 and 3 nor the test of the level takes the texture of a plane or a
\* ship that is there.  By its words the terrain file of level 3 would count as
\* one of them ("diffuse"); it is terrain, and not meant.
VehiclesEverywhere ==
  Loaded => \A i \in DOMAIN materials :
    /\ materials[i] \in files \ TerrainFiles
    /\ IsPlaneOrShipTextureName(materials[i])
    => loaded[i] = materials[i]

\* Two searches, one of them through the ends of all names, never bring in the
\* terrain of another level: what terrain there is, that of ships apart, is
\* the one file of the level.
OneTerrain ==
  Loaded => \A i \in DOMAIN materials :
    loaded[i] \in TerrainFiles /\ ~IsPlaneOrShipTextureName(loaded[i])
      => loaded[i] = ForceTerrainTextureForLevel(loadedAs)

\* The chain of tests never loses the terrain: every material that names a
\* terrain file in full and begins like the terrain of the level shows that
\* terrain, if its file is there.
TerrainShown ==
  Loaded => LET terrain == ForceTerrainTextureForLevel(loadedAs) IN
    \A i \in DOMAIN materials :
      /\ materials[i] \in TerrainFiles
      /\ Begins[materials[i]] = Begins[terrain]
      /\ terrain \in files
      => loaded[i] = terrain
=============================================================================
