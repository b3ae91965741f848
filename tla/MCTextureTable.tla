-------------------------- MODULE MCTextureTable --------------------------
(* TextureTable with two levels: the data of level 1 has one material, that *)
(* of level 2 two; two names are asked for, one of which has no file.       *)
EXTENDS TextureTable, TLC

CONSTANTS ground, ocean, ship, bullet, missing

MCLevel   == {1, 2}
MCContent == {White, ground, ocean, ship}
MCKey     == {bullet, missing}
MCFileOf  == (bullet :> ship) @@ (missing :> White)

\* ForceTerrainTextureForLevel puts the terrain of the level number in the
\* place of any other; the data of level 2 does not name its terrain in a
\* way DetectLevelFromMaterials knows.
MCResolved ==
  (1 :> ((1 :> <<ground>>) @@ (2 :> <<ocean>>))) @@
  (2 :> ((1 :> <<ground, ship>>) @@ (2 :> <<ocean, ship>>)))
MCDetect == (1 :> 1) @@ (2 :> 1)

Handles == Permutations(Image) \cup Permutations(PoolSet)
===========================================================================
