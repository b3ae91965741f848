----------------------------- MODULE TileScroll -----------------------------
(***************************************************************************)
(* The row of tiles Construct_GPULevel lays for scrolling terrain, and the *)
(* numbers it gives each tile to scroll by.  Any configuration is brought  *)
(* into range first.  Lengths are in hundredths, the smallest step of the  *)
(* code's clamps; rounding of floats is not modelled.                      *)
(*                                                                         *)
(* The system that scrolls is game code and not in the repository: it is   *)
(* modelled from the component it is given, GroundScroll{ speed, wrapMinZ, *)
(* wrapOffsetZ }.  A tile moves back and, once it is past wrapMinZ, is set *)
(* forward by wrapOffsetZ.                                                 *)
(*                                                                         *)
(* A definition noted "mutated" is not part of the model: it is the form   *)
(* its neighbour would have with a plausible bug, for the runs to catch.   *)
(***************************************************************************)
EXTENDS Integers, FiniteSets, FiniteSetsExt

CONSTANTS
  Tiles,     \* what "tiles", "length" and "overlap" of the section may say
  Lengths,
  Overlaps,
  Starts,    \* where the level may have the terrain
  Steps      \* how far the terrain moves in a frame

ASSUME TileScrollAssumption ==
  /\ Tiles \subseteq Int /\ Lengths \subseteq Int /\ Overlaps \subseteq Int
  /\ Starts \subseteq Int /\ Steps \subseteq Nat

VARIABLES
  laid,       \* the row is there
  tileCount, tileLengthZ, overlapZ,   \* after the clamps
  z           \* row4.z of each tile

tileVars == <<laid, tileCount, tileLengthZ, overlapZ, z>>

One == 100       \* 1.0f
Smallest == 1    \* 0.01f

tileSpacingZ == tileLengthZ - overlapZ
wrapMinZ == -(tileLengthZ + tileSpacingZ * (tileCount - 1))

OneTileShort == tileSpacingZ * (tileCount - 1)   \* mutated
wrapOffsetZ == tileSpacingZ * tileCount

TileTypeOK ==
  /\ laid \in BOOLEAN
  /\ tileCount \in Nat \ {0, 1}
  /\ tileLengthZ \in Nat /\ tileLengthZ >= One
  /\ overlapZ \in 0..(tileLengthZ - Smallest)
  /\ DOMAIN z \subseteq 1..tileCount /\ \A i \in DOMAIN z : z[i] \in Int

TileInit ==
  /\ laid = FALSE
  /\ tileCount = 2 /\ tileLengthZ = One /\ overlapZ = 0
  /\ z = <<>>

---------------------------------------------------------------------------
Count(tiles) == Max({tiles, 2})

Length(length) == Max({length, One})

\* The overlap is clamped by the length that was clamped before.
NoUpperClamp(overlap, length) == Max({overlap, 0})   \* mutated
Overlap(overlap, length) == Min({Max({overlap, 0}), Length(length) - Smallest})

\* One tile where the level has the mesh, the others behind it.
LayTiles(tiles, length, overlap, start) ==
  /\ ~laid
  /\ laid' = TRUE
  /\ tileCount' = Count(tiles)
  /\ tileLengthZ' = Length(length)
  /\ overlapZ' = Overlap(overlap, length)
  /\ z' = [i \in 1..tileCount' |-> start + tileSpacingZ' * (i - 1)]

\* A frame of the game.  The terrain moves at most by the length of the row.
Moved(at, step) == IF at - step < wrapMinZ THEN at - step + wrapOffsetZ ELSE at - step

Scroll(step) ==
  /\ laid
  /\ step <= tileSpacingZ * tileCount
  /\ z' = [i \in DOMAIN z |-> Moved(z[i], step)]
  /\ UNCHANGED <<laid, tileCount, tileLengthZ, overlapZ>>

TileNext ==
  \/ \E tiles \in Tiles, length \in Lengths, overlap \in Overlaps, start \in Starts :
       LayTiles(tiles, length, overlap, start)
  \/ \E step \in Steps : Scroll(step)

TileSpec == TileInit /\ [][TileNext]_tileVars

---------------------------------------------------------------------------
(* Properties.                                                             *)

Places == {z[i] : i \in DOMAIN z}

\* Whatever the configuration says, the numbers are in the ranges of TileTypeOK and
\* the tiles stay one row without a gap and without two in the same place: each
\* is set forward exactly behind the last, in whichever frame it is past the
\* edge.
RowUnbroken ==
  /\ TileTypeOK
  /\ laid =>
       /\ tileSpacingZ <= tileLengthZ
       /\ Places = {Min(Places) + tileSpacingZ * k : k \in 0..(tileCount - 1)}
       /\ Cardinality(Places) = tileCount

\* A row that is before the edge, all of it, stays there: the wrap brings a
\* tile back before the edge in the frame it passes it.
Before == laid /\ \A i \in DOMAIN z : z[i] >= wrapMinZ
StaysBeforeEdge == [][Before => Before']_tileVars
===========================================================================
