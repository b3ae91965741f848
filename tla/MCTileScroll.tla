---------------------------- MODULE MCTileScroll ----------------------------
(* TileScroll with configurations on both sides of every clamp, and rows   *)
(* that begin before the edge and beyond it.                               *)
EXTENDS TileScroll

MCTiles    == {-1, 1, 2, 3}
MCLengths  == {-100, 0, 100, 150}
MCOverlaps == {-20, 0, 50, 400}
MCStarts   == {0, -1000}
MCSteps    == {1, 30, 130}
===========================================================================
