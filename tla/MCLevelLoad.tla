---------------------------- MODULE MCLevelLoad ----------------------------
(* LevelLoad with two levels: one with a collidable template of two meshes *)
(* and scrolling ground, one with two templates of one name and a wall.    *)
EXTENDS LevelLoad

CONSTANTS enemy, ground

Obj(n, m, d, c, t) ==
  [name |-> n, meshes |-> m, isDynamic |-> d, isCollidable |-> c, tiles |-> t]
Enemy  == Obj(enemy, 2, TRUE, TRUE, 1)
Twin   == Obj(enemy, 1, TRUE, FALSE, 1)
Ground == Obj(ground, 1, FALSE, TRUE, 2)

MCName   == {enemy, ground}
MCObject == {Enemy, Twin, Ground}
MCLevels == {<<Enemy, Ground>>, <<Twin, Enemy>>}
===========================================================================
