---------------------------- MODULE MCDrawBatch ----------------------------
(* DrawBatch with three meshes, the first of which is also used with a     *)
(* second material.                                                        *)
EXTENDS DrawBatch, TLC

Mesh(material, start) ==
  [materialIndex |-> material, indexStart |-> start, indexCount |-> 3, vertexStart |-> 0]
MCGeometry == {Mesh(1, 0), Mesh(2, 0), Mesh(1, 3), Mesh(2, 6)}

Entities == Permutations(Entity)
===========================================================================
