-------------------------- MODULE MCSceneBuffers --------------------------
(* SceneBuffers with two swapchain images and room for two growths of the  *)
(* instance buffers (1 -> 2 -> 4).                                         *)
EXTENDS SceneBuffers, TLC

Slots == Permutations(Slot)
===========================================================================
