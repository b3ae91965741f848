----------------------------- MODULE FrameRing -----------------------------
(***************************************************************************)
(* What the renderer takes the surface for: a ring of frame slots.  A slot *)
(* is used for a new frame only when the frame before it in that slot has  *)
(* finished; a rebuilt swapchain starts again at slot 0 with nothing in    *)
(* flight, and uses as many of the slots as it has images; once the device *)
(* is gone there are no frames.                                            *)
(*                                                                         *)
(* VulkanSurface implements it, and SceneBuffers, which describes the      *)
(* surface only by these steps, keeps to it.                               *)
(***************************************************************************)
EXTENDS Naturals

CONSTANT Frames          \* slots, counted once when the buffers are made

VARIABLES
  slot,                  \* the slot of the next frame
  size,                  \* the slots that are used
  flying,                \* slots whose last frame the GPU has not finished
  gone                   \* the device was destroyed

vars == <<slot, size, flying, gone>>

Init == slot = 0 /\ size = Frames /\ flying = {} /\ gone = FALSE

NextSlot == (slot + 1) % size

\* A frame goes into a free slot.  The renderer may have waited for the device
\* before; a frame that is not submitted, or not presented, is not counted or
\* does not advance.
Frame ==
  /\ ~gone
  /\ slot \notin flying
  /\ \E before \in {flying, {}}, submitted \in {{}, {slot}} : flying' = before \cup submitted
  /\ slot' \in {slot, NextSlot}
  /\ UNCHANGED <<size, gone>>

Finish ==
  /\ \E f \in flying : flying' = flying \ {f}
  /\ UNCHANGED <<slot, size, gone>>

\* Somebody waits for the device, and may rebuild the swapchain or destroy
\* the device after it.
Drain ==
  /\ flying' = {}
  /\ \/ UNCHANGED <<slot, size>>
     \/ slot' = 0 /\ size' \in 1..Frames
  /\ gone' \in {gone, TRUE}

Next == Frame \/ Finish \/ Drain

Spec == Init /\ [][Next]_vars
===========================================================================
