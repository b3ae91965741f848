--------------------------- MODULE VulkanSurface ---------------------------
(***************************************************************************)
(* Gateware's GVulkanSurface as the renderer uses it: StartFrame waits for *)
(* the fence of the current frame and acquires an image, EndFrame submits, *)
(* presents and goes on to the next frame; window events and out-of-date   *)
(* results rebuild the swapchain and every synchronisation object; DESTROY *)
(* takes everything down.  The GPU finishes submissions in order and the   *)
(* presentation engine shows images in order, each at its own pace.        *)
(*                                                                         *)
(* One thread calls the surface.  The renderer calls StartFrame and, when  *)
(* it succeeds, EndFrame(true), with no window event between the two.      *)
(*                                                                         *)
(* A definition noted "mutated" is not part of the model: it is the form   *)
(* its neighbour would have with a plausible bug, for the runs to catch.   *)
(***************************************************************************)
EXTENDS Integers, Sequences, FiniteSets

CONSTANTS
  VsyncImages,     \* images the driver gives with vsync
  PlainImages,     \* and without
  Faults           \* which Vulkan calls may fail, and "turn": the driver may
                   \*   hand an image out before its turn

Calls == {"submit", "present", "acquire", "swapchain", "framebuffer", "fence", "turn"}

Limit == 8   \* GVK_SWAP_BUFFER_LIMIT; the creation fails with more images

ASSUME VulkanSurfaceAssumption ==
  /\ VsyncImages \in Nat /\ PlainImages \in Nat /\ 1 < PlainImages
  /\ PlainImages <= VsyncImages   \* "so we get enough Swapchain images for all situations"
  /\ VsyncImages <= Limit
  /\ Faults \subseteq Calls

\* Create: vsync is on until the surface is initialised, so the images are
\* those of vsync; the renderer counts them once, right after.
CreatedWithout == PlainImages   \* mutated
Created == VsyncImages
Frames == Created

Slot == 0..(VsyncImages - 1)     \* the part of the arrays that is used
None == -1
Sync == [acquired : {"null", "free", "signalled"},   \* m_VkSemaphoreImageAvailable
         rendered : {"null", "free", "signalled"},   \* m_VkSemaphoreRenderFinished
         fence    : {"null", "signalled", "reset"}]  \* m_VkFenceRendering
Presents == [image : Slot, frame : Slot]

VARIABLES
  pc,          \* "idle", in StartFrame at "fence" or "image", "recording",
               \*   or "hung" in a wait inside a clean-up
  frameLocked, \* m_FrameLocked
  lock,        \* the write lock of the surface is held
  noDrawing,   \* m_NoDrawing
  deallocated, \* m_Deallocated
  vsync,       \* m_VSync
  images,      \* images of the swapchain
  maxFrames,   \* m_MaxFrameCount
  current,     \* m_CurrentFrame
  target,      \* m_TargetImage
  swapchain,   \* "live", "retired" by a creation that failed, or "null"
  sync,        \* the synchronisation objects, per frame
  gpu,         \* submitted frames, oldest first
  queue,       \* presents the engine has not shown
  shown,       \* the image on screen, or None
  held,        \* images acquired and not presented
  failed       \* history: the members of Faults that have happened

window == <<noDrawing, deallocated, vsync>>
chain == <<images, maxFrames, swapchain>>
engine == <<queue, shown, held>>
vars == <<pc, frameLocked, lock, window, chain, current, target, sync, gpu, engine, failed>>

TypeOK ==
  /\ pc \in {"idle", "fence", "image", "recording", "hung"}
  /\ frameLocked \in BOOLEAN /\ lock \in BOOLEAN
  /\ noDrawing \in BOOLEAN /\ deallocated \in BOOLEAN /\ vsync \in BOOLEAN
  /\ images \in {VsyncImages, PlainImages} /\ maxFrames \in 1..images
  /\ current \in Slot /\ target \in Slot
  /\ swapchain \in {"live", "retired", "null"}
  /\ sync \in [Slot -> Sync]
  /\ gpu \in Seq(Slot)
  /\ queue \in Seq(Presents)
  /\ shown \in Slot \cup {None}
  /\ held \subseteq Slot
  /\ failed \subseteq Calls

---------------------------------------------------------------------------
(* Creation and rebuilding.                                                *)

NoSync == [acquired |-> "null", rendered |-> "null", fence |-> "null"]
FreshSync == [acquired |-> "free", rendered |-> "free", fence |-> "signalled"]

\* CreateSyncObjects for n frames; fences are created signalled.
Fresh(n) == [i \in Slot |-> IF i < n THEN FreshSync ELSE NoSync]

\* CreateVkSwapchainKHR cycles all the images it was given.
FramesForRequested(n) == 2   \* mutated
FramesFor(n) == n

Init ==
  /\ pc = "idle" /\ frameLocked = FALSE /\ lock = FALSE
  /\ noDrawing = FALSE /\ deallocated = FALSE
  /\ vsync = FALSE
  /\ images = Created /\ maxFrames = FramesFor(images)
  /\ current = 0 /\ target = 0
  /\ swapchain = "live"
  /\ sync = Fresh(maxFrames)
  /\ gpu = <<>> /\ queue = <<>> /\ shown = None /\ held = {}
  /\ failed = {}

MayFail(call) == call \in Faults /\ failed' = failed \cup {call}
AllSucceed == failed' = failed

\* After vkDeviceWaitIdle nothing is in flight: a fence that is not signalled
\* then never will be, and CleanupSyncObjects waits for it without a timeout.
\* A frame never comes to that: a submit that failed has StartFrame wait for
\* the same fence, before it could find the swapchain out of date.
NeverSignalled(f) == sync[f].fence = "reset" /\ \A i \in DOMAIN gpu : gpu[i] # f
Hang ==
  /\ \E f \in Slot : NeverSignalled(f)
  /\ pc' = "hung"
  /\ UNCHANGED <<chain, current, target, sync, gpu, engine, failed>>

\* What CleanupSwapchain and CleanupSyncObjects leave.
AllDestroyed == [i \in Slot |-> NoSync]

Rebuilt ==
  /\ AllSucceed
  /\ sync' = Fresh(maxFrames')

\* A render pass, depth buffer or framebuffer could not be made: the old
\* synchronisation objects are gone and there are no new ones.
NoFramebuffer ==
  /\ MayFail("framebuffer")
  /\ sync' = AllDestroyed

\* CreateSyncObjects gives up at frame n.
SyncCutShort ==
  /\ MayFail("fence")
  /\ \E n \in 0..(maxFrames' - 1) : sync' = Fresh(n)

\* vkCreateSwapchainKHR fails: the result is overwritten by that of
\* vkGetSwapchainImagesKHR, and the construction goes on with the images of
\* the old swapchain, which no acquire will give again.
KeptRetired ==
  /\ MayFail("swapchain")
  /\ swapchain' = "retired"
  /\ UNCHANGED <<images, maxFrames>>
  /\ sync' = Fresh(maxFrames)

\* m_CurrentFrame and m_TargetImage after a creation.
CurrentKept == current' = current /\ target' = 0   \* mutated
CurrentReset == current' = 0 /\ target' = 0

NoImages == queue' = <<>> /\ shown' = None /\ held' = {}

\* ResetSwapchain with the present mode of vsync v, when it returns: a new
\* swapchain brings the clean-up of the old one, which returns only if every
\* fence that is not signalled belongs to a frame the device works on.
ResetSwapchain(v) ==
  /\ \/ /\ \A f \in Slot : ~NeverSignalled(f)
        /\ swapchain' = "live"
        /\ images' = (IF v THEN VsyncImages ELSE PlainImages) /\ maxFrames' = FramesFor(images')
        /\ Rebuilt \/ NoFramebuffer \/ SyncCutShort
     \/ KeptRetired
  /\ gpu' = <<>> /\ NoImages
  /\ CurrentReset

ResetFailed == sync' # Fresh(maxFrames')

---------------------------------------------------------------------------
(* StartFrame.                                                             *)

StillLocked == frameLocked' = FALSE /\ lock' = lock   \* mutated
Unlocked == frameLocked' = FALSE /\ lock' = FALSE

\* Deallocated or minimised: StartFrame fails and the renderer skips the frame.
SkipFrame ==
  /\ pc = "idle"
  /\ deallocated \/ noDrawing
  /\ UNCHANGED vars

StartFrame ==
  /\ pc = "idle" /\ ~deallocated /\ ~noDrawing
  /\ lock' = TRUE /\ frameLocked' = TRUE
  /\ pc' = "fence"
  /\ UNCHANGED <<window, chain, current, target, sync, gpu, engine, failed>>

\* The wait for the fence of the current frame, and what it leaves the fence.
Waited == sync[current].fence = "signalled"
ResetEarly(s) == [s EXCEPT ![current].fence = "reset"]   \* mutated
FenceLeft(s) == s

FencePassed ==
  /\ pc = "fence"
  /\ Waited
  /\ sync' = FenceLeft(sync)
  /\ pc' = "image"
  /\ UNCHANGED <<frameLocked, lock, window, chain, current, target, gpu, engine, failed>>

Queued == {queue[i].image : i \in DOMAIN queue}
Available == (0..(images - 1)) \ (Queued \cup held \cup {shown})

\* A driver that hands images out in turn starts with image 0 of a swapchain.
InTurn ==
  IF shown = None /\ queue = <<>> THEN 0
  ELSE (1 + (IF queue = <<>> THEN shown ELSE queue[Len(queue)].image)) % images

\* vkAcquireNextImageKHR waits for an image; "suboptimal" is a success.
ImageReady ==
  /\ pc = "image" /\ swapchain = "live"
  /\ \E image \in Available :
       /\ \/ image = InTurn /\ AllSucceed
          \/ image # InTurn /\ MayFail("turn")
       /\ target' = image
       /\ held' = held \cup {image}
  /\ sync' = [sync EXCEPT ![current].acquired = "signalled"]
  /\ pc' = "recording"
  /\ UNCHANGED <<frameLocked, lock, window, chain, current, gpu, queue, shown>>

\* VK_ERROR_OUT_OF_DATE_KHR, at any time or because the swapchain is retired.
AcquireOutOfDate ==
  /\ pc = "image"
  /\ ResetSwapchain(vsync)
  /\ Unlocked /\ pc' = "idle"
  /\ UNCHANGED window

AcquireFails ==
  /\ pc = "image"
  /\ MayFail("acquire")
  /\ Unlocked /\ pc' = "idle"
  /\ UNCHANGED <<window, chain, current, target, sync, gpu, engine>>

---------------------------------------------------------------------------
(* EndFrame(true), while the frame is locked.                              *)

\* vkQueueSubmit fails after vkResetFences.
SubmitFails ==
  /\ pc = "recording"
  /\ MayFail("submit")
  /\ sync' = [sync EXCEPT ![current].fence = "reset"]
  /\ Unlocked /\ pc' = "idle"
  /\ UNCHANGED <<window, chain, current, target, gpu, engine>>

Submit ==
  /\ sync' = [sync EXCEPT ![current].fence = "reset"]
  /\ gpu' = Append(gpu, current)

\* The frame after this one.
Advanced == IF current + 1 >= maxFrames THEN 0 ELSE current + 1

\* Presenting succeeds; nothing asks for a new swapchain.
EndFrame ==
  /\ pc = "recording" /\ vsync = TRUE
  /\ Submit
  /\ queue' = Append(queue, [image |-> target, frame |-> current])
  /\ held' = held \ {target}
  /\ current' = Advanced
  /\ Unlocked /\ pc' = "idle"
  /\ UNCHANGED <<window, chain, target, shown, failed>>

\* The result is out of date or suboptimal, or vsync was off: rebuild.  The
\* submission made here is waited for with the device.
EndFrameRebuilds ==
  /\ pc = "recording"
  /\ vsync' = TRUE
  /\ ResetSwapchain(TRUE)
  /\ Unlocked /\ pc' = "idle"
  /\ UNCHANGED <<noDrawing, deallocated>>

\* Presenting fails otherwise: the frame was submitted, the next one uses the
\* same slot and the image stays with the program.
PresentFails ==
  /\ pc = "recording" /\ vsync = TRUE
  /\ MayFail("present")
  /\ Submit
  /\ Unlocked /\ pc' = "idle"
  /\ UNCHANGED <<window, chain, current, target, engine>>

---------------------------------------------------------------------------
(* Window events, between frames.                                          *)

Minimize ==
  /\ pc = "idle" /\ ~deallocated
  /\ noDrawing' = TRUE
  /\ UNCHANGED <<pc, frameLocked, lock, deallocated, vsync, chain, current, target,
                 sync, gpu, engine, failed>>

\* MAXIMIZE and RESIZE: takes the lock, rebuilds, and draws again unless the
\* rebuilding failed.
Resize ==
  /\ pc = "idle" /\ ~deallocated
  /\ ~lock
  /\ \/ Hang /\ lock' = TRUE /\ UNCHANGED noDrawing
     \/ /\ ResetSwapchain(vsync)
        /\ noDrawing' = (noDrawing /\ ResetFailed)
        /\ UNCHANGED <<pc, lock>>
  /\ UNCHANGED <<frameLocked, deallocated, vsync>>

\* CleanupVulkanSurface.  The destructor runs it once more, when every handle
\* is null.
TakenDown ==
  /\ \A f \in Slot : ~NeverSignalled(f)
  /\ deallocated' = TRUE
  /\ swapchain' = "null" /\ sync' = AllDestroyed
  /\ gpu' = <<>> /\ NoImages
  /\ UNCHANGED <<pc, images, maxFrames, current, target, failed>>

\* DESTROY.
Destroy ==
  /\ pc = "idle" /\ ~deallocated
  /\ TakenDown \/ (Hang /\ UNCHANGED deallocated)
  /\ UNCHANGED <<frameLocked, lock, noDrawing, vsync>>

---------------------------------------------------------------------------
(* The driver.                                                             *)

\* The oldest submission finishes: it waited for its image, and signals.
GpuFinishes ==
  /\ gpu # <<>>
  /\ gpu' = Tail(gpu)
  /\ sync' = [sync EXCEPT ![Head(gpu)] =
       [acquired |-> "free", rendered |-> "signalled", fence |-> "signalled"]]
  /\ UNCHANGED <<pc, frameLocked, lock, window, chain, current, target, engine, failed>>

\* The engine shows the oldest present whose frame is rendered.
ImageShown ==
  /\ queue # <<>>
  /\ sync[Head(queue).frame].rendered = "signalled"
  /\ sync' = [sync EXCEPT ![Head(queue).frame].rendered = "free"]
  /\ shown' = Head(queue).image
  /\ queue' = Tail(queue)
  /\ UNCHANGED <<pc, frameLocked, lock, window, chain, current, target, gpu, held, failed>>

InStartFrame == FencePassed \/ ImageReady \/ AcquireOutOfDate \/ AcquireFails
InEndFrame == EndFrame \/ EndFrameRebuilds \/ SubmitFails \/ PresentFails

Next ==
  \/ SkipFrame
  \/ StartFrame
  \/ InStartFrame
  \/ InEndFrame
  \/ Minimize
  \/ Resize
  \/ Destroy
  \/ GpuFinishes
  \/ ImageShown

\* The driver works on its own, and each of StartFrame's two waits ends once
\* what it waits for has come.  Nobody has to report an out-of-date swapchain
\* or another failure: the acquire has no timeout, and no fairness is asked of
\* those steps.
Fairness ==
  /\ WF_vars(GpuFinishes)
  /\ WF_vars(ImageShown)
  /\ WF_vars(FencePassed)
  /\ WF_vars(ImageReady)

Spec == Init /\ [][Next]_vars /\ Fairness

---------------------------------------------------------------------------
(* Properties.                                                             *)

\* StartFrame waits only for a fence the GPU is going to signal or has
\* signalled.  Resetting the fence just before the submit makes it so for an
\* acquire that fails or a rebuild; only a submit that failed leaves a fence
\* nobody signals, for StartFrame or a clean-up to wait for without end, and
\* only a failed rebuild a null one.
FenceComes ==
  /\ pc = "fence" =>
       /\ NeverSignalled(current) => "submit" \in failed
       /\ sync[current].fence = "null" => failed \cap {"framebuffer", "fence"} # {}
  /\ pc = "hung" => "submit" \in failed

\* The semaphores a call signals are unsignalled then and nobody waits on
\* them: the one of the image when StartFrame acquires, because the fence it
\* waited for covers its last use; the one of the present when EndFrame
\* submits, though no fence covers the present of the frame before in that
\* slot: there are as many slots as images.
SemaphoresFree ==
  /\ pc = "image" => sync[current].acquired # "signalled"
  /\ pc = "recording" /\ "present" \notin failed =>
       /\ sync[current].rendered # "signalled"
       /\ \A i \in DOMAIN queue : queue[i].frame # current

\* The renderer indexes vectors it sized when the surface was created by
\* m_CurrentFrame: however often the swapchain is rebuilt, with or without
\* vsync, the index stays in range.
IndexInRange == current < Frames /\ current < maxFrames

\* The render pass draws into the framebuffer of m_CurrentFrame but the image
\* presented is m_TargetImage: they agree as long as the driver hands images
\* out in turn and no acquired image was given up.
DrawsWhatItPresents == pc = "recording" /\ failed = {} => current = target

\* Between calls the lock is free, whichever return StartFrame and EndFrame
\* took: a window event that takes it does not block.
LockFreeBetweenCalls == pc = "idle" => ~lock /\ ~frameLocked

\* A StartFrame the thread is in returns, as long as no call has failed: the
\* fence is signalled and an image becomes free, in turn or not, though the
\* acquire waits without a timeout and need not report anything else.
StartFrameReturns ==
  (pc \in {"fence", "image"} /\ failed \subseteq {"turn"}) ~> (pc \in {"idle", "recording"})

\* The surface is the ring of frames SceneBuffers takes it for, whatever fails.
Ring == INSTANCE FrameRing WITH
  slot <- current, size <- maxFrames, flying <- {gpu[i] : i \in DOMAIN gpu}, gone <- deallocated
RefinesFrameRing == Ring!Spec
===========================================================================
