------------------------ MODULE VulkanSurfaceProofs ------------------------
(***************************************************************************)
(* Proofs about VulkanSurface for every number of images the driver may    *)
(* give and every set of calls that may fail.                              *)
(***************************************************************************)
EXTENDS VulkanSurface, FiniteSetTheorems, TLAPS

USE VulkanSurfaceAssumption DEF Calls

\* What the fences say about the frames on the GPU, and who is to blame when
\* one says nothing: the inductive part beside the types.
FencesTell ==
  /\ maxFrames = images /\ current < maxFrames
  /\ \A i, j \in DOMAIN gpu : gpu[i] = gpu[j] => i = j
  /\ \A i \in DOMAIN gpu : sync[gpu[i]].fence = "reset"
  /\ pc \in {"image", "recording"} => sync[current].fence = "signalled"
  /\ pc # "idle" => ~deallocated

Blame ==
  /\ \A f \in Slot : NeverSignalled(f) => "submit" \in failed
  /\ \A f \in Slot : f < maxFrames /\ sync[f].fence = "null" /\ ~deallocated
                       => failed \cap {"framebuffer", "fence"} # {}
  /\ pc = "hung" => "submit" \in failed
  /\ LockFreeBetweenCalls

---------------------------------------------------------------------------
(* Types.                                                                  *)

LEMMA ImagesPositive ==
  /\ 0 \in Slot
  /\ \A n \in {VsyncImages, PlainImages} :
       n \in Nat /\ n > 1 /\ 0..(n - 1) \subseteq Slot
BY DEF Slot

LEMMA SyncTypes ==
  /\ NoSync \in Sync /\ FreshSync \in Sync
  /\ \A n : Fresh(n) \in [Slot -> Sync]
  /\ AllDestroyed \in [Slot -> Sync]
<1>1. NoSync \in Sync BY DEF NoSync, Sync
<1>2. FreshSync \in Sync BY DEF FreshSync, Sync
<1>3. \A n : Fresh(n) \in [Slot -> Sync] BY <1>1, <1>2 DEF Fresh
<1>4. AllDestroyed \in [Slot -> Sync] BY <1>1 DEF AllDestroyed
<1> QED BY <1>1, <1>2, <1>3, <1>4

LEMMA SyncFields ==
  \A s \in Sync : /\ [s EXCEPT !.fence = "reset"] \in Sync
                  /\ [s EXCEPT !.rendered = "free"] \in Sync
BY DEF Sync

LEMMA SubmitTypes ==
  ASSUME TypeOK, Submit
  PROVE  sync' \in [Slot -> Sync] /\ gpu' \in Seq(Slot)
<1>1. [sync[current] EXCEPT !.fence = "reset"] \in Sync BY SyncFields DEF TypeOK
<1>2. sync' = [sync EXCEPT ![current] = [sync[current] EXCEPT !.fence = "reset"]]
  BY DEF Submit
<1>3. sync' \in [Slot -> Sync] BY <1>1, <1>2 DEF TypeOK
<1> QED BY <1>3 DEF Submit, TypeOK

LEMMA TypeInit == Init => TypeOK
<1> SUFFICES ASSUME Init PROVE TypeOK OBVIOUS
<1>1. images \in {VsyncImages, PlainImages} /\ maxFrames \in 1..images
  BY DEF Init, Created, FramesFor
<1>2. current \in Slot /\ target \in Slot /\ sync \in [Slot -> Sync]
  BY ImagesPositive, SyncTypes DEF Init
<1>3. gpu \in Seq(Slot) /\ queue \in Seq(Presents) /\ shown \in Slot \cup {None} /\ held \subseteq Slot
  BY DEF Init
<1>4. failed \subseteq Calls /\ swapchain \in {"live", "retired", "null"} BY DEF Init
<1> QED BY <1>1, <1>2, <1>3, <1>4 DEF Init, TypeOK

\* What a rebuilding leaves well typed, whichever way it goes.
LEMMA TypeReset ==
  ASSUME TypeOK, NEW v \in BOOLEAN, ResetSwapchain(v)
  PROVE  /\ images' \in {VsyncImages, PlainImages} /\ maxFrames' \in 1..images'
         /\ current' \in Slot /\ target' \in Slot
         /\ swapchain' \in {"live", "retired", "null"}
         /\ sync' \in [Slot -> Sync]
         /\ gpu' \in Seq(Slot)
         /\ queue' \in Seq(Presents)
         /\ shown' \in Slot \cup {None} /\ held' \subseteq Slot
         /\ failed' \subseteq Calls
<1>1. current' = 0 /\ target' = 0 /\ gpu' = <<>> /\ queue' = <<>> /\ shown' = None /\ held' = {}
  BY DEF ResetSwapchain, NoImages, CurrentReset
<1>2. /\ images' \in {VsyncImages, PlainImages} /\ maxFrames' \in 1..images'
      /\ swapchain' \in {"live", "retired", "null"}
  BY ImagesPositive DEF ResetSwapchain, KeptRetired, FramesFor, TypeOK
<1>3. sync' \in [Slot -> Sync]
  BY SyncTypes DEF ResetSwapchain, Rebuilt, NoFramebuffer, SyncCutShort, KeptRetired
<1>4. failed' \subseteq Calls
  BY DEF ResetSwapchain, Rebuilt, NoFramebuffer, SyncCutShort, KeptRetired, AllSucceed,
         MayFail, TypeOK
<1> QED BY <1>1, <1>2, <1>3, <1>4, ImagesPositive

LEMMA TypeStep == TypeOK /\ [Next]_vars => TypeOK'
<1> SUFFICES ASSUME TypeOK, [Next]_vars PROVE TypeOK' OBVIOUS
<1> USE DEF window, chain, engine
<1>1. CASE SkipFrame BY <1>1 DEF SkipFrame, TypeOK, vars
<1>2. CASE StartFrame BY <1>2 DEF StartFrame, TypeOK
<1>3. CASE FencePassed BY <1>3 DEF FencePassed, FenceLeft, TypeOK
<1>4. CASE ImageReady
  <2>1. sync' \in [Slot -> Sync] BY <1>4 DEF ImageReady, TypeOK, Sync
  <2>2. target' \in Slot /\ held' \subseteq Slot
    BY <1>4, ImagesPositive DEF ImageReady, Available, TypeOK
  <2>3. failed' \subseteq Calls BY <1>4 DEF ImageReady, AllSucceed, MayFail, TypeOK
  <2> QED BY <1>4, <2>1, <2>2, <2>3 DEF ImageReady, TypeOK
<1>5. CASE AcquireOutOfDate
  BY <1>5, TypeReset DEF AcquireOutOfDate, Unlocked, TypeOK
<1>6. CASE AcquireFails BY <1>6 DEF AcquireFails, MayFail, Unlocked, TypeOK
<1>7. CASE EndFrame
  <2>1. sync' \in [Slot -> Sync] /\ gpu' \in Seq(Slot) BY <1>7, SubmitTypes DEF EndFrame
  <2>3. queue' \in Seq(Presents)
    <3>1. [image |-> target, frame |-> current] \in Presents BY DEF TypeOK, Presents
    <3> QED BY <1>7, <3>1 DEF EndFrame, TypeOK
  <2>4. current' \in Slot
    BY <1>7, ImagesPositive DEF EndFrame, Advanced, TypeOK, Slot
  <2> QED BY <1>7, <2>1, <2>3, <2>4 DEF EndFrame, Unlocked, TypeOK
<1>8. CASE EndFrameRebuilds
  BY <1>8, TypeReset DEF EndFrameRebuilds, Unlocked, TypeOK
<1>9. CASE SubmitFails
  <2>1. sync' \in [Slot -> Sync] BY <1>9 DEF SubmitFails, TypeOK, Sync
  <2> QED BY <1>9, <2>1 DEF SubmitFails, MayFail, Unlocked, TypeOK
<1>10. CASE PresentFails
  <2>1. sync' \in [Slot -> Sync] /\ gpu' \in Seq(Slot) BY <1>10, SubmitTypes DEF PresentFails
  <2> QED BY <1>10, <2>1 DEF PresentFails, MayFail, Unlocked, TypeOK
<1>11. CASE Minimize BY <1>11 DEF Minimize, TypeOK
<1>12. CASE Resize
  <2>1. CASE Hang /\ lock' = TRUE /\ UNCHANGED noDrawing
    BY <1>12, <2>1 DEF Resize, Hang, TypeOK
  <2>2. CASE ResetSwapchain(vsync) /\ noDrawing' = (noDrawing /\ ResetFailed) /\ UNCHANGED <<pc, lock>>
    BY <1>12, <2>2, TypeReset DEF Resize, ResetFailed, TypeOK
  <2> QED BY <1>12, <2>1, <2>2 DEF Resize
<1>13. CASE Destroy
  <2>1. CASE Hang /\ UNCHANGED deallocated BY <1>13, <2>1 DEF Destroy, Hang, TypeOK
  <2>2. CASE TakenDown
    <3>1. gpu' \in Seq(Slot) /\ queue' \in Seq(Presents) /\ shown' \in Slot \cup {None}
          /\ held' \subseteq Slot /\ sync' \in [Slot -> Sync]
      BY <1>13, <2>2, SyncTypes DEF TakenDown, NoImages
    <3>2. deallocated' \in BOOLEAN /\ swapchain' \in {"live", "retired", "null"}
          /\ UNCHANGED <<pc, images, maxFrames, current, target, failed>>
      BY <2>2 DEF TakenDown
    <3> QED BY <1>13, <3>1, <3>2 DEF Destroy, TypeOK
  <2> QED BY <1>13, <2>1, <2>2 DEF Destroy
<1>14. CASE GpuFinishes
  <2>1. Head(gpu) \in Slot /\ Tail(gpu) \in Seq(Slot) BY <1>14 DEF GpuFinishes, TypeOK
  <2>2. sync' \in [Slot -> Sync] BY <1>14, <2>1 DEF GpuFinishes, TypeOK, Sync
  <2> QED BY <1>14, <2>1, <2>2 DEF GpuFinishes, TypeOK
<1>15. CASE ImageShown
  <2>1. Head(queue) \in Presents /\ Tail(queue) \in Seq(Presents)
    BY <1>15 DEF ImageShown, TypeOK
  <2>3. Head(queue).image \in Slot /\ Head(queue).frame \in Slot BY <2>1 DEF Presents
  <2>2. sync' \in [Slot -> Sync]
    <3>1. [sync[Head(queue).frame] EXCEPT !.rendered = "free"] \in Sync
      BY <2>3, SyncFields DEF TypeOK
    <3> QED BY <1>15, <2>3, <3>1 DEF ImageShown, TypeOK
  <2> QED BY <1>15, <2>1, <2>2, <2>3 DEF ImageShown, TypeOK
<1>16. CASE UNCHANGED vars BY <1>16 DEF vars, TypeOK
<1> QED BY <1>1, <1>2, <1>3, <1>4, <1>5, <1>6, <1>7, <1>8, <1>9, <1>10, <1>11, <1>12, <1>13,
           <1>14, <1>15, <1>16 DEF Next, InStartFrame, InEndFrame

\* The variables of the surface keep their types, whatever fails.
THEOREM TypeCorrect == Spec => []TypeOK
BY TypeInit, TypeStep, PTL DEF Spec

---------------------------------------------------------------------------
(* The fences.                                                             *)

LEMMA FencesInit == Init => FencesTell
BY DEF Init, FencesTell, Created, FramesFor

\* After a rebuilding nothing is on the GPU.
LEMMA FencesReset ==
  ASSUME TypeOK, FencesTell, NEW v \in BOOLEAN, ResetSwapchain(v)
  PROVE  maxFrames' = images' /\ current' < maxFrames' /\ gpu' = <<>>
<1>1. maxFrames' = images' /\ images' \in {VsyncImages, PlainImages}
  BY TypeReset DEF ResetSwapchain, KeptRetired, FramesFor, FencesTell
<1>2. current' = 0 /\ gpu' = <<>> BY DEF ResetSwapchain, CurrentReset
<1> QED BY <1>1, <1>2, ImagesPositive

\* A submission adds the current frame, which was not on the GPU.
LEMMA FencesSubmit ==
  ASSUME TypeOK, FencesTell, Submit, pc = "recording"
  PROVE  /\ \A i, j \in DOMAIN gpu' : gpu'[i] = gpu'[j] => i = j
         /\ \A i \in DOMAIN gpu' : sync'[gpu'[i]].fence = "reset"
<1>1. \A i \in DOMAIN gpu : gpu[i] # current BY DEF FencesTell
<1>2. gpu \in Seq(Slot) /\ gpu' = Append(gpu, current) /\ current \in Slot BY DEF Submit, TypeOK
<1>3. /\ DOMAIN gpu' = 1..(Len(gpu) + 1) /\ DOMAIN gpu = 1..Len(gpu) /\ Len(gpu) \in Nat
      /\ \A i \in DOMAIN gpu : gpu'[i] = gpu[i]
      /\ gpu'[Len(gpu) + 1] = current
  BY <1>2
<1>4. sync'[current].fence = "reset" /\ \A f \in Slot \ {current} : sync'[f] = sync[f]
  BY <1>2 DEF Submit, TypeOK, Sync
<1>5. \A i \in DOMAIN gpu : gpu[i] \in Slot BY <1>2
<1>6. \A i \in DOMAIN gpu' : i \in DOMAIN gpu \/ i = Len(gpu) + 1 BY <1>3
<1>7. \A i, j \in DOMAIN gpu' : gpu'[i] = gpu'[j] => i = j
  BY <1>1, <1>3, <1>6 DEF FencesTell
<1>8. \A i \in DOMAIN gpu' : sync'[gpu'[i]].fence = "reset"
  BY <1>1, <1>3, <1>4, <1>5, <1>6 DEF FencesTell
<1> QED BY <1>7, <1>8

LEMMA FencesStep == TypeOK /\ FencesTell /\ [Next]_vars => FencesTell'
<1> SUFFICES ASSUME TypeOK, FencesTell, [Next]_vars PROVE FencesTell' OBVIOUS
<1> USE DEF window, chain, engine
<1>1. CASE SkipFrame BY <1>1 DEF SkipFrame, FencesTell, vars
<1>2. CASE StartFrame BY <1>2 DEF StartFrame, FencesTell
<1>3. CASE FencePassed BY <1>3 DEF FencePassed, FenceLeft, Waited, FencesTell
<1>4. CASE ImageReady
  <2>1. \A f \in Slot : sync'[f].fence = sync[f].fence BY <1>4 DEF ImageReady, TypeOK, Sync
  <2>2. \A i \in DOMAIN gpu : gpu[i] \in Slot BY DEF TypeOK
  <2> QED BY <1>4, <2>1, <2>2 DEF ImageReady, FencesTell, TypeOK
<1>5. CASE AcquireOutOfDate
  BY <1>5, FencesReset DEF AcquireOutOfDate, FencesTell, TypeOK
<1>6. CASE AcquireFails BY <1>6 DEF AcquireFails, FencesTell
<1>7. CASE EndFrame
  <2>1. current' < maxFrames' BY <1>7, ImagesPositive DEF EndFrame, Advanced, FencesTell, TypeOK, Slot
  <2> QED BY <1>7, <2>1, FencesSubmit DEF EndFrame, FencesTell
<1>8. CASE EndFrameRebuilds
  <2>1. ResetSwapchain(TRUE) /\ pc' = "idle" BY <1>8 DEF EndFrameRebuilds
  <2>2. maxFrames' = images' /\ current' < maxFrames' /\ gpu' = <<>>
    BY <2>1, FencesReset
  <2> QED BY <2>1, <2>2 DEF FencesTell
<1>9. CASE SubmitFails
  <2>1. \A i \in DOMAIN gpu : gpu[i] # current /\ gpu[i] \in Slot BY <1>9 DEF SubmitFails, FencesTell, TypeOK
  <2>2. \A f \in Slot \ {current} : sync'[f] = sync[f] BY <1>9 DEF SubmitFails, TypeOK
  <2> QED BY <1>9, <2>1, <2>2 DEF SubmitFails, FencesTell
<1>10. CASE PresentFails BY <1>10, FencesSubmit DEF PresentFails, FencesTell
<1>11. CASE Minimize BY <1>11 DEF Minimize, FencesTell
<1>12. CASE Resize
  <2>1. CASE Hang BY <1>12, <2>1 DEF Resize, Hang, FencesTell
  <2>2. CASE ResetSwapchain(vsync) /\ UNCHANGED <<pc, lock>>
    BY <1>12, <2>2, FencesReset DEF Resize, FencesTell, TypeOK
  <2> QED BY <1>12, <2>1, <2>2 DEF Resize
<1>13. CASE Destroy
  <2>1. CASE Hang /\ UNCHANGED deallocated BY <1>13, <2>1 DEF Destroy, Hang, FencesTell
  <2>2. CASE TakenDown BY <1>13, <2>2 DEF Destroy, TakenDown, FencesTell
  <2> QED BY <1>13, <2>1, <2>2 DEF Destroy
<1>14. CASE GpuFinishes
  <2>1. gpu \in Seq(Slot) /\ gpu # <<>> BY <1>14 DEF GpuFinishes, TypeOK
  <2>2. /\ gpu' = Tail(gpu) /\ DOMAIN gpu = 1..Len(gpu) /\ Len(gpu) \in Nat \ {0}
        /\ Head(gpu) = gpu[1] /\ gpu[1] \in Slot
        /\ DOMAIN gpu' = 1..(Len(gpu) - 1)
        /\ \A i \in DOMAIN gpu' : gpu'[i] = gpu[i + 1] /\ i + 1 \in DOMAIN gpu /\ gpu'[i] \in Slot
    BY <1>14, <2>1 DEF GpuFinishes
  <2>3. \A i \in DOMAIN gpu' : gpu'[i] # gpu[1] BY <2>2 DEF FencesTell
  <2>4. /\ \A f \in Slot \ {gpu[1]} : sync'[f] = sync[f]
        /\ sync'[gpu[1]].fence = "signalled"
    BY <1>14, <2>2 DEF GpuFinishes, TypeOK
  <2>5. \A i, j \in DOMAIN gpu' : gpu'[i] = gpu'[j] => i = j BY <2>2 DEF FencesTell
  <2>6. \A i \in DOMAIN gpu' : sync'[gpu'[i]].fence = "reset" BY <2>2, <2>3, <2>4 DEF FencesTell
  <2>7. pc' \in {"image", "recording"} => sync'[current'].fence = "signalled"
    BY <1>14, <2>4 DEF GpuFinishes, FencesTell, TypeOK
  <2> QED BY <1>14, <2>5, <2>6, <2>7 DEF GpuFinishes, FencesTell
<1>15. CASE ImageShown
  <2>1. Head(queue).frame \in Slot
    <3>1. Head(queue) \in Presents BY <1>15 DEF ImageShown, TypeOK
    <3> QED BY <3>1 DEF Presents
  <2>2. \A f \in Slot : sync'[f].fence = sync[f].fence BY <1>15, <2>1 DEF ImageShown, TypeOK, Sync
  <2>3. \A i \in DOMAIN gpu : gpu[i] \in Slot BY DEF TypeOK
  <2> QED BY <1>15, <2>2, <2>3 DEF ImageShown, FencesTell, TypeOK
<1>16. CASE UNCHANGED vars BY <1>16 DEF vars, FencesTell
<1> QED BY <1>1, <1>2, <1>3, <1>4, <1>5, <1>6, <1>7, <1>8, <1>9, <1>10, <1>11, <1>12, <1>13,
           <1>14, <1>15, <1>16 DEF Next, InStartFrame, InEndFrame

\* The frame index stays below the number of frames the renderer made its
\* buffers for, and of those the swapchain has, through every rebuilding.
THEOREM IndexStaysInRange == Spec => []IndexInRange
<1>1. TypeOK /\ FencesTell => IndexInRange BY ImagesPositive DEF FencesTell, TypeOK, IndexInRange, Frames, Created, Slot
<1> QED BY <1>1, TypeInit, TypeStep, FencesInit, FencesStep, PTL DEF Spec

---------------------------------------------------------------------------
(* The ring of frames.                                                     *)

LEMMA NextInRing ==
  ASSUME NEW n \in Nat, n > 1, NEW c \in 0..(n - 1)
  PROVE  (c + 1) % n = IF c + 1 >= n THEN 0 ELSE c + 1
<1>1. CASE c + 1 >= n
  <2>1. c + 1 = n BY <1>1
  <2>2. n % n = 0 OBVIOUS
  <2> QED BY <2>1, <2>2
<1>2. CASE c + 1 < n BY <1>2
<1> QED BY <1>1, <1>2

Flying == {gpu[i] : i \in DOMAIN gpu}

LEMMA RingFrame ==
  ASSUME TypeOK, FencesTell, pc = "recording", Submit,
         current' \in {current, Ring!NextSlot}, UNCHANGED <<maxFrames, deallocated>>
  PROVE  Ring!Frame
<1>1. current \notin Flying BY DEF FencesTell, Flying
<1>2. ~deallocated BY DEF FencesTell
<1>3. Flying' = Flying \cup {current}
  <2>1. gpu \in Seq(Slot) /\ gpu' = Append(gpu, current) /\ current \in Slot BY DEF Submit, TypeOK
  <2>2. /\ DOMAIN gpu' = 1..(Len(gpu) + 1) /\ DOMAIN gpu = 1..Len(gpu) /\ Len(gpu) \in Nat
        /\ \A i \in DOMAIN gpu : gpu'[i] = gpu[i]
        /\ gpu'[Len(gpu) + 1] = current
    BY <2>1
  <2> QED BY <2>2 DEF Flying
<1> QED BY <1>1, <1>2, <1>3 DEF Ring!Frame, Flying

LEMMA RingInit == Init => Ring!Init
BY DEF Init, Ring!Init, Created, Frames, FramesFor

LEMMA RingStep == TypeOK /\ FencesTell /\ [Next]_vars => [Ring!Next]_(Ring!vars)
<1> SUFFICES ASSUME TypeOK, FencesTell, [Next]_vars PROVE [Ring!Next]_(Ring!vars) OBVIOUS
<1> USE DEF window, chain, engine
<1>1. CASE UNCHANGED <<current, maxFrames, gpu, deallocated>> BY <1>1 DEF Ring!vars
<1>2. ASSUME NEW v \in BOOLEAN, ResetSwapchain(v), UNCHANGED deallocated
      PROVE  Ring!Next
  <2>1. Flying' = {} BY <1>2 DEF Flying, ResetSwapchain
  <2>2. current' = 0 BY <1>2 DEF ResetSwapchain, CurrentReset
  <2>3. maxFrames' \in 1..Frames
    BY <1>2, TypeReset, ImagesPositive DEF Frames, Created
  <2> QED BY <1>2, <2>1, <2>2, <2>3 DEF Ring!Next, Ring!Drain, Flying
<1>3. CASE EndFrame
  <2>1. current' = Ring!NextSlot
    <3>1. maxFrames \in Nat /\ maxFrames > 1 /\ current \in 0..(maxFrames - 1)
      BY ImagesPositive DEF FencesTell, TypeOK, Slot
    <3> QED BY <1>3, <3>1, NextInRing DEF EndFrame, Advanced, Ring!NextSlot
  <2> QED BY <1>3, <2>1, RingFrame DEF EndFrame, Ring!Next
<1>4. CASE PresentFails BY <1>4, RingFrame DEF PresentFails, Ring!Next
<1>5. CASE AcquireOutOfDate BY <1>5, <1>2 DEF AcquireOutOfDate, TypeOK
<1>6. CASE EndFrameRebuilds BY <1>6, <1>2 DEF EndFrameRebuilds
<1>7. CASE Resize BY <1>7, <1>1, <1>2 DEF Resize, Hang, TypeOK
<1>8. CASE Destroy
  <2>1. CASE TakenDown
    <3>1. Flying' = {} BY <2>1 DEF Flying, TakenDown
    <3> QED BY <2>1, <3>1 DEF TakenDown, Ring!Next, Ring!Drain, Flying
  <2> QED BY <1>8, <1>1, <2>1 DEF Destroy, Hang
<1>9. CASE GpuFinishes
  <2>1. gpu \in Seq(Slot) /\ gpu # <<>> BY <1>9 DEF GpuFinishes, TypeOK
  <2>2. /\ gpu' = Tail(gpu) /\ DOMAIN gpu = 1..Len(gpu) /\ Len(gpu) \in Nat \ {0}
        /\ DOMAIN gpu' = 1..(Len(gpu) - 1)
        /\ \A i \in DOMAIN gpu' : gpu'[i] = gpu[i + 1]
    BY <1>9, <2>1 DEF GpuFinishes
  <2>3. \A i \in DOMAIN gpu' : gpu'[i] # gpu[1] /\ gpu'[i] \in Flying
    BY <2>2 DEF FencesTell, Flying
  <2>4. \A i \in DOMAIN gpu : i # 1 => i - 1 \in DOMAIN gpu' /\ gpu'[i - 1] = gpu[i] BY <2>2
  <2>5. Flying' = Flying \ {gpu[1]}
    <3>1. Flying' \subseteq Flying \ {gpu[1]} BY <2>3 DEF Flying
    <3>2. ASSUME NEW f \in Flying \ {gpu[1]} PROVE f \in Flying'
      <4>1. PICK i \in DOMAIN gpu : f = gpu[i] BY DEF Flying
      <4> QED BY <4>1, <2>4 DEF Flying
    <3> QED BY <3>1, <3>2
  <2>6. gpu[1] \in Flying BY <2>2 DEF Flying
  <2> QED BY <1>9, <2>5, <2>6 DEF GpuFinishes, Ring!Next, Ring!Finish, Flying
<1>10. CASE SkipFrame BY <1>10, <1>1 DEF SkipFrame, vars
<1>11. CASE StartFrame BY <1>11, <1>1 DEF StartFrame
<1>12. CASE FencePassed BY <1>12, <1>1 DEF FencePassed
<1>13. CASE ImageReady BY <1>13, <1>1 DEF ImageReady
<1>14. CASE AcquireFails BY <1>14, <1>1 DEF AcquireFails
<1>15. CASE SubmitFails BY <1>15, <1>1 DEF SubmitFails
<1>16. CASE Minimize BY <1>16, <1>1 DEF Minimize
<1>17. CASE ImageShown BY <1>17, <1>1 DEF ImageShown
<1>18. CASE UNCHANGED vars BY <1>18, <1>1 DEF vars
<1> QED BY <1>3, <1>4, <1>5, <1>6, <1>7, <1>8, <1>9, <1>10, <1>11, <1>12, <1>13, <1>14, <1>15,
           <1>16, <1>17, <1>18 DEF Next, InStartFrame, InEndFrame

\* Every step of the surface is a step of the ring of frames, or none, whatever
\* fails.
THEOREM SurfaceImplementsFrameRing == Spec => RefinesFrameRing
<1>1. TypeOK /\ FencesTell /\ [Next]_vars => [Ring!Next]_(Ring!vars) BY RingStep
<1> QED BY <1>1, RingInit, TypeInit, TypeStep, FencesInit, FencesStep, PTL
        DEF Spec, RefinesFrameRing, Ring!Spec

---------------------------------------------------------------------------
(* Who is to blame for a wait that never ends.                             *)

LEMMA BlameInit == Init => Blame
BY DEF Init, Blame, NeverSignalled, Fresh, FreshSync, NoSync,
       LockFreeBetweenCalls

\* What a rebuilding leaves: fences that are signalled or, after a failure, null.
LEMMA BlameReset ==
  ASSUME TypeOK, FencesTell, Blame, NEW v \in BOOLEAN, ResetSwapchain(v)
  PROVE  /\ \A f \in Slot : sync'[f].fence # "reset"
         /\ \A f \in Slot : f < maxFrames' /\ sync'[f].fence = "null"
                              => failed' \cap {"framebuffer", "fence"} # {}
         /\ failed \subseteq failed'
<1>1. \A n : \A f \in Slot :
        /\ Fresh(n)[f].fence \in {"signalled", "null"}
        /\ AllDestroyed[f].fence = "null"
        /\ f < n => Fresh(n)[f].fence = "signalled"
  BY DEF Fresh, FreshSync, NoSync, AllDestroyed
<1>2. CASE Rebuilt BY <1>1, <1>2 DEF Rebuilt, AllSucceed
<1>3. CASE NoFramebuffer BY <1>1, <1>3 DEF NoFramebuffer, MayFail
<1>4. CASE SyncCutShort BY <1>1, <1>4 DEF SyncCutShort, MayFail
<1>5. CASE KeptRetired BY <1>1, <1>5 DEF KeptRetired, MayFail
<1> QED BY <1>2, <1>3, <1>4, <1>5 DEF ResetSwapchain

LEMMA BlameStep == TypeOK /\ FencesTell /\ Blame /\ [Next]_vars => Blame'
<1> SUFFICES ASSUME TypeOK, FencesTell, Blame, [Next]_vars PROVE Blame' OBVIOUS
<1> USE DEF window, chain, engine, LockFreeBetweenCalls
<1>1. CASE SkipFrame BY <1>1 DEF SkipFrame, Blame, NeverSignalled, vars
<1>2. CASE StartFrame BY <1>2 DEF StartFrame, Blame, NeverSignalled
<1>3. CASE FencePassed BY <1>3 DEF FencePassed, FenceLeft, Blame, NeverSignalled
<1>4. CASE ImageReady
  <2>1. \A f \in Slot : sync'[f].fence = sync[f].fence BY <1>4 DEF ImageReady, TypeOK, Sync
  <2>2. failed \subseteq failed' BY <1>4 DEF ImageReady, AllSucceed, MayFail
  <2> QED BY <1>4, <2>1, <2>2 DEF ImageReady, Blame, NeverSignalled
<1>5. CASE AcquireOutOfDate
  BY <1>5, BlameReset DEF AcquireOutOfDate, Unlocked, Blame, NeverSignalled, TypeOK
<1>6. CASE AcquireFails BY <1>6 DEF AcquireFails, MayFail, Unlocked, Blame, NeverSignalled
<1>7. ASSUME Submit, pc = "recording", pc' = "idle", Unlocked, failed \subseteq failed',
             UNCHANGED <<maxFrames, deallocated>>
      PROVE  Blame'
  <2>1. gpu \in Seq(Slot) /\ gpu' = Append(gpu, current) /\ current \in Slot BY <1>7 DEF Submit, TypeOK
  <2>2. /\ DOMAIN gpu' = 1..(Len(gpu) + 1) /\ DOMAIN gpu = 1..Len(gpu) /\ Len(gpu) \in Nat
        /\ \A i \in DOMAIN gpu : gpu'[i] = gpu[i] /\ i \in DOMAIN gpu'
        /\ gpu'[Len(gpu) + 1] = current /\ Len(gpu) + 1 \in DOMAIN gpu'
    BY <2>1
  <2>3. sync'[current].fence = "reset" /\ \A f \in Slot \ {current} : sync'[f] = sync[f]
    BY <1>7 DEF Submit, TypeOK, Sync
  <2>4. \A f \in Slot : NeverSignalled(f)' => NeverSignalled(f)
    BY <2>2, <2>3 DEF NeverSignalled
  <2> QED BY <1>7, <2>3, <2>4 DEF Blame, Unlocked
<1>8. CASE EndFrame BY <1>8, <1>7 DEF EndFrame
<1>9. CASE PresentFails BY <1>9, <1>7 DEF PresentFails, MayFail
<1>10. CASE EndFrameRebuilds
  <2>1. ResetSwapchain(TRUE) /\ pc' = "idle" /\ Unlocked /\ UNCHANGED deallocated BY <1>10 DEF EndFrameRebuilds
  <2>2. /\ \A f \in Slot : sync'[f].fence # "reset"
        /\ \A f \in Slot : f < maxFrames' /\ sync'[f].fence = "null"
                              => failed' \cap {"framebuffer", "fence"} # {}
    BY <2>1, BlameReset
  <2> QED BY <2>1, <2>2 DEF Blame, NeverSignalled, Unlocked
<1>11. CASE SubmitFails
  <2>1. \A f \in Slot \ {current} : sync'[f] = sync[f] BY <1>11 DEF SubmitFails, TypeOK
  <2>2. "submit" \in failed' /\ failed \subseteq failed' BY <1>11 DEF SubmitFails, MayFail
  <2>3. sync'[current].fence = "reset" BY <1>11 DEF SubmitFails, TypeOK, Sync
  <2> QED BY <1>11, <2>1, <2>2, <2>3 DEF SubmitFails, Unlocked, Blame, NeverSignalled
<1>12. CASE Minimize BY <1>12 DEF Minimize, Blame, NeverSignalled
<1>13. CASE Resize
  <2>1. CASE Hang BY <1>13, <2>1 DEF Resize, Hang, Blame, NeverSignalled
  <2>2. CASE ResetSwapchain(vsync) /\ UNCHANGED <<pc, lock>>
    BY <1>13, <2>2, BlameReset DEF Resize, Blame, NeverSignalled, TypeOK
  <2> QED BY <1>13, <2>1, <2>2 DEF Resize
<1>14. CASE Destroy
  <2>1. CASE Hang /\ UNCHANGED deallocated BY <1>14, <2>1 DEF Destroy, Hang, Blame, NeverSignalled
  <2>2. CASE TakenDown
    BY <1>14, <2>2 DEF Destroy, TakenDown, AllDestroyed, NoSync, Blame, NeverSignalled
  <2> QED BY <1>14, <2>1, <2>2 DEF Destroy
<1>15. CASE GpuFinishes
  <2>1. gpu \in Seq(Slot) /\ gpu # <<>> BY <1>15 DEF GpuFinishes, TypeOK
  <2>2. /\ gpu' = Tail(gpu) /\ DOMAIN gpu = 1..Len(gpu) /\ Len(gpu) \in Nat \ {0}
        /\ Head(gpu) = gpu[1] /\ gpu[1] \in Slot
        /\ \A i \in DOMAIN gpu : i # 1 => i - 1 \in DOMAIN gpu' /\ gpu'[i - 1] = gpu[i]
    BY <1>15, <2>1 DEF GpuFinishes
  <2>3. /\ \A f \in Slot \ {gpu[1]} : sync'[f] = sync[f]
        /\ sync'[gpu[1]].fence = "signalled"
    BY <1>15, <2>2 DEF GpuFinishes, TypeOK
  <2>4. \A f \in Slot : NeverSignalled(f)' => NeverSignalled(f)
    <3> SUFFICES ASSUME NEW f \in Slot, NeverSignalled(f)' PROVE NeverSignalled(f) OBVIOUS
    <3>1. f # gpu[1] /\ sync[f].fence = "reset" BY <2>3 DEF NeverSignalled
    <3>2. \A i \in DOMAIN gpu : gpu[i] # f BY <2>2, <3>1 DEF NeverSignalled
    <3> QED BY <3>1, <3>2 DEF NeverSignalled
  <2>5. \A f \in Slot : sync'[f].fence = "null" => sync[f].fence = "null" BY <2>3
  <2> QED BY <1>15, <2>4, <2>5 DEF GpuFinishes, Blame
<1>16. CASE ImageShown
  <2>1. Head(queue).frame \in Slot
    <3>1. Head(queue) \in Presents BY <1>16 DEF ImageShown, TypeOK
    <3> QED BY <3>1 DEF Presents
  <2>2. \A f \in Slot : sync'[f].fence = sync[f].fence BY <1>16, <2>1 DEF ImageShown, TypeOK, Sync
  <2> QED BY <1>16, <2>2 DEF ImageShown, Blame, NeverSignalled
<1>17. CASE UNCHANGED vars BY <1>17 DEF vars, Blame, NeverSignalled
<1> QED BY <1>1, <1>2, <1>3, <1>4, <1>5, <1>6, <1>8, <1>9, <1>10, <1>11, <1>12, <1>13,
           <1>14, <1>15, <1>16, <1>17 DEF Next, InStartFrame, InEndFrame

LEMMA BlameInvariant == Spec => [](TypeOK /\ FencesTell /\ Blame)
BY TypeInit, TypeStep, FencesInit, FencesStep, BlameInit, BlameStep, PTL DEF Spec

\* Whatever fails, and however many images there are: StartFrame waits for a
\* fence that will be signalled, unless a submit or a rebuilding failed; and a
\* clean-up waits without end only after a failed submit.
THEOREM WaitsForLiveFence == Spec => []FenceComes
<1>1. TypeOK /\ FencesTell /\ Blame => FenceComes BY DEF FencesTell, Blame, TypeOK, FenceComes
<1> QED BY <1>1, BlameInvariant, PTL

\* Every way out of StartFrame and EndFrame leaves the lock free.
THEOREM LockIsFree == Spec => []LockFreeBetweenCalls
<1>1. Blame => LockFreeBetweenCalls BY DEF Blame
<1> QED BY <1>1, BlameInvariant, PTL

---------------------------------------------------------------------------
(* The semaphores and the images.                                          *)

\* The frame k before frame c, and the one after frame s, of n.
Back(k, c, n) == IF k <= c THEN c - k ELSE c - k + n
After(s, n) == IF s + 1 >= n THEN 0 ELSE s + 1

\* A frame whose fence is signalled has its acquire semaphore free, but for the
\* one being recorded.
AcquiredFree == \A f \in Slot :
  sync[f].acquired = "signalled" /\ sync[f].fence = "signalled" => pc = "recording" /\ f = current

\* The images to be shown are different ones, and the one acquired is another.
ImagesApart ==
  /\ \A i, j \in DOMAIN queue : queue[i].image = queue[j].image => i = j
  /\ \A i \in DOMAIN queue : queue[i].image < images /\ queue[i].image \notin held
  /\ pc = "recording" => target \in held /\ target < images

\* The presents are those of the last frames, in their order.
PresentsInOrder == "present" \notin failed =>
  /\ Len(queue) <= images
  /\ \A i \in DOMAIN queue : queue[i].frame = Back(Len(queue) + 1 - i, current, images)

\* A frame that is rendered has its present in the queue, and so has one that
\* is being rendered.
RenderedQueued == "present" \notin failed =>
  /\ \A f \in Slot : sync[f].rendered = "signalled" =>
       /\ \E i \in DOMAIN queue : queue[i].frame = f
       /\ \A i \in DOMAIN gpu : gpu[i] # f
  /\ \A i \in DOMAIN gpu : \E j \in DOMAIN queue : queue[j].frame = gpu[i]

\* Images and frames go round together.
InStep == failed = {} /\ ~deallocated =>
  /\ \A i \in DOMAIN queue : queue[i].image = queue[i].frame
  /\ queue = <<>> => IF shown = None THEN current = 0
                     ELSE shown < images /\ current = After(shown, images)
  /\ pc = "recording" => target = current

Semaphores == AcquiredFree /\ ImagesApart /\ PresentsInOrder /\ RenderedQueued /\ InStep

LEMMA Appended ==
  ASSUME NEW T, NEW s \in Seq(T), NEW e \in T
  PROVE  /\ Append(s, e) \in Seq(T) /\ Len(s) \in Nat /\ DOMAIN s = 1..Len(s)
         /\ Len(Append(s, e)) = Len(s) + 1
         /\ DOMAIN Append(s, e) = 1..(Len(s) + 1)
         /\ Append(s, e)[Len(s) + 1] = e
         /\ \A i \in DOMAIN s : Append(s, e)[i] = s[i]
OBVIOUS

LEMMA Tailed ==
  ASSUME NEW T, NEW s \in Seq(T), s # <<>>
  PROVE  /\ Len(s) \in Nat \ {0} /\ DOMAIN s = 1..Len(s)
         /\ Head(s) = s[1] /\ s[1] \in T
         /\ Tail(s) \in Seq(T) /\ Len(Tail(s)) = Len(s) - 1
         /\ DOMAIN Tail(s) = 1..(Len(s) - 1)
         /\ \A i \in DOMAIN Tail(s) : Tail(s)[i] = s[i + 1] /\ i + 1 \in DOMAIN s
         /\ \A i \in DOMAIN s : i # 1 => i - 1 \in DOMAIN Tail(s) /\ Tail(s)[i - 1] = s[i]
OBVIOUS

\* The presents of the queue leave an image for the frame being recorded.
LEMMA RoomForOne ==
  ASSUME TypeOK, ImagesApart, pc = "recording"
  PROVE  Len(queue) < images
<1>1. /\ Len(queue) \in Nat /\ DOMAIN queue = 1..Len(queue)
      /\ \A i \in DOMAIN queue : queue[i] \in Presents
  BY DEF TypeOK
<1>2. images \in Nat /\ images > 1 BY ImagesPositive DEF TypeOK
<1> DEFINE n == Len(queue)
           f == [i \in 1..(n + 1) |-> IF i = n + 1 THEN target ELSE queue[i].image]
<1>3. f \in [1..(n + 1) -> 0..(images - 1)]
  <2> SUFFICES ASSUME NEW i \in 1..(n + 1) PROVE f[i] \in 0..(images - 1) OBVIOUS
  <2>1. CASE i = n + 1 BY <2>1, <1>2 DEF ImagesApart, TypeOK, Slot
  <2>2. CASE i # n + 1
    <3>1. i \in DOMAIN queue BY <2>2, <1>1
    <3>2. queue[i].image \in Slot /\ queue[i].image < images
      BY <3>1, <1>1 DEF Presents, ImagesApart
    <3> QED BY <3>1, <3>2, <2>2, <1>2 DEF Slot
  <2> QED BY <2>1, <2>2
<1>4. \A i, j \in 1..(n + 1) : f[i] = f[j] => i = j
  <2>1. \A i \in 1..n : queue[i].image # target BY <1>1 DEF ImagesApart
  <2>2. \A i, j \in 1..n : queue[i].image = queue[j].image => i = j BY <1>1 DEF ImagesApart
  <2>3. \A i \in 1..(n + 1) : i \in 1..n \/ i = n + 1 BY <1>1
  <2> QED BY <2>1, <2>2, <2>3
<1> HIDE DEF f
<1>5. IsFiniteSet(1..(n + 1)) /\ Cardinality(1..(n + 1)) = n + 1
  BY <1>1, FS_Interval
<1>6. IsFiniteSet(0..(images - 1)) /\ Cardinality(0..(images - 1)) = images
  BY <1>2, FS_Interval
<1>7. ASSUME images < n + 1 PROVE FALSE
  <2>1. Cardinality(0..(images - 1)) < Cardinality(1..(n + 1)) BY <1>5, <1>6, <1>7
  <2>2. \E i, j \in 1..(n + 1) : i # j /\ f[i] = f[j]
    BY <2>1, <1>3, <1>5, <1>6, FS_PigeonHole
  <2> QED BY <2>2, <1>4
<1> QED BY <1>1, <1>2, <1>7

\* While no present has failed, no two presents of the queue are of one frame,
\* and none is of the frame being recorded.
LEMMA FramesApart ==
  ASSUME TypeOK, FencesTell, ImagesApart, PresentsInOrder, "present" \notin failed
  PROVE  /\ \A i, j \in DOMAIN queue : queue[i].frame = queue[j].frame => i = j
         /\ pc = "recording" => \A i \in DOMAIN queue : queue[i].frame # current
<1>1. /\ Len(queue) \in Nat /\ DOMAIN queue = 1..Len(queue) BY DEF TypeOK
<1>2. images \in Nat /\ images > 1 BY ImagesPositive DEF TypeOK
<1>3. current \in Nat /\ current < images BY DEF FencesTell, TypeOK, Slot
<1>4. \A i \in DOMAIN queue : queue[i].frame = Back(Len(queue) + 1 - i, current, images)
  BY DEF PresentsInOrder
<1>5. Len(queue) <= images BY DEF PresentsInOrder
<1>6. \A i, j \in DOMAIN queue : queue[i].frame = queue[j].frame => i = j
  <2> SUFFICES ASSUME NEW i \in DOMAIN queue, NEW j \in DOMAIN queue,
                      queue[i].frame = queue[j].frame
               PROVE  i = j
    OBVIOUS
  <2> PICK k, l : k = Len(queue) + 1 - i /\ l = Len(queue) + 1 - j
    OBVIOUS
  <2>1. i \in Nat /\ j \in Nat /\ k \in 1..images /\ l \in 1..images
    BY <1>1, <1>2, <1>5
  <2>2. Back(k, current, images) = Back(l, current, images)
    BY <1>4
  <2>3. k = l
    <3>1. k \in Int /\ l \in Int /\ 1 <= k /\ k <= images /\ 1 <= l /\ l <= images
      BY <1>2, <2>1
    <3>2. \/ k <= current /\ Back(k, current, images) = current - k
          \/ k > current /\ Back(k, current, images) = current - k + images
      BY <1>2, <1>3, <3>1 DEF Back
    <3>3. \/ l <= current /\ Back(l, current, images) = current - l
          \/ l > current /\ Back(l, current, images) = current - l + images
      BY <1>2, <1>3, <3>1 DEF Back
    <3> QED BY <1>2, <1>3, <2>2, <3>1, <3>2, <3>3
  <2> QED BY <1>1, <2>1, <2>3
<1>7. pc = "recording" => Len(queue) < images BY RoomForOne
<1>8. pc = "recording" => \A i \in DOMAIN queue : queue[i].frame # current
  BY <1>1, <1>2, <1>3, <1>4, <1>7 DEF Back
<1> QED BY <1>6, <1>8

LEMMA SemaphoresInit == Init => Semaphores
<1> SUFFICES ASSUME Init PROVE Semaphores OBVIOUS
<1>1. \A f \in Slot : sync[f].acquired # "signalled" /\ sync[f].rendered # "signalled"
  BY DEF Init, Fresh, FreshSync, NoSync
<1>2. gpu = <<>> /\ queue = <<>> /\ shown = None /\ current = 0 /\ pc = "idle" BY DEF Init
<1>3. images \in Nat BY DEF Init, Created
<1> QED BY <1>1, <1>2, <1>3 DEF Semaphores, AcquiredFree, ImagesApart, PresentsInOrder,
                                RenderedQueued, InStep

\* After a rebuilding nothing is signalled but fences, and nothing is queued.
LEMMA SemaphoresReset ==
  ASSUME TypeOK, NEW v \in BOOLEAN, ResetSwapchain(v), pc' = "idle"
  PROVE  Semaphores'
<1>1. \A f \in Slot : sync'[f].acquired # "signalled" /\ sync'[f].rendered # "signalled"
  <2>1. \A n : \A f \in Slot : /\ Fresh(n)[f].acquired # "signalled"
                               /\ Fresh(n)[f].rendered # "signalled"
                               /\ AllDestroyed[f].acquired # "signalled"
                               /\ AllDestroyed[f].rendered # "signalled"
    BY DEF Fresh, FreshSync, NoSync, AllDestroyed
  <2> QED BY <2>1 DEF ResetSwapchain, Rebuilt, NoFramebuffer, SyncCutShort, KeptRetired
<1>2. gpu' = <<>> /\ queue' = <<>> /\ shown' = None /\ current' = 0
  BY DEF ResetSwapchain, NoImages, CurrentReset
<1>3. images' \in Nat BY TypeReset, ImagesPositive
<1> QED BY <1>1, <1>2, <1>3 DEF Semaphores, AcquiredFree, ImagesApart, PresentsInOrder,
                                RenderedQueued, InStep

\* A step that touches neither frames nor images.
LEMMA SemaphoresQuiet ==
  ASSUME Semaphores, failed \subseteq failed', pc' = "recording" <=> pc = "recording",
         UNCHANGED <<images, current, target, deallocated, sync, gpu, queue, shown, held>>
  PROVE  Semaphores'
<1>1. "present" \notin failed' => "present" \notin failed OBVIOUS
<1>2. failed' = {} => failed = {} OBVIOUS
<1>3. AcquiredFree' BY DEF Semaphores, AcquiredFree
<1>4. ImagesApart' BY DEF Semaphores, ImagesApart
<1>5. PresentsInOrder' BY <1>1 DEF Semaphores, PresentsInOrder
<1>6. RenderedQueued' BY <1>1 DEF Semaphores, RenderedQueued
<1>7. InStep' BY <1>2 DEF Semaphores, InStep
<1> QED BY <1>3, <1>4, <1>5, <1>6, <1>7 DEF Semaphores

\* An image that is acquired is none of the queue's; in turn, it is the
\* frame's own.
LEMMA SemaphoresImage ==
  ASSUME TypeOK, FencesTell, Semaphores, ImageReady
  PROVE  Semaphores'
<1> USE DEF Semaphores
<1>0. images \in Nat /\ images > 1 BY ImagesPositive DEF TypeOK
<1>1. PICK image \in Available :
        /\ \/ image = InTurn /\ AllSucceed
           \/ image # InTurn /\ MayFail("turn")
        /\ target' = image /\ held' = held \cup {image}
  BY DEF ImageReady
<1>2. /\ pc' = "recording"
      /\ UNCHANGED <<images, current, deallocated, gpu, queue, shown>>
  BY DEF ImageReady, window, chain
<1>3. failed \subseteq failed' BY <1>1 DEF AllSucceed, MayFail
<1>4. /\ image < images /\ \A i \in DOMAIN queue : queue[i].image # image
  BY <1>0, <1>1 DEF Available, Queued
<1>5. \A f \in Slot : /\ f # current => sync'[f] = sync[f]
                      /\ sync'[f].rendered = sync[f].rendered
  BY DEF ImageReady, TypeOK, Sync
<1>6. AcquiredFree' BY <1>2, <1>5 DEF AcquiredFree, ImageReady
<1>7. ImagesApart' BY <1>1, <1>2, <1>4 DEF ImagesApart
<1>8. PresentsInOrder' BY <1>2, <1>3 DEF PresentsInOrder
<1>9. RenderedQueued' BY <1>2, <1>3, <1>5 DEF RenderedQueued
<1>10. InStep'
  <2> SUFFICES ASSUME failed' = {}, ~deallocated PROVE target' = current
    BY <1>2, <1>3 DEF InStep
  <2>1. failed = {} /\ image = InTurn /\ "present" \notin failed
    BY <1>1, <1>3 DEF MayFail
  <2>2. current \in Nat /\ current < images BY DEF FencesTell, TypeOK, Slot
  <2>3. CASE queue = <<>>
    <3>1. CASE shown = None BY <3>1, <2>1, <2>3, <1>1 DEF InStep, InTurn
    <3>2. CASE shown # None
      <4>1. shown \in 0..(images - 1) /\ current = After(shown, images)
        BY <3>2, <2>1, <2>3, <1>0 DEF InStep, TypeOK, Slot
      <4>2. (shown + 1) % images = After(shown, images)
        BY <4>1, <1>0, NextInRing DEF After
      <4>3. InTurn = (1 + shown) % images BY <3>2, <2>3 DEF InTurn
      <4>4. 1 + shown = shown + 1 BY <4>1
      <4> QED BY <4>1, <4>2, <4>3, <4>4, <2>1, <1>1
    <3> QED BY <3>1, <3>2
  <2>4. CASE queue # <<>>
    <3> DEFINE n == Len(queue)
    <3>1. n \in Nat \ {0} /\ n \in DOMAIN queue BY <2>4 DEF TypeOK
    <3>2. queue[n].image = queue[n].frame BY <3>1, <2>1 DEF InStep
    <3>3. queue[n].frame = Back(n + 1 - n, current, images) BY <3>1, <2>1 DEF PresentsInOrder
    <3>4. n + 1 - n = 1 BY <3>1
    <3>5. queue[n].image = Back(1, current, images) BY <3>2, <3>3, <3>4
    <3>6. PICK x : x = queue[n].image OBVIOUS
    <3>7. x \in 0..(images - 1) /\ current = After(x, images)
      BY <3>5, <3>6, <2>2, <1>0 DEF Back, After
    <3>8. (x + 1) % images = After(x, images) BY <3>7, <1>0, NextInRing DEF After
    <3>9. InTurn = (1 + x) % images BY <3>6, <2>4 DEF InTurn
    <3>10. 1 + x = x + 1 BY <3>7
    <3> QED BY <3>7, <3>8, <3>9, <3>10, <2>1, <1>1
  <2> QED BY <2>3, <2>4
<1> QED BY <1>6, <1>7, <1>8, <1>9, <1>10

\* A submission that failed leaves everything but the fence.
LEMMA SemaphoresSubmitFails ==
  ASSUME TypeOK, Semaphores, SubmitFails
  PROVE  Semaphores'
<1> USE DEF Semaphores
<1>1. /\ pc = "recording" /\ pc' = "idle"
      /\ UNCHANGED <<images, current, deallocated, gpu, queue, shown, held>>
      /\ failed' = failed \cup {"submit"}
  BY DEF SubmitFails, window, chain, engine, MayFail
<1>2. /\ \A f \in Slot \ {current} : sync'[f] = sync[f]
      /\ \A f \in Slot : sync'[f].rendered = sync[f].rendered
      /\ sync'[current].fence = "reset"
  BY DEF SubmitFails, TypeOK, Sync
<1>3. AcquiredFree' BY <1>1, <1>2 DEF AcquiredFree
<1>4. ImagesApart' BY <1>1 DEF ImagesApart
<1>5. PresentsInOrder' BY <1>1 DEF PresentsInOrder
<1>6. RenderedQueued' BY <1>1, <1>2 DEF RenderedQueued
<1>7. InStep' BY <1>1 DEF InStep
<1> QED BY <1>3, <1>4, <1>5, <1>6, <1>7

\* A frame that is presented joins the queue as the last one.
LEMMA SemaphoresEndFrame ==
  ASSUME TypeOK, FencesTell, Semaphores, EndFrame
  PROVE  Semaphores'
<1> USE DEF Semaphores
<1> DEFINE n == Len(queue)
<1>0. images \in Nat /\ images > 1 BY ImagesPositive DEF TypeOK
<1>1. /\ pc = "recording" /\ pc' = "idle"
      /\ UNCHANGED <<images, deallocated, shown, failed>>
      /\ held' = held \ {target} /\ current' = After(current, images)
  BY DEF EndFrame, window, chain, Unlocked, Advanced, After, FencesTell
<1>2. /\ \A f \in Slot \ {current} : sync'[f] = sync[f]
      /\ \A f \in Slot : sync'[f].rendered = sync[f].rendered
      /\ sync'[current].fence = "reset"
  BY DEF EndFrame, Submit, TypeOK, Sync
<1>3. PICK p : p = [image |-> target, frame |-> current] OBVIOUS
<1>4. p \in Presents /\ p.image = target /\ p.frame = current BY <1>3 DEF Presents, TypeOK
<1>5. queue \in Seq(Presents) /\ queue' = Append(queue, p) BY <1>3 DEF EndFrame, TypeOK
<1>6. /\ n \in Nat /\ DOMAIN queue = 1..n /\ DOMAIN queue' = 1..(n + 1) /\ Len(queue') = n + 1
      /\ queue'[n + 1] = p /\ \A i \in 1..n : queue'[i] = queue[i]
  BY <1>4, <1>5, Appended
<1>7. \A i \in 1..(n + 1) : i \in 1..n \/ i = n + 1 BY <1>6
<1>8. n < images BY <1>1, RoomForOne
<1>9. current \in Nat /\ current < images BY DEF FencesTell, TypeOK, Slot
<1>10. AcquiredFree' BY <1>1, <1>2 DEF AcquiredFree
<1>11. ImagesApart'
  <2>1. \A i \in 1..n : queue[i].image # target BY <1>1, <1>6 DEF ImagesApart
  <2>2. \A i, j \in 1..(n + 1) : queue'[i].image = queue'[j].image => i = j
    BY <2>1, <1>4, <1>6, <1>7 DEF ImagesApart
  <2>3. \A i \in 1..(n + 1) : queue'[i].image < images /\ queue'[i].image \notin held'
    BY <2>1, <1>1, <1>4, <1>6, <1>7 DEF ImagesApart
  <2> QED BY <2>2, <2>3, <1>1, <1>6 DEF ImagesApart
<1>12. PresentsInOrder'
  <2> SUFFICES ASSUME "present" \notin failed
               PROVE  \A i \in 1..(n + 1) :
                        queue'[i].frame = Back((n + 1) + 1 - i, current', images)
    BY <1>0, <1>1, <1>6, <1>8 DEF PresentsInOrder
  <2> TAKE i \in 1..(n + 1)
  <2>1. CASE i = n + 1
    <3>1. (n + 1) + 1 - i = 1 BY <2>1, <1>6
    <3>2. Back(1, After(current, images), images) = current BY <1>0, <1>9 DEF Back, After
    <3> QED BY <3>1, <3>2, <2>1, <1>1, <1>4, <1>6
  <2>2. CASE i \in 1..n
    <3>1. queue'[i].frame = Back(n + 1 - i, current, images)
      BY <2>2, <1>6 DEF PresentsInOrder
    <3>2. Back((n + 1) + 1 - i, After(current, images), images) = Back(n + 1 - i, current, images)
      BY <2>2, <1>0, <1>6, <1>8, <1>9 DEF Back, After
    <3> QED BY <3>1, <3>2, <1>1
  <2> QED BY <2>1, <2>2, <1>7
<1>13. RenderedQueued'
  <2> SUFFICES ASSUME "present" \notin failed
               PROVE  /\ \A f \in Slot : sync'[f].rendered = "signalled" =>
                           /\ \E i \in DOMAIN queue' : queue'[i].frame = f
                           /\ \A i \in DOMAIN gpu' : gpu'[i] # f
                      /\ \A i \in DOMAIN gpu' : \E j \in DOMAIN queue' : queue'[j].frame = gpu'[i]
    BY <1>1 DEF RenderedQueued
  <2>1. gpu \in Seq(Slot) /\ current \in Slot /\ gpu' = Append(gpu, current)
    BY DEF EndFrame, Submit, TypeOK
  <2>2. \A i \in DOMAIN gpu' : gpu'[i] = current \/ \E k \in DOMAIN gpu : gpu'[i] = gpu[k]
    <3>1. /\ Len(gpu) \in Nat /\ DOMAIN gpu = 1..Len(gpu) /\ DOMAIN gpu' = 1..(Len(gpu) + 1)
          /\ gpu'[Len(gpu) + 1] = current /\ \A i \in DOMAIN gpu : gpu'[i] = gpu[i]
      BY <2>1, Appended
    <3>2. \A i \in 1..(Len(gpu) + 1) : i \in 1..Len(gpu) \/ i = Len(gpu) + 1 BY <3>1
    <3> QED BY <3>1, <3>2
  <2>3. \A f : (\E i \in DOMAIN queue : queue[i].frame = f) => \E i \in DOMAIN queue' : queue'[i].frame = f
    BY <1>6, <1>7
  <2>4. \E i \in DOMAIN queue' : queue'[i].frame = current
    <3>1. n + 1 \in DOMAIN queue' BY <1>6
    <3> QED BY <3>1, <1>4, <1>6
  <2>5. sync[current].rendered # "signalled"
    BY <1>1, <2>1, FramesApart DEF RenderedQueued
  <2> QED BY <1>2, <2>2, <2>3, <2>4, <2>5 DEF RenderedQueued
<1>14. InStep'
  <2> SUFFICES ASSUME failed = {}, ~deallocated
               PROVE  \A i \in 1..(n + 1) : queue'[i].image = queue'[i].frame
    BY <1>1, <1>6 DEF InStep
  <2>1. target = current BY <1>1 DEF InStep
  <2> QED BY <2>1, <1>4, <1>6, <1>7 DEF InStep
<1> QED BY <1>10, <1>11, <1>12, <1>13, <1>14

\* A present that fails leaves the frame on the GPU and its image held.
LEMMA SemaphoresPresentFails ==
  ASSUME TypeOK, Semaphores, PresentFails
  PROVE  Semaphores'
<1> USE DEF Semaphores
<1>1. /\ pc = "recording" /\ pc' = "idle" /\ "present" \in failed'
      /\ UNCHANGED <<images, current, queue, held>>
  BY DEF PresentFails, window, chain, engine, MayFail
<1>2. /\ \A f \in Slot \ {current} : sync'[f] = sync[f]
      /\ sync'[current].fence = "reset"
  BY DEF PresentFails, Submit, TypeOK, Sync
<1>3. AcquiredFree' BY <1>1, <1>2 DEF AcquiredFree
<1>4. ImagesApart' BY <1>1 DEF ImagesApart
<1> QED BY <1>1, <1>3, <1>4 DEF PresentsInOrder, RenderedQueued, InStep

\* A frame that is rendered is in the queue, and no longer on the GPU.
LEMMA SemaphoresFinish ==
  ASSUME TypeOK, FencesTell, Semaphores, GpuFinishes
  PROVE  Semaphores'
<1> USE DEF Semaphores
<1>1. UNCHANGED <<pc, images, current, target, deallocated, queue, shown, held, failed>>
  BY DEF GpuFinishes, window, chain, engine
<1>2. gpu \in Seq(Slot) /\ gpu # <<>> /\ gpu' = Tail(gpu) BY DEF GpuFinishes, TypeOK
<1>3. /\ Len(gpu) \in Nat \ {0} /\ DOMAIN gpu = 1..Len(gpu) /\ Head(gpu) = gpu[1] /\ gpu[1] \in Slot
      /\ \A i \in DOMAIN gpu' : gpu'[i] = gpu[i + 1] /\ i + 1 \in DOMAIN gpu /\ i + 1 # 1
      /\ 1 \in DOMAIN gpu
  <2>1. DOMAIN gpu' = 1..(Len(gpu) - 1) BY <1>2, Tailed
  <2> QED BY <1>2, <2>1, Tailed
<1>4. /\ \A f \in Slot \ {gpu[1]} : sync'[f] = sync[f]
      /\ sync'[gpu[1]].acquired = "free"
  BY <1>3 DEF GpuFinishes, TypeOK
<1>5. \A i \in DOMAIN gpu' : gpu'[i] # gpu[1] BY <1>3 DEF FencesTell
<1>6. AcquiredFree' BY <1>1, <1>4 DEF AcquiredFree
<1>7. ImagesApart' BY <1>1 DEF ImagesApart
<1>8. PresentsInOrder' BY <1>1 DEF PresentsInOrder
<1>9. RenderedQueued' BY <1>1, <1>3, <1>4, <1>5 DEF RenderedQueued
<1>10. InStep' BY <1>1 DEF InStep
<1> QED BY <1>6, <1>7, <1>8, <1>9, <1>10

\* An image that is shown leaves the queue, and its frame's semaphore is free.
LEMMA SemaphoresShow ==
  ASSUME TypeOK, FencesTell, Semaphores, ImageShown
  PROVE  Semaphores'
<1> USE DEF Semaphores
<1> DEFINE n == Len(queue)
<1>0. images \in Nat /\ images > 1 BY ImagesPositive DEF TypeOK
<1>1. UNCHANGED <<pc, images, current, target, deallocated, gpu, held, failed>>
  BY DEF ImageShown, window, chain
<1>2. queue \in Seq(Presents) /\ queue # <<>> /\ queue' = Tail(queue) BY DEF ImageShown, TypeOK
<1>3. /\ n \in Nat \ {0} /\ DOMAIN queue = 1..n /\ Head(queue) = queue[1] /\ queue[1] \in Presents
      /\ Len(queue') = n - 1 /\ DOMAIN queue' = 1..(n - 1)
      /\ \A i \in 1..(n - 1) : queue'[i] = queue[i + 1]
      /\ \A i \in 1..n : i # 1 => i - 1 \in 1..(n - 1) /\ queue'[i - 1] = queue[i]
  BY <1>2, Tailed
<1>4. \A i \in 1..(n - 1) : i + 1 \in 1..n /\ i + 1 # 1 BY <1>3
<1>5. PICK h : h = queue[1].frame OBVIOUS
<1>6. h \in Slot /\ queue[1].image \in Slot BY <1>3, <1>5 DEF Presents
<1>7. /\ \A f \in Slot \ {h} : sync'[f] = sync[f]
      /\ \A f \in Slot : /\ sync'[f].fence = sync[f].fence
                         /\ sync'[f].acquired = sync[f].acquired
      /\ sync'[h].rendered = "free" /\ sync[h].rendered = "signalled"
      /\ shown' = queue[1].image
  BY <1>3, <1>5, <1>6 DEF ImageShown, TypeOK, Sync
<1>8. current \in Nat /\ current < images BY DEF FencesTell, TypeOK, Slot
<1>9. AcquiredFree' BY <1>1, <1>7 DEF AcquiredFree
<1>10. ImagesApart'
  <2>1. ASSUME NEW i \in 1..(n - 1), NEW j \in 1..(n - 1), queue'[i].image = queue'[j].image
        PROVE  i = j
    <3>1. i + 1 \in DOMAIN queue /\ j + 1 \in DOMAIN queue BY <1>3, <1>4
    <3>2. queue[i + 1].image = queue[j + 1].image BY <2>1, <1>3
    <3>3. i + 1 = j + 1 BY <3>1, <3>2 DEF ImagesApart
    <3> QED BY <3>3
  <2>2. \A i \in 1..(n - 1) : queue'[i].image < images /\ queue'[i].image \notin held
    BY <1>3, <1>4 DEF ImagesApart
  <2> QED BY <2>1, <2>2, <1>1, <1>3 DEF ImagesApart
<1>11. PresentsInOrder'
  <2> SUFFICES ASSUME "present" \notin failed
               PROVE  /\ n - 1 <= images
                      /\ \A i \in 1..(n - 1) :
                           queue'[i].frame = Back((n - 1) + 1 - i, current, images)
    BY <1>1, <1>3 DEF PresentsInOrder
  <2>1. n <= images BY DEF PresentsInOrder
  <2>2. ASSUME NEW i \in 1..(n - 1)
        PROVE  queue'[i].frame = Back((n - 1) + 1 - i, current, images)
    <3>1. queue'[i].frame = Back(n + 1 - (i + 1), current, images)
      BY <1>3, <1>4 DEF PresentsInOrder
    <3>2. \A m \in Nat : m + 1 - (i + 1) = (m - 1) + 1 - i OBVIOUS
    <3>3. n + 1 - (i + 1) = (n - 1) + 1 - i BY <3>2, <1>3
    <3> QED BY <3>1, <3>3
  <2> QED BY <2>1, <2>2, <1>0, <1>3
<1>12. RenderedQueued'
  <2> SUFFICES ASSUME "present" \notin failed
               PROVE  /\ \A f \in Slot : sync'[f].rendered = "signalled" =>
                           /\ \E i \in DOMAIN queue' : queue'[i].frame = f
                           /\ \A i \in DOMAIN gpu : gpu[i] # f
                      /\ \A i \in DOMAIN gpu : \E j \in DOMAIN queue' : queue'[j].frame = gpu[i]
    BY <1>1 DEF RenderedQueued
  <2>1. \A f : f # h /\ (\E i \in DOMAIN queue : queue[i].frame = f)
                 => \E i \in DOMAIN queue' : queue'[i].frame = f
    BY <1>3, <1>5
  <2>2. \A i \in DOMAIN gpu : gpu[i] # h BY <1>6, <1>7 DEF RenderedQueued
  <2> QED BY <1>7, <2>1, <2>2 DEF RenderedQueued
<1>13. InStep'
  <2> SUFFICES ASSUME failed = {}, ~deallocated
               PROVE  /\ \A i \in 1..(n - 1) : queue'[i].image = queue'[i].frame
                      /\ queue' = <<>> => /\ shown' # None /\ shown' < images
                                          /\ current = After(shown', images)
                      /\ pc = "recording" => target = current
    BY <1>1, <1>3 DEF InStep
  <2>1. \A i \in 1..(n - 1) : queue'[i].image = queue'[i].frame BY <1>3, <1>4 DEF InStep
  <2>2. ASSUME queue' = <<>>
        PROVE  shown' # None /\ shown' < images /\ current = After(shown', images)
    <3>0. Len(queue') = 0 BY <2>2
    <3>a. n \in Nat /\ Len(queue') = n - 1 BY <1>3
    <3>1. n = 1 BY <3>0, <3>a
    <3>2. queue[1].frame = Back(1 + 1 - 1, current, images) BY <3>1, <1>3 DEF PresentsInOrder
    <3>3. queue[1].image = queue[1].frame BY <3>1, <1>3 DEF InStep
    <3>4. 1 + 1 - 1 = 1 OBVIOUS
    <3>5. PICK x : x = shown' OBVIOUS
    <3>6. x = Back(1, current, images) BY <3>2, <3>3, <3>4, <3>5, <1>7
    <3>7. x # None /\ x < images /\ current = After(x, images)
      BY <3>6, <1>0, <1>8 DEF Back, After, None
    <3> QED BY <3>5, <3>7
  <2> QED BY <2>1, <2>2 DEF InStep
<1> QED BY <1>9, <1>10, <1>11, <1>12, <1>13

LEMMA SemaphoresStep == TypeOK /\ FencesTell /\ Semaphores /\ [Next]_vars => Semaphores'
<1> SUFFICES ASSUME TypeOK, FencesTell, Semaphores, [Next]_vars PROVE Semaphores' OBVIOUS
<1> USE DEF window, chain, engine
<1>1. CASE SkipFrame BY <1>1, SemaphoresQuiet DEF SkipFrame, vars
<1>2. CASE StartFrame BY <1>2, SemaphoresQuiet DEF StartFrame
<1>3. CASE FencePassed BY <1>3, SemaphoresQuiet DEF FencePassed, FenceLeft
<1>4. CASE ImageReady BY <1>4, SemaphoresImage
<1>5. CASE AcquireOutOfDate BY <1>5, SemaphoresReset DEF AcquireOutOfDate, TypeOK
<1>6. CASE AcquireFails BY <1>6, SemaphoresQuiet DEF AcquireFails, MayFail
<1>7. CASE EndFrame BY <1>7, SemaphoresEndFrame
<1>8. CASE EndFrameRebuilds
  <2>1. ResetSwapchain(TRUE) /\ pc' = "idle" BY <1>8 DEF EndFrameRebuilds
  <2> QED BY <2>1, SemaphoresReset
<1>9. CASE SubmitFails BY <1>9, SemaphoresSubmitFails
<1>10. CASE PresentFails BY <1>10, SemaphoresPresentFails
<1>11. CASE Minimize BY <1>11, SemaphoresQuiet DEF Minimize
<1>12. CASE Resize
  <2>1. CASE Hang BY <1>12, <2>1, SemaphoresQuiet DEF Resize, Hang
  <2>2. CASE ResetSwapchain(vsync) /\ UNCHANGED <<pc, lock>>
    BY <1>12, <2>2, SemaphoresReset DEF Resize, TypeOK
  <2> QED BY <1>12, <2>1, <2>2 DEF Resize
<1>13. CASE Destroy
  <2>1. CASE Hang /\ UNCHANGED deallocated BY <1>13, <2>1, SemaphoresQuiet DEF Destroy, Hang
  <2>2. CASE TakenDown
    <3>1. \A f \in Slot : sync'[f].acquired # "signalled" /\ sync'[f].rendered # "signalled"
      BY <2>2 DEF TakenDown, AllDestroyed, NoSync
    <3>2. /\ gpu' = <<>> /\ queue' = <<>> /\ deallocated' /\ pc' = "idle" /\ images' \in Nat
      BY <1>13, <2>2, ImagesPositive DEF Destroy, TakenDown, NoImages, TypeOK
    <3> QED BY <3>1, <3>2 DEF Semaphores, AcquiredFree, ImagesApart, PresentsInOrder,
                              RenderedQueued, InStep
  <2> QED BY <1>13, <2>1, <2>2 DEF Destroy
<1>14. CASE GpuFinishes BY <1>14, SemaphoresFinish
<1>15. CASE ImageShown BY <1>15, SemaphoresShow
<1>16. CASE UNCHANGED vars BY <1>16, SemaphoresQuiet DEF vars
<1> QED BY <1>1, <1>2, <1>3, <1>4, <1>5, <1>6, <1>7, <1>8, <1>9, <1>10, <1>11, <1>12, <1>13,
           <1>14, <1>15, <1>16 DEF Next, InStartFrame, InEndFrame

LEMMA SemaphoresInvariant == Spec => [](TypeOK /\ FencesTell /\ Semaphores)
BY TypeInit, TypeStep, FencesInit, FencesStep, SemaphoresInit, SemaphoresStep, PTL DEF Spec

\* StartFrame never acquires with a semaphore that is still signalled and, as
\* long as no present has failed, EndFrame never signals one that is signalled
\* or that a present still waits on, whatever else fails and in whatever order
\* the driver hands images out: with as many frames as images, and no image
\* acquired before it is shown, the present of the frame before in the slot has
\* been shown.
THEOREM SemaphoresAreFree == Spec => []SemaphoresFree
<1>1. TypeOK /\ FencesTell /\ Semaphores => SemaphoresFree
  <2> SUFFICES ASSUME TypeOK, FencesTell, Semaphores PROVE SemaphoresFree OBVIOUS
  <2>1. pc = "image" => sync[current].acquired # "signalled"
    BY DEF Semaphores, AcquiredFree, FencesTell, TypeOK
  <2>2. ASSUME pc = "recording", "present" \notin failed
        PROVE  /\ sync[current].rendered # "signalled"
               /\ \A i \in DOMAIN queue : queue[i].frame # current
    <3>1. \A i \in DOMAIN queue : queue[i].frame # current
      BY <2>2, FramesApart DEF Semaphores
    <3> QED BY <2>2, <3>1 DEF Semaphores, RenderedQueued, TypeOK
  <2> QED BY <2>1, <2>2 DEF SemaphoresFree
<1> QED BY <1>1, SemaphoresInvariant, PTL

\* While nothing fails and images come in turn, the image presented is the one
\* the frame was drawn into, through any number of rebuildings.
THEOREM PresentsWhatItDrew == Spec => []DrawsWhatItPresents
<1>1. TypeOK /\ FencesTell /\ Semaphores => DrawsWhatItPresents
  BY DEF Semaphores, InStep, FencesTell, DrawsWhatItPresents
<1> QED BY <1>1, SemaphoresInvariant, PTL
===========================================================================
