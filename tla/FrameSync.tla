------------------------------ MODULE FrameSync ------------------------------
(***************************************************************************)
(* The frame loop of the render thread over the Vulkan driver, with the    *)
(* timeline semaphore that paces it (OCARINA_VULKAN_FRAME_SYNC_TIMELINE):  *)
(*   VulkanDriver::begin_frame, get_command_buffer, execute_command_buffers,*)
(*   release_command_buffer, end_frame, recreate_swapchain                 *)
(*     (src/src/backends/vulkan/vulkan_driver.cpp)                         *)
(*   RenderTask::execute_default_render_path                               *)
(*     (src/src/framework/render_task.cpp)                                 *)
(*                                                                         *)
(* The GPU is external: it takes work from the graphics queue in submission *)
(* order. A submission's signals cover everything submitted before it, so  *)
(* completing in order keeps a command buffer pending as long as the       *)
(* program may assume. Only the default render path is modelled, and only  *)
(* graphics command buffers; those of the copy queue live in pools of their *)
(* own and are waited for with a fence before they are released.           *)
(***************************************************************************)
EXTENDS Integers, Sequences, FiniteSets

CONSTANTS FramesInFlight,   \* frames_in_flight_
          PassGroups,       \* the non-empty pass groups, in PassGroupId order
          SwapchainGroup,   \* the group that holds the swapchain render pass
          AcquireResults,   \* what vkAcquireNextImageKHR may return
          MaxFrames         \* bound: frames acquired

ASSUME FSAssumption ==
    /\ FramesInFlight \in Nat \ {0}
    /\ PassGroups \in Seq(STRING)
    /\ AcquireResults \subseteq {"success", "out_of_date", "suboptimal"}
    /\ MaxFrames \in Nat

Slots == 0 .. FramesInFlight - 1

VARIABLES pc,               \* where the render thread is in its frame
          loading,          \* Renderer::is_async_loading()
          valid,            \* VulkanSwapchain::is_valid()
          frame_number,     \* frame_timeline_sync_.frame_number
          groups,           \* the groups this frame has still to record
          recorded,         \* recorded_cmds: [cmd, swapchain] of this frame
          submitted,        \* how many of them execute_command_buffers submitted
          pools,            \* command_buffer_pools_[slot][Graphics]
          created,          \* command buffers 1 .. created exist
          queue,            \* the graphics queue: work the GPU has not done
          timeline,         \* the value of timeline_semaphore
          image_available,  \* by slot: the binary semaphore is signaled
          render_finished   \* by slot, likewise

vars == <<pc, loading, valid, frame_number, groups, recorded, submitted, pools,
          created, queue, timeline, image_available, render_finished>>

frameVars == <<groups, recorded, submitted>>
poolVars == <<pools, created>>
gpuVars == <<queue, timeline, image_available, render_finished>>

\* The slot of frame f, and that of the current frame.
SlotOf(f) == f % FramesInFlight
frame_slot == SlotOf(frame_number)

Init ==
    /\ pc = "begin"
    /\ loading \in BOOLEAN
    /\ valid = TRUE
    /\ frame_number = 0
    /\ groups = <<>>
    /\ recorded = <<>>
    /\ submitted = 0
    /\ pools = [s \in Slots |-> <<>>]
    /\ created = 0
    /\ queue = <<>>
    /\ timeline = 0
    /\ image_available = [s \in Slots |-> FALSE]
    /\ render_finished = [s \in Slots |-> FALSE]

-----------------------------------------------------------------------------
(* begin_frame.                                                             *)

\* A swapchain that is not valid is recreated first.
BeginFrame ==
    /\ pc = "begin"
    /\ frame_number < MaxFrames
    /\ pc' = IF valid THEN "wait" ELSE "revive"
    /\ UNCHANGED <<loading, valid, frame_number, frameVars, poolVars, gpuVars>>

upcoming_frame == frame_number + 1

\* Mutant: the wait is for a frame one later slot back.
WaitTimeline_OneShort ==
    /\ pc = "wait"
    /\ upcoming_frame > FramesInFlight + 1 =>
           timeline >= upcoming_frame - FramesInFlight - 1
    /\ pc' = "acquire"
    /\ UNCHANGED <<loading, valid, frame_number, frameVars, poolVars, gpuVars>>

\* vkWaitSemaphores on the frame that used the upcoming frame's slot.
WaitTimeline ==
    /\ pc = "wait"
    /\ upcoming_frame > FramesInFlight =>
           timeline >= upcoming_frame - FramesInFlight
    /\ pc' = "acquire"
    /\ UNCHANGED <<loading, valid, frame_number, frameVars, poolVars, gpuVars>>

\* Mutant: the frame is counted before the acquire may fail.
AcquireFails_Counts(result) ==
    /\ pc = "acquire"
    /\ result # "success"
    /\ frame_number' = upcoming_frame
    /\ image_available' =
           IF result = "suboptimal"
           THEN [image_available EXCEPT ![SlotOf(upcoming_frame)] = TRUE]
           ELSE image_available
    /\ pc' = "recreate"
    /\ UNCHANGED <<loading, valid, frameVars, poolVars, queue, timeline,
                   render_finished>>

\* VK_ERROR_OUT_OF_DATE_KHR acquires nothing; VK_SUBOPTIMAL_KHR acquires an
\* image and signals the semaphore. Both recreate the swapchain and skip.
AcquireFails(result) ==
    /\ pc = "acquire"
    /\ result # "success"
    /\ image_available' =
           IF result = "suboptimal"
           THEN [image_available EXCEPT ![SlotOf(upcoming_frame)] = TRUE]
           ELSE image_available
    /\ pc' = "recreate"
    /\ UNCHANGED <<loading, valid, frame_number, frameVars, poolVars, queue,
                   timeline, render_finished>>

\* execute_default_render_path reads is_async_loading() right after begin_frame:
\* while it is true only the UI group is recorded.
RecordedGroups(is_loading) ==
    SelectSeq(PassGroups, LAMBDA g : is_loading => g = "UI")

AcquireSucceeds ==
    /\ pc = "acquire"
    /\ "success" \in AcquireResults
    /\ image_available' = [image_available EXCEPT ![SlotOf(upcoming_frame)] = TRUE]
    /\ frame_number' = upcoming_frame
    /\ groups' = RecordedGroups(loading)
    /\ recorded' = <<>>
    /\ submitted' = 0
    /\ pc' = "record"
    /\ UNCHANGED <<loading, valid, poolVars, queue, timeline, render_finished>>

Acquire ==
    \/ AcquireSucceeds
    \/ \E result \in AcquireResults : AcquireFails(result)

\* recreate_swapchain waits for the device to be idle. It may fail to make a
\* valid swapchain. In every case the frame is over, except when begin_frame
\* recreates first.
recreate_swapchain ==
    /\ pc \in {"recreate", "revive"}
    /\ queue = <<>>
    /\ valid' \in BOOLEAN
    /\ pc' = IF pc = "revive" /\ valid' THEN "wait" ELSE "begin"
    /\ UNCHANGED <<loading, frame_number, frameVars, poolVars, gpuVars>>

-----------------------------------------------------------------------------
(* Recording: one command buffer per group.                                 *)

\* The pool of the slot is a queue; a buffer is allocated when it is empty.
TakenCommandBuffer ==
    IF pools[frame_slot] = <<>> THEN created + 1 ELSE Head(pools[frame_slot])

\* Mutant: front() without pop().
get_command_buffer_Peeks ==
    IF pools[frame_slot] = <<>>
    THEN created' = created + 1 /\ UNCHANGED pools
    ELSE UNCHANGED poolVars

get_command_buffer ==
    IF pools[frame_slot] = <<>>
    THEN created' = created + 1 /\ UNCHANGED pools
    ELSE /\ pools' = [pools EXCEPT ![frame_slot] = Tail(@)]
         /\ UNCHANGED created

\* The group's task takes a buffer, begins it (vkResetCommandBuffer) and records;
\* the swapchain pass attaches the slot's two semaphores.
RecordGroup ==
    /\ pc = "record"
    /\ groups # <<>>
    /\ get_command_buffer
    /\ recorded' = Append(recorded, [cmd |-> TakenCommandBuffer,
                                     swapchain |-> Head(groups) = SwapchainGroup])
    /\ groups' = Tail(groups)
    /\ UNCHANGED <<pc, loading, valid, frame_number, submitted, gpuVars>>

RecordingDone ==
    /\ pc = "record"
    /\ groups = <<>>
    /\ pc' = IF recorded = <<>> THEN "end" ELSE "submit"
    /\ UNCHANGED <<loading, valid, frame_number, frameVars, poolVars, gpuVars>>

-----------------------------------------------------------------------------
(* execute_command_buffers: one vkQueueSubmit2 per command buffer; the last  *)
(* one signals the timeline with the frame's number.                        *)

\* Mutant: the signal is not kept for the last submission.
SignalValue_Each(i) == frame_number

\* The value submission i of the frame signals, 0 for none.
SignalValue(i) == IF i = Len(recorded) THEN frame_number ELSE 0

\* Work in the graphics queue. "frame" is the frame that submitted it.
Submission(i) ==
    [kind |-> "submit", cmd |-> recorded[i].cmd, frame |-> frame_number,
     swapchain |-> recorded[i].swapchain, value |-> SignalValue(i)]

Submit ==
    /\ pc = "submit"
    /\ submitted < Len(recorded)
    /\ queue' = Append(queue, Submission(submitted + 1))
    /\ submitted' = submitted + 1
    /\ UNCHANGED <<pc, loading, valid, frame_number, groups, recorded, poolVars,
                   timeline, image_available, render_finished>>

\* The recorded buffers go back to the pool of the frame's slot.
release_command_buffer ==
    LET cmds == [i \in 1 .. Len(recorded) |-> recorded[i].cmd]
    IN pools' = [pools EXCEPT ![frame_slot] = @ \o cmds]

ReleaseAll ==
    /\ pc = "submit"
    /\ submitted = Len(recorded)
    /\ release_command_buffer
    /\ recorded' = <<>>
    /\ submitted' = 0
    /\ pc' = "end"
    /\ UNCHANGED <<loading, valid, frame_number, groups, created, gpuVars>>

-----------------------------------------------------------------------------
(* end_frame: the present waits for the slot's render_finished.             *)

\* Mutant: the present waits for the next slot's semaphore.
end_frame_NextSlot ==
    /\ pc = "end"
    /\ queue' = Append(queue, [kind |-> "present", frame |-> upcoming_frame])
    /\ pc' \in {"begin", "recreate"}
    /\ UNCHANGED <<loading, valid, frame_number, frameVars, poolVars, timeline,
                   image_available, render_finished>>

\* VK_ERROR_OUT_OF_DATE_KHR or VK_SUBOPTIMAL_KHR recreates the swapchain.
end_frame ==
    /\ pc = "end"
    /\ queue' = Append(queue, [kind |-> "present", frame |-> frame_number])
    /\ pc' \in {"begin", "recreate"}
    /\ UNCHANGED <<loading, valid, frame_number, frameVars, poolVars, timeline,
                   image_available, render_finished>>

-----------------------------------------------------------------------------
(* External: the GPU, and the loader's end.                                 *)

GpuSubmit ==
    /\ queue # <<>>
    /\ LET w == Head(queue)
           s == SlotOf(w.frame)
       IN /\ w.kind = "submit"
          /\ w.swapchain => image_available[s]
          /\ image_available' =
                 [image_available EXCEPT ![s] = @ /\ ~w.swapchain]
          /\ render_finished' =
                 [render_finished EXCEPT ![s] = @ \/ w.swapchain]
          /\ timeline' = IF w.value = 0 THEN timeline ELSE w.value
    /\ queue' = Tail(queue)
    /\ UNCHANGED <<pc, loading, valid, frame_number, frameVars, poolVars>>

GpuPresent ==
    /\ queue # <<>>
    /\ LET w == Head(queue)
           s == SlotOf(w.frame)
       IN /\ w.kind = "present"
          /\ render_finished[s]
          /\ render_finished' = [render_finished EXCEPT ![s] = FALSE]
    /\ queue' = Tail(queue)
    /\ UNCHANGED <<pc, loading, valid, frame_number, frameVars, poolVars,
                   timeline, image_available>>

LoaderCompletes ==
    /\ loading
    /\ loading' = FALSE
    /\ UNCHANGED <<pc, valid, frame_number, frameVars, poolVars, gpuVars>>

-----------------------------------------------------------------------------
RenderStep ==
    \/ BeginFrame
    \/ WaitTimeline
    \/ Acquire
    \/ recreate_swapchain
    \/ RecordGroup
    \/ RecordingDone
    \/ Submit
    \/ ReleaseAll
    \/ end_frame

GpuStep == GpuSubmit \/ GpuPresent

Next == RenderStep \/ GpuStep \/ LoaderCompletes

Spec == Init /\ [][Next]_vars

\* The render thread loops until the shutdown and the GPU does the work it can.
Fairness == WF_vars(RenderStep) /\ WF_vars(GpuStep)

FairSpec == Spec /\ Fairness

-----------------------------------------------------------------------------
(* Correctness.                                                             *)

\* The command buffers the GPU may still be reading.
PendingCmds ==
    {queue[i].cmd : i \in {j \in DOMAIN queue : queue[j].kind = "submit"}}

\* vkResetCommandBuffer on a pending buffer is undefined: what get_command_buffer
\* hands out at any moment of the recording is no longer in the queue. It
\* rests on the wait of begin_frame, the slots, and the signal of the last
\* submission together.
ReusedWhenDone == pc = "record" => TakenCommandBuffer \notin PendingCmds

\* A command buffer is in one place: at most once in all pools and the frame.
HeldOnce ==
    /\ \A s, t \in Slots : \A i \in DOMAIN pools[s], j \in DOMAIN pools[t] :
          pools[s][i] = pools[t][j] => s = t /\ i = j
    /\ \A i, j \in DOMAIN recorded : recorded[i].cmd = recorded[j].cmd => i = j
    /\ \A s \in Slots : \A i \in DOMAIN pools[s], j \in DOMAIN recorded :
          pools[s][i] # recorded[j].cmd

\* A timeline semaphore only ever takes greater values; a signal that is not
\* greater than the value or than an earlier pending signal is undefined.
SignalsIncrease ==
    LET Signals == {i \in DOMAIN queue : queue[i].kind = "submit" /\ queue[i].value # 0}
    IN \A i \in Signals :
          /\ queue[i].value > timeline
          /\ \A j \in Signals : i < j => queue[i].value < queue[j].value

\* While the swapchain's group is recorded, the render loop never waits for
\* ever in begin_frame or for the device to be idle.
LoopGoesOn == pc \in {"wait", "recreate", "revive"} ~> pc \in {"acquire", "begin"}

\* vulkan_driver.cpp:516-518: "Frame number is incremented only after a
\* successful acquire so skipped frames cannot leave the timeline semaphore
\* unsignaled." Between two frames, the number of the last one has been
\* signaled or is about to be.
FrameSignaled ==
    pc = "begin" =>
        \/ timeline = frame_number
        \/ \E i \in DOMAIN queue :
              queue[i].kind = "submit" /\ queue[i].value = frame_number

\* vulkan_driver.cpp:565: "Skip this frame after recreation; next frame will
\* acquire cleanly.": the semaphore given to the acquire is not signaled and no
\* submission will signal or wait for it.
AcquireClean ==
    pc = "acquire" => ~image_available[SlotOf(upcoming_frame)]
=============================================================================
