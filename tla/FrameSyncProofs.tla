---------------------------- MODULE FrameSyncProofs ----------------------------
(***************************************************************************)
(* Proofs about the frame loop for any number of slots, frames and groups. *)
(* Ordered says what the timeline tells about the queue: a submission is   *)
(* in it only when its frame has not been signaled. Held puts every        *)
(* command buffer in one place, and Pending ties the two: a buffer that is *)
(* both pooled and pending waits in the slot of its frame.                 *)
(***************************************************************************)
EXTENDS FrameSync, TLAPS

LEMMA SeqTail ==
  ASSUME NEW S, NEW s \in Seq(S), s # <<>>
  PROVE  /\ Tail(s) \in Seq(S)
         /\ 1 \in DOMAIN s /\ Head(s) = s[1] /\ Head(s) \in S
         /\ \A i \in DOMAIN Tail(s) :
                i \in Nat \ {0} /\ i + 1 \in DOMAIN s /\ Tail(s)[i] = s[i + 1]
OBVIOUS

LEMMA SeqAppend ==
  ASSUME NEW S, NEW s \in Seq(S), NEW x \in S
  PROVE  /\ Append(s, x) \in Seq(S)
         /\ Len(s) \in Nat /\ Len(Append(s, x)) = Len(s) + 1
         /\ DOMAIN Append(s, x) = DOMAIN s \cup {Len(s) + 1}
         /\ \A i \in DOMAIN s : i \in 1 .. Len(s) /\ Append(s, x)[i] = s[i]
         /\ Append(s, x)[Len(s) + 1] = x
OBVIOUS

LEMMA SeqConcat ==
  ASSUME NEW S, NEW s \in Seq(S), NEW t \in Seq(S)
  PROVE  /\ s \o t \in Seq(S)
         /\ Len(s) \in Nat
         /\ \A i \in DOMAIN (s \o t) :
               \/ i \in DOMAIN s /\ (s \o t)[i] = s[i]
               \/ /\ i \in Nat /\ i - Len(s) \in DOMAIN t
                  /\ i \notin DOMAIN s /\ (s \o t)[i] = t[i - Len(s)]
OBVIOUS

\* Two frames less than a round of slots apart that share a slot are one.
LEMMA SameSlot ==
  ASSUME NEW f \in Nat, NEW g \in Nat, f <= g, g < f + FramesInFlight,
         SlotOf(f) = SlotOf(g)
  PROVE  f = g
<1> DEFINE N == FramesInFlight
           d == (g \div N) - (f \div N)
<1>1. N \in Nat /\ N >= 1
  BY FSAssumption
<1>2. /\ f = N * (f \div N) + (f % N) /\ f \div N \in Int
      /\ g = N * (g \div N) + (g % N) /\ g \div N \in Int
  BY <1>1
<1>3. d \in Int /\ g - f = N * d
  BY <1>1, <1>2 DEF SlotOf
<1>4. ~(d >= 1)
  <2>1. ASSUME d >= 1 PROVE N * d >= N
    BY <1>1, <1>3, <2>1
  <2> QED
    BY <1>1, <1>3, <2>1
<1>5. ~(d <= -1)
  <2>1. ASSUME d <= -1 PROVE N * d <= -N
    BY <1>1, <1>3, <2>1
  <2> QED
    BY <1>1, <1>3, <2>1
<1>6. d = 0
  BY <1>3, <1>4, <1>5
<1> QED
  BY <1>1, <1>3, <1>6

-----------------------------------------------------------------------------
(* The invariant.                                                          *)

Recorded == [cmd : Nat, swapchain : BOOLEAN]

Work == [kind : {"submit"}, cmd : Nat, frame : Nat, swapchain : BOOLEAN, value : Nat]
            \cup [kind : {"present"}, frame : Nat]

Types ==
    /\ frame_number \in Nat /\ timeline \in Nat /\ created \in Nat /\ submitted \in Nat
    /\ recorded \in Seq(Recorded) /\ submitted <= Len(recorded)
    /\ pools \in [Slots -> Seq(Nat)]
    /\ queue \in Seq(Work)

Submits == {i \in DOMAIN queue : queue[i].kind = "submit"}

\* The last submission of the frame that is being recorded is still to come.
Signaling == pc = "record" \/ (pc = "submit" /\ submitted < Len(recorded))

Ordered ==
    /\ timeline <= frame_number
    /\ pc = "record" => submitted = 0
    /\ Signaling => timeline < frame_number
    /\ pc = "acquire" /\ frame_number + 1 > FramesInFlight =>
           timeline >= frame_number + 1 - FramesInFlight
    /\ pc = "record" /\ frame_number > FramesInFlight =>
           timeline >= frame_number - FramesInFlight
    /\ \A i \in Submits :
          /\ queue[i].value \in {0, queue[i].frame}
          /\ timeline < queue[i].frame /\ queue[i].frame <= frame_number
          /\ pc = "record" => queue[i].frame < frame_number
          /\ Signaling /\ queue[i].value # 0 => queue[i].frame < frame_number
          /\ \A j \in Submits :
                i < j /\ queue[i].value # 0 => queue[i].frame < queue[j].frame

Held ==
    /\ HeldOnce
    /\ \A s \in Slots : \A i \in DOMAIN pools[s] : pools[s][i] <= created
    /\ \A i \in DOMAIN recorded : recorded[i].cmd <= created

Pending ==
    \A i \in Submits :
       /\ queue[i].cmd <= created
       /\ \A s \in Slots : \A k \in DOMAIN pools[s] :
             pools[s][k] = queue[i].cmd => SlotOf(queue[i].frame) = s
       /\ \A k \in DOMAIN recorded :
             recorded[k].cmd = queue[i].cmd => queue[i].frame = frame_number

FSInv == Types /\ Ordered /\ Held /\ Pending

-----------------------------------------------------------------------------
(* What the steps do.                                                      *)

LEMMA SlotInSlots == ASSUME NEW f \in Nat PROVE SlotOf(f) \in Slots
<1>1. FramesInFlight \in Nat /\ FramesInFlight >= 1
  BY FSAssumption
<1>2. f % FramesInFlight \in 0 .. FramesInFlight - 1
  BY <1>1
<1> QED
  BY <1>2 DEF SlotOf, Slots

\* The steps that touch neither the queue, nor the timeline, nor a buffer.
Quiet ==
    /\ UNCHANGED <<frame_number, timeline, created, submitted, recorded, pools, queue>>
    /\ \/ pc' = pc
       \/ pc = "begin" /\ pc' \in {"wait", "revive"}
       \/ pc = "wait" /\ pc' = "acquire"
              /\ (frame_number + 1 > FramesInFlight =>
                     timeline >= frame_number + 1 - FramesInFlight)
       \/ pc = "acquire" /\ pc' = "recreate"
       \/ pc \in {"recreate", "revive"} /\ pc' \in {"wait", "begin"}
       \/ pc = "record" /\ pc' \in {"end", "submit"}

LEMMA StepKinds ==
  ASSUME Types, [Next]_vars
  PROVE  Quiet \/ AcquireSucceeds \/ RecordGroup \/ Submit \/ ReleaseAll \/ end_frame \/ GpuStep
<1> USE DEF frameVars, poolVars, gpuVars
<1>1. CASE BeginFrame
  BY <1>1 DEF BeginFrame, Quiet
<1>2. CASE WaitTimeline
  BY <1>2, FSAssumption DEF WaitTimeline, Quiet, upcoming_frame, Types
<1>3. ASSUME NEW result \in AcquireResults, AcquireFails(result) PROVE Quiet
  BY <1>3 DEF AcquireFails, Quiet
<1>4. CASE recreate_swapchain
  BY <1>4 DEF recreate_swapchain, Quiet
<1>5. CASE RecordingDone
  BY <1>5 DEF RecordingDone, Quiet
<1>6. CASE LoaderCompletes
  BY <1>6 DEF LoaderCompletes, Quiet
<1>7. CASE UNCHANGED vars
  BY <1>7 DEF vars, Quiet
<1> QED
  BY <1>1, <1>2, <1>3, <1>4, <1>5, <1>6, <1>7 DEF Next, RenderStep, Acquire

LEMMA Pops ==
  ASSUME Types, GpuStep
  PROVE  /\ UNCHANGED <<pc, frame_number, created, submitted, recorded, pools>>
         /\ queue' \in Seq(Work)
         /\ \A i \in Submits' : i \in Nat \ {0} /\ i + 1 \in Submits /\ queue'[i] = queue[i + 1]
         /\ \/ timeline' = timeline
            \/ 1 \in Submits /\ queue[1].value # 0 /\ timeline' = queue[1].value
<1> USE DEF frameVars, poolVars
<1>1. queue # <<>> /\ queue' = Tail(queue)
  BY DEF GpuStep, GpuSubmit, GpuPresent
<1>2. /\ queue' \in Seq(Work) /\ 1 \in DOMAIN queue /\ Head(queue) = queue[1]
      /\ \A i \in DOMAIN queue' : i \in Nat \ {0} /\ i + 1 \in DOMAIN queue /\ queue'[i] = queue[i + 1]
  BY <1>1, SeqTail DEF Types
<1>3. \A i \in Submits' : i \in Nat \ {0} /\ i + 1 \in Submits /\ queue'[i] = queue[i + 1]
  BY <1>2 DEF Submits
<1>4. \/ timeline' = timeline
      \/ 1 \in Submits /\ queue[1].value # 0 /\ timeline' = queue[1].value
  BY <1>2 DEF GpuStep, GpuSubmit, GpuPresent, Submits
<1> QED
  BY <1>2, <1>3, <1>4 DEF GpuStep, GpuSubmit, GpuPresent

LEMMA Appends ==
  ASSUME Types, Submit
  PROVE  /\ UNCHANGED <<pc, frame_number, created, recorded, pools, timeline>>
         /\ pc = "submit" /\ submitted < Len(recorded) /\ submitted' = submitted + 1
         /\ submitted + 1 \in DOMAIN recorded
         /\ queue' = Append(queue, Submission(submitted + 1))
         /\ queue' \in Seq(Work)
         /\ Submits' = Submits \cup {Len(queue) + 1}
         /\ Len(queue) \in Nat
         /\ \A i \in Submits : i \in 1 .. Len(queue) /\ queue'[i] = queue[i]
         /\ queue'[Len(queue) + 1] = Submission(submitted + 1)
<1>1. submitted + 1 \in DOMAIN recorded /\ Len(recorded) \in Nat
  BY DEF Types, Submit
<1>2. recorded[submitted + 1] \in Recorded
  BY <1>1 DEF Types
<1>3. Submission(submitted + 1) \in Work
  BY <1>2 DEF Types, Submission, Work, Recorded, SignalValue
<1>4. Submission(submitted + 1).kind = "submit"
  BY DEF Submission
<1>5. queue' = Append(queue, Submission(submitted + 1)) /\ queue \in Seq(Work)
  BY DEF Types, Submit
<1>6. /\ queue' \in Seq(Work) /\ Len(queue) \in Nat
      /\ DOMAIN queue' = DOMAIN queue \cup {Len(queue) + 1}
      /\ \A i \in DOMAIN queue : i \in 1 .. Len(queue) /\ queue'[i] = queue[i]
      /\ queue'[Len(queue) + 1] = Submission(submitted + 1)
  BY <1>3, <1>5, SeqAppend
<1>7. Submits' = Submits \cup {Len(queue) + 1}
  BY <1>4, <1>6 DEF Submits
<1> QED
  BY <1>1, <1>5, <1>6, <1>7 DEF Submit, poolVars, Submits

LEMMA Presents ==
  ASSUME Types, end_frame
  PROVE  /\ UNCHANGED <<frame_number, created, submitted, recorded, pools, timeline>>
         /\ pc' \in {"begin", "recreate"}
         /\ queue' \in Seq(Work)
         /\ Submits' = Submits
         /\ \A i \in Submits : queue'[i] = queue[i]
<1> DEFINE work == [kind |-> "present", frame |-> frame_number]
<1>1. work \in Work /\ work.kind # "submit"
  BY DEF Types, Work
<1>2. queue' = Append(queue, work) /\ queue \in Seq(Work)
  BY DEF end_frame, Types
<1> HIDE DEF work
<1>3. /\ queue' \in Seq(Work)
      /\ DOMAIN queue' = DOMAIN queue \cup {Len(queue) + 1}
      /\ \A i \in DOMAIN queue : queue'[i] = queue[i]
      /\ queue'[Len(queue) + 1] = work
  BY <1>1, <1>2, SeqAppend
<1>4. Submits' = Submits
  BY <1>1, <1>3 DEF Submits
<1> QED
  BY <1>3, <1>4 DEF end_frame, Submits, frameVars, poolVars

\* What get_command_buffer does: the buffer taken is new or the head of the
\* slot's pool, and what is left of the pool is its tail.
LEMMA Takes ==
  ASSUME Types, RecordGroup
  PROVE  /\ UNCHANGED <<pc, frame_number, submitted, queue, timeline>> /\ pc = "record"
         /\ created' \in Nat /\ created <= created' /\ TakenCommandBuffer \in Nat
         /\ pools' \in [Slots -> Seq(Nat)]
         /\ \A s \in Slots \ {frame_slot} : pools'[s] = pools[s]
         /\ \/ /\ TakenCommandBuffer = created + 1 /\ created' = created + 1
               /\ pools' = pools
            \/ /\ created' = created
               /\ 1 \in DOMAIN pools[frame_slot] /\ TakenCommandBuffer = pools[frame_slot][1]
               /\ \A i \in DOMAIN pools'[frame_slot] :
                     /\ i \in Nat \ {0} /\ i + 1 \in DOMAIN pools[frame_slot]
                     /\ pools'[frame_slot][i] = pools[frame_slot][i + 1]
<1>1. frame_slot \in Slots
  BY SlotInSlots DEF frame_slot, Types
<1>2. pools[frame_slot] \in Seq(Nat)
  BY <1>1 DEF Types
<1>3. CASE pools[frame_slot] = <<>>
  BY <1>3 DEF RecordGroup, get_command_buffer, TakenCommandBuffer, Types, gpuVars
<1>4. CASE pools[frame_slot] # <<>>
  <2>1. /\ Tail(pools[frame_slot]) \in Seq(Nat)
        /\ 1 \in DOMAIN pools[frame_slot]
        /\ Head(pools[frame_slot]) = pools[frame_slot][1] /\ Head(pools[frame_slot]) \in Nat
        /\ \A i \in DOMAIN Tail(pools[frame_slot]) :
              /\ i \in Nat \ {0} /\ i + 1 \in DOMAIN pools[frame_slot]
              /\ Tail(pools[frame_slot])[i] = pools[frame_slot][i + 1]
    BY <1>2, <1>4, SeqTail
  <2>2. /\ pools' = [pools EXCEPT ![frame_slot] = Tail(@)] /\ created' = created
        /\ TakenCommandBuffer = Head(pools[frame_slot])
    BY <1>4 DEF RecordGroup, get_command_buffer, TakenCommandBuffer
  <2>3. pools'[frame_slot] = Tail(pools[frame_slot])
    BY <1>1, <2>2 DEF Types
  <2>4. /\ pools' \in [Slots -> Seq(Nat)]
        /\ \A s \in Slots \ {frame_slot} : pools'[s] = pools[s]
    BY <1>1, <2>1, <2>2 DEF Types
  <2> QED
    BY <2>1, <2>2, <2>3, <2>4 DEF RecordGroup, gpuVars, Types
<1> QED
  BY <1>3, <1>4

LEMMA Records ==
  ASSUME Types, RecordGroup
  PROVE  /\ recorded' \in Seq(Recorded)
         /\ Len(recorded) \in Nat /\ Len(recorded') = Len(recorded) + 1
         /\ DOMAIN recorded' = DOMAIN recorded \cup {Len(recorded) + 1}
         /\ \A i \in DOMAIN recorded : i \in 1 .. Len(recorded) /\ recorded'[i] = recorded[i]
         /\ recorded'[Len(recorded) + 1].cmd = TakenCommandBuffer
<1> DEFINE new == [cmd |-> TakenCommandBuffer, swapchain |-> Head(groups) = SwapchainGroup]
<1>1. recorded' = Append(recorded, new) /\ recorded \in Seq(Recorded)
  BY DEF RecordGroup, Types
<1>2. new \in Recorded /\ new.cmd = TakenCommandBuffer
  BY Takes DEF Recorded
<1> HIDE DEF new
<1> QED
  BY <1>1, <1>2, SeqAppend

\* release_command_buffer: the slot's pool gets the frame's buffers at its end.
LEMMA Releases ==
  ASSUME Types, ReleaseAll
  PROVE  /\ UNCHANGED <<frame_number, created, queue, timeline>>
         /\ pc = "submit" /\ pc' = "end" /\ recorded' = <<>> /\ submitted' = 0
         /\ pools' \in [Slots -> Seq(Nat)]
         /\ \A s \in Slots \ {frame_slot} : pools'[s] = pools[s]
         /\ Len(pools[frame_slot]) \in Nat
         /\ \A i \in DOMAIN pools'[frame_slot] :
               \/ /\ i \in DOMAIN pools[frame_slot]
                  /\ pools'[frame_slot][i] = pools[frame_slot][i]
               \/ /\ i \in Nat /\ i - Len(pools[frame_slot]) \in DOMAIN recorded
                  /\ i \notin DOMAIN pools[frame_slot]
                  /\ pools'[frame_slot][i] = recorded[i - Len(pools[frame_slot])].cmd
<1> DEFINE cmds == [i \in 1 .. Len(recorded) |-> recorded[i].cmd]
<1>1. frame_slot \in Slots /\ pools[frame_slot] \in Seq(Nat)
  BY SlotInSlots DEF frame_slot, Types
<1>2. \A i \in DOMAIN recorded : recorded[i].cmd \in Nat
  <2>1. recorded \in Seq(Recorded)
    BY DEF Types
  <2>2. \A i \in DOMAIN recorded : recorded[i] \in Recorded
    BY <2>1
  <2> QED
    BY <2>2 DEF Recorded
<1>3. /\ Len(recorded) \in Nat /\ DOMAIN recorded = 1 .. Len(recorded)
  BY DEF Types
<1>4. /\ cmds \in Seq(Nat) /\ DOMAIN cmds = DOMAIN recorded
      /\ \A i \in DOMAIN recorded : cmds[i] = recorded[i].cmd
  BY <1>2, <1>3
<1>5. pools' = [pools EXCEPT ![frame_slot] = pools[frame_slot] \o cmds]
  BY DEF ReleaseAll, release_command_buffer
<1> HIDE DEF cmds
<1>6. /\ pools[frame_slot] \o cmds \in Seq(Nat)
      /\ Len(pools[frame_slot]) \in Nat
      /\ \A i \in DOMAIN (pools[frame_slot] \o cmds) :
            \/ /\ i \in DOMAIN pools[frame_slot]
               /\ (pools[frame_slot] \o cmds)[i] = pools[frame_slot][i]
            \/ /\ i \in Nat /\ i - Len(pools[frame_slot]) \in DOMAIN cmds
               /\ i \notin DOMAIN pools[frame_slot]
               /\ (pools[frame_slot] \o cmds)[i] = cmds[i - Len(pools[frame_slot])]
  BY <1>1, <1>4, SeqConcat
<1>7. pools'[frame_slot] = pools[frame_slot] \o cmds
  BY <1>1, <1>5 DEF Types
<1>8. /\ pools' \in [Slots -> Seq(Nat)]
      /\ \A s \in Slots \ {frame_slot} : pools'[s] = pools[s]
  BY <1>1, <1>5, <1>6 DEF Types
<1> QED
  BY <1>4, <1>6, <1>7, <1>8 DEF ReleaseAll, gpuVars

-----------------------------------------------------------------------------
(* The invariant is kept, part by part.                                    *)

LEMMA TypesStep == ASSUME Types, [Next]_vars PROVE Types'
<1>1. CASE Quiet
  BY <1>1 DEF Types, Quiet
<1>2. CASE AcquireSucceeds
  BY <1>2 DEF AcquireSucceeds, Types, upcoming_frame, poolVars
<1>3. CASE RecordGroup
  BY <1>3, Takes, Records DEF Types
<1>4. CASE Submit
  BY <1>4, Appends DEF Types
<1>5. CASE ReleaseAll
  <2>1. recorded' \in Seq(Recorded) /\ submitted' \in Nat /\ submitted' <= Len(recorded')
    BY <1>5, Releases
  <2> QED
    BY <1>5, <2>1, Releases DEF Types
<1>6. CASE end_frame
  BY <1>6, Presents DEF Types
<1>7. CASE GpuStep
  <2>1. timeline' \in Nat
    BY <1>7, Pops DEF Types, Submits, Work
  <2> QED
    BY <1>7, <2>1, Pops DEF Types
<1> QED
  BY <1>1, <1>2, <1>3, <1>4, <1>5, <1>6, <1>7, StepKinds

LEMMA OrderedStep == ASSUME Types, Ordered, [Next]_vars PROVE Ordered'
<1> USE FSAssumption
<1>0. /\ \A i \in Submits : queue[i].frame \in Nat /\ queue[i].value \in Nat /\ i \in Nat
      /\ queue \in Seq(Work)
  BY DEF Types, Submits, Work
<1>1. CASE Quiet
  <2>1. Signaling' => Signaling
    BY <1>1 DEF Signaling, Quiet
  <2>2. Submits' = Submits
    BY <1>1 DEF Submits, Quiet
  <2> QED
    BY <1>1, <2>1, <2>2 DEF Ordered, Quiet
<1>2. CASE AcquireSucceeds
  <2>1. Submits' = Submits
    BY <1>2 DEF Submits, AcquireSucceeds
  <2>2. \A i \in Submits : queue[i].frame < frame_number'
    BY <1>0, <1>2 DEF Ordered, AcquireSucceeds, upcoming_frame, Types
  <2>3. timeline' < frame_number'
    BY <1>2 DEF Ordered, AcquireSucceeds, upcoming_frame, Types
  <2> QED
    BY <1>0, <1>2, <2>1, <2>2, <2>3
    DEF Ordered, AcquireSucceeds, upcoming_frame, Types
<1>3. CASE RecordGroup
  <2>1. Submits' = Submits /\ Signaling' = Signaling
    BY <1>3, Takes DEF Submits, Signaling
  <2> QED
    BY <1>3, <2>1, Takes DEF Ordered
<1>4. CASE Submit
  <2> DEFINE last == Len(queue) + 1
  <2>1. /\ UNCHANGED <<pc, frame_number, timeline>>
        /\ pc = "submit" /\ Signaling /\ Len(queue) \in Nat
        /\ Submits' = Submits \cup {last}
        /\ \A i \in Submits : i <= Len(queue) /\ queue'[i] = queue[i]
    BY <1>4, Appends DEF Signaling
  <2>2. /\ queue'[last].frame = frame_number
        /\ queue'[last].value \in {0, frame_number}
        /\ Signaling' => queue'[last].value = 0
    BY <1>4, Appends DEF Submission, SignalValue, Signaling, Types
  <2> HIDE DEF last
  <2>3. \A i \in Submits :
           /\ queue[i].value \in {0, queue[i].frame}
           /\ timeline < queue[i].frame /\ queue[i].frame <= frame_number
           /\ queue[i].value # 0 => queue[i].frame < frame_number
           /\ \A j \in Submits :
                 i < j /\ queue[i].value # 0 => queue[i].frame < queue[j].frame
    BY <2>1 DEF Ordered
  <2>4. timeline < frame_number
    BY <2>1 DEF Ordered
  <2>5. \A j \in Submits' : ~(last < j)
    BY <1>0, <2>1 DEF last
  <2>6. \A i \in Submits' :
           /\ queue'[i].value \in {0, queue'[i].frame}
           /\ timeline' < queue'[i].frame /\ queue'[i].frame <= frame_number'
           /\ Signaling' /\ queue'[i].value # 0 => queue'[i].frame < frame_number'
    BY <2>1, <2>2, <2>3, <2>4 DEF Types
  <2>7. \A i, j \in Submits' :
           i < j /\ queue'[i].value # 0 => queue'[i].frame < queue'[j].frame
    BY <2>1, <2>2, <2>3, <2>5
  <2> QED
    BY <2>1, <2>4, <2>6, <2>7 DEF Ordered, Types
<1>5. CASE ReleaseAll
  <2>1. Submits' = Submits /\ ~Signaling'
    BY <1>5, Releases DEF Submits, Signaling
  <2> QED
    BY <1>5, <2>1, Releases DEF Ordered
<1>6. CASE end_frame
  <2>1. ~Signaling'
    BY <1>6, Presents DEF Signaling
  <2> QED
    BY <1>6, <2>1, Presents DEF Ordered
<1>7. CASE GpuStep
  <2>1. /\ UNCHANGED <<pc, frame_number, submitted, recorded>>
        /\ \A i \in Submits' : i \in Nat \ {0} /\ i + 1 \in Submits /\ queue'[i] = queue[i + 1]
        /\ \/ timeline' = timeline
           \/ 1 \in Submits /\ queue[1].value # 0 /\ timeline' = queue[1].value
    BY <1>7, Pops
  <2>2. Signaling' = Signaling
    BY <2>1 DEF Signaling
  <2>3. /\ timeline <= timeline' /\ timeline' \in Nat
        /\ timeline' <= frame_number /\ (Signaling => timeline' < frame_number)
    BY <1>0, <2>1 DEF Ordered, Types
  <2>4. \A i \in Submits' : timeline' < queue'[i].frame
    <3> SUFFICES ASSUME NEW i \in Submits' PROVE timeline' < queue[i + 1].frame
      BY <2>1
    <3>1. i + 1 \in Submits /\ 1 < i + 1 /\ timeline < queue[i + 1].frame
      BY <2>1 DEF Ordered
    <3>2. CASE 1 \in Submits /\ queue[1].value # 0 /\ timeline' = queue[1].value
      <4>1. queue[1].frame < queue[i + 1].frame /\ queue[1].value = queue[1].frame
        BY <3>1, <3>2 DEF Ordered
      <4> QED
        BY <3>2, <4>1
    <3> QED
      BY <2>1, <3>1, <3>2
  <2>5. \A i \in Submits' :
           /\ queue'[i].value \in {0, queue'[i].frame}
           /\ queue'[i].frame <= frame_number
           /\ pc = "record" => queue'[i].frame < frame_number
           /\ Signaling /\ queue'[i].value # 0 => queue'[i].frame < frame_number
    BY <2>1 DEF Ordered
  <2>6. \A i, j \in Submits' :
           i < j /\ queue'[i].value # 0 => queue'[i].frame < queue'[j].frame
    <3> SUFFICES ASSUME NEW i \in Submits', NEW j \in Submits', i < j, queue[i + 1].value # 0
                 PROVE  queue[i + 1].frame < queue[j + 1].frame
      BY <2>1
    <3>1. i + 1 \in Submits /\ j + 1 \in Submits /\ i + 1 < j + 1
      BY <2>1
    <3> QED
      BY <3>1 DEF Ordered
  <2>7. /\ pc = "acquire" /\ frame_number + 1 > FramesInFlight =>
               timeline' >= frame_number + 1 - FramesInFlight
        /\ pc = "record" /\ frame_number > FramesInFlight =>
               timeline' >= frame_number - FramesInFlight
    BY <2>3 DEF Ordered, Types
  <2> QED
    BY <2>1, <2>2, <2>3, <2>4, <2>5, <2>6, <2>7 DEF Ordered
<1> QED
  BY <1>1, <1>2, <1>3, <1>4, <1>5, <1>6, <1>7, StepKinds

\* A buffer that is taken while it is pending would wait in the frame's slot,
\* so it would be of an earlier frame of that slot; but of the frames before,
\* only those of the other slots have submissions in the queue.
LEMMA Reuse ==
  ASSUME Types, Ordered, Pending, pc = "record"
  PROVE  TakenCommandBuffer \notin PendingCmds
<1> SUFFICES ASSUME NEW i \in Submits, TakenCommandBuffer = queue[i].cmd PROVE FALSE
  BY DEF PendingCmds, Submits
<1> DEFINE f == queue[i].frame
<1>1. f \in Nat /\ queue[i].cmd \in Nat
  BY DEF Types, Submits, Work
<1>2. frame_slot \in Slots /\ pools[frame_slot] \in Seq(Nat)
  BY SlotInSlots DEF frame_slot, Types
<1>3. queue[i].cmd <= created
  BY DEF Pending
<1>4. /\ pools[frame_slot] # <<>>
      /\ 1 \in DOMAIN pools[frame_slot] /\ pools[frame_slot][1] = queue[i].cmd
  <2>1. pools[frame_slot] # <<>>
    BY <1>1, <1>3 DEF TakenCommandBuffer, Types
  <2> QED
    BY <1>2, <2>1, SeqTail DEF TakenCommandBuffer
<1>5. SlotOf(f) = frame_slot
  BY <1>2, <1>4 DEF Pending
<1>6. f < frame_number /\ timeline < f
  BY DEF Ordered
<1>7. frame_number < f + FramesInFlight
  BY <1>1, <1>6, FSAssumption DEF Ordered, Types
<1> HIDE DEF f
<1>8. f = frame_number
  BY <1>1, <1>5, <1>6, <1>7, SameSlot DEF frame_slot, Types
<1> QED
  BY <1>1, <1>6, <1>8

\* Where a pool's entry was before RecordGroup.
LEMMA EntryBefore ==
  ASSUME Types, RecordGroup, NEW s \in Slots, NEW i \in DOMAIN pools'[s]
  PROVE  \E d \in {0, 1} :
            /\ i + d \in DOMAIN pools[s] /\ pools'[s][i] = pools[s][i + d]
            /\ i \in Nat \ {0}
            /\ d = IF s = frame_slot /\ created' = created THEN 1 ELSE 0
<1>1. created \in Nat /\ pools[s] \in Seq(Nat) /\ pools'[s] \in Seq(Nat)
  BY Takes DEF Types
<1>2. i \in Nat \ {0}
  BY <1>1
<1>3. CASE s = frame_slot /\ created' = created
  <2>1. i + 1 \in DOMAIN pools[s] /\ pools'[s][i] = pools[s][i + 1]
    BY <1>1, <1>3, Takes
  <2> QED
    BY <1>2, <1>3, <2>1
<1>4. CASE ~(s = frame_slot /\ created' = created)
  <2>1. pools'[s] = pools[s]
    BY <1>1, <1>4, Takes
  <2> QED
    BY <1>2, <1>4, <2>1
<1> QED
  BY <1>3, <1>4

LEMMA HeldStep == ASSUME Types, Held, [Next]_vars PROVE Held'
<1> DEFINE slot == frame_slot
<1>0. /\ \A s \in Slots : \A i \in DOMAIN pools[s] : pools[s][i] \in Nat /\ pools[s][i] <= created
      /\ \A i \in DOMAIN recorded : recorded[i].cmd \in Nat /\ recorded[i].cmd <= created
  <2>1. \A s \in Slots : pools[s] \in Seq(Nat)
    BY DEF Types
  <2>2. \A i \in DOMAIN recorded : recorded[i] \in Recorded
    BY DEF Types
  <2> QED
    BY <2>1, <2>2 DEF Held, Recorded
<1>1. CASE UNCHANGED <<created, recorded, pools>>
  BY <1>1 DEF Held, HeldOnce
<1>2. CASE AcquireSucceeds
  BY <1>2 DEF Held, HeldOnce, AcquireSucceeds, poolVars
<1>3. CASE RecordGroup
  <2> DEFINE last == Len(recorded) + 1
  <2>1. /\ DOMAIN recorded' = DOMAIN recorded \cup {last} /\ last \notin DOMAIN recorded
        /\ \A i \in DOMAIN recorded : recorded'[i] = recorded[i]
        /\ recorded'[last].cmd = TakenCommandBuffer
    BY <1>3, Records
  <2> HIDE DEF last
  <2>2. /\ created \in Nat /\ created' \in Nat /\ created <= created'
        /\ slot \in Slots /\ TakenCommandBuffer \in Nat
        /\ \/ TakenCommandBuffer = created + 1 /\ created' = created + 1
           \/ /\ created' = created
              /\ 1 \in DOMAIN pools[slot] /\ TakenCommandBuffer = pools[slot][1]
    BY <1>3, Takes, SlotInSlots DEF Types, frame_slot
  <2>3. TakenCommandBuffer <= created'
    BY <1>0, <2>2
  <2>4. \A s, t \in Slots : \A i \in DOMAIN pools'[s], j \in DOMAIN pools'[t] :
           pools'[s][i] = pools'[t][j] => s = t /\ i = j
    <3> SUFFICES ASSUME NEW s \in Slots, NEW t \in Slots,
                        NEW i \in DOMAIN pools'[s], NEW j \in DOMAIN pools'[t],
                        pools'[s][i] = pools'[t][j]
                 PROVE  s = t /\ i = j
      OBVIOUS
    <3>1. PICK d \in {0, 1} :
             /\ i + d \in DOMAIN pools[s] /\ pools'[s][i] = pools[s][i + d]
             /\ i \in Nat \ {0}
             /\ d = IF s = frame_slot /\ created' = created THEN 1 ELSE 0
      BY <1>3, EntryBefore
    <3>2. PICK e \in {0, 1} :
             /\ j + e \in DOMAIN pools[t] /\ pools'[t][j] = pools[t][j + e]
             /\ j \in Nat \ {0}
             /\ e = IF t = frame_slot /\ created' = created THEN 1 ELSE 0
      BY <1>3, EntryBefore
    <3>3. s = t /\ i + d = j + e
      <4>1. \A k \in DOMAIN pools[s], l \in DOMAIN pools[t] :
               pools[s][k] = pools[t][l] => s = t /\ k = l
        BY DEF Held, HeldOnce
      <4>2. pools[s][i + d] = pools[t][j + e]
        BY <3>1, <3>2
      <4> QED
        BY <3>1, <3>2, <4>1, <4>2
    <3> QED
      BY <3>1, <3>2, <3>3
  <2>5. \A s \in Slots : \A i \in DOMAIN pools'[s] :
           /\ pools'[s][i] <= created'
           /\ \A j \in DOMAIN recorded : pools'[s][i] # recorded[j].cmd
           /\ pools'[s][i] # TakenCommandBuffer
    <3> SUFFICES ASSUME NEW s \in Slots, NEW i \in DOMAIN pools'[s]
                 PROVE  /\ pools'[s][i] <= created'
                        /\ \A j \in DOMAIN recorded : pools'[s][i] # recorded[j].cmd
                        /\ pools'[s][i] # TakenCommandBuffer
      OBVIOUS
    <3>1. PICK d \in {0, 1} :
             /\ i + d \in DOMAIN pools[s] /\ pools'[s][i] = pools[s][i + d]
             /\ i \in Nat \ {0}
             /\ d = IF s = frame_slot /\ created' = created THEN 1 ELSE 0
      BY <1>3, EntryBefore
    <3>2. pools[s][i + d] \in Nat /\ pools[s][i + d] <= created
      BY <1>0, <3>1
    <3>3. \A j \in DOMAIN recorded : pools[s][i + d] # recorded[j].cmd
      BY <3>1 DEF Held, HeldOnce
    <3>4. pools[s][i + d] # TakenCommandBuffer
      <4>1. CASE TakenCommandBuffer = created + 1
        BY <2>2, <3>2, <4>1
      <4>2. CASE /\ created' = created
                 /\ 1 \in DOMAIN pools[slot] /\ TakenCommandBuffer = pools[slot][1]
        <5>1. SUFFICES ASSUME pools[s][i + d] = pools[slot][1] PROVE FALSE
          BY <4>2
        <5>2. s = slot /\ i + d = 1
          BY <2>2, <3>1, <4>2, <5>1 DEF Held, HeldOnce
        <5> QED
          BY <3>1, <4>2, <5>2
      <4> QED
        BY <2>2, <4>1, <4>2
    <3> QED
      BY <2>2, <3>1, <3>2, <3>3, <3>4
  <2>6. \A j \in DOMAIN recorded : recorded[j].cmd # TakenCommandBuffer
    <3>1. CASE TakenCommandBuffer = created + 1
      BY <1>0, <2>2, <3>1
    <3>2. CASE 1 \in DOMAIN pools[slot] /\ TakenCommandBuffer = pools[slot][1]
      BY <2>2, <3>2 DEF Held, HeldOnce
    <3> QED
      BY <2>2, <3>1, <3>2
  <2>7. \A i, j \in DOMAIN recorded' : recorded'[i].cmd = recorded'[j].cmd => i = j
    BY <2>1, <2>6 DEF Held, HeldOnce
  <2>8. \A s \in Slots : \A i \in DOMAIN pools'[s], j \in DOMAIN recorded' :
           pools'[s][i] # recorded'[j].cmd
    BY <2>1, <2>5
  <2>9. \A j \in DOMAIN recorded' : recorded'[j].cmd <= created'
    BY <1>0, <2>1, <2>2, <2>3
  <2> QED
    BY <2>4, <2>5, <2>7, <2>8, <2>9 DEF Held, HeldOnce
<1>4. CASE ReleaseAll
  <2> DEFINE n == Len(pools[slot])
  <2>1. /\ recorded' = <<>> /\ created' = created /\ n \in Nat /\ slot \in Slots
        /\ \A s \in Slots \ {slot} : pools'[s] = pools[s]
    BY <1>4, Releases, SlotInSlots DEF Types, frame_slot
  <2>2. \A i \in DOMAIN pools'[slot] :
           \/ i \in DOMAIN pools[slot] /\ pools'[slot][i] = pools[slot][i]
           \/ /\ i \in Nat /\ i - n \in DOMAIN recorded
              /\ pools'[slot][i] = recorded[i - n].cmd
    BY <1>4, Releases
  <2> HIDE DEF n, slot
  <2>3. \A s \in Slots : \A i \in DOMAIN pools'[s] :
           \/ i \in DOMAIN pools[s] /\ pools'[s][i] = pools[s][i]
           \/ /\ s = slot /\ i \in Nat /\ i - n \in DOMAIN recorded
              /\ pools'[s][i] = recorded[i - n].cmd
    BY <2>1, <2>2
  <2>4. \A s, t \in Slots : \A i \in DOMAIN pools'[s], j \in DOMAIN pools'[t] :
           pools'[s][i] = pools'[t][j] => s = t /\ i = j
    <3> SUFFICES ASSUME NEW s \in Slots, NEW t \in Slots,
                        NEW i \in DOMAIN pools'[s], NEW j \in DOMAIN pools'[t],
                        pools'[s][i] = pools'[t][j]
                 PROVE  s = t /\ i = j
      OBVIOUS
    <3>1. CASE i \in DOMAIN pools[s] /\ pools'[s][i] = pools[s][i]
      <4>1. \A l \in DOMAIN recorded : pools[s][i] # recorded[l].cmd
        BY <3>1 DEF Held, HeldOnce
      <4>2. j \in DOMAIN pools[t] /\ pools'[t][j] = pools[t][j]
        BY <2>3, <3>1, <4>1
      <4>3. \A k \in DOMAIN pools[s], l \in DOMAIN pools[t] :
               pools[s][k] = pools[t][l] => s = t /\ k = l
        BY DEF Held, HeldOnce
      <4>4. pools[s][i] = pools[t][j]
        BY <3>1, <4>2
      <4> QED
        BY <3>1, <4>2, <4>3, <4>4
    <3>2. CASE /\ s = slot /\ i \in Nat /\ i - n \in DOMAIN recorded
               /\ pools'[s][i] = recorded[i - n].cmd
      <4>1. CASE j \in DOMAIN pools[t] /\ pools'[t][j] = pools[t][j]
        BY <3>2, <4>1 DEF Held, HeldOnce
      <4>2. CASE /\ t = slot /\ j \in Nat /\ j - n \in DOMAIN recorded
                 /\ pools'[t][j] = recorded[j - n].cmd
        <5>1. i - n = j - n
          BY <3>2, <4>2 DEF Held, HeldOnce
        <5> QED
          BY <2>1, <3>2, <4>2, <5>1
      <4> QED
        BY <2>3, <4>1, <4>2
    <3> QED
      BY <2>3, <3>1, <3>2
  <2>5. \A s \in Slots : \A i \in DOMAIN pools'[s] : pools'[s][i] <= created'
    BY <1>0, <2>1, <2>3
  <2> QED
    BY <2>1, <2>4, <2>5 DEF Held, HeldOnce
<1> QED
  BY <1>1, <1>2, <1>3, <1>4, StepKinds, Appends, Presents, Pops DEF Quiet

LEMMA PendingStep ==
  ASSUME Types, Ordered, Held, Pending, [Next]_vars
  PROVE  Pending'
<1>0. \A i \in Submits : queue[i].cmd \in Nat /\ queue[i].frame \in Nat
  BY DEF Types, Submits, Work
<1>1. CASE Quiet
  BY <1>1 DEF Pending, Quiet, Submits
<1>2. CASE AcquireSucceeds
  BY <1>2 DEF Pending, AcquireSucceeds, Submits, poolVars
<1>3. CASE RecordGroup
  <2>1. /\ UNCHANGED <<queue, frame_number>> /\ Submits' = Submits /\ pc = "record"
        /\ created \in Nat /\ created' \in Nat /\ created <= created'
    BY <1>3, Takes DEF Types, Submits
  <2>2. \A i \in Submits : queue[i].cmd <= created'
    BY <1>0, <2>1 DEF Pending
  <2>3. \A i \in Submits : TakenCommandBuffer # queue[i].cmd
    BY <2>1, Reuse DEF PendingCmds, Submits
  <2>4. \A i \in Submits : \A k \in DOMAIN recorded' :
           recorded'[k].cmd = queue[i].cmd => queue[i].frame = frame_number
    <3>1. \A k \in DOMAIN recorded' :
             \/ k \in DOMAIN recorded /\ recorded'[k] = recorded[k]
             \/ recorded'[k].cmd = TakenCommandBuffer
      BY <1>3, Records
    <3> QED
      BY <2>3, <3>1 DEF Pending
  <2>5. \A i \in Submits : \A s \in Slots : \A k \in DOMAIN pools'[s] :
           pools'[s][k] = queue[i].cmd => SlotOf(queue[i].frame) = s
    <3>1. \A s \in Slots : \A k \in DOMAIN pools'[s] :
             \E l \in DOMAIN pools[s] : pools'[s][k] = pools[s][l]
      BY <1>3, EntryBefore
    <3> QED
      BY <3>1 DEF Pending
  <2> QED
    BY <2>1, <2>2, <2>4, <2>5 DEF Pending, SlotOf
<1>4. CASE Submit
  <2> DEFINE last == Len(queue) + 1
  <2>1. /\ UNCHANGED <<created, recorded, pools, frame_number>>
        /\ Submits' = Submits \cup {last}
        /\ \A i \in Submits : queue'[i] = queue[i]
        /\ submitted + 1 \in DOMAIN recorded
        /\ queue'[last].cmd = recorded[submitted + 1].cmd
        /\ queue'[last].frame = frame_number
    BY <1>4, Appends DEF Submission
  <2> HIDE DEF last
  <2>2. /\ recorded[submitted + 1].cmd <= created
        /\ \A s \in Slots : \A k \in DOMAIN pools[s] :
              pools[s][k] # recorded[submitted + 1].cmd
    BY <2>1 DEF Held, HeldOnce
  <2> QED
    BY <2>1, <2>2 DEF Pending, SlotOf
<1>5. CASE ReleaseAll
  <2>1. /\ UNCHANGED <<queue, frame_number, created>> /\ Submits' = Submits
        /\ recorded' = <<>>
    BY <1>5, Releases DEF Submits
  <2>2. \A s \in Slots : \A k \in DOMAIN pools'[s] :
           \/ k \in DOMAIN pools[s] /\ pools'[s][k] = pools[s][k]
           \/ s = frame_slot /\ \E l \in DOMAIN recorded : pools'[s][k] = recorded[l].cmd
    BY <1>5, Releases
  <2>3. \A i \in Submits : \A s \in Slots : \A k \in DOMAIN pools'[s] :
           pools'[s][k] = queue[i].cmd => SlotOf(queue[i].frame) = s
    BY <2>2 DEF Pending, frame_slot
  <2> QED
    BY <2>1, <2>3 DEF Pending, SlotOf
<1>6. CASE end_frame
  BY <1>6, Presents DEF Pending, SlotOf
<1>7. CASE GpuStep
  BY <1>7, Pops DEF Pending, SlotOf
<1> QED
  BY <1>1, <1>2, <1>3, <1>4, <1>5, <1>6, <1>7, StepKinds

-----------------------------------------------------------------------------
(* The theorems.                                                           *)

LEMMA FSInvariance == Spec => []FSInv
<1>1. Init => FSInv
  <2>1. ASSUME Init PROVE Types
    BY <2>1 DEF Init, Types
  <2>2. ASSUME Init PROVE Ordered /\ Held /\ Pending
    BY <2>2, FSAssumption
    DEF Init, Ordered, Held, HeldOnce, Pending, Submits, Signaling
  <2> QED
    BY <2>1, <2>2 DEF FSInv
<1>2. FSInv /\ [Next]_vars => FSInv'
  BY TypesStep, OrderedStep, HeldStep, PendingStep DEF FSInv
<1> QED
  BY <1>1, <1>2, PTL DEF Spec

\* What get_command_buffer hands out while a frame is recorded is not in the
\* graphics queue any more, for any number of frames in flight.
THEOREM FrameReusedWhenDone == Spec => []ReusedWhenDone
<1>1. FSInv => ReusedWhenDone
  BY Reuse DEF FSInv, ReusedWhenDone
<1> QED
  BY <1>1, FSInvariance, PTL

\* get_command_buffer and release_command_buffer never put a command buffer in
\* two places: in all pools and the frame's recorded commands it occurs once.
THEOREM FrameHeldOnce == Spec => []HeldOnce
<1>1. FSInv => HeldOnce
  BY DEF FSInv, Held
<1> QED
  BY <1>1, FSInvariance, PTL

\* execute_command_buffers only submits signals of the timeline semaphore that
\* are greater than its value and than every signal before them in the queue.
THEOREM FrameSignalsIncrease == Spec => []SignalsIncrease
<1>1. FSInv => SignalsIncrease
  <2> SUFFICES ASSUME FSInv PROVE SignalsIncrease
    OBVIOUS
  <2>1. \A i \in Submits : queue[i].value # 0 =>
           /\ queue[i].value = queue[i].frame /\ timeline < queue[i].frame
           /\ \A j \in Submits : i < j => queue[i].frame < queue[j].frame
    BY DEF FSInv, Ordered
  <2>2. timeline \in Nat /\ \A i \in Submits : queue[i].frame \in Nat
    BY DEF FSInv, Types, Submits, Work
  <2> QED
    BY <2>1, <2>2 DEF SignalsIncrease, Submits
<1> QED
  BY <1>1, FSInvariance, PTL

-----------------------------------------------------------------------------
(* The signal of every frame: while a frame is open, a submission that will  *)
(* signal its number is still to come, has been queued or has been done.    *)

Signaled ==
    \/ timeline = frame_number
    \/ \E i \in Submits : queue[i].value = frame_number

AllSignaled ==
    /\ pc \in {"begin", "wait", "acquire", "recreate", "revive", "end"} => Signaled
    /\ pc = "record" => recorded # <<>> \/ groups # <<>>
    /\ pc = "submit" =>
           /\ recorded # <<>>
           /\ submitted = Len(recorded) => Signaled
    /\ pc \in {"begin", "wait", "acquire", "record", "submit", "recreate", "revive", "end"}

\* A signal is not lost when work is done: it becomes the semaphore's value.
LEMMA SignalStays ==
  ASSUME Types, Ordered, Signaled, GpuStep
  PROVE  Signaled'
<1>1. /\ frame_number' = frame_number /\ queue # <<>> /\ queue' = Tail(queue)
      /\ queue \in Seq(Work)
  BY DEF Types, GpuStep, GpuSubmit, GpuPresent
<1>2. ASSUME timeline = frame_number PROVE Signaled'
  <2>1. ASSUME 1 \in Submits PROVE queue[1].value = 0
    <3>1. timeline < queue[1].frame /\ queue[1].frame <= frame_number
      BY <2>1 DEF Ordered
    <3>2. queue[1].frame \in Nat
      BY <2>1 DEF Types, Submits, Work
    <3> QED
      BY <1>2, <3>1, <3>2 DEF Types
  <2> QED
    BY <1>1, <1>2, <2>1, Pops DEF Signaled
<1>3. ASSUME NEW i \in Submits, queue[i].value = frame_number, timeline # frame_number PROVE Signaled'
  <2>1. frame_number # 0
    BY <1>3 DEF Ordered, Types
  <2>2. CASE i = 1
    <3>1. Head(queue) = queue[1] /\ queue[1].kind = "submit"
      BY <1>1, <1>3, <2>2, SeqTail DEF Submits
    <3>2. timeline' = frame_number
      BY <1>3, <2>1, <2>2, <3>1 DEF GpuStep, GpuSubmit, GpuPresent
    <3> QED
      BY <1>1, <3>2 DEF Signaled
  <2>3. CASE i # 1
    <3>1. i \in DOMAIN queue /\ queue[i].kind = "submit"
      BY DEF Submits
    <3>2. i - 1 \in DOMAIN queue' /\ queue'[i - 1] = queue[i]
      BY <1>1, <2>3, <3>1
    <3> QED
      BY <1>1, <1>3, <3>1, <3>2 DEF Signaled, Submits
  <2> QED
    BY <2>2, <2>3
<1> QED
  BY <1>2, <1>3 DEF Signaled

LEMMA SignaledStep ==
  ASSUME \A b \in BOOLEAN : RecordedGroups(b) # <<>>,
         Types, Types', Ordered, AllSignaled, loading \in BOOLEAN, [Next]_vars
  PROVE  AllSignaled'
<1>1. ASSUME UNCHANGED <<frame_number, timeline, queue>>, Signaled PROVE Signaled'
  BY <1>1 DEF Signaled, Submits
<1>2. CASE GpuStep
  <2>1. UNCHANGED <<pc, groups, submitted, recorded>>
    BY <1>2 DEF GpuStep, GpuSubmit, GpuPresent, frameVars
  <2> QED
    BY <1>2, <2>1, SignalStays DEF AllSignaled
<1>3. CASE BeginFrame \/ WaitTimeline \/ recreate_swapchain \/ \E result \in AcquireResults : AcquireFails(result)
  <2>1. /\ UNCHANGED <<frame_number, timeline, queue>>
        /\ pc \in {"begin", "wait", "acquire", "recreate", "revive"}
        /\ pc' \in {"begin", "wait", "acquire", "recreate", "revive"}
    BY <1>3 DEF BeginFrame, WaitTimeline, recreate_swapchain, AcquireFails, gpuVars
  <2> QED
    BY <1>1, <2>1 DEF AllSignaled
<1>4. CASE AcquireSucceeds
  BY <1>4 DEF AcquireSucceeds, AllSignaled
<1>5. CASE RecordGroup
  <2>1. recorded' # <<>> /\ pc' = "record"
    BY <1>5, Records, Takes DEF Types
  <2> QED
    BY <2>1 DEF AllSignaled
<1>6. CASE RecordingDone
  <2>1. UNCHANGED <<recorded, submitted>> /\ pc = "record" /\ groups = <<>>
    BY <1>6 DEF RecordingDone, frameVars
  <2>2. recorded # <<>> /\ pc' = "submit"
    BY <1>6, <2>1 DEF RecordingDone, AllSignaled
  <2>3. submitted = 0 /\ Len(recorded) # 0
    BY <2>1, <2>2 DEF Ordered, Types
  <2> QED
    BY <2>1, <2>2, <2>3 DEF AllSignaled
<1>7. CASE Submit
  <2>1. ASSUME submitted + 1 = Len(recorded) PROVE Signaled'
    <3>1. Submission(submitted + 1).value = frame_number
      BY <2>1 DEF Submission, SignalValue
    <3> QED
      BY <1>7, <3>1, Appends DEF Signaled
  <2> QED
    BY <1>7, <2>1, Appends DEF AllSignaled
<1>8. CASE ReleaseAll
  <2>1. Signaled /\ pc' = "end"
    BY <1>8 DEF ReleaseAll, AllSignaled
  <2> QED
    BY <1>1, <1>8, <2>1, Releases DEF AllSignaled
<1>9. CASE end_frame
  <2>1. Signaled
    BY <1>9 DEF end_frame, AllSignaled
  <2>2. Signaled'
    BY <1>9, <2>1, Presents DEF Signaled
  <2> QED
    BY <1>9, <2>2, Presents DEF AllSignaled
<1>10. CASE LoaderCompletes \/ UNCHANGED vars
  BY <1>1, <1>10 DEF LoaderCompletes, vars, frameVars, gpuVars, AllSignaled
<1> QED
  BY <1>2, <1>3, <1>4, <1>5, <1>6, <1>7, <1>8, <1>9, <1>10 DEF Next, RenderStep, Acquire

LEMMA LoadingTypes == loading \in BOOLEAN /\ [Next]_vars => loading' \in BOOLEAN
BY DEF Next, RenderStep, Acquire, BeginFrame, WaitTimeline, recreate_swapchain, AcquireFails,
   AcquireSucceeds, RecordGroup, RecordingDone, Submit, ReleaseAll, end_frame, GpuStep, GpuSubmit,
   GpuPresent, LoaderCompletes, vars

\* Every frame that was begun is signaled, so the wait of a later frame for it
\* ends, however many frames an acquire skipped in between: provided the frame
\* records a group, while the scene is loaded and afterwards.
THEOREM EveryFrameSignaled ==
  ASSUME \A b \in BOOLEAN : RecordedGroups(b) # <<>>
  PROVE  Spec => []FrameSignaled
<1>1. Init => AllSignaled /\ loading \in BOOLEAN
  BY DEF Init, AllSignaled, Signaled
<1>2. FSInv /\ FSInv' /\ AllSignaled /\ loading \in BOOLEAN /\ [Next]_vars => (AllSignaled /\ loading \in BOOLEAN)'
  BY SignaledStep, LoadingTypes DEF FSInv
<1>3. AllSignaled => FrameSignaled
  BY DEF AllSignaled, Signaled, Submits, FrameSignaled
<1> QED
  BY <1>1, <1>2, <1>3, FSInvariance, PTL DEF Spec
=============================================================================
