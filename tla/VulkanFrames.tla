--------------------------- MODULE VulkanFrames ---------------------------
(***************************************************************************)
(* The Vulkan device (nGraphics/bnGraphicsVK.cpp): frames in flight, the   *)
(* swap chain, the draws collected for a frame and the releases put off    *)
(* until the device is idle.                                               *)
(*                                                                         *)
(* One thread, the window's, calls the device; the device's queue and the  *)
(* screen work beside it.  A wait of the thread is a step of its own, which*)
(* the queue has to enable.  The command list of a frame slot lives as     *)
(* long as the device and remembers what was bound to it, also from one    *)
(* frame to the next, so a draw may name an object of long ago.            *)
(*                                                                         *)
(* A draw that names a freed object leads EndFrame to read freed memory:   *)
(* it either finds no pipeline there and returns, or anything happens.     *)
(***************************************************************************)
EXTENDS Integers, Sequences

CONSTANTS
  Buffers, Pipelines, Stagings,   (* the objects the program ever makes    *)
  None,                           (* nothing bound                         *)
  N                               (* config.framesInFlight, as many images *)

ASSUME DeviceAssumption ==
  /\ N \in Nat \ {0}
  /\ None \notin Buffers \cup Pipelines \cup Stagings
  /\ Buffers \cap Pipelines = {}
  /\ Buffers \cap Stagings = {}
  /\ Pipelines \cap Stagings = {}

VARIABLES
  pc,             (* where the window's thread is in the device            *)
  currentFrame,
  imageIndex,
  began,          (* history: this frame reached vkBeginCommandBuffer      *)
  fence,          (* inFlightFences: signalled or not                      *)
  available,      (* imageAvailableSemaphores                              *)
  rendered,       (* renderFinishedSemaphores                              *)
  queue,          (* what the device's queue has not done yet              *)
  images,         (* the swap chain's images that can be acquired          *)
  nextImage,      (* the one the driver hands out next                     *)
  surface,        (* "ok", "suboptimal" or "outdated"                      *)
  stage,          (* of each object, as in GpuObjects                      *)
  bound,          (* CommandListVK::draw of each slot's list               *)
  fresh,          (* history: what was bound to the list in this frame     *)
  pDraws,         (* the draws collected since the last EndFrame           *)
  staged,         (* mStagingBuffer of each buffer                         *)
  stuck           (* history: a frame failed to signal what it reset       *)

frames  == <<currentFrame, imageIndex, began>>
sync    == <<fence, available, rendered, queue>>
chain   == <<images, nextImage, surface>>
drawing == <<bound, fresh, pDraws, staged>>
vars    == <<pc, frames, sync, chain, stage, drawing, stuck>>

Slots   == 0..N-1
Objects == Buffers \cup Pipelines \cup Stagings

Init ==
  /\ pc = "idle"
  /\ currentFrame = 0
  /\ imageIndex = 0
  /\ began = FALSE
  /\ fence = [i \in Slots |-> TRUE]
  /\ available = [i \in Slots |-> FALSE]
  /\ rendered = [i \in Slots |-> FALSE]
  /\ queue = <<>>
  /\ images = Slots
  /\ nextImage = 0
  /\ surface = "ok"
  /\ stage = [o \in Objects |-> "none"]
  /\ bound = [i \in Slots |-> [buffer |-> None, pipeline |-> None]]
  /\ fresh = {}
  /\ pDraws = {}
  /\ staged = [b \in Buffers |-> None]
  /\ stuck = FALSE

----------------------------------------------------------------------------
(* The device's queue (external), in order: a frame waits for its image and *)
(* signals its fence, a presentation waits for its frame and gives the      *)
(* image back.                                                              *)

Runnable(item) ==
  CASE item.kind = "frame"   -> available[item.slot]
    [] item.kind = "present" -> rendered[item.slot]
    [] OTHER                 -> TRUE

Execute ==
  /\ queue # <<>> /\ Runnable(Head(queue))
  /\ LET item == Head(queue) IN
       /\ fence' = [fence EXCEPT ![item.slot] = @ \/ item.kind = "frame"]
       /\ available' = [available EXCEPT ![item.slot] = @ /\ item.kind # "frame"]
       /\ rendered' = [rendered EXCEPT ![item.slot] =
                         IF item.kind = "copy" THEN @ ELSE item.kind = "frame"]
       /\ images' = IF item.kind = "present" THEN images \cup {item.image} ELSE images
  /\ queue' = Tail(queue)
  /\ UNCHANGED <<pc, frames, nextImage, surface, stage, drawing, stuck>>

(* The screen (external): a change of the display's mode leaves the swap    *)
(* chain usable or not, and the window's size as it was.                    *)
DisplayChanges ==
  /\ surface = "ok"
  /\ surface' \in {"suboptimal", "outdated"}
  /\ UNCHANGED <<pc, frames, sync, images, nextImage, stage, drawing, stuck>>

----------------------------------------------------------------------------
(* Deferred releases.                                                       *)

Named(draw) == {draw.buffer, draw.pipeline} \ {None}

Drawn == UNION {Named(d) : d \in pDraws}

Uses(q) == UNION {q[i].uses : i \in DOMAIN q}

(* What ClearPendingReleases makes of every object: all that is released    *)
(* is freed, but a pipeline that a pending draw names is skipped, and its   *)
(* entry is cleared with the others.                                        *)
Cleared ==
  [o \in Objects |->
     IF stage[o] # "released" THEN stage[o]
     ELSE IF o \in Pipelines /\ o \in Drawn THEN "leaked"
     ELSE "freed"]

ClearPendingReleases ==
  /\ stage' = Cleared
  /\ staged' = [b \in Buffers |-> None]
  /\ UNCHANGED <<bound, fresh, pDraws>>

----------------------------------------------------------------------------
(* BeginFrame: the wait for the slot's fence, which is then reset; the wait *)
(* for the device; the releases; the image.                                 *)

CallBeginFrame ==
  /\ pc = "idle"
  /\ pc' = "beginFence"
  /\ UNCHANGED <<frames, sync, chain, stage, drawing, stuck>>

BeginFence ==
  /\ pc = "beginFence" /\ fence[currentFrame]
  /\ fence' = [fence EXCEPT ![currentFrame] = FALSE]
  /\ pc' = "beginIdle"
  /\ UNCHANGED <<frames, available, rendered, queue, chain, stage, drawing, stuck>>

\* Mutant: the releases are carried out without waiting for the device.
BeginIdleNoWait ==
  /\ pc = "beginIdle"
  /\ ClearPendingReleases
  /\ pc' = "acquire"
  /\ UNCHANGED <<frames, sync, chain, stuck>>

\* Mutant: the releases wait for the window to close.
BeginIdleKeeps ==
  /\ pc = "beginIdle" /\ queue = <<>>
  /\ pc' = "acquire"
  /\ UNCHANGED <<frames, sync, chain, stage, drawing, stuck>>

BeginIdle ==
  /\ pc = "beginIdle" /\ queue = <<>>
  /\ ClearPendingReleases
  /\ pc' = "acquire"
  /\ UNCHANGED <<frames, sync, chain, stuck>>

(* vkAcquireNextImageKHR gives the next image in turn when it is free.  A   *)
(* result other than VK_SUCCESS ends BeginFrame without beginning the       *)
(* command buffer: with VK_SUBOPTIMAL_KHR the image is acquired all the     *)
(* same, with VK_ERROR_OUT_OF_DATE_KHR nothing is, and the semaphore that   *)
(* EndFrame's submission waits for will not be signalled.                   *)
Acquire ==
  /\ pc = "acquire"
  /\ IF surface = "outdated"
     THEN /\ stuck' = TRUE
          /\ began' = FALSE
          /\ UNCHANGED <<imageIndex, available, images, nextImage>>
     ELSE /\ nextImage \in images
          /\ imageIndex' = nextImage
          /\ images' = images \ {nextImage}
          /\ nextImage' = (nextImage + 1) % N
          /\ available' = [available EXCEPT ![currentFrame] = TRUE]
          /\ began' = (surface = "ok")
          /\ UNCHANGED stuck
  /\ pc' = "open"
  /\ UNCHANGED <<currentFrame, fence, rendered, queue, surface, stage, drawing>>

----------------------------------------------------------------------------
(* What the commands of Submit do with the device while a frame is open.    *)
(* One more submission comes with no frame open: shutdown lets the user's   *)
(* callback record and submits for the last time ("closing").               *)

Item(kind, uses) ==
  [kind |-> kind, slot |-> currentFrame, image |-> imageIndex, uses |-> uses]

Submitting == pc \in {"open", "closing"}

Create(o) ==
  /\ Submitting /\ stage[o] = "none" /\ o \notin Stagings
  /\ stage' = [stage EXCEPT ![o] = "live"]
  /\ UNCHANGED <<pc, frames, sync, chain, drawing, stuck>>

(* CreateBuffer with data that the host cannot write: the copy comes from a *)
(* buffer that is part of the new one and is freed with it.                 *)
CreateFilled(b) ==
  /\ Submitting /\ stage[b] = "none"
  /\ stage' = [stage EXCEPT ![b] = "live"]
  /\ queue' = Append(queue, Item("copy", {b}))
  /\ UNCHANGED <<pc, frames, fence, available, rendered, chain, drawing, stuck>>

(* The commands bind only what exists; a bind that is refused leaves the    *)
(* one before it in place.                                                  *)
Bind(o) ==
  /\ Submitting /\ stage[o] = "live" /\ o \notin Stagings
  /\ bound' = IF o \in Buffers
              THEN [bound EXCEPT ![currentFrame].buffer = o]
              ELSE [bound EXCEPT ![currentFrame].pipeline = o]
  /\ fresh' = (fresh \ (IF o \in Buffers THEN Buffers ELSE Pipelines)) \cup {o}
  /\ UNCHANGED <<pc, frames, sync, chain, stage, pDraws, staged, stuck>>

(* CommandListVK::Draw copies what the list remembers.                      *)
Draw ==
  /\ Submitting
  /\ pDraws' = pDraws \cup
       {[buffer |-> bound[currentFrame].buffer,
         pipeline |-> bound[currentFrame].pipeline,
         fresh |-> fresh \cap Named(bound[currentFrame])]}
  /\ UNCHANGED <<pc, frames, sync, chain, stage, bound, fresh, staged, stuck>>

\* Mutant: what is released is freed at once.
ReleaseNow(o) ==
  /\ Submitting /\ stage[o] = "live"
  /\ stage' = [stage EXCEPT ![o] = "freed"]
  /\ UNCHANGED <<pc, frames, sync, chain, drawing, stuck>>

Release(o) ==
  /\ Submitting /\ stage[o] = "live"
  /\ stage' = [stage EXCEPT ![o] = "released"]
  /\ UNCHANGED <<pc, frames, sync, chain, drawing, stuck>>

(* CopyToBuffer between BeginSingleTimeCommands and EndSingleTimeCommands:  *)
(* a staging buffer is made and its address inside the buffer released at   *)
(* once; the copy goes to the queue with no fence.  A second copy into the  *)
(* same buffer overwrites the address, and the first staging buffer is lost.*)
Upload(b) ==
  /\ Submitting /\ stage[b] = "live" /\ \E s \in Stagings : stage[s] = "none"
  /\ LET s == CHOOSE s \in Stagings : stage[s] = "none" IN
       /\ stage' = [o \in Objects |->
                      CASE o = s         -> "released"
                        [] o = staged[b] -> "leaked"
                        [] OTHER         -> stage[o]]
       /\ staged' = [staged EXCEPT ![b] = s]
       /\ queue' = Append(queue, Item("copy", {b, s}))
  /\ UNCHANGED <<pc, frames, fence, available, rendered, chain, bound, fresh,
                 pDraws, stuck>>

----------------------------------------------------------------------------
(* EndFrame and Present.                                                    *)

Dangling(draw) == \E o \in Named(draw) : stage[o] = "freed"

\* Mutant: the collected draws are not cleared.
EndFrameKeepsDraws ==
  /\ pc = "open" /\ \A d \in pDraws : ~Dangling(d)
  /\ queue' = Append(queue, Item("frame", Drawn))
  /\ pc' = "ended"
  /\ UNCHANGED <<frames, fence, available, rendered, chain, stage, drawing, stuck>>

\* Mutant: a frame with nothing to draw is not submitted.
EndFrameSkips ==
  /\ pc = "open" /\ \A d \in pDraws : ~Dangling(d)
  /\ queue' = IF pDraws = {} THEN queue ELSE Append(queue, Item("frame", Drawn))
  /\ pDraws' = {}
  /\ pc' = "ended"
  /\ UNCHANGED <<frames, fence, available, rendered, chain, stage, bound, fresh,
                 staged, stuck>>

(* Every draw goes into the submission, which waits for the image and       *)
(* signals the slot's semaphore and fence.                                  *)
EndFrame ==
  /\ pc = "open" /\ \A d \in pDraws : ~Dangling(d)
  /\ queue' = Append(queue, Item("frame", Drawn))
  /\ pDraws' = {}
  /\ pc' = "ended"
  /\ UNCHANGED <<frames, fence, available, rendered, chain, stage, bound, fresh,
                 staged, stuck>>

(* A freed pipeline that still reads as null: EndFrame returns from the     *)
(* loop, with the draws kept and nothing submitted.                         *)
EndFrameReturns ==
  /\ pc = "open" /\ \E d \in pDraws : \E p \in Named(d) \cap Pipelines : stage[p] = "freed"
  /\ stuck' = TRUE
  /\ pc' = "ended"
  /\ UNCHANGED <<frames, sync, chain, stage, drawing>>

(* Freed memory that reads as anything else, or commands recorded into a    *)
(* command buffer that was not begun.                                       *)
EndFrameUndefined ==
  /\ pc = "open" /\ (~began \/ \E d \in pDraws : Dangling(d))
  /\ pc' = "undefined"
  /\ UNCHANGED <<frames, sync, chain, stage, drawing, stuck>>

\* Mutant: the frame index is not wrapped.
PresentNoWrap ==
  /\ pc = "ended"
  /\ queue' = Append(queue, Item("present", {}))
  /\ currentFrame' = currentFrame + 1
  /\ began' = FALSE /\ fresh' = {}
  /\ pc' = "idle"
  /\ UNCHANGED <<imageIndex, fence, available, rendered, chain, stage, bound,
                 pDraws, staged, stuck>>

(* Resize(width, height) with the width and height the device has returns   *)
(* at once, so a swap chain that is out of date stays so.                   *)
Present ==
  /\ pc = "ended"
  /\ queue' = Append(queue, Item("present", {}))
  /\ currentFrame' = (currentFrame + 1) % N
  /\ began' = FALSE /\ fresh' = {}
  /\ pc' = "idle"
  /\ UNCHANGED <<imageIndex, fence, available, rendered, chain, stage, bound,
                 pDraws, staged, stuck>>

----------------------------------------------------------------------------
(* WM_SIZE: for a size the device does not have the swap chain is made anew *)
(* once the device is idle, and the frames count from its first image.  For *)
(* any size the window then waits for the slot and the device.              *)

CallResize ==
  /\ pc = "idle"
  /\ pc' \in {"resize", "newFrame"}
  /\ UNCHANGED <<frames, sync, chain, stage, drawing, stuck>>

\* Mutant: the frame index goes on from where it was.
ResizeKeepsFrame ==
  /\ pc = "resize" /\ fence[currentFrame] /\ queue = <<>>
  /\ images' = Slots /\ nextImage' = 0 /\ surface' = "ok"
  /\ pc' = "newFrame"
  /\ UNCHANGED <<frames, sync, stage, drawing, stuck>>

Resize ==
  /\ pc = "resize" /\ fence[currentFrame] /\ queue = <<>>
  /\ images' = Slots
  /\ nextImage' = 0
  /\ surface' = "ok"
  /\ currentFrame' = 0
  /\ pc' = "newFrame"
  /\ UNCHANGED <<imageIndex, began, sync, stage, drawing, stuck>>

WaitForNewFrame ==
  /\ pc = "newFrame" /\ fence[currentFrame] /\ queue = <<>>
  /\ pc' = "idle"
  /\ UNCHANGED <<frames, sync, chain, stage, drawing, stuck>>

----------------------------------------------------------------------------
(* The window's shutdown: the last submission, the wait, the releases, and  *)
(* the device's Shutdown, which waits and releases again.                   *)

Close ==
  /\ pc = "idle"
  /\ pc' = "closing"
  /\ UNCHANGED <<frames, sync, chain, stage, drawing, stuck>>

Closed ==
  /\ pc = "closing"
  /\ pc' = "closeWait"
  /\ UNCHANGED <<frames, sync, chain, stage, drawing, stuck>>

WaitTillImFree ==
  /\ pc = "closeWait" /\ fence[currentFrame] /\ queue = <<>>
  /\ ClearPendingReleases
  /\ pc' = "shutdown"
  /\ UNCHANGED <<frames, sync, chain, stuck>>

Shutdown ==
  /\ pc = "shutdown" /\ queue = <<>>
  /\ ClearPendingReleases
  /\ pc' = "down"
  /\ UNCHANGED <<frames, sync, chain, stuck>>

----------------------------------------------------------------------------
BeginFrame == BeginFence \/ BeginIdle \/ Acquire

Submit ==
  \/ Draw
  \/ \E o \in Objects : Create(o) \/ Bind(o) \/ Release(o)
  \/ \E b \in Buffers : CreateFilled(b) \/ Upload(b)

Next ==
  \/ CallBeginFrame \/ BeginFence \/ BeginIdle \/ Acquire
  \/ Submit
  \/ EndFrame \/ EndFrameReturns \/ EndFrameUndefined \/ Present
  \/ CallResize \/ Resize \/ WaitForNewFrame
  \/ Close \/ Closed \/ WaitTillImFree \/ Shutdown
  \/ Execute \/ DisplayChanges

Spec == Init /\ [][Next]_vars

(* The device works its queue off, and a thread inside BeginFrame runs; that*)
(* the window ever begins or ends a frame is not assumed.                   *)
FairSpec == Spec /\ WF_vars(Execute) /\ WF_vars(BeginFrame)

----------------------------------------------------------------------------
(* The type invariant.                                                      *)
Stages == {"none", "live", "released", "freed", "leaked"}

TypeOK ==
  /\ pc \in {"idle", "beginFence", "beginIdle", "acquire", "open", "ended",
             "resize", "newFrame", "closing", "closeWait", "shutdown", "down",
             "undefined"}
  /\ currentFrame \in Slots /\ imageIndex \in Slots /\ began \in BOOLEAN
  /\ fence \in [Slots -> BOOLEAN]
  /\ available \in [Slots -> BOOLEAN]
  /\ rendered \in [Slots -> BOOLEAN]
  /\ queue \in Seq([kind : {"frame", "copy", "present"}, slot : Slots,
                    image : Slots, uses : SUBSET Objects])
  /\ images \subseteq Slots /\ nextImage \in Slots
  /\ surface \in {"ok", "suboptimal", "outdated"}
  /\ stage \in [Objects -> Stages]
  /\ bound \in [Slots -> [buffer : Buffers \cup {None},
                          pipeline : Pipelines \cup {None}]]
  /\ fresh \subseteq Buffers \cup Pipelines
  /\ pDraws \subseteq [buffer : Buffers \cup {None},
                       pipeline : Pipelines \cup {None},
                       fresh : SUBSET (Buffers \cup Pipelines)]
  /\ staged \in [Buffers -> Stagings \cup {None}]
  /\ stuck \in BOOLEAN

(* The device never works with memory that was freed: whatever a queued     *)
(* copy or frame uses is still there, the staging buffers that CopyToBuffer *)
(* releases at once and the objects a frame drew and then released included.*)
FreedNotInFlight == \A o \in Uses(queue) : stage[o] # "freed"

(* A draw whose bindings were all made in its own frame is always safe for  *)
(* EndFrame, even when the same frame releases what it draws: only a binding*)
(* left in the slot's list by an earlier frame can name a freed object.     *)
DanglingOnlyStale ==
  pc = "open" =>
    \A d \in pDraws : \A o \in Named(d) : stage[o] = "freed" => o \notin d.fresh

(* EndFrame takes the command buffer by imageIndex, and the image, the list *)
(* and the fence by currentFrame: the two agree in every frame that began.  *)
SlotIsImage == pc = "open" /\ began => imageIndex = currentFrame

(* A fence is unsignalled only while the frame that reset it is being       *)
(* recorded or its submission is in the queue, so that every wait for it    *)
(* ends; only a frame that is never submitted or never runs breaks this.    *)
FenceCovered ==
  ~stuck /\ pc # "undefined" =>
    \A i \in Slots : ~fence[i] =>
      \/ pc \in {"beginIdle", "acquire", "open"} /\ i = currentFrame
      \/ \E k \in DOMAIN queue : queue[k].kind = "frame" /\ queue[k].slot = i

(* ClearPendingReleases forgets a released pipeline that a pending draw     *)
(* names.  While the window lives no draw is pending there, so a pipeline is*)
(* lost only when the window closes, not even after a frame was lost.       *)
LeakOnlyAtClose ==
  [][\A p \in Pipelines : stage[p] # "leaked" /\ stage'[p] = "leaked"
       => pc = "closeWait"]_vars

(* BeginFrame returns: the fence, the idle device and the image all come,   *)
(* and what was released before is done with, unless an earlier frame was   *)
(* never submitted or can never run.                                        *)
FrameReturns ==
  pc = "beginFence" ~>
    stuck \/ (pc = "open" /\ \A o \in Objects : stage[o] # "released")

Abstract == INSTANCE GpuObjects WITH inUse <- Uses(queue)

(* The frames in flight keep what a graphics device promises about objects. *)
ImplementsGpuObjects == Abstract!Spec

(* "Recreate swapchain", says Present of a swap chain that is out of date   *)
(* or suboptimal.                                                           *)
RecreatedAfterPresent ==
  [][pc = "ended" /\ pc' = "idle" => surface' = "ok"]_vars

============================================================================
