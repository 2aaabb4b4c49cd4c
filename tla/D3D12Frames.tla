---------------------------- MODULE D3D12Frames ----------------------------
(***************************************************************************)
(* The Direct3D 12 device (win32/nGraphics/bnGraphicsD3D12.cpp): the       *)
(* fences the window's thread waits for, all through one auto-reset event; *)
(* the copies collected while a frame is open; the releases put off until  *)
(* the next frame.                                                         *)
(*                                                                         *)
(* A wait is three steps: the queue is told to signal a fence, the event is*)
(* asked for, the event comes.  The queue works beside them.               *)
(***************************************************************************)
EXTENDS Integers, Sequences

CONSTANTS
  Buffers, Pipelines, Uploads, Heaps,  (* the objects the program ever makes *)
  None,                                (* no upload buffer                  *)
  N,                                   (* config.framesInFlight             *)
  MaxValue                             (* bound on the fences' values       *)

ASSUME DeviceAssumption ==
  /\ N \in Nat \ {0} /\ MaxValue \in Nat
  /\ None \notin Buffers \cup Pipelines \cup Uploads \cup Heaps
  /\ Buffers \cap Pipelines = {} /\ Buffers \cap Uploads = {}
  /\ Buffers \cap Heaps = {} /\ Pipelines \cap Uploads = {}
  /\ Pipelines \cap Heaps = {} /\ Uploads \cap Heaps = {}

VARIABLES
  pc,             (* where the window's thread is in the device            *)
  phase,          (* of its wait: "run", "arm" (signal queued) or "wait"   *)
  target,         (* the fence and value of its last wait                  *)
  slot,           (* of the loop over the fences                           *)
  currentFrame,
  backBuffer,     (* the swap chain's current buffer                       *)
  frameDone,
  fenceValues,    (* fenceValues and sFenceValue                           *)
  completed,      (* what each fence has reached                           *)
  event,          (* fenceEvent is set                                     *)
  armed,          (* what the event was asked for, and has not come        *)
  queue,          (* what the device's queue has not done yet              *)
  stage,          (* of each object, as in GpuObjects                      *)
  bound,          (* CommandListD3D12::pDraw of each slot's list           *)
  pDraws,         (* what the draws since the last EndFrame name           *)
  singles,        (* SingleTimeCommandBuffers: what each uses              *)
  upload          (* upload of each buffer                                 *)

frame   == <<currentFrame, backBuffer, frameDone>>
wait    == <<phase, target, slot>>
fences  == <<fenceValues, completed, event, armed, queue>>
drawing == <<bound, pDraws, singles, upload>>
vars    == <<pc, wait, frame, fences, stage, drawing>>

Slots   == 0..N-1
SFence  == N
Objects == Buffers \cup Pipelines \cup Uploads \cup Heaps

Init ==
  /\ pc = "idle" /\ phase = "run"
  /\ target = [fence |-> SFence, value |-> 0]
  /\ slot = 0
  /\ currentFrame = 0 /\ backBuffer = 0
  /\ frameDone \in BOOLEAN      (* the constructor does not set it          *)
  /\ fenceValues = [f \in Slots \cup {SFence} |-> 0]
  /\ completed = [f \in Slots \cup {SFence} |-> 0]
  /\ event = FALSE /\ armed = {}
  /\ queue = <<>>
  /\ stage = [o \in Objects |-> "none"]
  /\ bound = [i \in Slots |-> {}]
  /\ pDraws = {} /\ singles = <<>>
  /\ upload = [b \in Buffers |-> None]

----------------------------------------------------------------------------
(* The device's queue (external), in order.  A fence that reaches a value   *)
(* sets the event of whoever asked for it.                                  *)

Work(uses)       == [kind |-> "work", slot |-> currentFrame, uses |-> uses,
                     fence |-> SFence, value |-> 0]
Shown            == [kind |-> "present", slot |-> currentFrame, uses |-> {},
                     fence |-> SFence, value |-> 0]
Signal(f, v)     == [kind |-> "signal", slot |-> currentFrame, uses |-> {},
                     fence |-> f, value |-> v]

Uses(q) == UNION {q[k].uses : k \in DOMAIN q}

Execute ==
  /\ queue # <<>>
  /\ LET item    == Head(queue)
         reached == {a \in armed : item.kind = "signal" /\ a.fence = item.fence
                                   /\ a.value <= item.value}
     IN /\ completed' = IF item.kind = "signal"
                        THEN [completed EXCEPT ![item.fence] = item.value]
                        ELSE completed
        /\ armed' = armed \ reached
        /\ event' = (event \/ reached # {})
  /\ queue' = Tail(queue)
  /\ UNCHANGED <<pc, wait, frame, fenceValues, stage, drawing>>

----------------------------------------------------------------------------
(* The waits.  Those for sFence ask for the event always, the others only   *)
(* when the value is not reached.                                           *)

Reached == completed[target.fence] >= target.value

(* Queue what the caller gives and then the signal of fence f.              *)
SignalAfter(items, f, v) ==
  /\ queue' = queue \o items \o <<Signal(f, v)>>
  /\ target' = [fence |-> f, value |-> v]
  /\ phase' = "arm"

\* Mutant: the event is asked for in any case, and waited for only when the
\* value is not reached.
ArmAndCheck ==
  /\ phase = "arm"
  /\ event' = (event \/ Reached)
  /\ armed' = IF Reached THEN armed ELSE armed \cup {target}
  /\ phase' = IF Reached THEN "run" ELSE "wait"
  /\ UNCHANGED <<pc, target, slot, frame, fenceValues, completed, queue, stage, drawing>>

Arm ==
  /\ phase = "arm"
  /\ IF target.fence # SFence /\ Reached
     THEN phase' = "run" /\ UNCHANGED <<event, armed>>
     ELSE /\ phase' = "wait"
          /\ event' = (event \/ Reached)
          /\ armed' = IF Reached THEN armed ELSE armed \cup {target}
  /\ UNCHANGED <<pc, target, slot, frame, fenceValues, completed, queue, stage, drawing>>

Awaited ==
  /\ phase = "wait" /\ event
  /\ event' = FALSE
  /\ phase' = "run"
  /\ UNCHANGED <<pc, target, slot, frame, fenceValues, completed, armed, queue,
                 stage, drawing>>

(* BeginFrame, WaitTillImFree and Shutdown go over all the fences of the    *)
(* slots: each is signalled with its next value and waited for.             *)
Looping == pc \in {"begin", "free", "shutdown"}

SignalNext ==
  /\ Looping /\ phase = "run" /\ slot < N
  /\ fenceValues' = [fenceValues EXCEPT ![slot] = @ + 1]
  /\ SignalAfter(<<>>, slot, fenceValues[slot] + 1)
  /\ slot' = slot + 1
  /\ UNCHANGED <<pc, frame, completed, event, armed, stage, drawing>>

AllWaited == phase = "run" /\ slot = N

----------------------------------------------------------------------------
(* Releases, as the Vulkan device does them.                                *)

Drawn == UNION pDraws

ClearPendingReleases ==
  /\ stage' = [o \in Objects |->
                 IF stage[o] # "released" THEN stage[o]
                 ELSE IF o \in Pipelines \cap Drawn THEN "leaked"
                 ELSE "freed"]
  /\ upload' = [b \in Buffers |-> None]
  /\ UNCHANGED <<bound, pDraws, singles>>

CallBeginFrame ==
  /\ pc = "idle" /\ phase = "run"
  /\ \A f \in Slots : fenceValues[f] < MaxValue
  /\ pc' = "begin" /\ slot' = 0
  /\ UNCHANGED <<phase, target, frame, fences, stage, drawing>>

\* Mutant: the releases wait for the window to close.
BeginFrameKeeps ==
  /\ pc = "begin" /\ AllWaited
  /\ frameDone' = FALSE
  /\ pc' = "open"
  /\ UNCHANGED <<wait, currentFrame, backBuffer, fences, stage, drawing>>

BeginFrame ==
  /\ pc = "begin" /\ AllWaited
  /\ ClearPendingReleases
  /\ frameDone' = FALSE
  /\ pc' = "open"
  /\ UNCHANGED <<wait, currentFrame, backBuffer, fences>>

----------------------------------------------------------------------------
(* The commands of Submit, in a frame or for the last time in shutdown.     *)

Submitting == pc \in {"open", "closing"} /\ phase = "run"

Create(o) ==
  /\ Submitting /\ stage[o] = "none" /\ o \in Buffers \cup Pipelines
  /\ stage' = [stage EXCEPT ![o] = "live"]
  /\ UNCHANGED <<pc, wait, frame, fences, drawing>>

(* The slot's list remembers one buffer and one pipeline.                   *)
Bind(o) ==
  /\ Submitting /\ stage[o] = "live" /\ o \in Buffers \cup Pipelines
  /\ bound' = [bound EXCEPT ![currentFrame] =
                 (@ \ (IF o \in Buffers THEN Buffers ELSE Pipelines)) \cup {o}]
  /\ UNCHANGED <<pc, wait, frame, fences, stage, pDraws, singles, upload>>

Draw ==
  /\ Submitting
  /\ pDraws' = pDraws \cup {bound[currentFrame]}
  /\ UNCHANGED <<pc, wait, frame, fences, stage, bound, singles, upload>>

Release(o) ==
  /\ Submitting /\ stage[o] = "live"
  /\ stage' = [stage EXCEPT ![o] = "released"]
  /\ UNCHANGED <<pc, wait, frame, fences, drawing>>

(* EndSingleTimeCommands: a copy made between frames runs at once and is    *)
(* waited for; one made in a frame runs with the frame.                     *)
EndSingleTimeCommands(uses) ==
  IF frameDone
  THEN /\ fenceValues' = [fenceValues EXCEPT ![SFence] = @ + 1]
       /\ SignalAfter(<<Work(uses)>>, SFence, fenceValues[SFence] + 1)
       /\ UNCHANGED singles
  ELSE /\ singles' = Append(singles, uses)
       /\ UNCHANGED <<fenceValues, queue, target, phase>>

(* CreateBuffer with data for the device's memory: an upload buffer is made *)
(* and its address in the new buffer put among the releases.                *)
CreateFilled(b) ==
  /\ Submitting /\ stage[b] = "none" /\ \E u \in Uploads : stage[u] = "none"
  /\ LET u == CHOOSE u \in Uploads : stage[u] = "none" IN
       /\ stage' = [stage EXCEPT ![b] = "live", ![u] = "released"]
       /\ upload' = [upload EXCEPT ![b] = u]
       /\ EndSingleTimeCommands({b, u})
  /\ UNCHANGED <<pc, slot, frame, completed, event, armed, bound, pDraws>>

\* Mutant: the upload buffer is freed with the copy.
CopyToBufferNow(b) ==
  /\ Submitting /\ stage[b] = "live" /\ \E u \in Uploads : stage[u] = "none"
  /\ LET u == CHOOSE u \in Uploads : stage[u] = "none" IN
       /\ stage' = [stage EXCEPT ![u] = "freed"]
       /\ EndSingleTimeCommands({b, u})
  /\ UNCHANGED <<pc, slot, frame, completed, event, armed, bound, pDraws, upload>>

(* CopyToBuffer does the same for a buffer that exists; a second copy       *)
(* overwrites the address of the first one's upload buffer.                 *)
CopyToBuffer(b) ==
  /\ Submitting /\ stage[b] = "live" /\ \E u \in Uploads : stage[u] = "none"
  /\ LET u == CHOOSE u \in Uploads : stage[u] = "none" IN
       /\ stage' = [o \in Objects |->
                      CASE o = u         -> "released"
                        [] o = upload[b] -> "leaked"
                        [] OTHER         -> stage[o]]
       /\ upload' = [upload EXCEPT ![b] = u]
       /\ EndSingleTimeCommands({b, u})
  /\ UNCHANGED <<pc, slot, frame, completed, event, armed, bound, pDraws>>

(* CreateTexture with initial data, in a frame: the heap the data goes      *)
(* through is a local of the call, and the copy runs with the frame.        *)
CreateTexture(h) ==
  /\ pc = "open" /\ phase = "run" /\ stage[h] = "none" /\ h \in Heaps
  /\ stage' = [stage EXCEPT ![h] = "released"]
  /\ EndSingleTimeCommands({h})
  /\ pc' = "texture"
  /\ UNCHANGED <<slot, frame, completed, event, armed, bound, pDraws, upload>>

CreateTextureReturns ==
  /\ pc = "texture" /\ phase = "run"
  /\ stage' = [o \in Objects |->
                 IF o \in Heaps /\ stage[o] = "released" THEN "freed" ELSE stage[o]]
  /\ pc' = "open"
  /\ UNCHANGED <<wait, frame, fences, drawing>>

----------------------------------------------------------------------------
(* EndFrame executes the copies and the draws, and waits for them.          *)

Named == Drawn \cup UNION {singles[k] : k \in DOMAIN singles}

Dangling == \E o \in Named : stage[o] = "freed"

\* Mutant: EndFrame does not wait.
EndFrameNoWait ==
  /\ pc = "open" /\ phase = "run" /\ ~Dangling
  /\ fenceValues' = [fenceValues EXCEPT ![SFence] = @ + 1]
  /\ queue' = queue \o <<Work(Named), Signal(SFence, fenceValues[SFence] + 1)>>
  /\ pDraws' = {}
  /\ pc' = "endFrame"
  /\ UNCHANGED <<wait, frame, completed, event, armed, stage, bound, singles, upload>>

\* Mutant: EndFrame does not signal what it waits for.
EndFrameNoSignal ==
  /\ pc = "open" /\ phase = "run" /\ ~Dangling
  /\ fenceValues' = [fenceValues EXCEPT ![SFence] = @ + 1]
  /\ queue' = Append(queue, Work(Named))
  /\ target' = [fence |-> SFence, value |-> fenceValues[SFence] + 1]
  /\ phase' = "arm"
  /\ pDraws' = {}
  /\ pc' = "endFrame"
  /\ UNCHANGED <<slot, frame, completed, event, armed, stage, bound, singles, upload>>

\* Mutant: the collected draws are not cleared.
EndFrameKeepsDraws ==
  /\ pc = "open" /\ phase = "run" /\ ~Dangling
  /\ fenceValues' = [fenceValues EXCEPT ![SFence] = @ + 1]
  /\ SignalAfter(<<Work(Named)>>, SFence, fenceValues[SFence] + 1)
  /\ pc' = "endFrame"
  /\ UNCHANGED <<slot, frame, completed, event, armed, stage, drawing>>

EndFrame ==
  /\ pc = "open" /\ phase = "run" /\ ~Dangling
  /\ fenceValues' = [fenceValues EXCEPT ![SFence] = @ + 1]
  /\ SignalAfter(<<Work(Named)>>, SFence, fenceValues[SFence] + 1)
  /\ pDraws' = {}
  /\ pc' = "endFrame"
  /\ UNCHANGED <<slot, frame, completed, event, armed, stage, bound, singles, upload>>

(* A draw or a copy that names what was freed: the code, or the device,     *)
(* works with freed memory, and nothing is known of what follows.           *)
EndFrameUndefined ==
  /\ pc = "open" /\ phase = "run" /\ Dangling
  /\ pc' = "undefined"
  /\ UNCHANGED <<wait, frame, fences, stage, drawing>>

EndFrameReturns ==
  /\ pc = "endFrame" /\ phase = "run"
  /\ singles' = <<>>
  /\ frameDone' = TRUE
  /\ pc' = "ended"
  /\ UNCHANGED <<wait, currentFrame, backBuffer, fences, stage, bound, pDraws, upload>>

(* WaitForFence signals the slot's fence with the value it has, not the     *)
(* next one, and counts on afterwards.                                      *)
WaitForFence(items) ==
  /\ SignalAfter(items, currentFrame, fenceValues[currentFrame])
  /\ fenceValues' = [fenceValues EXCEPT ![currentFrame] = @ + 1]

Present ==
  /\ pc = "ended" /\ phase = "run"
  /\ WaitForFence(<<Shown>>)
  /\ backBuffer' = (backBuffer + 1) % N
  /\ pc' = "present"
  /\ UNCHANGED <<slot, currentFrame, frameDone, completed, event, armed, stage, drawing>>

\* Mutant: the frame index is not wrapped.
PresentReturnsNoWrap ==
  /\ pc = "present" /\ phase = "run"
  /\ currentFrame' = currentFrame + 1
  /\ pc' = "idle"
  /\ UNCHANGED <<wait, backBuffer, frameDone, fences, stage, drawing>>

PresentReturns ==
  /\ pc = "present" /\ phase = "run"
  /\ currentFrame' = (currentFrame + 1) % N
  /\ pc' = "idle"
  /\ UNCHANGED <<wait, backBuffer, frameDone, fences, stage, drawing>>

----------------------------------------------------------------------------
(* Resize and the window's shutdown.                                        *)

CallResize ==
  /\ pc = "idle" /\ phase = "run"
  /\ \A f \in Slots : fenceValues[f] < MaxValue
  /\ WaitForFence(<<>>)
  /\ pc' = "resize"
  /\ UNCHANGED <<slot, frame, completed, event, armed, stage, drawing>>

\* Mutant: the frame index goes on from where it was.
ResizeKeepsFrame ==
  /\ pc = "resize" /\ phase = "run"
  /\ backBuffer' = 0
  /\ pc' = "idle"
  /\ UNCHANGED <<wait, currentFrame, frameDone, fences, stage, drawing>>

(* ResizeBuffers starts from buffer 0.                                      *)
Resize ==
  /\ pc = "resize" /\ phase = "run"
  /\ backBuffer' = 0
  /\ currentFrame' = 0
  /\ pc' = "idle"
  /\ UNCHANGED <<wait, frameDone, fences, stage, drawing>>

Close ==
  /\ pc = "idle" /\ phase = "run"
  /\ pc' = "closing"
  /\ UNCHANGED <<wait, frame, fences, stage, drawing>>

Closed ==
  /\ pc = "closing" /\ phase = "run"
  /\ pc' = "free" /\ slot' = 0
  /\ UNCHANGED <<phase, target, frame, fences, stage, drawing>>

WaitTillImFree ==
  /\ pc = "free" /\ AllWaited
  /\ ClearPendingReleases
  /\ pc' = "shutdown" /\ slot' = 0
  /\ UNCHANGED <<phase, target, frame, fences>>

Shutdown ==
  /\ pc = "shutdown" /\ AllWaited
  /\ ClearPendingReleases
  /\ pc' = "down"
  /\ UNCHANGED <<wait, frame, fences>>

----------------------------------------------------------------------------
Submit ==
  \/ Draw
  \/ \E o \in Objects : Create(o) \/ Bind(o) \/ Release(o)
  \/ \E b \in Buffers : CreateFilled(b) \/ CopyToBuffer(b)
  \/ \E h \in Heaps : CreateTexture(h)

(* What the thread does inside a call of the device.                        *)
Device ==
  \/ Arm \/ Awaited \/ SignalNext
  \/ BeginFrame \/ CreateTextureReturns \/ EndFrameReturns \/ PresentReturns
  \/ Resize \/ WaitTillImFree \/ Shutdown

Next ==
  \/ CallBeginFrame \/ Submit \/ EndFrame \/ EndFrameUndefined \/ Present
  \/ CallResize \/ Close \/ Closed
  \/ Device
  \/ Execute

Spec == Init /\ [][Next]_vars

(* The device works its queue off, and a thread inside a call of the device *)
(* runs; that the window ever begins or ends a frame is not assumed.        *)
FairSpec == Spec /\ WF_vars(Execute) /\ WF_vars(Device)

----------------------------------------------------------------------------
(* The type invariant.                                                      *)
Stages == {"none", "live", "released", "freed", "leaked"}

TypeOK ==
  /\ pc \in {"idle", "begin", "open", "texture", "endFrame", "ended", "present",
             "resize", "closing", "free", "shutdown", "down", "undefined"}
  /\ phase \in {"run", "arm", "wait"}
  /\ target \in [fence : Slots \cup {SFence}, value : Nat]
  /\ slot \in 0..N
  /\ currentFrame \in Slots /\ backBuffer \in Slots /\ frameDone \in BOOLEAN
  /\ fenceValues \in [Slots \cup {SFence} -> Nat]
  /\ completed \in [Slots \cup {SFence} -> Nat]
  /\ event \in BOOLEAN
  /\ armed \subseteq [fence : Slots \cup {SFence}, value : Nat]
  /\ queue \in Seq([kind : {"work", "present", "signal"}, slot : Slots,
                    uses : SUBSET Objects, fence : Slots \cup {SFence}, value : Nat])
  /\ stage \in [Objects -> Stages]
  /\ bound \in [Slots -> SUBSET (Buffers \cup Pipelines)]
  /\ pDraws \subseteq SUBSET (Buffers \cup Pipelines)
  /\ singles \in Seq(SUBSET Objects)
  /\ upload \in [Buffers -> Uploads \cup {None}]

(* All waits share one auto-reset event, so an event left over from one wait*)
(* would end another too soon: it is set only while a wait is under way that*)
(* has what it waits for, and asked for only by the wait under way.         *)
EventOfThisWait ==
  /\ event => phase = "wait" /\ Reached
  /\ armed # {} => phase = "wait" /\ armed = {target}

(* The device never works with memory that was freed.                       *)
FreedNotInFlight == \A o \in Uses(queue) : stage[o] # "freed"

(* Resize gives the back buffers up while no frame uses them.  Its own wait *)
(* is for a value that is reached as a rule; EndFrame's wait makes it safe. *)
ResizeAlone ==
  pc = "resize" /\ phase = "run" => \A k \in DOMAIN queue : queue[k].kind # "work"

(* A copy collected in a frame names nothing that is freed before the frame *)
(* is executed: the upload buffers, released at once, are freed only in the *)
(* next frame.  A texture's heap is the exception.                          *)
CollectedCopiesWhole ==
  pc \in {"open", "texture", "endFrame"} =>
    \A k \in DOMAIN singles : \A o \in singles[k] : stage[o] = "freed" => o \in Heaps

(* The frame's list, target and fence are those of the swap chain's buffer. *)
SlotIsBackBuffer == pc = "open" => backBuffer = currentFrame

(* A released pipeline that a pending draw names is forgotten; while the    *)
(* window lives no draw is pending when releases are carried out.           *)
LeakOnlyAtClose ==
  [][\A p \in Pipelines : stage[p] # "leaked" /\ stage'[p] = "leaked" => pc = "free"]_vars

(* Every wait of the thread ends.                                           *)
WaitsEnd == phase = "wait" ~> phase = "run"

(* BeginFrame returns, and what was released before is done with.           *)
FrameReturns ==
  pc = "begin" ~> (pc = "open" /\ \A o \in Objects : stage[o] # "released")

Abstract == INSTANCE GpuObjects WITH inUse <- Uses(queue)

(* The fences keep what a graphics device promises about objects.           *)
ImplementsGpuObjects == Abstract!Spec

(* "Upload initial data if provided", says CreateTexture: the copy that does*)
(* so reads the data from a heap that is still there.                       *)
InitialDataUploaded ==
  pc = "endFrame" \/ pc = "open" =>
    \A k \in DOMAIN singles : \A h \in singles[k] \cap Heaps : stage[h] # "freed"

============================================================================
