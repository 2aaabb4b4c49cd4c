------------------------ MODULE VulkanFramesProofs ------------------------
(***************************************************************************)
(* Proofs about VulkanFrames for every number of frames in flight and all  *)
(* sets of objects.                                                        *)
(***************************************************************************)
EXTENDS VulkanFrames, SequenceTheorems, TLAPS

(* The queue holds nothing but copies.                                     *)
Copies == \A k \in DOMAIN queue : queue[k].kind = "copy"

(* The frame that was never submitted, and one that never gets its image,  *)
(* leave an item that can never run in the queue, so the device is never   *)
(* idle again.                                                             *)
Blocked ==
  \E k \in DOMAIN queue :
    \/ queue[k].kind = "frame" /\ ~available[queue[k].slot]
    \/ /\ queue[k].kind = "present" /\ ~rendered[queue[k].slot]
       /\ \A j \in 1..k-1 : queue[j].kind # "frame"

(* A frame that was not submitted is not presented yet.                    *)
Lost == Blocked \/ (pc = "ended" /\ Copies /\ ~rendered[currentFrame])

(* A frame in the queue is followed by its presentation.                   *)
Followed(k) ==
  \/ k = Len(queue) /\ pc = "ended" /\ queue[k].slot = currentFrame
  \/ /\ k < Len(queue)
     /\ queue[k+1].kind = "present" /\ queue[k+1].slot = queue[k].slot

QueueInv ==
  /\ pc = "acquire" => queue = <<>>
  /\ pc = "open" => Copies
  /\ pc \in {"acquire", "open"} => \A i \in Slots : ~rendered[i]
  /\ \A k \in DOMAIN queue : queue[k].kind = "frame" => Followed(k)
  /\ \A i \in Slots : rendered[i] =>
       \/ \E k \in DOMAIN queue : queue[k].kind = "present" /\ queue[k].slot = i
       \/ pc = "ended" /\ i = currentFrame

(* An image that has come is waited for by the frame it came for.          *)
AvailableInv ==
  \A i \in Slots : available[i] =>
    \/ pc \in {"open", "undefined"} /\ i = currentFrame
    \/ \E k \in DOMAIN queue : queue[k].kind = "frame" /\ queue[k].slot = i
    \/ Lost

(* The driver's turn and the device's go together.                         *)
TurnInv ==
  /\ pc \notin {"open", "ended", "undefined"} => nextImage = currentFrame \/ Blocked
  /\ pc = "open" /\ began => imageIndex = currentFrame
  /\ pc = "open" => nextImage = (currentFrame + 1) % N \/ ~available[currentFrame]
  /\ pc = "ended" => nextImage = (currentFrame + 1) % N \/ Lost

(* Draws are collected in a frame and consumed by its end.                 *)
DrawsInv ==
  /\ pc \in {"idle", "beginFence", "beginIdle", "resize", "newFrame"}
       => pDraws = {} \/ Blocked
  /\ pc = "acquire" => pDraws = {}
  /\ pc = "ended" => pDraws = {} \/ Lost

(* What a frame has bound or drawn itself is not freed in it.              *)
FreshInv ==
  /\ pc \in {"idle", "beginFence", "beginIdle", "acquire", "resize", "newFrame"}
       => fresh = {}
  /\ pc = "open" => \A o \in fresh : stage[o] # "freed"
  /\ pc = "open" => \A d \in pDraws : \A o \in d.fresh : stage[o] # "freed"

(* What is bound or drawn was created.                                     *)
BoundInv ==
  /\ \A i \in Slots : \A o \in Named(bound[i]) : stage[o] # "none"
  /\ \A o \in Drawn : stage[o] # "none"

(* A buffer's staging buffer is its own and waits to be released.          *)
StagedInv ==
  \A b \in Buffers : staged[b] # None =>
    /\ stage[staged[b]] = "released"
    /\ \A c \in Buffers : staged[c] = staged[b] => c = b

ReleasedInv == pc \in {"shutdown", "down"} => \A o \in Objects : stage[o] # "released"

IInv ==
  /\ TypeOK /\ QueueInv /\ AvailableInv /\ TurnInv /\ DrawsInv
  /\ FreshInv /\ BoundInv /\ StagedInv /\ ReleasedInv
  /\ FreedNotInFlight /\ FenceCovered

-----------------------------------------------------------------------------
(* What a queue holds after an item is added or taken.                     *)

LEMMA AppendItem ==
  ASSUME NEW S, NEW q \in Seq(S), NEW e \in S
  PROVE  /\ Append(q, e) \in Seq(S)
         /\ Len(Append(q, e)) = Len(q) + 1
         /\ DOMAIN Append(q, e) = 1..Len(q)+1
         /\ DOMAIN q = 1..Len(q) /\ Len(q) \in Nat
         /\ \A k \in DOMAIN q : Append(q, e)[k] = q[k]
         /\ Append(q, e)[Len(q) + 1] = e
  BY AppendProperties, LenProperties

LEMMA TailItem ==
  ASSUME NEW S, NEW q \in Seq(S), q # <<>>
  PROVE  /\ Tail(q) \in Seq(S) /\ Head(q) \in S /\ Head(q) = q[1]
         /\ Len(Tail(q)) = Len(q) - 1
         /\ DOMAIN Tail(q) = 1..Len(q)-1
         /\ DOMAIN q = 1..Len(q) /\ Len(q) \in Nat \ {0}
         /\ \A k \in DOMAIN Tail(q) : k + 1 \in DOMAIN q /\ Tail(q)[k] = q[k+1]
  BY HeadTailProperties, LenProperties, EmptySeq

Items == [kind : {"frame", "copy", "present"}, slot : Slots, image : Slots,
          uses : SUBSET Objects]

Draws == [buffer : Buffers \cup {None}, pipeline : Pipelines \cup {None},
          fresh : SUBSET (Buffers \cup Pipelines)]

LEMMA SlotFacts == 0 \in Slots /\ \A i \in Slots : (i + 1) % N \in Slots
  BY DeviceAssumption DEF Slots

LEMMA ItemType ==
  ASSUME TypeOK, NEW kind \in {"frame", "copy", "present"}, NEW uses \in SUBSET Objects
  PROVE  Item(kind, uses) \in Items
  BY DEF TypeOK, Item, Items

LEMMA AppendType ==
  ASSUME TypeOK, NEW kind \in {"frame", "copy", "present"}, NEW uses \in SUBSET Objects
  PROVE  Append(queue, Item(kind, uses)) \in Seq(Items)
  BY ItemType, AppendItem DEF TypeOK, Items

LEMMA DrawnType == TypeOK => Drawn \subseteq Buffers \cup Pipelines
  BY DEF TypeOK, Drawn, Named

(* What Upload does, once its staging buffer has a name.                   *)
Uploaded(b, s) ==
  /\ stage[s] = "none"
  /\ stage' = [o \in Objects |->
                 CASE o = s         -> "released"
                   [] o = staged[b] -> "leaked"
                   [] OTHER         -> stage[o]]
  /\ staged' = [staged EXCEPT ![b] = s]
  /\ queue' = Append(queue, Item("copy", {b, s}))

LEMMA UploadStaging ==
  ASSUME NEW b, Upload(b) PROVE \E s \in Stagings : Uploaded(b, s)
<1> DEFINE s == CHOOSE s \in Stagings : stage[s] = "none"
<1>1. s \in Stagings /\ stage[s] = "none"
  BY DEF Upload
<1>2. Uploaded(b, s)
  BY <1>1 DEF Upload, Uploaded
<1>3. QED
  BY <1>1, <1>2

LEMMA TypeInit == Init => TypeOK
  BY SlotFacts, EmptySeq DEF Init, TypeOK, Stages

LEMMA TypeStep ==
  ASSUME TypeOK, [Next]_vars PROVE TypeOK'
<1> USE SlotFacts, DeviceAssumption DEF TypeOK, Stages, vars, frames, sync, chain, drawing,
    Items, Draws, Objects
<1>1. CASE Execute
  <2>1. /\ Tail(queue) \in Seq(Items) /\ Head(queue) \in Items
    BY <1>1, TailItem DEF Execute
  <2>2. QED
    BY <1>1, <2>1 DEF Execute
<1>2. CASE DisplayChanges
  BY <1>2 DEF DisplayChanges
<1>3. CASE CallBeginFrame \/ BeginFence \/ Acquire
  BY <1>3 DEF CallBeginFrame, BeginFence, Acquire
<1>4. CASE BeginIdle \/ WaitTillImFree \/ Shutdown
  BY <1>4 DEF BeginIdle, WaitTillImFree, Shutdown, ClearPendingReleases, Cleared
<1>5. CASE Draw
  BY <1>5 DEF Draw, Named
<1>6. ASSUME NEW o \in Objects, Create(o) \/ Bind(o) \/ Release(o) PROVE TypeOK'
  <2>1. CASE Create(o) \/ Release(o)
    BY <2>1 DEF Create, Release, Submitting
  <2>2. CASE Bind(o)
    <3>1. bound' \in [Slots -> [buffer : Buffers \cup {None},
                                pipeline : Pipelines \cup {None}]]
      BY <2>2 DEF Bind
    <3>2. fresh' \subseteq Buffers \cup Pipelines
      BY <2>2 DEF Bind
    <3>3. QED
      BY <2>2, <3>1, <3>2 DEF Bind
  <2>3. QED
    BY <1>6, <2>1, <2>2
<1>7. ASSUME NEW b \in Buffers, CreateFilled(b) \/ Upload(b) PROVE TypeOK'
  <2>1. CASE CreateFilled(b)
    BY <2>1, AppendType DEF CreateFilled, Submitting
  <2>2. CASE Upload(b)
    <3>1. PICK s \in Stagings : Uploaded(b, s)
      BY <2>2, UploadStaging
    <3>2. queue' \in Seq(Items)
      BY <3>1, AppendType DEF Uploaded
    <3>3. stage' \in [Objects -> Stages] /\ staged' \in [Buffers -> Stagings \cup {None}]
      BY <3>1 DEF Uploaded
    <3>4. QED
      BY <2>2, <3>2, <3>3 DEF Upload
  <2>3. QED
    BY <1>7, <2>1, <2>2
<1>8. CASE EndFrame \/ EndFrameReturns \/ EndFrameUndefined
  <2>1. CASE EndFrame
    <3>1. queue' \in Seq(Items)
      BY <2>1, AppendType, DrawnType DEF EndFrame
    <3>2. QED
      BY <2>1, <3>1 DEF EndFrame
  <2>2. CASE EndFrameReturns \/ EndFrameUndefined
    BY <2>2 DEF EndFrameReturns, EndFrameUndefined
  <2>3. QED
    BY <1>8, <2>1, <2>2
<1>9. CASE Present
  BY <1>9, AppendType DEF Present
<1>10. CASE CallResize \/ WaitForNewFrame \/ Resize \/ Close \/ Closed
  BY <1>10 DEF CallResize, WaitForNewFrame, Resize, Close, Closed
<1>11. CASE UNCHANGED vars
  BY <1>11
<1>12. QED
  BY <1>1, <1>2, <1>3, <1>4, <1>5, <1>6, <1>7, <1>8, <1>9, <1>10, <1>11
     DEF Next, Submit

-----------------------------------------------------------------------------
(* How the queue and the semaphores change.                                *)

Submits(kind, uses) ==
  /\ queue' = Append(queue, Item(kind, uses))
  /\ UNCHANGED <<available, rendered>>

Copied ==
  /\ pc \in {"open", "closing"} /\ UNCHANGED <<pc, currentFrame>>
  /\ \E uses \in SUBSET Objects : Submits("copy", uses)

LEMMA QueueChanges ==
  ASSUME TypeOK, [Next]_vars
  PROVE  \/ Execute \/ Acquire \/ Copied
         \/ EndFrame /\ Submits("frame", Drawn)
         \/ Present /\ Submits("present", {})
         \/ UNCHANGED <<queue, available, rendered>>
<1> USE DEF vars, frames, sync, chain, drawing
<1>1. ASSUME NEW b \in Buffers, CreateFilled(b) \/ Upload(b) PROVE Copied
  <2>1. CASE CreateFilled(b)
    <3>1. Submits("copy", {b}) /\ {b} \in SUBSET Objects
      BY <2>1 DEF CreateFilled, Submits, Objects
    <3>2. QED
      BY <2>1, <3>1 DEF CreateFilled, Copied, Submitting
  <2>2. CASE Upload(b)
    <3>1. PICK s \in Stagings : Uploaded(b, s)
      BY <2>2, UploadStaging
    <3>2. Submits("copy", {b, s}) /\ {b, s} \in SUBSET Objects
      BY <2>2, <3>1 DEF Upload, Uploaded, Submits, Objects
    <3>3. QED
      BY <2>2, <3>2 DEF Upload, Copied, Submitting
  <2>3. QED
    BY <1>1, <2>1, <2>2
<1>2. CASE EndFrame
  BY <1>2 DEF EndFrame, Submits
<1>3. CASE Present
  BY <1>3 DEF Present, Submits
<1>4. ASSUME NEW o \in Objects, Create(o) \/ Bind(o) \/ Release(o)
      PROVE UNCHANGED <<queue, available, rendered>>
  BY <1>4 DEF Create, Bind, Release
<1>5. CASE \/ DisplayChanges \/ CallBeginFrame \/ BeginFence \/ BeginIdle \/ Draw
           \/ EndFrameReturns \/ EndFrameUndefined \/ CallResize \/ WaitForNewFrame \/ Resize
           \/ Close \/ Closed \/ WaitTillImFree \/ Shutdown \/ UNCHANGED vars
  BY <1>5 DEF DisplayChanges, CallBeginFrame, BeginFence, BeginIdle, Draw,
     EndFrameReturns, EndFrameUndefined, CallResize, WaitForNewFrame, Resize, Close, Closed,
     WaitTillImFree, Shutdown
<1>6. QED
  BY <1>1, <1>2, <1>3, <1>4, <1>5 DEF Next, Submit

LEMMA QueueFacts ==
  ASSUME TypeOK
  PROVE  /\ DOMAIN queue = 1..Len(queue) /\ Len(queue) \in Nat
         /\ \A k \in DOMAIN queue : queue[k] \in Items
<1>1. queue \in Seq(Items)
  BY DEF TypeOK, Items
<1>2. DOMAIN queue = 1..Len(queue) /\ Len(queue) \in Nat
      /\ queue \in [1..Len(queue) -> Items]
  BY <1>1, LenProperties
<1>3. QED
  BY <1>2

(* What an executed item leaves of the queue.                              *)
LEMMA ExecuteFacts ==
  ASSUME TypeOK, Execute
  PROVE  /\ DOMAIN queue = 1..Len(queue) /\ Len(queue) \in Nat \ {0}
         /\ DOMAIN queue' = 1..Len(queue)-1 /\ Len(queue') = Len(queue) - 1
         /\ \A k \in DOMAIN queue' : k + 1 \in DOMAIN queue /\ queue'[k] = queue[k+1]
         /\ Runnable(queue[1])
         /\ queue[1] \in Items
         /\ \A i \in Slots : available'[i] <=>
              available[i] /\ ~(queue[1].kind = "frame" /\ queue[1].slot = i)
         /\ \A i \in Slots : rendered'[i] <=>
              IF queue[1].slot = i /\ queue[1].kind # "copy"
              THEN queue[1].kind = "frame" ELSE rendered[i]
         /\ \A i \in Slots : fence'[i] <=>
              fence[i] \/ (queue[1].kind = "frame" /\ queue[1].slot = i)
         /\ UNCHANGED <<pc, frames, nextImage, surface, stage, drawing, stuck>>
<1>1. queue \in Seq(Items) /\ queue # <<>> /\ queue' = Tail(queue)
  BY DEF Execute, TypeOK, Items
<1>2. Head(queue) = queue[1] /\ queue[1] \in Items
  BY <1>1, TailItem
<1>3. /\ DOMAIN queue = 1..Len(queue) /\ Len(queue) \in Nat \ {0}
      /\ DOMAIN queue' = 1..Len(queue)-1 /\ Len(queue') = Len(queue) - 1
      /\ \A k \in DOMAIN queue' : k + 1 \in DOMAIN queue /\ queue'[k] = queue[k+1]
  BY <1>1, TailItem
<1>4. /\ available' = [available EXCEPT ![queue[1].slot] = @ /\ queue[1].kind # "frame"]
      /\ rendered' = [rendered EXCEPT ![queue[1].slot] =
                         IF queue[1].kind = "copy" THEN @ ELSE queue[1].kind = "frame"]
      /\ fence' = [fence EXCEPT ![queue[1].slot] = @ \/ queue[1].kind = "frame"]
      /\ Runnable(queue[1])
      /\ UNCHANGED <<pc, frames, nextImage, surface, stage, drawing, stuck>>
  BY <1>2 DEF Execute
<1>5. available \in [Slots -> BOOLEAN] /\ rendered \in [Slots -> BOOLEAN]
      /\ fence \in [Slots -> BOOLEAN] /\ queue[1].slot \in Slots
  BY <1>2 DEF TypeOK, Items
<1>6. QED
  BY <1>2, <1>3, <1>4, <1>5

(* And what a submitted item adds.                                         *)
LEMMA SubmitFacts ==
  ASSUME TypeOK, NEW kind \in {"frame", "copy", "present"},
         NEW uses \in SUBSET Objects, Submits(kind, uses)
  PROVE  /\ DOMAIN queue = 1..Len(queue) /\ Len(queue) \in Nat
         /\ DOMAIN queue' = 1..Len(queue)+1 /\ Len(queue') = Len(queue) + 1
         /\ \A k \in DOMAIN queue : queue'[k] = queue[k]
         /\ queue'[Len(queue)+1].kind = kind
         /\ queue'[Len(queue)+1].slot = currentFrame
         /\ queue'[Len(queue)+1].uses = uses
         /\ UNCHANGED <<available, rendered>>
<1>1. queue \in Seq(Items)
  BY DEF TypeOK, Items
<1>2. Item(kind, uses) \in Items
  BY ItemType
<1>3. /\ Item(kind, uses).kind = kind
      /\ Item(kind, uses).slot = currentFrame
      /\ Item(kind, uses).uses = uses
  BY DEF Item
<1>4. QED
  BY <1>1, <1>2, <1>3, AppendItem DEF Submits

(* A queue with an item that can never run stays so.                       *)
LEMMA BlockedStep ==
  ASSUME TypeOK, QueueInv, Blocked, [Next]_vars PROVE Blocked'
<1>1. PICK k \in DOMAIN queue :
        \/ queue[k].kind = "frame" /\ ~available[queue[k].slot]
        \/ /\ queue[k].kind = "present" /\ ~rendered[queue[k].slot]
           /\ \A j \in 1..k-1 : queue[j].kind # "frame"
  BY DEF Blocked
<1>2. queue[k] \in Items /\ DOMAIN queue = 1..Len(queue) /\ Len(queue) \in Nat
  BY QueueFacts
<1>3. CASE Execute
  <2>1. k # 1
    BY <1>1, <1>2, <1>3, ExecuteFacts DEF Runnable
  <2>2. k - 1 \in DOMAIN queue' /\ queue'[k-1] = queue[k]
    BY <1>2, <1>3, <2>1, ExecuteFacts
  <2>3. CASE queue[k].kind = "frame" /\ ~available[queue[k].slot]
    BY <1>2, <1>3, <2>2, <2>3, ExecuteFacts DEF Blocked, Items
  <2>4. CASE /\ queue[k].kind = "present" /\ ~rendered[queue[k].slot]
             /\ \A j \in 1..k-1 : queue[j].kind # "frame"
    <3>1. \A j \in 1..(k-1)-1 : queue'[j].kind # "frame"
      BY <1>2, <1>3, <2>1, <2>4, ExecuteFacts
    <3>2. ~rendered'[queue[k].slot]
      BY <1>2, <1>3, <2>1, <2>4, ExecuteFacts DEF Items
    <3>3. QED
      BY <2>2, <2>4, <3>1, <3>2 DEF Blocked
  <2>5. QED
    BY <1>1, <2>3, <2>4
<1>4. ASSUME NEW kind \in {"frame", "copy", "present"}, NEW uses \in SUBSET Objects,
             Submits(kind, uses)
      PROVE  Blocked'
  <2>1. k \in DOMAIN queue' /\ queue'[k] = queue[k]
        /\ \A j \in 1..k-1 : queue'[j] = queue[j]
    BY <1>2, <1>4, SubmitFacts
  <2>2. QED
    BY <1>1, <1>4, <2>1, SubmitFacts DEF Blocked
<1>5. ~Acquire
  BY <1>2 DEF QueueInv, Acquire
<1>6. CASE UNCHANGED <<queue, available, rendered>>
  BY <1>6 DEF Blocked
<1>7. QED
  BY <1>3, <1>4, <1>5, <1>6, QueueChanges, DrawnType DEF Copied, Objects

(* From where to where the thread goes by itself.                          *)
Calls == {<<"idle", "beginFence">>, <<"beginFence", "beginIdle">>, <<"idle", "resize">>,
          <<"idle", "newFrame">>, <<"newFrame", "idle">>, <<"idle", "closing">>,
          <<"closing", "closeWait">>}

(* The steps that leave the queue and the semaphores alone, by the place   *)
(* they lead to.                                                           *)
LEMMA QuietSteps ==
  ASSUME TypeOK, [Next]_vars, UNCHANGED <<queue, available, rendered>>
  PROVE  \/ UNCHANGED <<pc, currentFrame>>
         \/ BeginIdle
         \/ Acquire
         \/ EndFrameReturns
         \/ <<pc, pc'>> \in Calls /\ UNCHANGED currentFrame
         \/ EndFrameUndefined
         \/ Resize \/ WaitTillImFree \/ Shutdown
<1> USE DEF vars, frames, sync, chain, drawing
<1>1. CASE Execute
  BY <1>1 DEF Execute
<1>2. CASE EndFrame
  BY <1>2, SubmitFacts, QueueChanges, DrawnType DEF EndFrame, Submits, Objects
<1>3. CASE Present
  BY <1>3, SubmitFacts DEF Present, Submits
<1>4. ASSUME NEW b \in Buffers, CreateFilled(b) \/ Upload(b) PROVE UNCHANGED <<pc, currentFrame>>
  BY <1>4 DEF CreateFilled, Upload
<1>5. ASSUME NEW o \in Objects, Create(o) \/ Bind(o) \/ Release(o)
      PROVE UNCHANGED <<pc, currentFrame>>
  BY <1>5 DEF Create, Bind, Release
<1>6. CASE DisplayChanges \/ Draw \/ UNCHANGED vars
  BY <1>6 DEF DisplayChanges, Draw
<1>7. CASE CallBeginFrame \/ BeginFence \/ CallResize \/ WaitForNewFrame \/ Close \/ Closed
  BY <1>7 DEF CallBeginFrame, BeginFence, CallResize, WaitForNewFrame, Close, Closed, Calls
<1>8. QED
  BY <1>1, <1>2, <1>3, <1>4, <1>5, <1>6, <1>7 DEF Next, Submit

LEMMA QueueStep ==
  ASSUME TypeOK, QueueInv, [Next]_vars PROVE QueueInv'
<1> USE DEF QueueInv, Copies, Followed
<1>0. DOMAIN queue = 1..Len(queue) /\ Len(queue) \in Nat /\ currentFrame \in Slots
      /\ \A k \in DOMAIN queue : queue[k] \in Items
  BY QueueFacts DEF TypeOK
<1>1. CASE Execute
  <2>1. pc' = pc /\ currentFrame' = currentFrame
    BY <1>1, ExecuteFacts DEF frames
  <2>2. pc # "acquire"
    BY <1>1 DEF Execute
  <2>3. pc = "open" => Copies' /\ \A i \in Slots : ~rendered'[i]
    BY <1>1, <2>1, ExecuteFacts
  <2>4. ASSUME NEW k \in DOMAIN queue', queue'[k].kind = "frame"
        PROVE  Followed(k)'
    BY <1>0, <1>1, <2>1, <2>4, ExecuteFacts
  <2>5. ASSUME NEW i \in Slots, rendered'[i]
        PROVE \/ \E k \in DOMAIN queue' : queue'[k].kind = "present" /\ queue'[k].slot = i
              \/ pc = "ended" /\ i = currentFrame
    <3>1. CASE queue[1].kind = "frame" /\ queue[1].slot = i
      <4>1. Followed(1)
        BY <1>0, <1>1, <3>1, ExecuteFacts
      <4>2. CASE 1 < Len(queue)
        <5>1. queue[2].kind = "present" /\ queue[2].slot = i
          BY <3>1, <4>1, <4>2
        <5>2. 1 \in DOMAIN queue' /\ queue'[1] = queue[2]
          BY <1>1, <4>2, ExecuteFacts
        <5>3. QED
          BY <5>1, <5>2
      <4>3. QED
        BY <3>1, <4>1, <4>2
    <3>2. CASE ~(queue[1].kind = "frame" /\ queue[1].slot = i)
      <4>1. rendered[i] /\ ~(queue[1].kind = "present" /\ queue[1].slot = i)
        BY <1>1, <2>5, <3>2, ExecuteFacts DEF Items
      <4>2. CASE \E k \in DOMAIN queue : queue[k].kind = "present" /\ queue[k].slot = i
        <5>1. PICK k \in DOMAIN queue : queue[k].kind = "present" /\ queue[k].slot = i
          BY <4>2
        <5>2. k # 1
          BY <4>1, <5>1
        <5>3. k - 1 \in DOMAIN queue' /\ queue'[k-1] = queue[k]
          BY <1>0, <1>1, <5>2, ExecuteFacts
        <5>4. QED
          BY <5>1, <5>3
      <4>3. QED
        BY <4>1, <4>2
    <3>3. QED
      BY <3>1, <3>2
  <2>6. QED
    BY <2>1, <2>2, <2>3, <2>4, <2>5
<1>2. CASE Copied
  <2>1. PICK uses \in SUBSET Objects : Submits("copy", uses)
    BY <1>2 DEF Copied
  <2>2. pc \in {"open", "closing"} /\ UNCHANGED <<pc, currentFrame>>
    BY <1>2 DEF Copied
  <2>3. \A k \in DOMAIN queue' : queue'[k].kind = "frame" => Followed(k)'
    BY <1>0, <2>1, <2>2, SubmitFacts
  <2>4. \A i \in Slots : rendered'[i] =>
          \E k \in DOMAIN queue' : queue'[k].kind = "present" /\ queue'[k].slot = i
    BY <1>0, <2>1, <2>2, SubmitFacts
  <2>5. pc = "open" => Copies' /\ \A i \in Slots : ~rendered'[i]
    BY <1>0, <2>1, <2>2, SubmitFacts
  <2>6. QED
    BY <2>2, <2>3, <2>4, <2>5
<1>3. CASE EndFrame /\ Submits("frame", Drawn)
  <2>1. pc = "open" /\ pc' = "ended" /\ currentFrame' = currentFrame /\ Drawn \in SUBSET Objects
    BY <1>3, DrawnType DEF EndFrame, frames, Objects
  <2>2. QED
    BY <1>0, <1>3, <2>1, SubmitFacts
<1>4. CASE Present /\ Submits("present", {})
  <2>1. pc = "ended" /\ pc' = "idle"
    BY <1>4 DEF Present
  <2>2. \A k \in DOMAIN queue' : queue'[k].kind = "frame" => Followed(k)'
    BY <1>0, <1>4, <2>1, SubmitFacts
  <2>3. \A i \in Slots : rendered'[i] =>
          \E k \in DOMAIN queue' : queue'[k].kind = "present" /\ queue'[k].slot = i
    BY <1>0, <1>4, <2>1, SubmitFacts
  <2>4. QED
    BY <2>1, <2>2, <2>3
<1>5. CASE Acquire
  <2>1. pc = "acquire" /\ pc' = "open" /\ UNCHANGED <<currentFrame, queue, rendered>>
    BY <1>5 DEF Acquire
  <2>2. QED
    BY <1>0, <2>1
<1>6. CASE UNCHANGED <<queue, available, rendered>>
  <2>1. CASE UNCHANGED <<pc, currentFrame>>
    BY <1>6, <2>1
  <2>2. CASE BeginIdle
    BY <1>0, <1>6, <2>2 DEF BeginIdle, frames
  <2>3. CASE EndFrameReturns
    BY <1>0, <1>6, <2>3 DEF EndFrameReturns, frames
  <2>4. CASE \/ EndFrameUndefined \/ Resize \/ WaitTillImFree \/ Shutdown
             \/ <<pc, pc'>> \in Calls /\ UNCHANGED currentFrame
    BY <1>0, <1>6, <2>4 DEF EndFrameUndefined, Resize, WaitTillImFree, Shutdown, Calls
  <2>5. QED
    BY <1>5, <1>6, <2>1, <2>2, <2>3, <2>4, QuietSteps
<1>7. QED
  BY <1>1, <1>2, <1>3, <1>4, <1>5, <1>6, QueueChanges

(* A frame that was not submitted blocks the queue once it is presented.   *)
LEMMA LostStep ==
  ASSUME TypeOK, QueueInv, Lost, [Next]_vars
  PROVE  Lost' /\ (pc' # "ended" => Blocked')
<1>0. DOMAIN queue = 1..Len(queue) /\ Len(queue) \in Nat /\ currentFrame \in Slots
      /\ \A k \in DOMAIN queue : queue[k] \in Items
  BY QueueFacts DEF TypeOK
<1>1. CASE Blocked
  BY <1>1, BlockedStep DEF Lost
<1>2. CASE pc = "ended" /\ Copies /\ ~rendered[currentFrame]
  <2>1. CASE Execute
    BY <1>0, <1>2, <2>1, ExecuteFacts DEF Lost, Copies, frames
  <2>2. CASE Present /\ Submits("present", {})
    <3>1. Len(queue) + 1 \in DOMAIN queue' /\ ~rendered'[currentFrame]
          /\ queue'[Len(queue)+1].kind = "present"
          /\ queue'[Len(queue)+1].slot = currentFrame
          /\ \A j \in 1..(Len(queue)+1)-1 : queue'[j].kind # "frame"
      BY <1>0, <1>2, <2>2, SubmitFacts DEF Copies
    <3>2. QED
      BY <3>1 DEF Blocked, Lost
  <2>3. CASE UNCHANGED <<queue, available, rendered>>
    <3>1. UNCHANGED <<pc, currentFrame>>
      BY <1>2, <2>3, QuietSteps DEF Calls, BeginIdle, Acquire, EndFrameReturns,
         EndFrameUndefined, Resize, WaitTillImFree, Shutdown
    <3>2. QED
      BY <1>2, <2>3, <3>1 DEF Lost, Copies
  <2>4. QED
    BY <1>2, <2>1, <2>2, <2>3, QueueChanges DEF Acquire, Copied, EndFrame
<1>3. QED
  BY <1>1, <1>2 DEF Lost

LEMMA AvailableStep ==
  ASSUME TypeOK, QueueInv, AvailableInv, [Next]_vars PROVE AvailableInv'
<1>0. DOMAIN queue = 1..Len(queue) /\ Len(queue) \in Nat /\ currentFrame \in Slots
      /\ (\A k \in DOMAIN queue : queue[k] \in Items)
      /\ available \in [Slots -> BOOLEAN]
  BY QueueFacts DEF TypeOK
<1> SUFFICES ASSUME ~Lost, ~Lost', NEW i \in Slots, available'[i]
             PROVE  \/ pc' \in {"open", "undefined"} /\ i = currentFrame'
                    \/ \E k \in DOMAIN queue' : queue'[k].kind = "frame" /\ queue'[k].slot = i
  BY LostStep DEF AvailableInv
<1>1. available[i] =>
        \/ pc \in {"open", "undefined"} /\ i = currentFrame
        \/ \E k \in DOMAIN queue : queue[k].kind = "frame" /\ queue[k].slot = i
  BY DEF AvailableInv
<1>2. CASE Execute
  <2>1. available[i] /\ ~(queue[1].kind = "frame" /\ queue[1].slot = i)
        /\ UNCHANGED <<pc, currentFrame>>
    BY <1>2, ExecuteFacts DEF frames
  <2>2. ASSUME NEW k \in DOMAIN queue, queue[k].kind = "frame", queue[k].slot = i
        PROVE  k - 1 \in DOMAIN queue' /\ queue'[k-1] = queue[k]
    BY <1>0, <1>2, <2>1, <2>2, ExecuteFacts
  <2>3. QED
    BY <1>1, <2>1, <2>2
<1>3. CASE Copied
  BY <1>0, <1>1, <1>3, SubmitFacts DEF Copied
<1>4. CASE EndFrame /\ Submits("frame", Drawn)
  <2>1. pc = "open" /\ Drawn \in SUBSET Objects
    BY <1>4, DrawnType DEF EndFrame, Objects
  <2>2. Len(queue) + 1 \in DOMAIN queue' /\ queue'[Len(queue)+1].kind = "frame"
        /\ queue'[Len(queue)+1].slot = currentFrame
        /\ available[i] /\ \A k \in DOMAIN queue : k \in DOMAIN queue' /\ queue'[k] = queue[k]
    BY <1>0, <1>4, <2>1, SubmitFacts
  <2>3. QED
    BY <1>1, <2>1, <2>2
<1>5. CASE Present /\ Submits("present", {})
  <2>1. pc = "ended"
    BY <1>5 DEF Present
  <2>2. available[i] /\ \A k \in DOMAIN queue : k \in DOMAIN queue' /\ queue'[k] = queue[k]
    BY <1>0, <1>5, SubmitFacts
  <2>3. QED
    BY <1>1, <2>1, <2>2
<1>6. CASE Acquire
  <2>1. queue = <<>> /\ ~available[i] /\ pc' = "open" /\ currentFrame' = currentFrame
    BY <1>0, <1>1, <1>6 DEF Acquire, QueueInv
  <2>2. i = currentFrame
    BY <1>0, <1>6, <2>1 DEF Acquire
  <2>3. QED
    BY <2>1, <2>2
<1>7. CASE UNCHANGED <<queue, available, rendered>>
  <2>1. CASE EndFrameReturns
    BY <1>0, <1>7, <2>1 DEF EndFrameReturns, QueueInv, Lost, Copies, frames
  <2>2. CASE EndFrameUndefined
    BY <1>1, <1>7, <2>2 DEF EndFrameUndefined, frames
  <2>3. CASE UNCHANGED <<pc, currentFrame>>
    BY <1>1, <1>7, <2>3
  <2>4. CASE \/ BeginIdle \/ Resize \/ WaitTillImFree \/ Shutdown
             \/ pc \in {"idle", "beginFence", "closing", "newFrame"}
    BY <1>1, <1>7, <2>4 DEF BeginIdle, Resize, WaitTillImFree, Shutdown
  <2>5. QED
    BY <1>6, <1>7, <2>1, <2>2, <2>3, <2>4, QuietSteps DEF Calls
<1>8. QED
  BY <1>2, <1>3, <1>4, <1>5, <1>6, <1>7, QueueChanges

-----------------------------------------------------------------------------
(* The turn, the draws and the stages, each with the steps that change it. *)

LEMMA FrameChanges ==
  ASSUME [Next]_vars
  PROVE  /\ Acquire \/ Resize \/ UNCHANGED nextImage
         /\ Acquire \/ Resize \/ Present \/ UNCHANGED frames
         /\ Draw \/ EndFrame \/ UNCHANGED pDraws
         /\ Draw \/ Present \/ (\E o \in Objects : Bind(o)) \/ UNCHANGED fresh
         /\ (\E o \in Objects : Bind(o)) \/ UNCHANGED bound
<1> USE DEF vars, frames, sync, chain, drawing
<1>1. CASE Execute \/ DisplayChanges \/ UNCHANGED vars
  BY <1>1 DEF Execute, DisplayChanges
<1>2. CASE CallBeginFrame \/ BeginFence \/ BeginIdle \/ Acquire
  BY <1>2 DEF CallBeginFrame, BeginFence, BeginIdle, Acquire, ClearPendingReleases
<1>3. ASSUME NEW o \in Objects, Create(o) \/ Release(o) PROVE UNCHANGED <<nextImage, frames, drawing>>
  BY <1>3 DEF Create, Release
<1>4. ASSUME NEW o \in Objects, Bind(o) PROVE UNCHANGED <<nextImage, frames, pDraws>>
  BY <1>4 DEF Bind
<1>5. ASSUME NEW b \in Buffers, CreateFilled(b) \/ Upload(b)
      PROVE UNCHANGED <<nextImage, frames, pDraws, fresh, bound>>
  BY <1>5 DEF CreateFilled, Upload
<1>6. CASE Draw
  BY <1>6 DEF Draw
<1>7. CASE EndFrame \/ EndFrameReturns \/ EndFrameUndefined \/ Present
  BY <1>7 DEF EndFrame, EndFrameReturns, EndFrameUndefined, Present
<1>8. CASE CallResize \/ WaitForNewFrame \/ Resize \/ Close \/ Closed
  BY <1>8 DEF CallResize, WaitForNewFrame, Resize, Close, Closed
<1>9. CASE WaitTillImFree \/ Shutdown
  BY <1>9 DEF WaitTillImFree, Shutdown, ClearPendingReleases
<1>10. QED
  BY <1>1, <1>2, <1>3, <1>4, <1>5, <1>6, <1>7, <1>8, <1>9 DEF Next, Submit

LEMMA ControlChanges ==
  ASSUME TypeOK, [Next]_vars
  PROVE  \/ UNCHANGED <<pc, currentFrame>>
         \/ BeginIdle \/ Acquire \/ EndFrame \/ EndFrameReturns \/ EndFrameUndefined
         \/ Present \/ Resize \/ WaitTillImFree \/ Shutdown
         \/ <<pc, pc'>> \in Calls /\ UNCHANGED currentFrame
  BY QueueChanges, QuietSteps, ExecuteFacts DEF Copied, frames

LEMMA TurnStep ==
  ASSUME TypeOK, QueueInv, AvailableInv, TurnInv, [Next]_vars PROVE TurnInv'
<1> USE DEF TurnInv, frames
<1>0. /\ currentFrame \in Slots /\ nextImage \in Slots
      /\ available \in [Slots -> BOOLEAN]
      /\ Blocked => Blocked'
      /\ Lost => Lost' /\ (pc' # "ended" => Blocked')
  BY BlockedStep, LostStep DEF TypeOK
<1>1. CASE Acquire
  <2>1. queue = <<>> /\ ~Blocked /\ ~Lost
    BY <1>1 DEF Acquire, QueueInv, Blocked, Lost
  <2>2. nextImage = currentFrame /\ ~available[currentFrame]
    BY <1>0, <1>1, <2>1 DEF Acquire, AvailableInv
  <2>3. QED
    BY <1>0, <1>1, <2>2 DEF Acquire
<1>2. CASE Resize
  BY <1>2 DEF Resize
<1>3. CASE Present
  <2>1. pc = "ended" /\ pc' = "idle" /\ currentFrame' = (currentFrame + 1) % N
        /\ UNCHANGED nextImage
    BY <1>3 DEF Present, chain
  <2>2. QED
    BY <1>0, <2>1
<1>4. CASE EndFrame
  <2>1. pc = "open" /\ pc' = "ended" /\ UNCHANGED <<frames, nextImage, available>>
        /\ Submits("frame", Drawn) /\ Drawn \in SUBSET Objects
    BY <1>4, DrawnType DEF EndFrame, chain, Submits, Objects
  <2>2. ~available[currentFrame] => Blocked'
    BY <1>0, <2>1, SubmitFacts DEF Blocked
  <2>3. QED
    BY <2>1, <2>2 DEF Lost
<1>5. CASE EndFrameReturns
  <2>1. pc = "open" /\ pc' = "ended" /\ UNCHANGED <<frames, sync, chain>>
    BY <1>5 DEF EndFrameReturns
  <2>2. Lost'
    BY <1>0, <2>1 DEF QueueInv, Lost, Copies, sync
  <2>3. QED
    BY <2>1, <2>2
<1>6. ASSUME ~Acquire, ~Resize, ~Present, ~EndFrame, ~EndFrameReturns PROVE TurnInv'
  <2>1. UNCHANGED <<frames, nextImage>>
    BY <1>6, FrameChanges
  <2>2. pc = "open" /\ available'[currentFrame] => available[currentFrame]
    BY <1>0, <1>6, QueueChanges, ExecuteFacts DEF Copied, Submits
  <2>3. CASE UNCHANGED <<pc, currentFrame>>
    BY <1>0, <2>1, <2>2, <2>3
  <2>4. CASE ~UNCHANGED <<pc, currentFrame>>
    <3>1. pc' \notin {"open", "ended"} /\ (pc' # "undefined" => pc \notin {"open", "ended", "undefined"})
      BY <1>6, <2>4, ControlChanges DEF Calls, BeginIdle, EndFrameUndefined, WaitTillImFree,
         Shutdown
    <3>2. QED
      BY <1>0, <2>1, <3>1
  <2>5. QED
    BY <2>3, <2>4
<1>7. QED
  BY <1>1, <1>2, <1>3, <1>4, <1>5, <1>6

LEMMA DrawsStep ==
  ASSUME TypeOK, QueueInv, DrawsInv, [Next]_vars PROVE DrawsInv'
<1> USE DEF DrawsInv
<1>0. /\ Blocked => Blocked'
      /\ Lost => Lost' /\ (pc' # "ended" => Blocked')
      /\ queue = <<>> => ~Blocked
  BY BlockedStep, LostStep DEF Blocked
<1>1. CASE Draw
  BY <1>1 DEF Draw, Submitting
<1>2. CASE EndFrame
  BY <1>2 DEF EndFrame
<1>3. ASSUME ~Draw, ~EndFrame PROVE DrawsInv'
  <2>1. UNCHANGED pDraws
    BY <1>3, FrameChanges
  <2>2. CASE UNCHANGED <<pc, currentFrame>>
    BY <1>0, <2>1, <2>2
  <2>3. CASE BeginIdle
    BY <1>0, <2>1, <2>3 DEF BeginIdle
  <2>4. CASE EndFrameReturns
    <3>1. Lost'
      BY <2>4 DEF EndFrameReturns, QueueInv, Lost, Copies, sync, frames, TypeOK
    <3>2. QED
      BY <2>4, <3>1 DEF EndFrameReturns
  <2>5. CASE Acquire \/ EndFrameUndefined
    BY <2>5 DEF Acquire, EndFrameUndefined
  <2>6. CASE Present \/ Resize \/ WaitTillImFree \/ Shutdown
    BY <1>0, <2>1, <2>6 DEF Present, Resize, WaitTillImFree, Shutdown
  <2>7. CASE <<pc, pc'>> \in Calls
    BY <1>0, <2>1, <2>7 DEF Calls
  <2>8. QED
    BY <1>3, <2>2, <2>3, <2>4, <2>5, <2>6, <2>7, ControlChanges
<1>4. QED
  BY <1>1, <1>2, <1>3

(* ClearPendingReleases, wherever it is called.                            *)
Clearing ==
  /\ pc \in {"beginIdle", "closeWait", "shutdown"} /\ queue = <<>>
  /\ ClearPendingReleases
  /\ UNCHANGED queue

LEMMA StageChanges ==
  ASSUME [Next]_vars
  PROVE  \/ UNCHANGED <<stage, staged>>
         \/ Clearing
         \/ \E o \in Objects : /\ Submitting /\ pc' = pc /\ UNCHANGED <<staged, fresh, pDraws>>
                               /\ o \notin Stagings /\ stage[o] = "none"
                               /\ stage' = [stage EXCEPT ![o] = "live"]
         \/ \E o \in Objects : /\ Submitting /\ pc' = pc /\ UNCHANGED <<staged, fresh, pDraws>>
                               /\ stage[o] = "live"
                               /\ stage' = [stage EXCEPT ![o] = "released"]
         \/ /\ Submitting /\ pc' = pc /\ UNCHANGED <<fresh, pDraws>>
            /\ \E b \in Buffers, s \in Stagings : Uploaded(b, s) /\ stage[b] = "live"
<1> USE DEF vars, frames, sync, chain, drawing
<1>1. CASE Execute \/ DisplayChanges \/ UNCHANGED vars \/ Draw
  BY <1>1 DEF Execute, DisplayChanges, Draw
<1>2. CASE CallBeginFrame \/ BeginFence \/ Acquire
  BY <1>2 DEF CallBeginFrame, BeginFence, Acquire
<1>3. CASE BeginIdle \/ WaitTillImFree \/ Shutdown
  BY <1>3 DEF BeginIdle, WaitTillImFree, Shutdown, Clearing
<1>4. ASSUME NEW o \in Objects, Bind(o) PROVE UNCHANGED <<stage, staged>>
  BY <1>4 DEF Bind
<1>5. ASSUME NEW o \in Objects, Create(o)
      PROVE  /\ Submitting /\ pc' = pc /\ UNCHANGED <<staged, fresh, pDraws>>
             /\ o \notin Stagings /\ stage[o] = "none"
             /\ stage' = [stage EXCEPT ![o] = "live"]
  BY <1>5 DEF Create
<1>6. ASSUME NEW o \in Objects, Release(o)
      PROVE  /\ Submitting /\ pc' = pc /\ UNCHANGED <<staged, fresh, pDraws>>
             /\ stage[o] = "live"
             /\ stage' = [stage EXCEPT ![o] = "released"]
  BY <1>6 DEF Release
<1>7. ASSUME NEW b \in Buffers, CreateFilled(b)
      PROVE  /\ Submitting /\ pc' = pc /\ UNCHANGED <<staged, fresh, pDraws>>
             /\ b \in Objects /\ b \notin Stagings /\ stage[b] = "none"
             /\ stage' = [stage EXCEPT ![b] = "live"]
  BY <1>7, DeviceAssumption DEF CreateFilled, Objects
<1>8. ASSUME NEW b \in Buffers, Upload(b)
      PROVE  /\ Submitting /\ pc' = pc /\ UNCHANGED <<fresh, pDraws>>
             /\ \E s \in Stagings : Uploaded(b, s) /\ stage[b] = "live"
  BY <1>8, UploadStaging DEF Upload
<1>9. CASE EndFrame \/ EndFrameReturns \/ EndFrameUndefined \/ Present
  BY <1>9 DEF EndFrame, EndFrameReturns, EndFrameUndefined, Present
<1>10. CASE CallResize \/ WaitForNewFrame \/ Resize \/ Close \/ Closed
  BY <1>10 DEF CallResize, WaitForNewFrame, Resize, Close, Closed
<1>11. QED
  BY <1>1, <1>2, <1>3, <1>4, <1>5, <1>6, <1>7, <1>8, <1>9, <1>10 DEF Next, Submit

(* An object moves as GpuObjects lets it, and is freed only when the       *)
(* device is idle.                                                         *)
LEMMA StageMoves ==
  ASSUME TypeOK, StagedInv, [Next]_vars, NEW o \in Objects, stage'[o] # stage[o]
  PROVE  /\ <<stage[o], stage'[o]>> \in Abstract!Moves
         /\ stage'[o] \in {"freed", "leaked"} => Clearing \/ o \in Stagings
         /\ stage'[o] = "freed" => Clearing
<1> USE DEF Abstract!Moves, Stages
<1>0. stage \in [Objects -> Stages]
  BY DEF TypeOK
<1>1. CASE Clearing
  BY <1>0, <1>1 DEF Clearing, ClearPendingReleases, Cleared
<1>2. ASSUME NEW p \in Objects, stage[p] = "none", stage' = [stage EXCEPT ![p] = "live"]
      PROVE  <<stage[o], stage'[o]>> = <<"none", "live">>
  BY <1>0, <1>2
<1>3. ASSUME NEW p \in Objects, stage[p] = "live", stage' = [stage EXCEPT ![p] = "released"]
      PROVE  <<stage[o], stage'[o]>> = <<"live", "released">>
  BY <1>0, <1>3
<1>4. ASSUME NEW b \in Buffers, NEW s \in Stagings, Uploaded(b, s)
      PROVE  \/ <<stage[o], stage'[o]>> = <<"none", "released">>
             \/ <<stage[o], stage'[o]>> = <<"released", "leaked">> /\ o \in Stagings
  <2>1. CASE o = s
    <3>1. s # staged[b]
      BY <1>4, DeviceAssumption DEF Uploaded, StagedInv
    <3>2. QED
      BY <1>0, <1>4, <2>1, <3>1 DEF Uploaded
  <2>2. CASE o # s /\ o = staged[b]
    <3>1. o # None /\ o \in Stagings
      BY <2>2, DeviceAssumption DEF Objects, TypeOK
    <3>2. QED
      BY <1>0, <1>4, <2>2, <3>1 DEF Uploaded, StagedInv
  <2>3. CASE o # s /\ o # staged[b]
    BY <1>0, <1>4, <2>3 DEF Uploaded
  <2>4. QED
    BY <2>1, <2>2, <2>3
<1>5. QED
  BY <1>1, <1>2, <1>3, <1>4, StageChanges

LEMMA StagedStep ==
  ASSUME TypeOK, StagedInv, [Next]_vars PROVE StagedInv'
<1> USE DEF StagedInv
<1>0. stage \in [Objects -> Stages] /\ staged \in [Buffers -> Stagings \cup {None}]
      /\ Stagings \subseteq Objects
  BY DEF TypeOK, Objects
<1>1. CASE Clearing
  BY <1>1 DEF Clearing, ClearPendingReleases
<1>2. ASSUME NEW p \in Objects, stage[p] \in {"none", "live"}, UNCHANGED staged,
             NEW v, stage' = [stage EXCEPT ![p] = v]
      PROVE  StagedInv'
  BY <1>0, <1>2
<1>3. ASSUME NEW b \in Buffers, NEW s \in Stagings, Uploaded(b, s)
      PROVE  StagedInv'
  <2>1. s # None /\ staged'[b] = s /\ \A c \in Buffers \ {b} : staged'[c] = staged[c]
    BY <1>0, <1>3, DeviceAssumption DEF Uploaded
  <2>2. \A c \in Buffers : staged[c] # s
    BY <1>0, <1>3, <2>1 DEF Uploaded
  <2>3. stage'[s] = "released"
    BY <1>0, <1>3, <2>2 DEF Uploaded
  <2>4. \A c \in Buffers \ {b} : staged[c] # None => stage'[staged[c]] = "released"
    BY <1>0, <1>3, <2>2 DEF Uploaded
  <2>5. QED
    BY <1>0, <2>1, <2>2, <2>3, <2>4
<1>4. QED
  BY <1>1, <1>2, <1>3, StageChanges

LEMMA ReleasedStep ==
  ASSUME TypeOK, ReleasedInv, [Next]_vars PROVE ReleasedInv'
<1> USE DEF ReleasedInv
<1>1. CASE WaitTillImFree \/ Shutdown
  BY <1>1 DEF WaitTillImFree, Shutdown, ClearPendingReleases, Cleared
<1>2. CASE ~WaitTillImFree /\ ~Shutdown
  <2>1. pc' \in {"shutdown", "down"} => pc' = pc
    BY <1>2, ControlChanges DEF Calls, BeginIdle, Acquire, EndFrame, EndFrameReturns,
       EndFrameUndefined, Present, Resize
  <2>2. CASE pc' \in {"shutdown", "down"}
    BY <2>1, <2>2, StageChanges DEF Submitting, Clearing, ClearPendingReleases, Cleared
  <2>3. QED
    BY <2>2
<1>3. QED
  BY <1>1, <1>2

(* Draws, bindings and what was bound in a frame.                          *)
LEMMA DrawChanges ==
  ASSUME TypeOK, Draw
  PROVE  /\ \A d \in pDraws' : \/ d \in pDraws
                               \/ /\ Named(d) = Named(bound[currentFrame])
                                  /\ d.fresh = fresh \cap Named(d)
         /\ UNCHANGED <<pc, frames, stage, bound, fresh, staged>>
  BY DEF Draw, Named

LEMMA BindChanges ==
  ASSUME TypeOK, NEW o \in Objects, Bind(o)
  PROVE  /\ o # None
         /\ \A i \in Slots : Named(bound'[i]) \subseteq Named(bound[i]) \cup {o}
         /\ fresh' \subseteq fresh \cup {o}
         /\ stage[o] = "live" /\ Submitting
         /\ UNCHANGED <<pc, stage, pDraws, staged>>
<1>1. o # None
  BY DeviceAssumption DEF Objects
<1>2. ASSUME NEW i \in Slots PROVE Named(bound'[i]) \subseteq Named(bound[i]) \cup {o}
  <2>1. bound[i] = [buffer |-> bound[i].buffer, pipeline |-> bound[i].pipeline]
    BY DEF TypeOK
  <2>2. bound'[i] \in {bound[i], [buffer |-> o, pipeline |-> bound[i].pipeline],
                       [buffer |-> bound[i].buffer, pipeline |-> o]}
    BY <2>1 DEF Bind, TypeOK
  <2>3. QED
    BY <2>2 DEF Named
<1>3. QED
  BY <1>1, <1>2 DEF Bind

LEMMA FreshStep ==
  ASSUME TypeOK, QueueInv, DrawsInv, FreshInv, StagedInv, [Next]_vars PROVE FreshInv'
<1> USE DEF FreshInv
<1>0. /\ fresh \subseteq Objects
      /\ \A d \in pDraws : d.fresh \subseteq Objects
  BY DEF TypeOK, Objects
<1>1. CASE pc' \in {"idle", "beginFence", "beginIdle", "acquire", "resize", "newFrame"}
  <2>1. CASE Present
    BY <1>1, <2>1 DEF Present
  <2>2. CASE ~Present
    <3>1. pc \in {"idle", "beginFence", "beginIdle", "acquire", "resize", "newFrame"}
      BY <1>1, <2>2, ControlChanges DEF Calls, BeginIdle, Acquire, EndFrame, EndFrameReturns,
         EndFrameUndefined, Resize, WaitTillImFree, Shutdown
    <3>2. fresh' = fresh
      BY <2>2, <3>1, FrameChanges, BindChanges DEF Draw, Submitting
    <3>3. QED
      BY <1>1, <3>1, <3>2
  <2>3. QED
    BY <2>1, <2>2
<1>2. CASE pc' = "open"
  <2>1. CASE Acquire
    BY <2>1 DEF Acquire, DrawsInv, drawing
  <2>2. CASE ~Acquire
    <3>1. pc = "open"
      BY <1>2, <2>2, ControlChanges DEF Calls, BeginIdle, EndFrame, EndFrameReturns,
         EndFrameUndefined, Present, Resize, WaitTillImFree, Shutdown
    <3>2. \A o \in Objects : stage'[o] = "freed" => stage[o] = "freed"
      BY <3>1, StageMoves DEF Clearing
    <3>3. CASE Draw
      BY <1>0, <3>1, <3>2, <3>3, DrawChanges
    <3>4. ASSUME NEW o \in Objects, Bind(o) PROVE FreshInv'
      BY <1>0, <1>2, <3>1, <3>2, <3>4, BindChanges
    <3>5. CASE UNCHANGED <<fresh, pDraws>>
      BY <1>0, <1>2, <3>1, <3>2, <3>5
    <3>6. QED
      BY <1>2, <3>1, <3>3, <3>4, <3>5, FrameChanges DEF Present, EndFrame
  <2>3. QED
    BY <2>1, <2>2
<1>3. QED
  BY <1>1, <1>2

LEMMA BoundStep ==
  ASSUME TypeOK, BoundInv, StagedInv, [Next]_vars PROVE BoundInv'
<1> USE DEF BoundInv
<1>0. /\ \A i \in Slots : Named(bound[i]) \subseteq Objects
      /\ Drawn \subseteq Objects /\ currentFrame \in Slots
  BY DrawnType DEF TypeOK, Objects, Named
<1>1. \A o \in Objects : stage'[o] = "none" => stage[o] = "none"
  BY StageMoves DEF Abstract!Moves
<1>2. \A i \in Slots : \A o \in Named(bound'[i]) : stage'[o] # "none"
  BY <1>0, <1>1, FrameChanges, BindChanges
<1>3. \A o \in Drawn' : stage'[o] # "none"
  <2>1. CASE Draw
    <3>1. Drawn' \subseteq Drawn \cup Named(bound[currentFrame])
      BY <2>1, DrawChanges DEF Drawn
    <3>2. QED
      BY <1>0, <1>1, <3>1
  <2>2. CASE ~Draw
    <3>1. Drawn' \subseteq Drawn
      BY <2>2, FrameChanges DEF EndFrame, Drawn
    <3>2. QED
      BY <1>0, <1>1, <3>1
  <2>3. QED
    BY <2>1, <2>2
<1>4. QED
  BY <1>2, <1>3

-----------------------------------------------------------------------------
(* What the queue uses is there, and every fence will be signalled.        *)

LEMMA UsesOfSubmit ==
  ASSUME TypeOK, NEW kind \in {"frame", "copy", "present"},
         NEW uses \in SUBSET Objects, Submits(kind, uses)
  PROVE  Uses(queue') = Uses(queue) \cup uses
<1>1. \A k \in DOMAIN queue' : k \in DOMAIN queue \/ k = Len(queue) + 1
  BY SubmitFacts
<1>2. \A k \in DOMAIN queue : k \in DOMAIN queue' /\ queue'[k] = queue[k]
  BY SubmitFacts
<1>3. Len(queue) + 1 \in DOMAIN queue' /\ queue'[Len(queue) + 1].uses = uses
  BY SubmitFacts
<1>4. QED
  BY <1>1, <1>2, <1>3 DEF Uses

LEMMA UsesOfExecute ==
  ASSUME TypeOK, Execute PROVE Uses(queue') \subseteq Uses(queue)
<1>1. \A k \in DOMAIN queue' : k + 1 \in DOMAIN queue /\ queue'[k] = queue[k+1]
  BY ExecuteFacts
<1>2. QED
  BY <1>1 DEF Uses

LEMMA UsesType == TypeOK => Uses(queue) \subseteq Objects
  BY QueueFacts DEF Uses, Items

(* What a step adds to the queue's use was created and is not freed.       *)
LEMMA UsesStep ==
  ASSUME TypeOK, BoundInv, StagedInv, [Next]_vars, NEW o \in Uses(queue') \ Uses(queue)
  PROVE  stage'[o] \notin {"none", "freed"}
<1>0. stage \in [Objects -> Stages]
  BY DEF TypeOK
<1>1. ASSUME NEW b \in Buffers, CreateFilled(b) PROVE stage'[o] = "live"
  <2>1. Submits("copy", {b}) /\ {b} \in SUBSET Objects
    BY <1>1 DEF CreateFilled, Submits, Objects
  <2>2. o = b
    BY <2>1, UsesOfSubmit
  <2>3. QED
    BY <1>0, <1>1, <2>2 DEF CreateFilled, Objects
<1>2. ASSUME NEW b \in Buffers, Upload(b) PROVE stage'[o] \in {"live", "released"}
  <2>1. PICK s \in Stagings : Uploaded(b, s)
    BY <1>2, UploadStaging
  <2>2. Submits("copy", {b, s}) /\ {b, s} \in SUBSET Objects
    BY <1>2, <2>1 DEF Upload, Uploaded, Submits, Objects
  <2>3. o \in {b, s}
    BY <2>2, UsesOfSubmit
  <2>4. stage[b] = "live" /\ b \in Objects /\ s \in Objects /\ b # s
    BY <1>2, DeviceAssumption DEF Upload, Objects
  <2>5. stage[s] = "none" /\ b # staged[b] /\ s # staged[b]
    BY <2>1, <2>4, DeviceAssumption DEF Uploaded, TypeOK, StagedInv
  <2>6. stage'[b] = "live"
    BY <1>0, <2>1, <2>4, <2>5 DEF Uploaded
  <2>7. stage'[s] = "released"
    BY <1>0, <2>1, <2>4, <2>5 DEF Uploaded
  <2>8. QED
    BY <2>3, <2>6, <2>7
<1>3. CASE EndFrame
  <2>1. Submits("frame", Drawn) /\ Drawn \in SUBSET Objects /\ stage' = stage
        /\ \A d \in pDraws : \A p \in Named(d) : stage[p] # "freed"
    BY <1>3, DrawnType DEF EndFrame, Submits, Objects, Dangling
  <2>2. o \in Drawn
    BY <2>1, UsesOfSubmit
  <2>3. QED
    BY <2>1, <2>2 DEF BoundInv, Drawn
<1>4. CASE Present
  BY <1>4, UsesOfSubmit DEF Present, Submits
<1>5. CASE Execute
  BY <1>5, UsesOfExecute
<1>6. ASSUME NEW p \in Objects, Create(p) \/ Bind(p) \/ Release(p) PROVE queue' = queue
  BY <1>6 DEF Create, Bind, Release, sync
<1>7. CASE \/ DisplayChanges \/ CallBeginFrame \/ BeginFence \/ BeginIdle \/ Acquire \/ Draw
           \/ EndFrameReturns \/ EndFrameUndefined \/ CallResize \/ WaitForNewFrame \/ Resize
           \/ Close \/ Closed \/ WaitTillImFree \/ Shutdown \/ UNCHANGED vars
  <2>1. queue' = queue
    BY <1>7 DEF DisplayChanges, CallBeginFrame, BeginFence, BeginIdle, Acquire, Draw,
       EndFrameReturns, EndFrameUndefined, CallResize, WaitForNewFrame, Resize, Close, Closed,
       WaitTillImFree, Shutdown, vars, sync
  <2>2. QED
    BY <2>1
<1>8. QED
  BY <1>1, <1>2, <1>3, <1>4, <1>5, <1>6, <1>7 DEF Next, Submit

LEMMA FreedStep ==
  ASSUME TypeOK, BoundInv, StagedInv, FreedNotInFlight, [Next]_vars PROVE FreedNotInFlight'
<1> SUFFICES ASSUME NEW o \in Uses(queue') PROVE stage'[o] # "freed"
  BY DEF FreedNotInFlight
<1>1. CASE o \in Uses(queue)
  <2>1. o \in Objects /\ stage[o] # "freed" /\ queue # <<>>
    BY <1>1, UsesType DEF FreedNotInFlight, Uses
  <2>2. QED
    BY <2>1, StageMoves DEF Clearing
<1>2. CASE o \notin Uses(queue)
  BY <1>2, UsesStep
<1>3. QED
  BY <1>1, <1>2

LEMMA FenceStep ==
  ASSUME TypeOK, FenceCovered, [Next]_vars PROVE FenceCovered'
<1> USE DEF vars, frames, sync, chain, drawing
<1>0. DOMAIN queue = 1..Len(queue) /\ Len(queue) \in Nat /\ currentFrame \in Slots
      /\ fence \in [Slots -> BOOLEAN]
  BY QueueFacts DEF TypeOK
<1> SUFFICES ASSUME ~stuck', pc' # "undefined", NEW i \in Slots, ~fence'[i]
             PROVE  \/ pc' \in {"beginIdle", "acquire", "open"} /\ i = currentFrame'
                    \/ \E k \in DOMAIN queue' : queue'[k].kind = "frame" /\ queue'[k].slot = i
  BY DEF FenceCovered
<1>1. ~stuck /\ pc # "undefined" /\ ~fence[i] =>
        \/ pc \in {"beginIdle", "acquire", "open"} /\ i = currentFrame
        \/ \E k \in DOMAIN queue : queue[k].kind = "frame" /\ queue[k].slot = i
  BY DEF FenceCovered
<1>2. CASE Execute
  <2>1. ~stuck /\ pc # "undefined" /\ ~fence[i] /\ UNCHANGED <<pc, currentFrame>>
        /\ ~(queue[1].kind = "frame" /\ queue[1].slot = i)
    BY <1>2, ExecuteFacts
  <2>2. ASSUME NEW k \in DOMAIN queue, queue[k].kind = "frame", queue[k].slot = i
        PROVE  k - 1 \in DOMAIN queue' /\ queue'[k-1] = queue[k]
    BY <1>0, <1>2, <2>1, <2>2, ExecuteFacts
  <2>3. QED
    BY <1>1, <2>1, <2>2
<1>3. CASE BeginFence
  BY <1>0, <1>1, <1>3 DEF BeginFence
<1>4. CASE EndFrame
  <2>1. /\ pc = "open" /\ UNCHANGED <<frames, fence, stuck>>
        /\ Submits("frame", Drawn) /\ Drawn \in SUBSET Objects
    BY <1>4, DrawnType DEF EndFrame, Submits, Objects
  <2>2. Len(queue) + 1 \in DOMAIN queue' /\ queue'[Len(queue)+1].kind = "frame"
        /\ queue'[Len(queue)+1].slot = currentFrame
        /\ \A k \in DOMAIN queue : k \in DOMAIN queue' /\ queue'[k] = queue[k]
    BY <2>1, SubmitFacts
  <2>3. QED
    BY <1>1, <2>1, <2>2
<1>5. CASE Present
  <2>1. pc = "ended" /\ UNCHANGED <<fence, stuck>> /\ Submits("present", {})
    BY <1>5 DEF Present, Submits
  <2>2. \A k \in DOMAIN queue : k \in DOMAIN queue' /\ queue'[k] = queue[k]
    BY <2>1, SubmitFacts
  <2>3. QED
    BY <1>1, <2>1, <2>2
<1>6. ASSUME NEW b \in Buffers, CreateFilled(b) \/ Upload(b)
      PROVE  \/ pc' \in {"beginIdle", "acquire", "open"} /\ i = currentFrame'
             \/ \E k \in DOMAIN queue' : queue'[k].kind = "frame" /\ queue'[k].slot = i
  <2>1. UNCHANGED <<pc, frames, fence, stuck>>
        /\ \E uses \in SUBSET Objects : Submits("copy", uses)
    <3>1. CASE CreateFilled(b)
      <4>1. UNCHANGED <<pc, frames, fence, stuck>> /\ Submits("copy", {b}) /\ {b} \in SUBSET Objects
        BY <3>1 DEF CreateFilled, Submits, Objects
      <4>2. QED
        BY <4>1
    <3>2. CASE Upload(b)
      <4>1. PICK s \in Stagings : Uploaded(b, s)
        BY <3>2, UploadStaging
      <4>2. /\ UNCHANGED <<pc, frames, fence, stuck>>
            /\ Submits("copy", {b, s}) /\ {b, s} \in SUBSET Objects
        BY <3>2, <4>1 DEF Upload, Uploaded, Submits, Objects
      <4>3. QED
        BY <4>2
    <3>3. QED
      BY <1>6, <3>1, <3>2
  <2>2. \A k \in DOMAIN queue : k \in DOMAIN queue' /\ queue'[k] = queue[k]
    BY <2>1, SubmitFacts
  <2>3. QED
    BY <1>1, <2>1, <2>2
<1>7. ASSUME NEW o \in Objects, Create(o) \/ Bind(o) \/ Release(o)
      PROVE UNCHANGED <<pc, frames, fence, queue, stuck>>
  BY <1>7 DEF Create, Bind, Release
<1>8. CASE DisplayChanges \/ Draw \/ UNCHANGED vars
  BY <1>1, <1>8 DEF DisplayChanges, Draw
<1>9. CASE CallBeginFrame \/ BeginIdle \/ Acquire \/ CallResize \/ WaitForNewFrame \/ Resize
  BY <1>1, <1>9 DEF CallBeginFrame, BeginIdle, Acquire, CallResize, WaitForNewFrame, Resize
<1>10. CASE EndFrameReturns \/ EndFrameUndefined
  BY <1>10 DEF EndFrameReturns, EndFrameUndefined
<1>11. CASE Close \/ Closed \/ WaitTillImFree \/ Shutdown
  BY <1>1, <1>11 DEF Close, Closed, WaitTillImFree, Shutdown
<1>12. QED
  BY <1>1, <1>2, <1>3, <1>4, <1>5, <1>6, <1>7, <1>8, <1>9, <1>10, <1>11 DEF Next, Submit

-----------------------------------------------------------------------------
LEMMA InvInit == Init => IInv
<1> SUFFICES ASSUME Init PROVE IInv
  OBVIOUS
<1>1. queue = <<>> /\ DOMAIN queue = {} /\ pDraws = {} /\ fresh = {} /\ pc = "idle"
  BY DEF Init
<1>2. \A i \in Slots : Named(bound[i]) = {}
  BY DEF Init, Named
<1>3. Drawn = {} /\ Uses(queue) = {}
  BY <1>1 DEF Drawn, Uses
<1>4. QueueInv /\ AvailableInv /\ TurnInv /\ DrawsInv
  BY <1>1 DEF Init, QueueInv, AvailableInv, TurnInv, DrawsInv
<1>5. FreshInv /\ BoundInv /\ StagedInv /\ ReleasedInv
  BY <1>1, <1>2, <1>3 DEF Init, FreshInv, BoundInv, StagedInv, ReleasedInv
<1>6. FreedNotInFlight /\ FenceCovered
  BY <1>3 DEF Init, FreedNotInFlight, FenceCovered
<1>7. QED
  BY <1>4, <1>5, <1>6, TypeInit DEF IInv

LEMMA InvStep ==
  ASSUME IInv, [Next]_vars PROVE IInv'
<1>1. TypeOK' /\ QueueInv' /\ AvailableInv' /\ TurnInv' /\ DrawsInv'
  BY TypeStep, QueueStep, AvailableStep, TurnStep, DrawsStep DEF IInv
<1>2. FreshInv' /\ BoundInv' /\ StagedInv' /\ ReleasedInv'
  BY FreshStep, BoundStep, StagedStep, ReleasedStep DEF IInv
<1>3. FreedNotInFlight' /\ FenceCovered'
  BY FreedStep, FenceStep DEF IInv
<1>4. QED
  BY <1>1, <1>2, <1>3 DEF IInv

LEMMA InvHolds == Spec => []IInv
  BY InvInit, InvStep, PTL DEF Spec

(* Every field of the device is well typed, for any number of frames.      *)
THEOREM VkTypeCorrect == Spec => []TypeOK
<1>1. IInv => TypeOK
  BY DEF IInv
<1>2. QED
  BY <1>1, InvHolds, PTL

(* The GPU never works with memory that ClearPendingReleases freed.        *)
THEOREM VkFreedHolds == Spec => []FreedNotInFlight
<1>1. IInv => FreedNotInFlight
  BY DEF IInv
<1>2. QED
  BY <1>1, InvHolds, PTL

(* EndFrame can meet a freed object only through a binding that an earlier *)
(* frame left in the slot's list.                                          *)
THEOREM VkDanglingHolds == Spec => []DanglingOnlyStale
<1>1. IInv => DanglingOnlyStale
  BY DEF IInv, FreshInv, DanglingOnlyStale
<1>2. QED
  BY <1>1, InvHolds, PTL

(* imageIndex and currentFrame agree in every frame that was begun.        *)
THEOREM VkSlotHolds == Spec => []SlotIsImage
<1>1. IInv => SlotIsImage
  BY DEF IInv, TurnInv, SlotIsImage
<1>2. QED
  BY <1>1, InvHolds, PTL

(* A fence that was reset will be signalled, unless a frame was lost.      *)
THEOREM VkFenceHolds == Spec => []FenceCovered
<1>1. IInv => FenceCovered
  BY DEF IInv
<1>2. QED
  BY <1>1, InvHolds, PTL

(* ClearPendingReleases forgets a pipeline only while the window closes.   *)
THEOREM VkLeakHolds == Spec => LeakOnlyAtClose
<1>1. ASSUME IInv, [Next]_vars, NEW p \in Pipelines, stage[p] # "leaked", stage'[p] = "leaked"
      PROVE  pc = "closeWait"
  <2>1. p \in Objects /\ p \notin Stagings
    BY DeviceAssumption DEF Objects
  <2>2. Clearing
    BY <1>1, <2>1, StageMoves DEF IInv
  <2>3. stage[p] = "released" /\ p \in Drawn
    BY <1>1, <2>1, <2>2 DEF Clearing, ClearPendingReleases, Cleared
  <2>4. pc # "shutdown"
    BY <1>1, <2>1, <2>3 DEF IInv, ReleasedInv
  <2>5. pc # "beginIdle"
    BY <1>1, <2>2, <2>3 DEF IInv, DrawsInv, Clearing, Blocked, Drawn
  <2>6. QED
    BY <2>2, <2>4, <2>5 DEF Clearing
<1>2. IInv /\ [Next]_vars
        => [\A p \in Pipelines : stage[p] # "leaked" /\ stage'[p] = "leaked"
              => pc = "closeWait"]_vars
  BY <1>1
<1>3. QED
  BY <1>2, InvHolds, PTL DEF Spec, LeakOnlyAtClose

(* Every step of the device is a step of GpuObjects or changes none of what *)
(* it sees.                                                                *)
THEOREM VkImplementsHolds == Spec => ImplementsGpuObjects
<1>1. Init => Abstract!Init
  BY DEF Init, Abstract!Init, Uses
<1>2. ASSUME IInv, IInv', [Next]_vars PROVE [Abstract!Next]_<<stage, Uses(queue)>>
  <2>0. TypeOK /\ StagedInv /\ BoundInv /\ FreedNotInFlight
    BY <1>2 DEF IInv
  <2>1. stage' \in [Objects -> Abstract!Stages] /\ Uses(queue') \subseteq Objects
    <3>1. TypeOK'
      BY <1>2 DEF IInv
    <3>2. (Uses(queue) \subseteq Objects)'
      BY <3>1, UsesType, PTL
    <3>3. QED
      BY <3>1, <3>2 DEF TypeOK, Stages, Abstract!Stages
  <2>2. ASSUME NEW o \in Objects, stage'[o] # stage[o]
        PROVE  /\ <<stage[o], stage'[o]>> \in Abstract!Moves
               /\ stage'[o] = "freed" => o \notin Uses(queue)
    <3>1. Clearing => Uses(queue) = {}
      BY DEF Clearing, Uses
    <3>2. QED
      BY <1>2, <2>0, <2>2, <3>1, StageMoves
  <2>3. \A o \in Uses(queue') \ Uses(queue) : stage'[o] \notin {"none", "freed"}
    BY <1>2, <2>0, UsesStep
  <2>4. QED
    BY <2>1, <2>2, <2>3 DEF Abstract!Next
<1>3. QED
  BY <1>1, <1>2, InvHolds, PTL DEF Spec, ImplementsGpuObjects, Abstract!Spec

-----------------------------------------------------------------------------
(* No wait is in vain.                                                     *)

(* An item can run when its turn comes: there is one frame in the queue at *)
(* most, its image has come, and its presentation is behind it.            *)
HasTurn(k) ==
  /\ queue[k].kind = "frame" =>
       /\ available[queue[k].slot]
       /\ \A j \in 1..k-1 : queue[j].kind # "frame"
  /\ queue[k].kind = "present" =>
       /\ \A j \in 1..k-1 : queue[j].kind # "present"
       /\ \/ rendered[queue[k].slot]
          \/ \E j \in 1..k-1 : queue[j].kind = "frame" /\ queue[j].slot = queue[k].slot

RunsInv ==
  ~stuck =>
    /\ \A k \in DOMAIN queue : HasTurn(k)
    /\ pc = "open" => available[currentFrame]
    /\ pc = "ended" =>
         /\ \A k \in DOMAIN queue : queue[k].kind # "present"
         /\ \/ rendered[currentFrame]
            \/ \E k \in DOMAIN queue : queue[k].kind = "frame" /\ queue[k].slot = currentFrame

(* An image that is not free is the frame's, or will be given back.        *)
ImagesInv ==
  ~stuck =>
    \A i \in Slots \ images :
      IF pc \in {"open", "ended", "undefined"} THEN i = imageIndex
      ELSE \E k \in DOMAIN queue : queue[k].kind = "present" /\ queue[k].image = i

(* The calls that wait for the slot's fence.                               *)
FenceWaits == {"beginFence", "resize", "newFrame", "closeWait"}

(* Until a frame is lost the device is never waited for in vain: its queue *)
(* does not stop at an item, the fence that BeginFrame, Resize,            *)
(* WaitForNewFrame or shutdown waits for is signalled when the queue is    *)
(* empty, and the next image is free when it is asked for.                 *)
WaitsCovered ==
  ~stuck =>
    /\ queue # <<>> => Runnable(Head(queue))
    /\ pc \in FenceWaits /\ queue = <<>> => fence[currentFrame]
    /\ pc = "acquire" /\ surface # "outdated" => nextImage \in images

LEMMA ImageChanges ==
  ASSUME [Next]_vars
  PROVE  /\ Execute \/ Acquire \/ Resize \/ UNCHANGED images
         /\ Acquire \/ UNCHANGED imageIndex
         /\ ~stuck' => ~stuck /\ ~EndFrameReturns /\ (Acquire => surface # "outdated")
<1> USE DEF vars, frames, sync, chain, drawing
<1>1. CASE Execute \/ DisplayChanges \/ UNCHANGED vars
  BY <1>1 DEF Execute, DisplayChanges, Acquire, EndFrameReturns
<1>2. CASE CallBeginFrame \/ BeginFence \/ BeginIdle
  BY <1>2 DEF CallBeginFrame, BeginFence, BeginIdle, ClearPendingReleases, Acquire,
     EndFrameReturns
<1>3. CASE Acquire
  BY <1>3 DEF Acquire, EndFrameReturns
<1>4. ASSUME NEW o \in Objects, Create(o) \/ Bind(o) \/ Release(o)
      PROVE  UNCHANGED <<pc, images, imageIndex, stuck>>
  BY <1>4 DEF Create, Bind, Release
<1>5. ASSUME NEW b \in Buffers, CreateFilled(b) \/ Upload(b)
      PROVE  UNCHANGED <<pc, images, imageIndex, stuck>>
  BY <1>5 DEF CreateFilled, Upload
<1>6. CASE Submit
  <2>1. UNCHANGED <<pc, images, imageIndex, stuck>>
    BY <1>4, <1>5, <1>6 DEF Submit, Draw
  <2>2. QED
    BY <2>1 DEF Acquire, EndFrameReturns
<1>7. CASE EndFrame \/ EndFrameUndefined \/ Present
  BY <1>7 DEF EndFrame, EndFrameReturns, EndFrameUndefined, Present, Acquire
<1>8. CASE EndFrameReturns
  BY <1>8 DEF EndFrameReturns
<1>9. CASE CallResize \/ WaitForNewFrame \/ Resize \/ Close \/ Closed
  BY <1>9 DEF CallResize, WaitForNewFrame, Resize, Close, Closed, Acquire, EndFrameReturns
<1>10. CASE WaitTillImFree \/ Shutdown
  BY <1>10 DEF WaitTillImFree, Shutdown, ClearPendingReleases, Acquire, EndFrameReturns
<1>11. QED
  BY <1>1, <1>2, <1>3, <1>6, <1>7, <1>8, <1>9, <1>10 DEF Next

(* An item submitted behind the others takes no turn from them.            *)
LEMMA TurnsKept ==
  ASSUME TypeOK, NEW kind \in {"frame", "copy", "present"}, NEW uses \in SUBSET Objects,
         Submits(kind, uses), NEW k \in DOMAIN queue, HasTurn(k)
  PROVE  k \in DOMAIN queue' /\ queue'[k] = queue[k] /\ HasTurn(k)'
<1>1. /\ DOMAIN queue = 1..Len(queue) /\ DOMAIN queue' = 1..Len(queue)+1
      /\ Len(queue) \in Nat /\ \A j \in DOMAIN queue : queue'[j] = queue[j]
      /\ UNCHANGED <<available, rendered>>
  BY SubmitFacts
<1>2. 1..k-1 \subseteq DOMAIN queue
  BY <1>1
<1>3. QED
  BY <1>1, <1>2 DEF HasTurn

LEMMA RunsStep ==
  ASSUME TypeOK, QueueInv, RunsInv, [Next]_vars PROVE RunsInv'
<1> SUFFICES ASSUME ~stuck' PROVE RunsInv'
  BY DEF RunsInv
<1>0. /\ DOMAIN queue = 1..Len(queue) /\ Len(queue) \in Nat /\ currentFrame \in Slots
      /\ \A k \in DOMAIN queue : queue[k] \in Items
      /\ available \in [Slots -> BOOLEAN] /\ rendered \in [Slots -> BOOLEAN]
  BY QueueFacts DEF TypeOK
<1>1. /\ ~stuck /\ ~EndFrameReturns /\ (Acquire => surface # "outdated")
      /\ \A k \in DOMAIN queue : HasTurn(k)
      /\ pc = "open" => available[currentFrame]
      /\ pc = "ended" =>
           /\ \A k \in DOMAIN queue : queue[k].kind # "present"
           /\ \/ rendered[currentFrame]
              \/ \E k \in DOMAIN queue : queue[k].kind = "frame" /\ queue[k].slot = currentFrame
  BY ImageChanges DEF RunsInv
<1>2. CASE Execute
  <2>0. /\ DOMAIN queue' = 1..Len(queue)-1 /\ Len(queue) \in Nat \ {0}
        /\ \A k \in DOMAIN queue' : k + 1 \in DOMAIN queue /\ queue'[k] = queue[k+1]
        /\ queue[1] \in Items /\ Runnable(queue[1])
        /\ UNCHANGED <<pc, currentFrame>>
    BY <1>2, ExecuteFacts DEF frames
  <2>1. /\ \A i \in Slots : available'[i] <=>
             available[i] /\ ~(queue[1].kind = "frame" /\ queue[1].slot = i)
        /\ \A i \in Slots : rendered'[i] <=>
             IF queue[1].slot = i /\ queue[1].kind # "copy"
             THEN queue[1].kind = "frame" ELSE rendered[i]
    BY <1>2, ExecuteFacts
  <2>2. ASSUME NEW k \in DOMAIN queue' PROVE HasTurn(k)'
    <3>1. /\ k + 1 \in DOMAIN queue /\ HasTurn(k+1) /\ queue'[k] = queue[k+1] /\ k \in Nat
          /\ queue[k+1].slot \in Slots /\ 1 \in 1..k
      BY <1>0, <1>1, <2>0 DEF Items
    <3>2. \A j \in 1..k-1 : j \in DOMAIN queue' /\ j + 1 \in 1..k
      BY <2>0, <3>1
    <3>3. ASSUME queue'[k].kind = "frame"
          PROVE  available'[queue'[k].slot] /\ \A j \in 1..k-1 : queue'[j].kind # "frame"
      <4>1. available[queue[k+1].slot] /\ \A j \in 1..k : queue[j].kind # "frame"
        BY <3>1, <3>3 DEF HasTurn
      <4>2. QED
        BY <2>0, <2>1, <3>1, <3>2, <4>1
    <3>4. ASSUME queue'[k].kind = "present"
          PROVE  /\ \A j \in 1..k-1 : queue'[j].kind # "present"
                 /\ \/ rendered'[queue'[k].slot]
                    \/ \E j \in 1..k-1 : queue'[j].kind = "frame"
                                         /\ queue'[j].slot = queue'[k].slot
      <4>1. /\ \A j \in 1..k : queue[j].kind # "present"
            /\ \/ rendered[queue[k+1].slot]
               \/ \E j \in 1..k : queue[j].kind = "frame" /\ queue[j].slot = queue[k+1].slot
        BY <3>1, <3>4 DEF HasTurn
      <4>2. \A j \in 1..k-1 : queue'[j].kind # "present"
        BY <2>0, <3>2, <4>1
      <4>3. CASE rendered[queue[k+1].slot]
        <5>1. queue[1].kind # "present" /\ queue[1].kind \in {"frame", "copy", "present"}
          BY <2>0, <3>1, <4>1 DEF Items
        <5>2. QED
          BY <2>1, <3>1, <4>2, <4>3, <5>1
      <4>4. ASSUME NEW j \in 1..k, queue[j].kind = "frame", queue[j].slot = queue[k+1].slot
            PROVE  \/ rendered'[queue'[k].slot]
                   \/ \E l \in 1..k-1 : queue'[l].kind = "frame"
                                        /\ queue'[l].slot = queue'[k].slot
        <5>1. CASE j = 1
          BY <2>1, <3>1, <4>4, <5>1
        <5>2. CASE j # 1
          <6>1. j - 1 \in 1..k-1 /\ j - 1 \in DOMAIN queue' /\ (j - 1) + 1 = j
            BY <2>0, <3>1, <5>2
          <6>2. queue'[j-1] = queue[j]
            BY <2>0, <6>1
          <6>3. QED
            BY <3>1, <4>4, <6>1, <6>2
        <5>3. QED
          BY <5>1, <5>2
      <4>5. QED
        BY <4>1, <4>2, <4>3, <4>4
    <3>5. QED
      BY <3>3, <3>4 DEF HasTurn
  <2>3. pc' = "open" => available'[currentFrame']
    <3>1. pc = "open" => queue[1].kind = "copy"
      BY <1>0, <2>0 DEF QueueInv, Copies
    <3>2. QED
      BY <1>0, <1>1, <2>0, <2>1, <3>1
  <2>4. ASSUME pc' = "ended"
        PROVE  /\ \A k \in DOMAIN queue' : queue'[k].kind # "present"
               /\ \/ rendered'[currentFrame']
                  \/ \E k \in DOMAIN queue' : queue'[k].kind = "frame"
                                              /\ queue'[k].slot = currentFrame'
    <3>1. \A k \in DOMAIN queue : queue[k].kind # "present"
      BY <1>1, <2>0, <2>4
    <3>2. queue[1].kind \in {"frame", "copy"}
      BY <1>0, <2>0, <3>1 DEF Items
    <3>3. CASE rendered[currentFrame]
      BY <1>0, <2>0, <2>1, <3>1, <3>2, <3>3
    <3>4. ASSUME NEW k \in DOMAIN queue, queue[k].kind = "frame", queue[k].slot = currentFrame
          PROVE  \/ rendered'[currentFrame']
                 \/ \E l \in DOMAIN queue' : queue'[l].kind = "frame"
                                             /\ queue'[l].slot = currentFrame'
      <4>1. CASE k = 1
        BY <1>0, <2>0, <2>1, <3>4, <4>1
      <4>2. CASE k # 1
        <5>1. k - 1 \in DOMAIN queue' /\ (k - 1) + 1 = k
          BY <1>0, <2>0, <4>2
        <5>2. queue'[k-1] = queue[k]
          BY <2>0, <5>1
        <5>3. QED
          BY <2>0, <3>4, <5>1, <5>2
      <4>3. QED
        BY <4>1, <4>2
    <3>5. QED
      BY <1>1, <2>0, <2>4, <3>1, <3>3, <3>4
  <2>5. QED
    BY <2>2, <2>3, <2>4 DEF RunsInv
<1>3. CASE Acquire
  <2>1. queue = <<>> /\ queue' = queue /\ pc' = "open" /\ currentFrame' = currentFrame
        /\ available' = [available EXCEPT ![currentFrame] = TRUE]
    BY <1>1, <1>3 DEF Acquire, QueueInv
  <2>2. DOMAIN queue' = {} /\ available'[currentFrame']
    BY <1>0, <2>1
  <2>3. QED
    BY <2>1, <2>2 DEF RunsInv
<1>4. CASE Copied
  <2>1. PICK uses \in SUBSET Objects : Submits("copy", uses)
    BY <1>4 DEF Copied
  <2>2. /\ DOMAIN queue' = 1..Len(queue)+1 /\ queue'[Len(queue)+1].kind = "copy"
        /\ UNCHANGED <<available, rendered>> /\ UNCHANGED <<pc, currentFrame>>
        /\ pc # "ended"
    BY <1>4, <2>1, SubmitFacts DEF Copied
  <2>3. \A k \in DOMAIN queue : HasTurn(k)'
    BY <1>1, <2>1, TurnsKept
  <2>4. \A k \in DOMAIN queue' : k \in DOMAIN queue \/ k = Len(queue) + 1
    BY <1>0, <2>2
  <2>5. \A k \in DOMAIN queue' : HasTurn(k)'
    BY <2>2, <2>3, <2>4 DEF HasTurn
  <2>6. QED
    BY <1>1, <2>2, <2>5 DEF RunsInv
<1>5. CASE EndFrame /\ Submits("frame", Drawn)
  <2>0. Drawn \in SUBSET Objects /\ "frame" \in {"frame", "copy", "present"}
    BY DrawnType DEF Objects
  <2>1. /\ DOMAIN queue' = 1..Len(queue)+1 /\ queue'[Len(queue)+1].kind = "frame"
        /\ queue'[Len(queue)+1].slot = currentFrame
        /\ \A k \in DOMAIN queue : queue'[k] = queue[k]
        /\ UNCHANGED <<available, rendered>>
    BY <1>5, <2>0, SubmitFacts
  <2>2. pc = "open" /\ pc' = "ended" /\ currentFrame' = currentFrame
    BY <1>5 DEF EndFrame, frames
  <2>3. \A k \in DOMAIN queue : queue[k].kind = "copy"
    BY <2>2 DEF QueueInv, Copies
  <2>4. \A k \in DOMAIN queue' : k \in DOMAIN queue \/ k = Len(queue) + 1
    BY <1>0, <2>1
  <2>5. \A k \in DOMAIN queue : HasTurn(k)'
    BY <1>1, <1>5, <2>0, TurnsKept
  <2>6. PICK n \in Nat : n = Len(queue) + 1
    BY <1>0
  <2>7. n \in DOMAIN queue' /\ queue'[n].kind = "frame" /\ queue'[n].slot = currentFrame'
        /\ available'[currentFrame'] /\ 1..n-1 = DOMAIN queue
    BY <1>0, <1>1, <2>1, <2>2, <2>6
  <2>8. HasTurn(n)'
    BY <2>1, <2>3, <2>7 DEF HasTurn
  <2>9. \A k \in DOMAIN queue' : HasTurn(k)'
    BY <2>4, <2>5, <2>6, <2>8
  <2>10. \A k \in DOMAIN queue' : queue'[k].kind # "present"
    BY <2>1, <2>3, <2>4
  <2>11. QED
    BY <2>2, <2>7, <2>9, <2>10 DEF RunsInv
<1>6. CASE Present /\ Submits("present", {})
  <2>1. /\ DOMAIN queue' = 1..Len(queue)+1 /\ queue'[Len(queue)+1].kind = "present"
        /\ queue'[Len(queue)+1].slot = currentFrame
        /\ \A k \in DOMAIN queue : queue'[k] = queue[k]
        /\ UNCHANGED <<available, rendered>>
    BY <1>6, SubmitFacts
  <2>2. pc = "ended" /\ pc' = "idle"
    BY <1>6 DEF Present
  <2>3. \A k \in DOMAIN queue' : k \in DOMAIN queue \/ k = Len(queue) + 1
    BY <1>0, <2>1
  <2>4. \A k \in DOMAIN queue : HasTurn(k)'
    BY <1>1, <1>6, TurnsKept
  <2>5. PICK n \in Nat : n = Len(queue) + 1
    BY <1>0
  <2>6. n \in DOMAIN queue' /\ queue'[n].kind = "present" /\ queue'[n].slot = currentFrame
        /\ 1..n-1 = DOMAIN queue
    BY <1>0, <2>1, <2>5
  <2>7. HasTurn(n)'
    BY <1>1, <2>1, <2>2, <2>6 DEF HasTurn
  <2>8. \A k \in DOMAIN queue' : HasTurn(k)'
    BY <2>3, <2>4, <2>5, <2>7
  <2>9. QED
    BY <2>2, <2>8 DEF RunsInv
<1>7. CASE UNCHANGED <<queue, available, rendered>> /\ ~Acquire /\ ~EndFrame /\ ~Present
  <2>1. \A k \in DOMAIN queue' : HasTurn(k)'
    BY <1>1, <1>7 DEF HasTurn
  <2>2. pc' \in {"open", "ended"} => UNCHANGED <<pc, currentFrame>>
    BY <1>1, <1>7, ControlChanges DEF Calls, BeginIdle, EndFrameUndefined, Resize,
       WaitTillImFree, Shutdown
  <2>3. QED
    BY <1>1, <1>7, <2>1, <2>2 DEF RunsInv
<1>8. QED
  BY <1>2, <1>3, <1>4, <1>5, <1>6, <1>7, QueueChanges DEF EndFrame, Present, Submits

LEMMA ImagesStep ==
  ASSUME TypeOK, QueueInv, RunsInv, ImagesInv, [Next]_vars PROVE ImagesInv'
<1> DEFINE Own == {"open", "ended", "undefined"}
<1> SUFFICES ASSUME ~stuck', NEW i \in Slots \ images'
             PROVE  IF pc' \in Own THEN i = imageIndex'
                    ELSE \E k \in DOMAIN queue' : queue'[k].kind = "present"
                                                  /\ queue'[k].image = i
  BY DEF ImagesInv
<1>0. DOMAIN queue = 1..Len(queue) /\ Len(queue) \in Nat
      /\ \A k \in DOMAIN queue : queue[k] \in Items
  BY QueueFacts
<1>1. /\ ~stuck /\ ~EndFrameReturns /\ (Acquire => surface # "outdated")
      /\ i \notin images =>
           IF pc \in Own THEN i = imageIndex
           ELSE \E k \in DOMAIN queue : queue[k].kind = "present" /\ queue[k].image = i
  BY ImageChanges DEF ImagesInv
<1>2. CASE Execute
  <2>1. /\ queue[1] = Head(queue)
        /\ images' = IF queue[1].kind = "present" THEN images \cup {queue[1].image} ELSE images
        /\ UNCHANGED <<pc, imageIndex>>
    <3>1. queue \in Seq(Items) /\ queue # <<>>
      BY <1>2 DEF Execute, TypeOK, Items
    <3>2. queue[1] = Head(queue)
      BY <3>1, TailItem
    <3>3. QED
      BY <1>2, <3>2 DEF Execute, frames
  <2>2. i \notin images
    BY <2>1
  <2>3. CASE pc \in Own
    BY <1>1, <2>1, <2>2, <2>3
  <2>4. CASE pc \notin Own
    <3>1. PICK k \in DOMAIN queue : queue[k].kind = "present" /\ queue[k].image = i
      BY <1>1, <2>2, <2>4
    <3>2. k # 1
      BY <2>1, <3>1
    <3>3. k - 1 \in DOMAIN queue' /\ (k - 1) + 1 = k
      BY <1>0, <1>2, <3>2, ExecuteFacts
    <3>4. queue'[k-1] = queue[k]
      BY <1>2, <3>3, ExecuteFacts
    <3>5. QED
      BY <2>1, <2>4, <3>1, <3>3, <3>4
  <2>5. QED
    BY <2>3, <2>4
<1>3. CASE Acquire
  <2>1. queue = <<>> /\ pc = "acquire" /\ pc' = "open"
        /\ images' = images \ {nextImage} /\ imageIndex' = nextImage
    BY <1>1, <1>3 DEF Acquire, QueueInv
  <2>2. i \in images
    BY <1>0, <1>1, <2>1
  <2>3. QED
    BY <2>1, <2>2
<1>4. CASE Resize
  BY <1>4 DEF Resize
<1>5. ASSUME UNCHANGED <<images, imageIndex>> PROVE i \notin images
  BY <1>5
<1>6. CASE Copied /\ UNCHANGED <<images, imageIndex>>
  <2>1. PICK uses \in SUBSET Objects : Submits("copy", uses)
    BY <1>6 DEF Copied
  <2>2. (\A k \in DOMAIN queue : k \in DOMAIN queue' /\ queue'[k] = queue[k]) /\ pc' = pc
    BY <1>6, <2>1, SubmitFacts DEF Copied
  <2>3. QED
    BY <1>1, <1>5, <1>6, <2>2
<1>7. CASE EndFrame
  <2>1. pc \in Own /\ pc' \in Own /\ UNCHANGED <<images, imageIndex>>
    BY <1>7 DEF EndFrame, frames, chain
  <2>2. QED
    BY <1>1, <1>5, <2>1
<1>8. CASE Present /\ Submits("present", {})
  <2>1. pc = "ended" /\ pc' = "idle" /\ UNCHANGED <<images, imageIndex>>
        /\ queue' = Append(queue, Item("present", {}))
    BY <1>8 DEF Present, chain
  <2>2. queue \in Seq(Items) /\ Item("present", {}) \in Items
        /\ Item("present", {}).kind = "present" /\ Item("present", {}).image = imageIndex
    BY ItemType DEF TypeOK, Items, Item
  <2>3. Len(queue) + 1 \in DOMAIN queue' /\ queue'[Len(queue)+1] = Item("present", {})
    BY <1>0, <2>1, <2>2, AppendItem
  <2>4. i = imageIndex
    BY <1>1, <1>5, <2>1
  <2>5. QED
    BY <2>1, <2>2, <2>3, <2>4
<1>9. CASE /\ UNCHANGED <<queue, available, rendered>> /\ UNCHANGED <<images, imageIndex>>
           /\ ~Acquire /\ ~EndFrame /\ ~Present /\ ~Resize
  <2>1. pc \in Own <=> pc' \in Own
    BY <1>1, <1>9, ControlChanges DEF Calls, BeginIdle, EndFrameUndefined,
       WaitTillImFree, Shutdown
  <2>2. QED
    BY <1>1, <1>5, <1>9, <2>1
<1>10. QED
  BY <1>2, <1>3, <1>4, <1>6, <1>7, <1>8, <1>9, QueueChanges, ImageChanges DEF Present, Submits

(* Until a frame is lost, every wait for the device is for something that  *)
(* comes: it does not stop at an item of its queue, the slot's fence is    *)
(* signalled by then, and the image that BeginFrame asks for is free.      *)
THEOREM VkWaitsHold == Spec => []WaitsCovered
<1>1. Init => RunsInv /\ ImagesInv
  <2>1. Init => queue = <<>> /\ DOMAIN queue = {} /\ pc = "idle" /\ images = Slots
    BY DEF Init
  <2>2. QED
    BY <2>1 DEF RunsInv, ImagesInv
<1>2. IInv /\ RunsInv /\ ImagesInv /\ [Next]_vars => RunsInv' /\ ImagesInv'
  BY RunsStep, ImagesStep DEF IInv
<1>3. ASSUME IInv, RunsInv, ImagesInv PROVE WaitsCovered
  <2> SUFFICES ASSUME ~stuck
               PROVE  /\ queue # <<>> => Runnable(Head(queue))
                      /\ pc \in FenceWaits /\ queue = <<>> => fence[currentFrame]
                      /\ pc = "acquire" /\ surface # "outdated" => nextImage \in images
    BY DEF WaitsCovered
  <2>0. queue \in Seq(Items) /\ currentFrame \in Slots /\ nextImage \in Slots
    BY <1>3 DEF IInv, TypeOK, Items
  <2>1. ASSUME queue # <<>> PROVE Runnable(Head(queue))
    <3>1. Head(queue) = queue[1] /\ 1 \in DOMAIN queue /\ 1..1-1 = {}
      BY <2>0, <2>1, TailItem
    <3>2. HasTurn(1)
      BY <1>3, <3>1 DEF RunsInv
    <3>3. QED
      BY <3>1, <3>2 DEF HasTurn, Runnable
  <2>2. queue = <<>> => DOMAIN queue = {}
    OBVIOUS
  <2>3. pc \in FenceWaits /\ queue = <<>> => fence[currentFrame]
    BY <1>3, <2>0, <2>2 DEF IInv, FenceCovered, FenceWaits
  <2>4. pc = "acquire" => nextImage \in images
    BY <1>3, <2>0, <2>2 DEF IInv, QueueInv, ImagesInv
  <2>5. QED
    BY <2>1, <2>3, <2>4
<1>4. QED
  BY <1>1, <1>2, <1>3, InvHolds, PTL DEF Spec
==============================================================================
