------------------------- MODULE D3D12FramesProofs -------------------------
(***************************************************************************)
(* Proofs about D3D12Frames for every number of frames in flight, all sets *)
(* of objects and all bounds of the fences.                                *)
(***************************************************************************)
EXTENDS D3D12Frames, SequenceTheorems, TLAPS

(* The signals in the queue come in the order of their values, behind what *)
(* their fence has reached and not beyond what it was given.               *)
FencesInv ==
  /\ \A f \in DOMAIN completed : completed[f] <= fenceValues[f]
  /\ \A k \in DOMAIN queue : queue[k].kind = "signal" =>
       /\ completed[queue[k].fence] <= queue[k].value
       /\ queue[k].value <= fenceValues[queue[k].fence]
       /\ \A j \in 1..k-1 :
            queue[j].kind = "signal" /\ queue[j].fence = queue[k].fence =>
              queue[j].value <= queue[k].value

(* What the thread waits for is the last thing in the queue, until it is   *)
(* done; then the queue is empty.                                          *)
AwaitedInv ==
  phase # "run" =>
    IF queue = <<>> THEN Reached
    ELSE /\ queue[Len(queue)].kind = "signal"
         /\ queue[Len(queue)].fence = target.fence
         /\ queue[Len(queue)].value = target.value

(* Copies and draws are in the queue only while the thread waits for       *)
(* sFence, whose only signal stands behind them.                           *)
WorkInv ==
  /\ \A k \in DOMAIN queue :
       /\ queue[k].kind # "work" => queue[k].uses = {}
       /\ queue[k].kind = "work" => phase # "run" /\ target.fence = SFence
       /\ queue[k].kind = "signal" /\ queue[k].fence = SFence =>
            phase # "run" /\ target.fence = SFence /\ k = Len(queue)
  /\ phase # "run" /\ target.fence = SFence /\ queue # <<>> => ~Reached

(* The event is asked for once, and what it was asked for comes or came.   *)
EventInv ==
  /\ EventOfThisWait
  /\ event => armed = {}

(* A wait is never lost: the event is set, or it will be by a signal that  *)
(* is in the queue.                                                        *)
WaitNotLost ==
  phase = "wait" =>
    event \/ (/\ armed = {target}
              /\ \E k \in DOMAIN queue :
                   /\ queue[k].kind = "signal" /\ queue[k].fence = target.fence
                   /\ queue[k].value = target.value)

(* Draws and copies are collected in a frame and consumed by its end.      *)
CollectedInv ==
  /\ pc \notin {"open", "texture", "closing", "free", "shutdown", "down", "undefined"} =>
       pDraws = {}
  /\ pc \notin {"open", "texture", "endFrame", "closing", "free", "shutdown", "down",
                "undefined"} => singles = <<>>

(* What is bound, drawn or copied was created.                             *)
BoundInv ==
  /\ \A i \in Slots : \A o \in bound[i] : stage[o] # "none"
  /\ \A o \in Named : stage[o] # "none"

(* A buffer's upload buffer is its own and waits to be released.           *)
UploadInv ==
  \A b \in Buffers : upload[b] # None =>
    /\ stage[upload[b]] = "released"
    /\ \A c \in Buffers : upload[c] = upload[b] => c = b

(* currentFrame follows the swap chain's buffer.                           *)
TurnInv ==
  backBuffer = IF pc = "present" THEN (currentFrame + 1) % N ELSE currentFrame

ReleasedInv == pc \in {"shutdown", "down"} => \A o \in Objects : stage[o] # "released"

IInv ==
  /\ TypeOK /\ FencesInv /\ AwaitedInv /\ WorkInv /\ EventInv /\ WaitNotLost
  /\ CollectedInv /\ BoundInv /\ UploadInv /\ TurnInv /\ ReleasedInv
  /\ FreedNotInFlight /\ CollectedCopiesWhole

-----------------------------------------------------------------------------
(* What a queue holds after items are added or one is taken.               *)

Fences == Slots \cup {SFence}

Items == [kind : {"work", "present", "signal"}, slot : Slots, uses : SUBSET Objects,
          fence : Fences, value : Nat]

LEMMA TailItem ==
  ASSUME NEW S, NEW q \in Seq(S), q # <<>>
  PROVE  /\ Tail(q) \in Seq(S) /\ Head(q) \in S /\ Head(q) = q[1]
         /\ Len(Tail(q)) = Len(q) - 1
         /\ DOMAIN Tail(q) = 1..Len(q)-1
         /\ DOMAIN q = 1..Len(q) /\ Len(q) \in Nat \ {0}
         /\ \A k \in DOMAIN Tail(q) : k + 1 \in DOMAIN q /\ Tail(q)[k] = q[k+1]
  BY HeadTailProperties, LenProperties, EmptySeq

LEMMA JoinedItem ==
  ASSUME NEW S, NEW q \in Seq(S), NEW e \in S
  PROVE  /\ q \o <<>> \o <<e>> \in Seq(S)
         /\ Len(q \o <<>> \o <<e>>) = Len(q) + 1
         /\ \A k \in 1..Len(q) : (q \o <<>> \o <<e>>)[k] = q[k]
         /\ (q \o <<>> \o <<e>>)[Len(q) + 1] = e
<1>1. q \o <<>> = q
  BY ConcatEmptySeq
<1>2. <<e>> \in Seq(S) /\ Len(<<e>>) = 1 /\ <<e>>[1] = e /\ Len(q) \in Nat
  BY LenProperties
<1>3. QED
  BY <1>1, <1>2, ConcatProperties

LEMMA JoinedItems ==
  ASSUME NEW S, NEW q \in Seq(S), NEW d \in S, NEW e \in S
  PROVE  /\ q \o <<d>> \o <<e>> \in Seq(S)
         /\ Len(q \o <<d>> \o <<e>>) = Len(q) + 2
         /\ \A k \in 1..Len(q) : (q \o <<d>> \o <<e>>)[k] = q[k]
         /\ (q \o <<d>> \o <<e>>)[Len(q) + 1] = d
         /\ (q \o <<d>> \o <<e>>)[Len(q) + 2] = e
<1>1. /\ <<d>> \in Seq(S) /\ Len(<<d>>) = 1 /\ <<d>>[1] = d
      /\ <<e>> \in Seq(S) /\ Len(<<e>>) = 1 /\ <<e>>[1] = e /\ Len(q) \in Nat
  BY LenProperties
<1>2. /\ q \o <<d>> \in Seq(S) /\ Len(q \o <<d>>) = Len(q) + 1
      /\ \A k \in 1..Len(q) : (q \o <<d>>)[k] = q[k]
      /\ (q \o <<d>>)[Len(q) + 1] = d
  BY <1>1, ConcatProperties
<1>3. QED
  BY <1>1, <1>2, ConcatProperties

LEMMA SlotFacts == 0 \in Slots /\ SFence \notin Slots /\ \A i \in Slots : (i + 1) % N \in Slots
  BY DeviceAssumption DEF Slots, SFence

LEMMA QueueFacts ==
  ASSUME TypeOK
  PROVE  /\ queue \in Seq(Items)
         /\ DOMAIN queue = 1..Len(queue) /\ Len(queue) \in Nat
         /\ queue = <<>> <=> Len(queue) = 0
         /\ \A k \in DOMAIN queue : queue[k] \in Items
<1>1. queue \in Seq(Items)
  BY DEF TypeOK, Items, Fences
<1>2. DOMAIN queue = 1..Len(queue) /\ Len(queue) \in Nat
      /\ queue \in [1..Len(queue) -> Items]
  BY <1>1, LenProperties
<1>3. queue = <<>> <=> Len(queue) = 0
  BY <1>1, EmptySeq
<1>4. QED
  BY <1>1, <1>2, <1>3

-----------------------------------------------------------------------------
(* How the fences and the queue change.                                    *)

(* The start of a wait: items and a signal are queued.                     *)
Signals(items, f, v) ==
  /\ phase = "run"
  /\ SignalAfter(items, f, v)
  /\ fenceValues' = [fenceValues EXCEPT ![f] = @ + 1]
  /\ UNCHANGED <<completed, event, armed>>

SignalsWork(uses) == Signals(<<Work(uses)>>, SFence, fenceValues[SFence] + 1)

Signalled ==
  \/ \E uses \in SUBSET Objects : SignalsWork(uses)
  \/ \E i \in Slots : Signals(<<>>, i, fenceValues[i] + 1)
  \/ \E i \in Slots : Signals(<<>>, i, fenceValues[i])
  \/ \E i \in Slots : Signals(<<Shown>>, i, fenceValues[i])

(* What the wait for fence f, value v adds to the queue.                   *)
WaitBegins(f, v) ==
  /\ phase = "run" /\ phase' = "arm" /\ target' = [fence |-> f, value |-> v]
  /\ fenceValues' = [fenceValues EXCEPT ![f] = @ + 1]
  /\ fenceValues[f] <= v /\ v <= fenceValues[f] + 1
  /\ f = SFence => v = fenceValues[f] + 1
  /\ UNCHANGED <<completed, event, armed>>
  /\ queue' \in Seq(Items) /\ Len(queue') \in {Len(queue) + 1, Len(queue) + 2}
  /\ \A k \in 1..Len(queue) : queue'[k] = queue[k]
  /\ queue'[Len(queue')] = Signal(f, v)
  /\ \A k \in 1..Len(queue') : Len(queue) < k /\ k < Len(queue') =>
       \/ queue'[k].kind = "present" /\ queue'[k].uses = {}
       \/ queue'[k].kind = "work" /\ f = SFence

LEMMA SignalledBegins ==
  ASSUME TypeOK, Signalled PROVE \E f \in Fences, v \in Nat : WaitBegins(f, v)
<1>0. /\ queue \in Seq(Items) /\ Len(queue) \in Nat /\ SFence \in Fences
      /\ currentFrame \in Slots
      /\ \A i \in Fences : fenceValues[i] \in Nat
      /\ Slots \subseteq Fences /\ SFence \notin Slots
  BY QueueFacts, SlotFacts DEF TypeOK, Fences
<1>1. \A f \in Fences, v \in Nat : Signal(f, v) \in Items
  BY <1>0 DEF Signal, Items
<1>2. ASSUME NEW uses \in SUBSET Objects, SignalsWork(uses)
      PROVE  WaitBegins(SFence, fenceValues[SFence] + 1)
  <2>1. Work(uses) \in Items /\ Work(uses).kind = "work"
    BY <1>0 DEF Work, Items
  <2>2. fenceValues[SFence] + 1 \in Nat /\ Signal(SFence, fenceValues[SFence] + 1) \in Items
    BY <1>0, <1>1
  <2>3. /\ queue' \in Seq(Items)
        /\ Len(queue') = Len(queue) + 2
        /\ \A k \in 1..Len(queue) : queue'[k] = queue[k]
        /\ queue'[Len(queue) + 1] = Work(uses)
        /\ queue'[Len(queue) + 2] = Signal(SFence, fenceValues[SFence] + 1)
    BY <1>0, <1>2, <2>1, <2>2, JoinedItems DEF SignalsWork, Signals, SignalAfter
  <2>4. \A k \in 1..Len(queue') : Len(queue) < k /\ k < Len(queue') => k = Len(queue) + 1
    BY <1>0, <2>3
  <2>5. QED
    BY <1>0, <1>2, <2>1, <2>3, <2>4 DEF SignalsWork, Signals, SignalAfter, WaitBegins
<1>3. ASSUME NEW i \in Slots, NEW v \in {fenceValues[i], fenceValues[i] + 1}, Signals(<<>>, i, v)
      PROVE  WaitBegins(i, v)
  <2>1. v \in Nat /\ Signal(i, v) \in Items /\ i # SFence
    BY <1>0, <1>1
  <2>2. /\ queue' \in Seq(Items)
        /\ Len(queue') = Len(queue) + 1
        /\ \A k \in 1..Len(queue) : queue'[k] = queue[k]
        /\ queue'[Len(queue) + 1] = Signal(i, v)
    BY <1>0, <1>3, <2>1, JoinedItem DEF Signals, SignalAfter
  <2>3. \A k \in 1..Len(queue') : ~(Len(queue) < k /\ k < Len(queue'))
    BY <1>0, <2>2
  <2>4. QED
    BY <1>0, <1>3, <2>1, <2>2, <2>3 DEF Signals, SignalAfter, WaitBegins
<1>4. ASSUME NEW i \in Slots, Signals(<<Shown>>, i, fenceValues[i])
      PROVE  WaitBegins(i, fenceValues[i])
  <2>1. Shown \in Items /\ Shown.kind = "present" /\ Shown.uses = {}
    BY <1>0 DEF Shown, Items
  <2>2. fenceValues[i] \in Nat /\ Signal(i, fenceValues[i]) \in Items /\ i # SFence
    BY <1>0, <1>1
  <2>3. /\ queue' \in Seq(Items)
        /\ Len(queue') = Len(queue) + 2
        /\ \A k \in 1..Len(queue) : queue'[k] = queue[k]
        /\ queue'[Len(queue) + 1] = Shown
        /\ queue'[Len(queue) + 2] = Signal(i, fenceValues[i])
    BY <1>0, <1>4, <2>1, <2>2, JoinedItems DEF Signals, SignalAfter
  <2>4. \A k \in 1..Len(queue') : Len(queue) < k /\ k < Len(queue') => k = Len(queue) + 1
    BY <1>0, <2>3
  <2>5. QED
    BY <1>0, <1>4, <2>1, <2>2, <2>3, <2>4 DEF Signals, SignalAfter, WaitBegins
<1>5. \A i \in Fences : fenceValues[i] \in Nat /\ fenceValues[i] + 1 \in Nat
  BY <1>0
<1>6. QED
  BY <1>0, <1>2, <1>3, <1>4, <1>5 DEF Signalled

(* A copy outside a frame, as CreateFilled and CopyToBuffer make it.       *)
LEMMA SingleSignals ==
  ASSUME NEW uses \in SUBSET Objects, phase = "run", EndSingleTimeCommands(uses),
         UNCHANGED <<completed, event, armed>>
  PROVE  \/ SignalsWork(uses) /\ singles' = singles
         \/ UNCHANGED <<phase, target, fences>> /\ singles' = Append(singles, uses)
  BY DEF EndSingleTimeCommands, SignalsWork, Signals, fences

(* What the calls that copy do, once the upload buffer has a name.         *)
Filled(b, u) ==
  /\ stage[u] = "none"
  /\ stage' = [stage EXCEPT ![b] = "live", ![u] = "released"]
  /\ upload' = [upload EXCEPT ![b] = u]
  /\ EndSingleTimeCommands({b, u})

Copied(b, u) ==
  /\ stage[u] = "none"
  /\ stage' = [o \in Objects |->
                 CASE o = u         -> "released"
                   [] o = upload[b] -> "leaked"
                   [] OTHER         -> stage[o]]
  /\ upload' = [upload EXCEPT ![b] = u]
  /\ EndSingleTimeCommands({b, u})

LEMMA UploadNamed ==
  ASSUME NEW b
  PROVE  /\ CreateFilled(b) => \E u \in Uploads : Filled(b, u)
         /\ CopyToBuffer(b) => \E u \in Uploads : Copied(b, u)
<1> DEFINE u == CHOOSE u \in Uploads : stage[u] = "none"
<1>1. ASSUME CreateFilled(b) PROVE u \in Uploads /\ Filled(b, u)
  <2>1. u \in Uploads /\ stage[u] = "none"
    BY <1>1 DEF CreateFilled
  <2>2. QED
    BY <1>1, <2>1 DEF CreateFilled, Filled
<1>2. ASSUME CopyToBuffer(b) PROVE u \in Uploads /\ Copied(b, u)
  <2>1. u \in Uploads /\ stage[u] = "none"
    BY <1>2 DEF CopyToBuffer
  <2>2. QED
    BY <1>2, <2>1 DEF CopyToBuffer, Copied
<1>3. QED
  BY <1>1, <1>2

LEMMA NamedType == TypeOK => Named \subseteq Objects /\ Drawn \subseteq Objects
<1> SUFFICES ASSUME TypeOK PROVE Named \subseteq Objects /\ Drawn \subseteq Objects
  OBVIOUS
<1>1. Drawn \subseteq Objects
  BY DEF TypeOK, Drawn, Objects
<1>2. \A k \in DOMAIN singles : singles[k] \subseteq Objects
  <2>1. singles \in Seq(SUBSET Objects)
    BY DEF TypeOK
  <2>2. DOMAIN singles = 1..Len(singles) /\ singles \in [1..Len(singles) -> SUBSET Objects]
    BY <2>1, LenProperties
  <2>3. QED
    BY <2>2
<1>3. QED
  BY <1>1, <1>2 DEF Named

LEMMA FencesChange ==
  ASSUME TypeOK, [Next]_vars
  PROVE  \/ Execute \/ Arm \/ Awaited \/ Signalled
         \/ UNCHANGED <<phase, target, fences>>
<1> USE DEF vars, wait, fences
<1>1. ASSUME NEW b \in Buffers, CreateFilled(b) \/ CopyToBuffer(b)
      PROVE  Signalled \/ UNCHANGED <<phase, target, fences>>
  <2>1. PICK u \in Uploads : EndSingleTimeCommands({b, u})
    BY <1>1, UploadNamed DEF Filled, Copied
  <2>2. {b, u} \in SUBSET Objects
    BY DEF Objects
  <2>3. phase = "run" /\ UNCHANGED <<completed, event, armed>>
    BY <1>1 DEF CreateFilled, CopyToBuffer, Submitting
  <2>4. QED
    BY <2>1, <2>2, <2>3, SingleSignals DEF Signalled
<1>2. ASSUME NEW h \in Heaps, CreateTexture(h)
      PROVE  Signalled \/ UNCHANGED <<phase, target, fences>>
  <2>1. {h} \in SUBSET Objects
    BY DEF Objects
  <2>2. QED
    BY <1>2, <2>1, SingleSignals DEF CreateTexture, Signalled
<1>3. CASE SignalNext
  <2>1. slot \in Slots
    BY <1>3, DeviceAssumption DEF SignalNext, TypeOK, Slots
  <2>2. QED
    BY <1>3, <2>1 DEF SignalNext, Signalled, Signals
<1>4. CASE EndFrame
  BY <1>4, NamedType DEF EndFrame, Signalled, SignalsWork, Signals
<1>5. CASE Present
  BY <1>5 DEF Present, WaitForFence, Signalled, Signals, TypeOK
<1>6. CASE CallResize
  BY <1>6 DEF CallResize, WaitForFence, Signalled, Signals, TypeOK
<1>7. ASSUME NEW o \in Objects, Create(o) \/ Bind(o) \/ Release(o)
      PROVE UNCHANGED <<phase, target, fences>>
  BY <1>7 DEF Create, Bind, Release
<1>8. CASE \/ CallBeginFrame \/ BeginFrame \/ Draw \/ CreateTextureReturns
           \/ EndFrameUndefined \/ EndFrameReturns \/ PresentReturns \/ Resize
           \/ Close \/ Closed \/ WaitTillImFree \/ Shutdown \/ UNCHANGED vars
  BY <1>8 DEF CallBeginFrame, BeginFrame, Draw, CreateTextureReturns,
     EndFrameUndefined, EndFrameReturns, PresentReturns, Resize, Close, Closed,
     WaitTillImFree, Shutdown
<1>9. QED
  BY <1>1, <1>2, <1>3, <1>4, <1>5, <1>6, <1>7, <1>8 DEF Next, Submit, Device

(* What an executed item leaves, and what it does to its fence.            *)
Reaches(item) ==
  {a \in armed : item.kind = "signal" /\ a.fence = item.fence /\ a.value <= item.value}

LEMMA ExecuteFacts ==
  ASSUME TypeOK, Execute
  PROVE  /\ queue' \in Seq(Items)
         /\ Len(queue) \in Nat \ {0} /\ Len(queue') = Len(queue) - 1
         /\ DOMAIN queue' = 1..Len(queue)-1
         /\ \A k \in DOMAIN queue' : k + 1 \in DOMAIN queue /\ queue'[k] = queue[k+1]
         /\ 1 \in DOMAIN queue /\ queue[1] \in Items
         /\ completed' \in [Fences -> Nat]
         /\ \A f \in Fences : completed'[f] =
              IF queue[1].kind = "signal" /\ queue[1].fence = f THEN queue[1].value
              ELSE completed[f]
         /\ armed' = armed \ Reaches(queue[1])
         /\ event' = (event \/ Reaches(queue[1]) # {})
         /\ UNCHANGED <<pc, wait, frame, fenceValues, stage, drawing>>
<1>1. queue \in Seq(Items) /\ queue # <<>> /\ queue' = Tail(queue)
  BY QueueFacts DEF Execute
<1>2. Head(queue) = queue[1] /\ queue[1] \in Items
  BY <1>1, TailItem
<1>3. /\ queue' \in Seq(Items)
      /\ Len(queue) \in Nat \ {0} /\ Len(queue') = Len(queue) - 1
      /\ DOMAIN queue' = 1..Len(queue)-1
      /\ DOMAIN queue = 1..Len(queue)
      /\ \A k \in DOMAIN queue' : k + 1 \in DOMAIN queue /\ queue'[k] = queue[k+1]
  BY <1>1, TailItem
<1>4. /\ completed' = IF queue[1].kind = "signal"
                      THEN [completed EXCEPT ![queue[1].fence] = queue[1].value]
                      ELSE completed
      /\ armed' = armed \ Reaches(queue[1])
      /\ event' = (event \/ Reaches(queue[1]) # {})
      /\ UNCHANGED <<pc, wait, frame, fenceValues, stage, drawing>>
  BY <1>2 DEF Execute, Reaches
<1>5. completed \in [Fences -> Nat] /\ queue[1].fence \in Fences /\ queue[1].value \in Nat
  BY <1>2 DEF TypeOK, Items, Fences
<1>6. /\ completed' \in [Fences -> Nat]
      /\ \A f \in Fences : completed'[f] =
           IF queue[1].kind = "signal" /\ queue[1].fence = f THEN queue[1].value
           ELSE completed[f]
  BY <1>4, <1>5
<1>7. QED
  BY <1>2, <1>3, <1>4, <1>6

FencesType ==
  /\ phase \in {"run", "arm", "wait"}
  /\ target \in [fence : Fences, value : Nat]
  /\ fenceValues \in [Fences -> Nat] /\ completed \in [Fences -> Nat]
  /\ event \in BOOLEAN /\ armed \subseteq [fence : Fences, value : Nat]
  /\ queue \in Seq(Items)

LEMMA FencesTypeStep ==
  ASSUME TypeOK, [Next]_vars PROVE FencesType'
<1> USE DEF wait, fences
<1>0. FencesType
  BY DEF TypeOK, FencesType, Fences, Items
<1>1. CASE Execute
  BY <1>0, <1>1, ExecuteFacts DEF FencesType
<1>2. CASE Arm
  <2>1. armed' \subseteq [fence : Fences, value : Nat] /\ event' \in BOOLEAN
    BY <1>0, <1>2 DEF Arm, FencesType, Reached
  <2>2. QED
    BY <1>0, <1>2, <2>1 DEF Arm, FencesType
<1>3. CASE Awaited
  BY <1>0, <1>3 DEF Awaited, FencesType
<1>4. CASE Signalled
  <2>1. PICK f \in Fences, v \in Nat : WaitBegins(f, v)
    BY <1>4, SignalledBegins
  <2>2. fenceValues' \in [Fences -> Nat]
    BY <1>0, <2>1 DEF WaitBegins, FencesType
  <2>3. QED
    BY <1>0, <2>1, <2>2 DEF WaitBegins, FencesType
<1>5. CASE UNCHANGED <<phase, target, fences>>
  BY <1>0, <1>5 DEF FencesType
<1>6. QED
  BY <1>1, <1>2, <1>3, <1>4, <1>5, FencesChange

LEMMA TypeInit == Init => TypeOK
<1> SUFFICES ASSUME Init PROVE TypeOK
  OBVIOUS
<1>1. /\ pc = "idle" /\ phase = "run" /\ slot \in 0..N
      /\ currentFrame \in Slots /\ backBuffer \in Slots /\ frameDone \in BOOLEAN
  BY SlotFacts, DeviceAssumption DEF Init
<1>2. /\ target \in [fence : Slots \cup {SFence}, value : Nat]
      /\ fenceValues \in [Slots \cup {SFence} -> Nat]
      /\ completed \in [Slots \cup {SFence} -> Nat]
      /\ event \in BOOLEAN /\ armed = {} /\ queue = <<>> /\ singles = <<>>
  BY DEF Init
<1>3. /\ stage \in [Objects -> Stages]
      /\ bound \in [Slots -> SUBSET (Buffers \cup Pipelines)]
      /\ pDraws = {}
      /\ upload \in [Buffers -> Uploads \cup {None}]
  BY DEF Init, Stages
<1>4. QED
  BY <1>1, <1>2, <1>3, EmptySeq DEF TypeOK

(* The rest of the state.                                                  *)
RestType ==
  /\ pc \in {"idle", "begin", "open", "texture", "endFrame", "ended", "present",
             "resize", "closing", "free", "shutdown", "down", "undefined"}
  /\ slot \in 0..N
  /\ currentFrame \in Slots /\ backBuffer \in Slots /\ frameDone \in BOOLEAN
  /\ stage \in [Objects -> Stages]
  /\ bound \in [Slots -> SUBSET (Buffers \cup Pipelines)]
  /\ pDraws \subseteq SUBSET (Buffers \cup Pipelines)
  /\ singles \in Seq(SUBSET Objects)
  /\ upload \in [Buffers -> Uploads \cup {None}]

LEMMA SinglesType ==
  ASSUME TypeOK, NEW uses \in SUBSET Objects, EndSingleTimeCommands(uses)
  PROVE  singles' \in Seq(SUBSET Objects)
<1>1. singles \in Seq(SUBSET Objects)
  BY DEF TypeOK
<1>2. singles' = singles \/ singles' = Append(singles, uses)
  BY DEF EndSingleTimeCommands
<1>3. QED
  BY <1>1, <1>2, AppendProperties

LEMMA RestTypeStep ==
  ASSUME TypeOK, [Next]_vars PROVE RestType'
<1> USE SlotFacts, DeviceAssumption DEF RestType, Stages, vars, wait, frame, drawing, Objects
<1>0. RestType /\ stage \in [Objects -> Stages]
  BY DEF TypeOK
<1>1. CASE Execute
  BY <1>0, <1>1 DEF Execute
<1>2. CASE Arm \/ Awaited
  BY <1>0, <1>2 DEF Arm, Awaited
<1>3. CASE SignalNext
  BY <1>0, <1>3 DEF SignalNext
<1>4. CASE BeginFrame \/ WaitTillImFree \/ Shutdown
  <2>1. /\ ClearPendingReleases
        /\ UNCHANGED <<currentFrame, backBuffer>> /\ frameDone' \in BOOLEAN
        /\ pc' \in {"open", "shutdown", "down"} /\ slot' \in 0..N
    <3>1. CASE BeginFrame
      BY <1>0, <3>1 DEF BeginFrame
    <3>2. CASE WaitTillImFree
      BY <1>0, <3>2 DEF WaitTillImFree
    <3>3. CASE Shutdown
      BY <1>0, <3>3 DEF Shutdown
    <3>4. QED
      BY <1>4, <3>1, <3>2, <3>3
  <2>2. stage' \in [Objects -> Stages]
    BY <1>0, <2>1 DEF ClearPendingReleases
  <2>3. upload' \in [Buffers -> Uploads \cup {None}] /\ UNCHANGED <<bound, pDraws, singles>>
    BY <2>1 DEF ClearPendingReleases
  <2>4. QED
    BY <1>0, <2>1, <2>2, <2>3
<1>5. CASE Draw
  BY <1>0, <1>5 DEF Draw
<1>6. ASSUME NEW o \in Objects, Create(o) \/ Bind(o) \/ Release(o) PROVE RestType'
  <2>1. CASE Create(o) \/ Release(o)
    BY <1>0, <2>1 DEF Create, Release
  <2>2. CASE Bind(o)
    <3>1. bound' \in [Slots -> SUBSET (Buffers \cup Pipelines)]
      BY <1>0, <2>2 DEF Bind
    <3>2. QED
      BY <1>0, <2>2, <3>1 DEF Bind
  <2>3. QED
    BY <1>6, <2>1, <2>2
<1>7. ASSUME NEW b \in Buffers, CreateFilled(b) \/ CopyToBuffer(b) PROVE RestType'
  <2>1. PICK u \in Uploads : (CreateFilled(b) /\ Filled(b, u)) \/ (CopyToBuffer(b) /\ Copied(b, u))
    BY <1>7, UploadNamed
  <2>2. singles' \in Seq(SUBSET Objects)
    BY <2>1, SinglesType DEF Filled, Copied
  <2>3. upload' \in [Buffers -> Uploads \cup {None}]
    BY <1>0, <2>1 DEF Filled, Copied
  <2>4. stage' \in [Objects -> Stages]
    BY <1>0, <2>1 DEF Filled, Copied
  <2>5. UNCHANGED <<pc, slot, frame, bound, pDraws>>
    BY <1>7 DEF CreateFilled, CopyToBuffer
  <2>6. QED
    BY <1>0, <2>2, <2>3, <2>4, <2>5
<1>8. ASSUME NEW h \in Heaps, CreateTexture(h) PROVE RestType'
  <2>1. singles' \in Seq(SUBSET Objects)
    BY <1>8, SinglesType DEF CreateTexture
  <2>2. QED
    BY <1>0, <1>8, <2>1 DEF CreateTexture
<1>9. CASE CreateTextureReturns
  BY <1>0, <1>9 DEF CreateTextureReturns
<1>10. CASE EndFrame \/ EndFrameUndefined \/ EndFrameReturns
  BY <1>0, <1>10, EmptySeq DEF EndFrame, EndFrameUndefined, EndFrameReturns
<1>11. CASE Present \/ PresentReturns
  BY <1>0, <1>11 DEF Present, PresentReturns
<1>12. CASE CallBeginFrame \/ CallResize \/ Resize \/ Close \/ Closed
  BY <1>0, <1>12 DEF CallBeginFrame, CallResize, Resize, Close, Closed
<1>13. CASE UNCHANGED vars
  BY <1>0, <1>13
<1>14. QED
  BY <1>1, <1>2, <1>3, <1>4, <1>5, <1>6, <1>7, <1>8, <1>9, <1>10, <1>11, <1>12, <1>13
     DEF Next, Submit, Device

LEMMA TypeStep ==
  ASSUME TypeOK, [Next]_vars PROVE TypeOK'
<1>1. FencesType' /\ RestType'
  BY FencesTypeStep, RestTypeStep
<1>2. QED
  BY <1>1 DEF FencesType, RestType, TypeOK, Fences, Items

-----------------------------------------------------------------------------
(* The waits: each part of the invariant that speaks of the fences.        *)

(* What the places of the queue hold after a wait begins.                  *)
LEMMA BeginsFacts ==
  ASSUME TypeOK, NEW f \in Fences, NEW v \in Nat, WaitBegins(f, v)
  PROVE  /\ DOMAIN queue = 1..Len(queue) /\ DOMAIN queue' = 1..Len(queue')
         /\ Len(queue) \in Nat /\ Len(queue') \in Nat \ {0} /\ Len(queue) < Len(queue')
         /\ queue' # <<>>
         /\ \A k \in DOMAIN queue' :
              \/ k \in DOMAIN queue /\ queue'[k] = queue[k]
              \/ k < Len(queue') /\ queue'[k].kind = "present" /\ queue'[k].uses = {}
              \/ k < Len(queue') /\ queue'[k].kind = "work" /\ f = SFence
              \/ k = Len(queue')
         /\ queue'[Len(queue')].kind = "signal" /\ queue'[Len(queue')].fence = f
         /\ queue'[Len(queue')].value = v /\ queue'[Len(queue')].uses = {}
         /\ target'.fence = f /\ target'.value = v
<1>1. /\ DOMAIN queue = 1..Len(queue) /\ Len(queue) \in Nat
  BY QueueFacts
<1>2. DOMAIN queue' = 1..Len(queue') /\ Len(queue') \in Nat
  BY LenProperties DEF WaitBegins
<1>3. Len(queue) < Len(queue') /\ Len(queue') # 0
  BY <1>1 DEF WaitBegins
<1>4. queue' # <<>>
  BY <1>3, EmptySeq
<1>5. /\ Signal(f, v).kind = "signal" /\ Signal(f, v).fence = f
      /\ Signal(f, v).value = v /\ Signal(f, v).uses = {}
  BY DEF Signal
<1>6. ASSUME NEW k \in DOMAIN queue'
      PROVE  \/ k \in DOMAIN queue /\ queue'[k] = queue[k]
             \/ k < Len(queue') /\ queue'[k].kind = "present" /\ queue'[k].uses = {}
             \/ k < Len(queue') /\ queue'[k].kind = "work" /\ f = SFence
             \/ k = Len(queue')
  <2>1. k \in 1..Len(queue) \/ (Len(queue) < k /\ k < Len(queue')) \/ k = Len(queue')
    BY <1>1, <1>2
  <2>2. QED
    BY <1>1, <1>2, <2>1 DEF WaitBegins
<1>7. queue'[Len(queue')] = Signal(f, v) /\ target' = [fence |-> f, value |-> v]
  BY DEF WaitBegins
<1>8. QED
  BY <1>1, <1>2, <1>3, <1>4, <1>5, <1>6, <1>7

LEMMA FencesStep ==
  ASSUME TypeOK, FencesInv, [Next]_vars PROVE FencesInv'
<1>0. /\ fenceValues \in [Fences -> Nat] /\ completed \in [Fences -> Nat]
      /\ queue \in Seq(Items) /\ DOMAIN queue = 1..Len(queue) /\ Len(queue) \in Nat
      /\ \A k \in DOMAIN queue : queue[k] \in Items
  BY QueueFacts DEF TypeOK, Fences
<1>1. CASE Execute
  <2>1. /\ DOMAIN queue' = 1..Len(queue)-1 /\ 1 \in DOMAIN queue
        /\ \A k \in DOMAIN queue' : k + 1 \in DOMAIN queue /\ queue'[k] = queue[k+1]
        /\ completed' \in [Fences -> Nat]
        /\ \A f \in Fences : completed'[f] =
             IF queue[1].kind = "signal" /\ queue[1].fence = f THEN queue[1].value
             ELSE completed[f]
        /\ fenceValues' = fenceValues
    BY <1>1, ExecuteFacts
  <2>2. \A f \in DOMAIN completed' : completed'[f] <= fenceValues'[f]
    BY <1>0, <2>1 DEF FencesInv, Items
  <2>3. ASSUME NEW k \in DOMAIN queue', queue'[k].kind = "signal"
        PROVE  /\ completed'[queue'[k].fence] <= queue'[k].value
               /\ queue'[k].value <= fenceValues'[queue'[k].fence]
               /\ \A j \in 1..k-1 :
                    queue'[j].kind = "signal" /\ queue'[j].fence = queue'[k].fence =>
                      queue'[j].value <= queue'[k].value
    <3>1. k + 1 \in DOMAIN queue /\ queue'[k] = queue[k+1] /\ 1 \in 1..(k+1)-1
      BY <1>0, <2>1
    <3>2. /\ completed[queue[k+1].fence] <= queue[k+1].value
          /\ queue[k+1].value <= fenceValues[queue[k+1].fence]
          /\ \A j \in 1..(k+1)-1 :
               queue[j].kind = "signal" /\ queue[j].fence = queue[k+1].fence =>
                 queue[j].value <= queue[k+1].value
      BY <2>3, <3>1 DEF FencesInv
    <3>3. queue[k+1].fence \in Fences
      BY <1>0, <3>1 DEF Items
    <3>4. \A j \in 1..k-1 : j \in DOMAIN queue' /\ j + 1 \in 1..(k+1)-1
      BY <1>0, <2>1
    <3>5. QED
      BY <2>1, <3>1, <3>2, <3>3, <3>4
  <2>4. QED
    BY <2>2, <2>3 DEF FencesInv
<1>2. CASE Signalled
  <2>1. PICK f \in Fences, v \in Nat : WaitBegins(f, v)
    BY <1>2, SignalledBegins
  <2>2. /\ fenceValues' = [fenceValues EXCEPT ![f] = @ + 1] /\ completed' = completed
        /\ fenceValues[f] <= v /\ v <= fenceValues[f] + 1
    BY <2>1 DEF WaitBegins
  <2>3. \A g \in Fences : completed[g] <= fenceValues[g] /\ fenceValues[g] <= fenceValues'[g]
    BY <1>0, <2>2 DEF FencesInv
  <2>4. ASSUME NEW k \in DOMAIN queue', queue'[k].kind = "signal"
        PROVE  /\ completed'[queue'[k].fence] <= queue'[k].value
               /\ queue'[k].value <= fenceValues'[queue'[k].fence]
               /\ \A j \in 1..k-1 :
                    queue'[j].kind = "signal" /\ queue'[j].fence = queue'[k].fence =>
                      queue'[j].value <= queue'[k].value
    <3>1. CASE k \in DOMAIN queue /\ queue'[k] = queue[k]
      <4>1. \A j \in 1..k-1 : j \in DOMAIN queue /\ queue'[j] = queue[j]
        BY <1>0, <2>1, <3>1 DEF WaitBegins
      <4>2. queue[k].fence \in Fences /\ queue[k].value \in Nat
        BY <1>0, <3>1 DEF Items
      <4>3. fenceValues[queue[k].fence] \in Nat /\ fenceValues'[queue[k].fence] \in Nat
        BY <1>0, <2>2, <4>2
      <4>4. QED
        BY <2>2, <2>3, <2>4, <3>1, <4>1, <4>2, <4>3 DEF FencesInv
    <3>2. CASE k = Len(queue')
      <4>1. queue'[k].fence = f /\ queue'[k].value = v
        BY <2>1, <3>2, BeginsFacts
      <4>2. ASSUME NEW j \in 1..k-1, queue'[j].kind = "signal", queue'[j].fence = f
            PROVE  queue'[j].value <= v
        <5>1. j \in DOMAIN queue' /\ j < Len(queue')
          BY <2>1, <3>2, BeginsFacts
        <5>2. j \in DOMAIN queue /\ queue'[j] = queue[j]
          BY <2>1, <4>2, <5>1, BeginsFacts
        <5>3. queue[j].value <= fenceValues[f] /\ queue[j].value \in Nat /\ fenceValues[f] \in Nat
          BY <1>0, <4>2, <5>2 DEF FencesInv, Items
        <5>4. QED
          BY <2>2, <5>2, <5>3
      <4>3. completed[f] \in Nat /\ fenceValues[f] \in Nat /\ fenceValues'[f] = fenceValues[f] + 1
        BY <1>0, <2>2
      <4>4. QED
        BY <2>2, <2>3, <4>1, <4>2, <4>3
    <3>3. QED
      BY <2>1, <2>4, <3>1, <3>2, BeginsFacts
  <2>5. QED
    BY <1>0, <2>2, <2>3, <2>4 DEF FencesInv
<1>3. CASE Arm \/ Awaited \/ UNCHANGED <<phase, target, fences>>
  <2>1. UNCHANGED <<fenceValues, completed, queue>>
    BY <1>3 DEF Arm, Awaited, fences
  <2>2. QED
    BY <2>1 DEF FencesInv
<1>4. QED
  BY <1>1, <1>2, <1>3, FencesChange

(* The queue after its last item.                                          *)
LEMMA ExecuteLast ==
  ASSUME TypeOK, Execute
  PROVE  /\ queue # <<>>
         /\ queue' = <<>> <=> Len(queue) = 1
         /\ queue' # <<>> => queue'[Len(queue')] = queue[Len(queue)]
<1>1. /\ queue' \in Seq(Items) /\ Len(queue) \in Nat \ {0} /\ Len(queue') = Len(queue) - 1
      /\ DOMAIN queue' = 1..Len(queue)-1
      /\ \A k \in DOMAIN queue' : queue'[k] = queue[k+1]
  BY ExecuteFacts
<1>2. queue' = <<>> <=> Len(queue') = 0
  BY <1>1, EmptySeq
<1>3. queue # <<>>
  BY DEF Execute
<1>4. Len(queue') # 0 => Len(queue') \in DOMAIN queue' /\ Len(queue') + 1 = Len(queue)
  BY <1>1
<1>5. QED
  BY <1>1, <1>2, <1>3, <1>4

LEMMA AwaitedStep ==
  ASSUME TypeOK, AwaitedInv, [Next]_vars PROVE AwaitedInv'
<1> SUFFICES ASSUME phase' # "run"
             PROVE  IF queue' = <<>> THEN Reached'
                    ELSE /\ queue'[Len(queue')].kind = "signal"
                         /\ queue'[Len(queue')].fence = target'.fence
                         /\ queue'[Len(queue')].value = target'.value
  BY DEF AwaitedInv
<1>1. CASE Execute
  <2>1. UNCHANGED <<phase, target>> /\ queue # <<>> /\ Len(queue) \in Nat \ {0}
    BY <1>1, ExecuteFacts, ExecuteLast DEF wait
  <2>2. /\ queue[Len(queue)].kind = "signal"
        /\ queue[Len(queue)].fence = target.fence
        /\ queue[Len(queue)].value = target.value
    BY <2>1 DEF AwaitedInv
  <2>3. CASE queue' = <<>>
    <3>1. queue[1].kind = "signal" /\ queue[1].fence = target.fence
          /\ queue[1].value = target.value
      BY <1>1, <2>2, <2>3, ExecuteLast
    <3>2. target.fence \in Fences /\ target.value \in Nat
      BY DEF TypeOK, Fences
    <3>3. completed'[target.fence] = target.value
      BY <1>1, <3>1, <3>2, ExecuteFacts
    <3>4. QED
      BY <2>1, <2>3, <3>2, <3>3 DEF Reached
  <2>4. CASE queue' # <<>>
    BY <1>1, <2>1, <2>2, <2>4, ExecuteLast
  <2>5. QED
    BY <2>3, <2>4
<1>2. CASE Signalled
  <2>1. PICK f \in Fences, v \in Nat : WaitBegins(f, v)
    BY <1>2, SignalledBegins
  <2>2. QED
    BY <2>1, BeginsFacts
<1>3. CASE Arm
  BY <1>3 DEF Arm, AwaitedInv, Reached
<1>4. CASE Awaited
  BY <1>4 DEF Awaited
<1>5. CASE UNCHANGED <<phase, target, fences>>
  BY <1>5 DEF AwaitedInv, Reached, fences
<1>6. QED
  BY <1>1, <1>2, <1>3, <1>4, <1>5, FencesChange

LEMMA WorkStep ==
  ASSUME TypeOK, FencesInv, AwaitedInv, WorkInv, EventInv, [Next]_vars PROVE WorkInv'
<1>0. /\ queue \in Seq(Items) /\ DOMAIN queue = 1..Len(queue) /\ Len(queue) \in Nat
      /\ \A k \in DOMAIN queue : queue[k] \in Items
      /\ target.fence \in Fences /\ target.value \in Nat
      /\ completed \in [Fences -> Nat]
  BY QueueFacts DEF TypeOK, Fences
<1>1. CASE Execute
  <2>1. UNCHANGED <<phase, target>> /\ queue # <<>>
        /\ Len(queue) \in Nat \ {0} /\ Len(queue') = Len(queue) - 1
        /\ DOMAIN queue' = 1..Len(queue)-1 /\ 1 \in DOMAIN queue
        /\ \A k \in DOMAIN queue' : k + 1 \in DOMAIN queue /\ queue'[k] = queue[k+1]
    BY <1>1, ExecuteFacts, ExecuteLast DEF wait
  <2>2. ASSUME NEW k \in DOMAIN queue'
        PROVE  /\ queue'[k].kind # "work" => queue'[k].uses = {}
               /\ queue'[k].kind = "work" => phase' # "run" /\ target'.fence = SFence
               /\ queue'[k].kind = "signal" /\ queue'[k].fence = SFence =>
                    phase' # "run" /\ target'.fence = SFence /\ k = Len(queue')
    BY <2>1 DEF WorkInv
  <2>3. ASSUME phase' # "run", target'.fence = SFence, queue' # <<>> PROVE ~Reached'
    <3>1. ~Reached /\ Len(queue) # 1
      BY <1>1, <2>1, <2>3, ExecuteLast DEF WorkInv
    <3>2. ~(queue[1].kind = "signal" /\ queue[1].fence = SFence)
      BY <2>1, <3>1 DEF WorkInv
    <3>3. completed'[SFence] = completed[SFence]
      BY <1>0, <1>1, <2>1, <2>3, <3>2, ExecuteFacts
    <3>4. QED
      BY <2>1, <2>3, <3>1, <3>3 DEF Reached
  <2>4. QED
    BY <2>2, <2>3 DEF WorkInv
<1>2. CASE Signalled
  <2>1. PICK f \in Fences, v \in Nat : WaitBegins(f, v)
    BY <1>2, SignalledBegins
  <2>2. phase = "run" /\ phase' # "run" /\ target'.fence = f /\ target'.value = v
        /\ completed' = completed /\ (f = SFence => v = fenceValues[f] + 1)
    BY <2>1, BeginsFacts DEF WaitBegins
  <2>3. \A k \in DOMAIN queue : queue[k].kind # "work" /\ queue[k].uses = {}
                                /\ ~(queue[k].kind = "signal" /\ queue[k].fence = SFence)
    BY <2>2 DEF WorkInv
  <2>4. ASSUME NEW k \in DOMAIN queue'
        PROVE  /\ queue'[k].kind # "work" => queue'[k].uses = {}
               /\ queue'[k].kind = "work" => phase' # "run" /\ target'.fence = SFence
               /\ queue'[k].kind = "signal" /\ queue'[k].fence = SFence =>
                    phase' # "run" /\ target'.fence = SFence /\ k = Len(queue')
    BY <2>1, <2>2, <2>3, BeginsFacts
  <2>5. ASSUME f = SFence PROVE ~Reached'
    <3>1. completed[f] <= fenceValues[f] /\ completed[f] \in Nat /\ fenceValues[f] \in Nat
      BY <1>0 DEF FencesInv, TypeOK, Fences
    <3>2. QED
      BY <2>2, <2>5, <3>1 DEF Reached
  <2>6. QED
    BY <2>2, <2>4, <2>5 DEF WorkInv
<1>3. CASE Arm
  <2>1. UNCHANGED <<queue, target, completed>> /\ phase = "arm"
        /\ (phase' = "run" => target.fence # SFence)
    BY <1>3 DEF Arm
  <2>2. QED
    BY <2>1 DEF WorkInv, Reached
<1>4. CASE Awaited
  <2>1. UNCHANGED <<queue, target, completed>> /\ phase = "wait" /\ event /\ phase' = "run"
    BY <1>4 DEF Awaited
  <2>2. Reached
    BY <2>1 DEF EventInv, EventOfThisWait
  <2>3. target.fence = SFence => queue = <<>>
    BY <2>1, <2>2 DEF WorkInv
  <2>4. \A k \in DOMAIN queue : queue # <<>>
    BY <1>0, EmptySeq
  <2>5. QED
    BY <2>1, <2>3, <2>4 DEF WorkInv
<1>5. CASE UNCHANGED <<phase, target, fences>>
  BY <1>5 DEF WorkInv, Reached, fences
<1>6. QED
  BY <1>1, <1>2, <1>3, <1>4, <1>5, FencesChange

LEMMA EventStep ==
  ASSUME TypeOK, FencesInv, EventInv, [Next]_vars PROVE EventInv'
<1>0. /\ target \in [fence : Fences, value : Nat] /\ target.fence \in Fences /\ target.value \in Nat
      /\ completed \in [Fences -> Nat] /\ event \in BOOLEAN
  BY DEF TypeOK, Fences
<1>1. CASE Execute
  <2>1. UNCHANGED <<phase, target>>
    BY <1>1, ExecuteFacts DEF wait
  <2>2. /\ queue[1].kind \in {"work", "present", "signal"}
        /\ queue[1].fence \in Fences /\ queue[1].value \in Nat
        /\ (queue[1].kind = "signal" => completed[queue[1].fence] <= queue[1].value)
    BY <1>1, ExecuteFacts DEF FencesInv, Items
  <2>3. completed'[target.fence] =
          IF queue[1].kind = "signal" /\ queue[1].fence = target.fence THEN queue[1].value
          ELSE completed[target.fence]
    BY <1>0, <1>1, ExecuteFacts
  <2>4. CASE Reaches(queue[1]) = {}
    <3>1. event' = event /\ armed' = armed
      <4>1. armed' = armed \ Reaches(queue[1]) /\ event' = (event \/ Reaches(queue[1]) # {})
        BY <1>1, ExecuteFacts
      <4>2. QED
        BY <1>0, <2>4, <4>1
    <3>2. Reached => Reached'
      BY <1>0, <2>1, <2>2, <2>3 DEF Reached
    <3>3. QED
      BY <2>1, <3>1, <3>2 DEF EventInv, EventOfThisWait
  <2>5. CASE Reaches(queue[1]) # {}
    <3>1. armed = {target} /\ phase = "wait"
      BY <2>5 DEF Reaches, EventInv, EventOfThisWait
    <3>2. queue[1].kind = "signal" /\ target.fence = queue[1].fence
          /\ target.value <= queue[1].value /\ Reaches(queue[1]) = {target}
      BY <2>5, <3>1 DEF Reaches
    <3>3. Reached'
      BY <1>0, <2>1, <2>2, <2>3, <3>2 DEF Reached
    <3>4. armed' = {}
      BY <1>1, <3>1, <3>2, ExecuteFacts
    <3>5. QED
      BY <2>1, <3>1, <3>3, <3>4 DEF EventInv, EventOfThisWait
  <2>6. QED
    BY <2>4, <2>5
<1>2. CASE Arm
  <2>1. ~event /\ armed = {} /\ UNCHANGED <<target, completed>>
    BY <1>2 DEF Arm, EventInv, EventOfThisWait
  <2>2. CASE phase' = "run"
    BY <1>2, <2>1, <2>2 DEF Arm, EventInv, EventOfThisWait
  <2>3. CASE phase' = "wait"
    <3>1. (event' <=> Reached) /\ (Reached => armed' = {}) /\ (~Reached => armed' = {target})
      <4>1. event' = (event \/ Reached) /\ armed' = IF Reached THEN armed ELSE armed \cup {target}
        BY <1>2, <2>3 DEF Arm
      <4>2. QED
        BY <2>1, <4>1
    <3>2. Reached' <=> Reached
      BY <2>1 DEF Reached
    <3>3. QED
      BY <2>1, <2>3, <3>1, <3>2 DEF EventInv, EventOfThisWait
  <2>4. QED
    BY <1>2, <2>2, <2>3 DEF Arm
<1>3. CASE Awaited
  BY <1>3 DEF Awaited, EventInv, EventOfThisWait
<1>4. CASE Signalled
  <2>1. phase = "run" /\ UNCHANGED <<event, armed>>
    BY <1>4, SignalledBegins DEF WaitBegins
  <2>2. QED
    BY <2>1 DEF EventInv, EventOfThisWait
<1>5. CASE UNCHANGED <<phase, target, fences>>
  BY <1>5 DEF EventInv, EventOfThisWait, Reached, fences
<1>6. QED
  BY <1>1, <1>2, <1>3, <1>4, <1>5, FencesChange

LEMMA WaitStep ==
  ASSUME TypeOK, AwaitedInv, EventInv, WaitNotLost, [Next]_vars PROVE WaitNotLost'
<1>0. /\ DOMAIN queue = 1..Len(queue) /\ Len(queue) \in Nat
      /\ queue # <<>> => Len(queue) \in DOMAIN queue
      /\ target.value \in Nat
  BY QueueFacts DEF TypeOK
<1> SUFFICES ASSUME phase' = "wait", ~event'
             PROVE  /\ armed' = {target'}
                    /\ \E k \in DOMAIN queue' :
                         /\ queue'[k].kind = "signal" /\ queue'[k].fence = target'.fence
                         /\ queue'[k].value = target'.value
  BY DEF WaitNotLost
<1>1. CASE Execute
  <2>1. UNCHANGED <<phase, target>> /\ ~event /\ Reaches(queue[1]) = {} /\ armed' = armed
    BY <1>1, ExecuteFacts DEF wait
  <2>2. armed = {target}
    BY <2>1 DEF WaitNotLost
  <2>3. PICK k \in DOMAIN queue :
          /\ queue[k].kind = "signal" /\ queue[k].fence = target.fence
          /\ queue[k].value = target.value
    BY <2>1 DEF WaitNotLost
  <2>4. k # 1
    BY <1>0, <2>1, <2>2, <2>3 DEF Reaches
  <2>5. k - 1 \in DOMAIN queue' /\ queue'[k-1] = queue[k]
    BY <1>0, <1>1, <2>4, ExecuteFacts
  <2>6. QED
    BY <2>1, <2>2, <2>3, <2>5
<1>2. CASE Arm
  <2>1. phase = "arm" /\ ~Reached /\ armed' = armed \cup {target} /\ UNCHANGED <<queue, target>>
    BY <1>2 DEF Arm
  <2>2. armed = {}
    BY <2>1 DEF EventInv, EventOfThisWait
  <2>3. /\ Len(queue) \in DOMAIN queue
        /\ queue[Len(queue)].kind = "signal"
        /\ queue[Len(queue)].fence = target.fence
        /\ queue[Len(queue)].value = target.value
    BY <1>0, <2>1 DEF AwaitedInv
  <2>4. QED
    BY <2>1, <2>2, <2>3
<1>3. CASE Awaited
  BY <1>3 DEF Awaited
<1>4. CASE Signalled
  <2>1. phase' = "arm"
    BY <1>4, SignalledBegins DEF WaitBegins
  <2>2. QED
    BY <2>1
<1>5. CASE UNCHANGED <<phase, target, fences>>
  BY <1>5 DEF WaitNotLost, fences
<1>6. QED
  BY <1>1, <1>2, <1>3, <1>4, <1>5, FencesChange

-----------------------------------------------------------------------------
(* The objects.                                                            *)

(* The steps that carry the releases out.                                  *)
Clearing == BeginFrame \/ WaitTillImFree \/ Shutdown

LEMMA ClearingFacts ==
  ASSUME Clearing
  PROVE  /\ phase = "run" /\ pc \in {"begin", "free", "shutdown"}
         /\ pc' = CASE pc = "begin" -> "open" [] pc = "free" -> "shutdown" [] OTHER -> "down"
         /\ ClearPendingReleases
<1>1. CASE BeginFrame
  BY <1>1 DEF BeginFrame, AllWaited
<1>2. CASE WaitTillImFree
  BY <1>2 DEF WaitTillImFree, AllWaited
<1>3. CASE Shutdown
  BY <1>3 DEF Shutdown, AllWaited
<1>4. QED
  BY <1>1, <1>2, <1>3 DEF Clearing

LEMMA StageChanges ==
  ASSUME [Next]_vars
  PROVE  \/ UNCHANGED <<stage, upload>>
         \/ Clearing
         \/ \E o \in Objects : Create(o) \/ Release(o)
         \/ \E b \in Buffers, u \in Uploads : CreateFilled(b) /\ Filled(b, u)
         \/ \E b \in Buffers, u \in Uploads : CopyToBuffer(b) /\ Copied(b, u)
         \/ \E h \in Heaps : CreateTexture(h)
         \/ CreateTextureReturns
<1> USE DEF vars, drawing
<1>1. CASE Execute \/ Arm \/ Awaited \/ SignalNext
  BY <1>1 DEF Execute, Arm, Awaited, SignalNext
<1>2. CASE CallBeginFrame \/ Draw \/ EndFrame \/ EndFrameUndefined \/ EndFrameReturns
  BY <1>2 DEF CallBeginFrame, Draw, EndFrame, EndFrameUndefined, EndFrameReturns
<1>3. CASE Present \/ PresentReturns \/ CallResize \/ Resize \/ Close \/ Closed
  BY <1>3 DEF Present, PresentReturns, CallResize, Resize, Close, Closed
<1>4. ASSUME NEW o \in Objects, Bind(o) PROVE UNCHANGED <<stage, upload>>
  BY <1>4 DEF Bind
<1>5. QED
  BY <1>1, <1>2, <1>3, <1>4, UploadNamed DEF Next, Submit, Device, Clearing

(* An object moves as GpuObjects lets it; when it is freed, the thread is  *)
(* not in a wait.                                                          *)
LEMMA StageMoves ==
  ASSUME TypeOK, UploadInv, [Next]_vars, NEW o \in Objects, stage'[o] # stage[o]
  PROVE  /\ <<stage[o], stage'[o]>> \in Abstract!Moves
         /\ stage'[o] = "leaked" => o \in Uploads \/ (Clearing /\ o \in Drawn)
         /\ stage'[o] = "freed" =>
              phase = "run" /\ (Clearing \/ (CreateTextureReturns /\ o \in Heaps))
<1> USE DEF Abstract!Moves, Stages
<1>0. stage \in [Objects -> Stages]
  BY DEF TypeOK
<1>1. CASE Clearing
  <2>1. phase = "run" /\ ClearPendingReleases
    BY <1>1, ClearingFacts
  <2>2. stage[o] = "released" /\ stage'[o] \in {"leaked", "freed"}
        /\ (stage'[o] = "leaked" => o \in Drawn)
    BY <1>0, <2>1 DEF ClearPendingReleases
  <2>3. QED
    BY <1>1, <2>1, <2>2
<1>2. ASSUME NEW p \in Objects, Create(p) \/ Release(p)
      PROVE  <<stage[o], stage'[o]>> \in {<<"none", "live">>, <<"live", "released">>}
  BY <1>0, <1>2 DEF Create, Release
<1>3. ASSUME NEW b \in Buffers, NEW u \in Uploads, CreateFilled(b), Filled(b, u)
      PROVE  <<stage[o], stage'[o]>> \in {<<"none", "live">>, <<"none", "released">>}
  <2>1. stage[b] = "none" /\ b # u /\ b \in Objects /\ u \in Objects
    BY <1>3, DeviceAssumption DEF CreateFilled, Objects
  <2>2. QED
    BY <1>0, <1>3, <2>1 DEF Filled
<1>4. ASSUME NEW b \in Buffers, NEW u \in Uploads, Copied(b, u)
      PROVE  \/ <<stage[o], stage'[o]>> = <<"none", "released">>
             \/ <<stage[o], stage'[o]>> = <<"released", "leaked">> /\ o \in Uploads
  <2>1. CASE o = u
    <3>1. u # upload[b]
      BY <1>4, DeviceAssumption DEF Copied, UploadInv
    <3>2. QED
      BY <1>0, <1>4, <2>1, <3>1 DEF Copied
  <2>2. CASE o # u /\ o = upload[b]
    <3>1. o # None /\ o \in Uploads
      BY <2>2, DeviceAssumption DEF Objects, TypeOK
    <3>2. QED
      BY <1>0, <1>4, <2>2, <3>1 DEF Copied, UploadInv
  <2>3. CASE o # u /\ o # upload[b]
    BY <1>0, <1>4, <2>3 DEF Copied
  <2>4. QED
    BY <2>1, <2>2, <2>3
<1>5. ASSUME NEW h \in Heaps, CreateTexture(h)
      PROVE  <<stage[o], stage'[o]>> = <<"none", "released">>
  BY <1>0, <1>5 DEF CreateTexture
<1>6. CASE CreateTextureReturns
  BY <1>0, <1>6 DEF CreateTextureReturns
<1>7. QED
  BY <1>1, <1>2, <1>3, <1>4, <1>5, <1>6, StageChanges

LEMMA UploadStep ==
  ASSUME TypeOK, UploadInv, [Next]_vars PROVE UploadInv'
<1> USE DEF UploadInv
<1>0. stage \in [Objects -> Stages] /\ upload \in [Buffers -> Uploads \cup {None}]
      /\ Uploads \subseteq Objects
  BY DEF TypeOK, Objects
<1>1. CASE Clearing
  BY <1>1, ClearingFacts DEF ClearPendingReleases
<1>2. ASSUME NEW p \in Objects, stage[p] \in {"none", "live"}, UNCHANGED upload,
             NEW v, stage' = [stage EXCEPT ![p] = v]
      PROVE  UploadInv'
  BY <1>0, <1>2
<1>3. ASSUME NEW b \in Buffers, NEW u \in Uploads,
             \/ CreateFilled(b) /\ Filled(b, u)
             \/ CopyToBuffer(b) /\ Copied(b, u)
      PROVE  UploadInv'
  <2>1. u # None /\ upload'[b] = u /\ \A c \in Buffers \ {b} : upload'[c] = upload[c]
    BY <1>0, <1>3, DeviceAssumption DEF Filled, Copied
  <2>2. \A c \in Buffers : upload[c] # u
    BY <1>0, <1>3, <2>1 DEF Filled, Copied
  <2>3. stage'[u] = "released"
    BY <1>0, <1>3, <2>2 DEF Filled, Copied
  <2>4. \A c \in Buffers \ {b} : upload[c] # None => stage'[upload[c]] = "released"
    <3>1. CASE CreateFilled(b) /\ Filled(b, u)
      BY <1>0, <3>1, <2>2, DeviceAssumption DEF Filled
    <3>2. CASE Copied(b, u)
      BY <1>0, <3>2, <2>2 DEF Copied
    <3>3. QED
      BY <1>3, <3>1, <3>2
  <2>5. QED
    BY <1>0, <2>1, <2>2, <2>3, <2>4
<1>4. ASSUME NEW h \in Heaps, CreateTexture(h) PROVE UploadInv'
  BY <1>0, <1>4 DEF CreateTexture
<1>5. CASE CreateTextureReturns
  <2>1. upload' = upload
        /\ \A o \in Objects : stage[o] = "released" /\ o \notin Heaps => stage'[o] = "released"
    BY <1>5 DEF CreateTextureReturns, drawing
  <2>2. \A u \in Uploads : u \in Objects /\ u \notin Heaps
    BY DeviceAssumption DEF Objects
  <2>3. QED
    BY <1>0, <2>1, <2>2
<1>6. ASSUME NEW o \in Objects, Create(o) \/ Release(o) PROVE UploadInv'
  BY <1>2, <1>6 DEF Create, Release, drawing
<1>7. CASE UNCHANGED <<stage, upload>>
  BY <1>7
<1>8. QED
  BY <1>1, <1>3, <1>4, <1>5, <1>6, <1>7, StageChanges

(* From where to where the thread goes without clearing anything.          *)
Calls == {<<"idle", "begin">>, <<"open", "texture">>, <<"texture", "open">>,
          <<"open", "undefined">>, <<"idle", "resize">>, <<"resize", "idle">>,
          <<"present", "idle">>, <<"ended", "present">>, <<"idle", "closing">>,
          <<"closing", "free">>}

(* What happens to the draws and the copies that are collected.            *)
LEMMA ControlChanges ==
  ASSUME [Next]_vars
  PROVE  \/ Clearing /\ UNCHANGED <<pDraws, singles>>
         \/ EndFrame /\ pc' = "endFrame" /\ pDraws' = {} /\ singles' = singles
         \/ EndFrameReturns /\ pc' = "ended" /\ UNCHANGED pDraws /\ singles' = <<>>
         \/ UNCHANGED <<pc, pDraws, singles>>
         \/ <<pc, pc'>> \in Calls \ {<<"open", "texture">>} /\ UNCHANGED <<pDraws, singles>>
         \/ pc \in {"open", "closing"} /\ UNCHANGED pDraws /\ pc' = pc
         \/ pc = "open" /\ UNCHANGED pDraws /\ pc' = "texture"
         \/ Draw
<1> USE DEF vars, drawing, Calls
<1>1. CASE Clearing
  BY <1>1, ClearingFacts DEF ClearPendingReleases
<1>2. CASE Execute \/ Arm \/ Awaited \/ SignalNext \/ UNCHANGED vars
  BY <1>2 DEF Execute, Arm, Awaited, SignalNext
<1>3. ASSUME NEW o \in Objects, Create(o) \/ Bind(o) \/ Release(o)
      PROVE  UNCHANGED <<pc, pDraws, singles>>
  BY <1>3 DEF Create, Bind, Release
<1>4. ASSUME NEW b \in Buffers, CreateFilled(b) \/ CopyToBuffer(b)
      PROVE  pc \in {"open", "closing"} /\ UNCHANGED pDraws /\ pc' = pc
  BY <1>4 DEF CreateFilled, CopyToBuffer, Submitting
<1>5. ASSUME NEW h \in Heaps, CreateTexture(h)
      PROVE  pc = "open" /\ UNCHANGED pDraws /\ pc' = "texture"
  BY <1>5 DEF CreateTexture
<1>6. CASE EndFrame \/ EndFrameReturns
  BY <1>6 DEF EndFrame, EndFrameReturns
<1>7. CASE CallBeginFrame \/ CreateTextureReturns \/ EndFrameUndefined \/ CallResize
           \/ Resize \/ Present \/ PresentReturns \/ Close \/ Closed
  BY <1>7 DEF CallBeginFrame, CreateTextureReturns, EndFrameUndefined, CallResize,
     Resize, Present, PresentReturns, Close, Closed
<1>8. QED
  BY <1>1, <1>2, <1>3, <1>4, <1>5, <1>6, <1>7 DEF Next, Submit, Device, Clearing

LEMMA CollectedStep ==
  ASSUME CollectedInv, [Next]_vars PROVE CollectedInv'
<1> USE DEF CollectedInv, Calls
<1>1. CASE Clearing /\ UNCHANGED <<pDraws, singles>>
  BY <1>1, ClearingFacts
<1>2. CASE Draw
  BY <1>2 DEF Draw, Submitting
<1>3. CASE EndFrame /\ pc' = "endFrame" /\ pDraws' = {} /\ singles' = singles
  BY <1>3
<1>4. CASE EndFrameReturns /\ pc' = "ended" /\ UNCHANGED pDraws /\ singles' = <<>>
  BY <1>4 DEF EndFrameReturns
<1>5. CASE UNCHANGED <<pc, pDraws, singles>>
  BY <1>5
<1>6. CASE <<pc, pc'>> \in Calls \ {<<"open", "texture">>} /\ UNCHANGED <<pDraws, singles>>
  BY <1>6
<1>7. CASE pc \in {"open", "closing"} /\ UNCHANGED pDraws /\ pc' \in {pc, "texture"}
  BY <1>7
<1>8. QED
  BY <1>1, <1>2, <1>3, <1>4, <1>5, <1>6, <1>7, ControlChanges

LEMMA TurnStep ==
  ASSUME TypeOK, TurnInv, [Next]_vars PROVE TurnInv'
<1> USE DEF TurnInv, frame, vars
<1>1. CASE Clearing
  BY <1>1 DEF Clearing, BeginFrame, WaitTillImFree, Shutdown
<1>2. CASE Execute \/ Arm \/ Awaited \/ SignalNext \/ UNCHANGED vars \/ Draw
  BY <1>2 DEF Execute, Arm, Awaited, SignalNext, Draw
<1>3. ASSUME NEW o \in Objects, Create(o) \/ Bind(o) \/ Release(o)
      PROVE  UNCHANGED <<pc, frame>>
  BY <1>3 DEF Create, Bind, Release
<1>4. ASSUME NEW b \in Buffers, CreateFilled(b) \/ CopyToBuffer(b)
      PROVE  UNCHANGED <<pc, frame>>
  BY <1>4 DEF CreateFilled, CopyToBuffer
<1>5. ASSUME NEW h \in Heaps, CreateTexture(h) PROVE TurnInv'
  BY <1>5 DEF CreateTexture
<1>6. CASE EndFrame \/ EndFrameReturns \/ EndFrameUndefined
  BY <1>6 DEF EndFrame, EndFrameReturns, EndFrameUndefined
<1>7. CASE CallBeginFrame \/ CreateTextureReturns \/ CallResize \/ Resize \/ Close \/ Closed
  BY <1>7 DEF CallBeginFrame, CreateTextureReturns, CallResize, Resize, Close, Closed
<1>8. CASE Present \/ PresentReturns
  BY <1>8 DEF Present, PresentReturns
<1>9. QED
  BY <1>1, <1>2, <1>3, <1>4, <1>5, <1>6, <1>7, <1>8 DEF Next, Submit, Device, Clearing

LEMMA ReleasedStep ==
  ASSUME TypeOK, ReleasedInv, UploadInv, [Next]_vars PROVE ReleasedInv'
<1> USE DEF ReleasedInv
<1>0. stage \in [Objects -> Stages]
  BY DEF TypeOK
<1>1. CASE Clearing
  BY <1>1, ClearingFacts DEF ClearPendingReleases
<1>2. CASE ~Clearing /\ pc' \in {"shutdown", "down"}
  <2>1. pc' = pc /\ pc \in {"shutdown", "down"}
    BY <1>2, ControlChanges DEF Calls, Draw
  <2>2. UNCHANGED stage
    BY <1>2, <2>1, StageChanges DEF Create, Release, CreateFilled, CopyToBuffer,
       CreateTexture, CreateTextureReturns, Submitting
  <2>3. QED
    BY <2>1, <2>2
<1>3. QED
  BY <1>1, <1>2

-----------------------------------------------------------------------------
(* The copies, the draws and what the queue uses.                          *)

(* A call that copies: what it uses is there when the call returns.        *)
Copying ==
  \E uses \in SUBSET Objects :
    /\ Submitting /\ EndSingleTimeCommands(uses)
    /\ \A o \in uses : stage'[o] \in {"live", "released"}
    /\ UNCHANGED <<completed, event, armed, bound, pDraws>>

LEMMA CopyingFacts ==
  ASSUME TypeOK, UploadInv
  PROVE  /\ \A b \in Buffers : CreateFilled(b) \/ CopyToBuffer(b) => Copying
         /\ \A h \in Heaps : CreateTexture(h) => Copying
<1>0. stage \in [Objects -> Stages]
  BY DEF TypeOK
<1>1. ASSUME NEW b \in Buffers, CreateFilled(b) PROVE Copying
  <2>1. PICK u \in Uploads : Filled(b, u)
    BY <1>1, UploadNamed
  <2>2. b \in Objects /\ u \in Objects /\ b # u
    BY DeviceAssumption DEF Objects
  <2>3. stage'[b] = "live" /\ stage'[u] = "released"
    BY <1>0, <2>1, <2>2 DEF Filled
  <2>4. QED
    BY <1>1, <2>1, <2>2, <2>3 DEF CreateFilled, Filled, Copying
<1>2. ASSUME NEW b \in Buffers, CopyToBuffer(b) PROVE Copying
  <2>1. PICK u \in Uploads : Copied(b, u)
    BY <1>2, UploadNamed
  <2>2. b \in Objects /\ u \in Objects /\ b # u /\ stage[b] = "live"
    BY <1>2, DeviceAssumption DEF CopyToBuffer, Objects
  <2>3. b # upload[b] /\ u # upload[b]
    BY <2>1, DeviceAssumption DEF Copied, TypeOK, UploadInv
  <2>4. stage'[b] = "live" /\ stage'[u] = "released"
    BY <1>0, <2>1, <2>2, <2>3 DEF Copied
  <2>5. QED
    BY <1>2, <2>1, <2>2, <2>4 DEF CopyToBuffer, Copied, Copying
<1>3. ASSUME NEW h \in Heaps, CreateTexture(h) PROVE Copying
  <2>1. h \in Objects /\ stage'[h] = "released"
    BY <1>0, <1>3 DEF CreateTexture, Objects
  <2>2. QED
    BY <1>3, <2>1 DEF CreateTexture, Copying, Submitting
<1>4. QED
  BY <1>1, <1>2, <1>3

(* Who touches the draws, the copies and the bindings.                     *)
LEMMA DrawingChanges ==
  ASSUME TypeOK, UploadInv, [Next]_vars
  PROVE  \/ Copying
         \/ Draw
         \/ \E o \in Objects : Bind(o)
         \/ EndFrame /\ singles' = singles
         \/ EndFrameReturns
         \/ UNCHANGED <<bound, pDraws, singles>>
<1> USE DEF vars, drawing
<1>1. ASSUME NEW b \in Buffers, CreateFilled(b) \/ CopyToBuffer(b) PROVE Copying
  BY <1>1, CopyingFacts
<1>2. ASSUME NEW h \in Heaps, CreateTexture(h) PROVE Copying
  BY <1>2, CopyingFacts
<1>3. ASSUME NEW o \in Objects, Create(o) \/ Release(o)
      PROVE  UNCHANGED <<bound, pDraws, singles>>
  BY <1>3 DEF Create, Release
<1>4. CASE Clearing
  BY <1>4, ClearingFacts DEF ClearPendingReleases
<1>5. CASE Execute \/ Arm \/ Awaited \/ SignalNext \/ UNCHANGED vars
  BY <1>5 DEF Execute, Arm, Awaited, SignalNext
<1>6. CASE CallBeginFrame \/ CreateTextureReturns \/ EndFrameUndefined \/ CallResize
           \/ Resize \/ Present \/ PresentReturns \/ Close \/ Closed
  BY <1>6 DEF CallBeginFrame, CreateTextureReturns, EndFrameUndefined, CallResize,
     Resize, Present, PresentReturns, Close, Closed
<1>7. EndFrame => singles' = singles
  BY DEF EndFrame
<1>8. QED
  BY <1>1, <1>2, <1>3, <1>4, <1>5, <1>6, <1>7 DEF Next, Submit, Device, Clearing

(* The copies that are collected, after one more.                          *)
LEMMA SinglesFacts ==
  ASSUME TypeOK, NEW uses \in SUBSET Objects, EndSingleTimeCommands(uses)
  PROVE  /\ DOMAIN singles = 1..Len(singles)
         /\ \A k \in DOMAIN singles : singles[k] \subseteq Objects
         /\ \A k \in DOMAIN singles' :
              \/ k \in DOMAIN singles /\ singles'[k] = singles[k]
              \/ singles'[k] = uses
<1>1. singles \in Seq(SUBSET Objects)
  BY DEF TypeOK
<1>2. /\ DOMAIN singles = 1..Len(singles) /\ Len(singles) \in Nat
      /\ singles \in [1..Len(singles) -> SUBSET Objects]
  BY <1>1, LenProperties
<1>3. CASE singles' = singles
  BY <1>2, <1>3
<1>4. CASE singles' = Append(singles, uses)
  <2>1. /\ Append(singles, uses) \in Seq(SUBSET Objects)
        /\ Len(Append(singles, uses)) = Len(singles) + 1
        /\ \A k \in 1..Len(singles) : Append(singles, uses)[k] = singles[k]
        /\ Append(singles, uses)[Len(singles) + 1] = uses
    BY <1>1, AppendProperties
  <2>2. DOMAIN singles' = 1..Len(singles)+1
    BY <1>4, <2>1, LenProperties
  <2>3. \A k \in DOMAIN singles' : k \in 1..Len(singles) \/ k = Len(singles) + 1
    BY <1>2, <2>2
  <2>4. QED
    BY <1>2, <1>4, <2>1, <2>3
<1>5. QED
  BY <1>3, <1>4 DEF EndSingleTimeCommands

(* What the frame names, after a step.                                     *)
LEMMA NamedChanges ==
  ASSUME TypeOK, UploadInv, [Next]_vars, NEW o \in Named', o \notin Named
  PROVE  o \in Objects /\ (o \in bound[currentFrame] \/ stage'[o] \in {"live", "released"})
<1>0. currentFrame \in Slots /\ bound \in [Slots -> SUBSET (Buffers \cup Pipelines)]
      /\ Buffers \cup Pipelines \subseteq Objects
  BY DEF TypeOK, Objects
<1>1. CASE Copying
  <2>1. PICK uses \in SUBSET Objects :
          /\ EndSingleTimeCommands(uses)
          /\ \A p \in uses : stage'[p] \in {"live", "released"}
          /\ pDraws' = pDraws
    BY <1>1 DEF Copying
  <2>2. \A k \in DOMAIN singles' :
              \/ k \in DOMAIN singles /\ singles'[k] = singles[k]
              \/ singles'[k] = uses
    BY <2>1, SinglesFacts
  <2>3. o \in uses
    BY <2>1, <2>2 DEF Named, Drawn
  <2>4. QED
    BY <2>1, <2>3
<1>2. CASE Draw
  <2>1. pDraws' = pDraws \cup {bound[currentFrame]} /\ singles' = singles
    BY <1>2 DEF Draw
  <2>2. o \in bound[currentFrame]
    BY <2>1 DEF Named, Drawn
  <2>3. QED
    BY <1>0, <2>2
<1>3. CASE EndFrame /\ singles' = singles
  BY <1>3 DEF EndFrame, Named, Drawn
<1>4. CASE EndFrameReturns
  BY <1>4 DEF EndFrameReturns, Named, Drawn
<1>5. CASE UNCHANGED <<pDraws, singles>>
  BY <1>5 DEF Named, Drawn
<1>6. ASSUME NEW p \in Objects, Bind(p) PROVE UNCHANGED <<pDraws, singles>>
  BY <1>6 DEF Bind
<1>7. QED
  BY <1>1, <1>2, <1>3, <1>4, <1>5, <1>6, DrawingChanges

LEMMA BoundStep ==
  ASSUME TypeOK, BoundInv, UploadInv, [Next]_vars PROVE BoundInv'
<1> USE DEF BoundInv
<1>0. /\ currentFrame \in Slots /\ bound \in [Slots -> SUBSET (Buffers \cup Pipelines)]
      /\ \A i \in Slots : bound[i] \subseteq Objects
      /\ Named \subseteq Objects
  BY NamedType DEF TypeOK, Objects
<1>1. \A o \in Objects : stage'[o] = "none" => stage[o] = "none"
  BY StageMoves DEF Abstract!Moves
<1>2. ASSUME NEW i \in Slots, NEW o \in bound'[i] PROVE stage'[o] # "none"
  <2>1. ASSUME NEW p \in Objects, Bind(p) PROVE stage'[o] # "none"
    <3>1. o \in bound[i] \cup {p} /\ stage' = stage /\ stage[p] = "live"
      BY <1>0, <2>1 DEF Bind
    <3>2. QED
      BY <1>2, <3>1
  <2>2. CASE bound' = bound
    BY <1>0, <1>1, <1>2, <2>2
  <2>3. Copying \/ Draw \/ EndFrame \/ EndFrameReturns => bound' = bound
    BY DEF Copying, Draw, EndFrame, EndFrameReturns
  <2>4. QED
    BY <2>1, <2>2, <2>3, DrawingChanges
<1>3. ASSUME NEW o \in Named' PROVE stage'[o] # "none"
  BY <1>0, <1>1, <1>3, NamedChanges
<1>4. QED
  BY <1>2, <1>3

LEMMA CopiesStep ==
  ASSUME TypeOK, UploadInv, CollectedInv, CollectedCopiesWhole, [Next]_vars
  PROVE  CollectedCopiesWhole'
<1> SUFFICES ASSUME pc' \in {"open", "texture", "endFrame"},
                    NEW k \in DOMAIN singles', NEW o \in singles'[k], stage'[o] = "freed"
             PROVE  o \in Heaps
  BY DEF CollectedCopiesWhole
<1>1. CASE Copying
  <2>1. PICK uses \in SUBSET Objects :
          /\ pc \in {"open", "closing"} /\ EndSingleTimeCommands(uses)
          /\ \A p \in uses : stage'[p] \in {"live", "released"}
    BY <1>1 DEF Copying, Submitting
  <2>2. k \in DOMAIN singles /\ o \in singles[k] /\ singles[k] \subseteq Objects
    BY <2>1, SinglesFacts
  <2>3. pc = "open"
    BY <2>1, ControlChanges, ClearingFacts DEF Calls, EndFrame, EndFrameReturns, Draw
  <2>4. stage[o] # "freed" => o \in Heaps
    BY <2>2, <2>3, StageMoves, ClearingFacts DEF CreateTextureReturns
  <2>5. QED
    BY <2>2, <2>3, <2>4 DEF CollectedCopiesWhole
<1>2. CASE singles' = singles
  <2>1. singles[k] \subseteq Objects
    <3>1. singles \in Seq(SUBSET Objects)
      BY DEF TypeOK
    <3>2. DOMAIN singles = 1..Len(singles) /\ singles \in [1..Len(singles) -> SUBSET Objects]
      BY <3>1, LenProperties
    <3>3. QED
      BY <1>2, <3>2
  <2>2. singles # <<>>
    BY <1>2
  <2>3. pc \in {"open", "texture", "endFrame"}
    BY <1>2, <2>2, ControlChanges, ClearingFacts DEF Calls, CollectedInv, EndFrame,
       EndFrameReturns, Draw
  <2>4. stage[o] # "freed" => o \in Heaps
    BY <1>2, <2>1, <2>3, StageMoves, ClearingFacts
  <2>5. QED
    BY <1>2, <2>3, <2>4 DEF CollectedCopiesWhole
<1>3. ASSUME NEW p \in Objects, Bind(p) PROVE singles' = singles
  BY <1>3 DEF Bind
<1>4. QED
  BY <1>1, <1>2, <1>3, DrawingChanges DEF Draw, EndFrameReturns

LEMMA UsesType == TypeOK => Uses(queue) \subseteq Objects
  BY QueueFacts DEF Uses, Items

(* While the thread runs, the queue uses nothing.                          *)
LEMMA RunUsesNothing == WorkInv /\ phase = "run" => Uses(queue) = {}
  BY DEF WorkInv, Uses

LEMMA UsesOfExecute ==
  ASSUME TypeOK, Execute PROVE Uses(queue') \subseteq Uses(queue)
  BY ExecuteFacts DEF Uses

LEMMA UsesOfWork ==
  ASSUME TypeOK, NEW uses \in SUBSET Objects, SignalsWork(uses)
  PROVE  Uses(queue') \subseteq Uses(queue) \cup uses
<1>0. /\ queue \in Seq(Items) /\ DOMAIN queue = 1..Len(queue) /\ Len(queue) \in Nat
      /\ SFence \in Fences /\ currentFrame \in Slots /\ fenceValues[SFence] + 1 \in Nat
  <2>1. fenceValues[SFence] \in Nat /\ currentFrame \in Slots
    BY DEF TypeOK
  <2>2. QED
    BY <2>1, QueueFacts DEF Fences
<1>1. Work(uses) \in Items /\ Work(uses).uses = uses
  BY <1>0 DEF Work, Items
<1>2. /\ Signal(SFence, fenceValues[SFence] + 1) \in Items
      /\ Signal(SFence, fenceValues[SFence] + 1).uses = {}
  BY <1>0 DEF Signal, Items
<1>3. /\ queue' \in Seq(Items)
      /\ Len(queue') = Len(queue) + 2
      /\ \A k \in 1..Len(queue) : queue'[k] = queue[k]
      /\ queue'[Len(queue) + 1] = Work(uses)
      /\ queue'[Len(queue) + 2] = Signal(SFence, fenceValues[SFence] + 1)
  BY <1>0, <1>1, <1>2, JoinedItems DEF SignalsWork, Signals, SignalAfter
<1>4. DOMAIN queue' = 1..Len(queue)+2
  BY <1>3, LenProperties
<1>5. \A k \in DOMAIN queue' : k \in DOMAIN queue \/ k = Len(queue) + 1 \/ k = Len(queue) + 2
  BY <1>0, <1>4
<1>6. \A k \in DOMAIN queue' : \/ queue'[k].uses = uses
                               \/ queue'[k].uses = {}
                               \/ k \in DOMAIN queue /\ queue'[k] = queue[k]
  BY <1>0, <1>1, <1>2, <1>3, <1>5
<1>7. QED
  BY <1>6 DEF Uses

(* A wait for a slot's fence brings nothing that uses an object.           *)
LEMMA UsesOfSlotWait ==
  ASSUME TypeOK, Signalled, target'.fence \in Slots
  PROVE  Uses(queue') \subseteq Uses(queue)
<1>1. PICK f \in Fences, v \in Nat : WaitBegins(f, v)
  BY SignalledBegins
<1>2. f # SFence
  BY <1>1, SlotFacts, BeginsFacts
<1>3. \A k \in DOMAIN queue' : \/ queue'[k].uses = {}
                               \/ k \in DOMAIN queue /\ queue'[k] = queue[k]
  BY <1>1, <1>2, BeginsFacts
<1>4. QED
  BY <1>3 DEF Uses

LEMMA QueueChanges ==
  ASSUME TypeOK, UploadInv, [Next]_vars
  PROVE  \/ Copying \/ EndFrame \/ Execute
         \/ Signalled /\ target'.fence \in Slots
         \/ UNCHANGED queue
<1> USE DEF vars, fences
<1>1. ASSUME NEW b \in Buffers, CreateFilled(b) \/ CopyToBuffer(b) PROVE Copying
  BY <1>1, CopyingFacts
<1>2. ASSUME NEW h \in Heaps, CreateTexture(h) PROVE Copying
  BY <1>2, CopyingFacts
<1>3. CASE SignalNext
  <2>1. slot \in Slots
    BY <1>3, DeviceAssumption DEF SignalNext, TypeOK, Slots
  <2>2. QED
    BY <1>3, <2>1 DEF SignalNext, Signalled, Signals, SignalAfter
<1>4. CASE Present
  BY <1>4 DEF Present, WaitForFence, Signalled, Signals, SignalAfter, TypeOK
<1>5. CASE CallResize
  BY <1>5 DEF CallResize, WaitForFence, Signalled, Signals, SignalAfter, TypeOK
<1>6. ASSUME NEW o \in Objects, Create(o) \/ Bind(o) \/ Release(o) PROVE UNCHANGED queue
  BY <1>6 DEF Create, Bind, Release
<1>7. CASE \/ Arm \/ Awaited \/ CallBeginFrame \/ BeginFrame \/ Draw
           \/ CreateTextureReturns \/ EndFrameUndefined \/ EndFrameReturns
           \/ PresentReturns \/ Resize \/ Close \/ Closed \/ WaitTillImFree
           \/ Shutdown \/ UNCHANGED vars
  BY <1>7 DEF Arm, Awaited, CallBeginFrame, BeginFrame, Draw, CreateTextureReturns,
     EndFrameUndefined, EndFrameReturns, PresentReturns, Resize, Close, Closed,
     WaitTillImFree, Shutdown
<1>8. QED
  BY <1>1, <1>2, <1>3, <1>4, <1>5, <1>6, <1>7 DEF Next, Submit, Device

(* What the queue comes to use is there and not freed.                     *)
LEMMA UsesStep ==
  ASSUME TypeOK, UploadInv, BoundInv, [Next]_vars,
         NEW o \in Uses(queue'), o \notin Uses(queue)
  PROVE  stage'[o] \notin {"none", "freed"}
<1>1. CASE Copying
  <2>1. PICK uses \in SUBSET Objects :
          /\ phase = "run" /\ EndSingleTimeCommands(uses)
          /\ \A p \in uses : stage'[p] \in {"live", "released"}
          /\ UNCHANGED <<completed, event, armed>>
    BY <1>1 DEF Copying, Submitting
  <2>2. SignalsWork(uses) \/ UNCHANGED queue
    BY <2>1, SingleSignals DEF fences
  <2>3. o \in uses
    BY <2>2, UsesOfWork
  <2>4. QED
    BY <2>1, <2>3
<1>2. CASE EndFrame
  <2>1. SignalsWork(Named) /\ Named \in SUBSET Objects /\ stage' = stage /\ ~Dangling
    BY <1>2, NamedType DEF EndFrame, SignalsWork, Signals
  <2>2. o \in Named
    BY <2>1, UsesOfWork
  <2>3. QED
    BY <2>1, <2>2 DEF BoundInv, Dangling
<1>3. CASE Execute
  BY <1>3, UsesOfExecute
<1>4. CASE Signalled /\ target'.fence \in Slots
  BY <1>4, UsesOfSlotWait
<1>5. CASE UNCHANGED queue
  BY <1>5
<1>6. QED
  BY <1>1, <1>2, <1>3, <1>4, <1>5, QueueChanges

LEMMA FreedStep ==
  ASSUME TypeOK, WorkInv, BoundInv, UploadInv, FreedNotInFlight, [Next]_vars
  PROVE  FreedNotInFlight'
<1> SUFFICES ASSUME NEW o \in Uses(queue') PROVE stage'[o] # "freed"
  BY DEF FreedNotInFlight
<1>1. CASE o \in Uses(queue)
  <2>1. o \in Objects /\ stage[o] # "freed" /\ phase # "run"
    BY <1>1, UsesType, RunUsesNothing DEF FreedNotInFlight
  <2>2. QED
    BY <2>1, StageMoves
<1>2. CASE o \notin Uses(queue)
  BY <1>2, UsesStep
<1>3. QED
  BY <1>1, <1>2

-----------------------------------------------------------------------------
LEMMA InvInit == Init => IInv
<1> SUFFICES ASSUME Init PROVE IInv
  OBVIOUS
<1>1. /\ queue = <<>> /\ DOMAIN queue = {} /\ singles = <<>> /\ DOMAIN singles = {}
      /\ pDraws = {} /\ phase = "run" /\ pc = "idle"
  BY DEF Init
<1>2. Named = {} /\ Uses(queue) = {}
  BY <1>1 DEF Named, Drawn, Uses
<1>3. FencesInv /\ AwaitedInv /\ WorkInv /\ EventInv /\ WaitNotLost
  <2>1. \A f \in DOMAIN completed : completed[f] <= fenceValues[f]
    BY DEF Init
  <2>2. FencesInv /\ AwaitedInv /\ WorkInv
    BY <1>1, <2>1 DEF FencesInv, AwaitedInv, WorkInv
  <2>3. EventInv /\ WaitNotLost
    BY <1>1 DEF Init, EventInv, EventOfThisWait, WaitNotLost
  <2>4. QED
    BY <2>2, <2>3
<1>4. CollectedInv /\ BoundInv /\ UploadInv /\ TurnInv /\ ReleasedInv
  BY <1>1, <1>2 DEF Init, CollectedInv, BoundInv, UploadInv, TurnInv, ReleasedInv
<1>5. FreedNotInFlight /\ CollectedCopiesWhole
  BY <1>1, <1>2 DEF FreedNotInFlight, CollectedCopiesWhole
<1>6. QED
  BY <1>3, <1>4, <1>5, TypeInit DEF IInv

LEMMA InvStep ==
  ASSUME IInv, [Next]_vars PROVE IInv'
<1>1. TypeOK' /\ FencesInv' /\ AwaitedInv' /\ WorkInv' /\ EventInv' /\ WaitNotLost'
  BY TypeStep, FencesStep, AwaitedStep, WorkStep, EventStep, WaitStep DEF IInv
<1>2. CollectedInv' /\ BoundInv' /\ UploadInv' /\ TurnInv' /\ ReleasedInv'
  BY CollectedStep, BoundStep, UploadStep, TurnStep, ReleasedStep DEF IInv
<1>3. FreedNotInFlight' /\ CollectedCopiesWhole'
  BY FreedStep, CopiesStep DEF IInv
<1>4. QED
  BY <1>1, <1>2, <1>3 DEF IInv

LEMMA InvHolds == Spec => []IInv
  BY InvInit, InvStep, PTL DEF Spec

(* Every field of the device is well typed, for any number of frames.      *)
THEOREM DxTypeCorrect == Spec => []TypeOK
<1>1. IInv => TypeOK
  BY DEF IInv
<1>2. QED
  BY <1>1, InvHolds, PTL

(* The one auto-reset event ends only the wait it was asked for.           *)
THEOREM DxEventHolds == Spec => []EventOfThisWait
<1>1. IInv => EventOfThisWait
  BY DEF IInv, EventInv
<1>2. QED
  BY <1>1, InvHolds, PTL

(* No wait is lost: whenever the thread waits, the event is set or the     *)
(* signal that will set it is in the queue.                                *)
THEOREM DxWaitHolds == Spec => []WaitNotLost
<1>1. IInv => WaitNotLost
  BY DEF IInv
<1>2. QED
  BY <1>1, InvHolds, PTL

(* The device never works with memory that was freed.                      *)
THEOREM DxFreedHolds == Spec => []FreedNotInFlight
<1>1. IInv => FreedNotInFlight
  BY DEF IInv
<1>2. QED
  BY <1>1, InvHolds, PTL

(* No copy or draw is in the queue when Resize gives up the back buffers.  *)
THEOREM DxResizeHolds == Spec => []ResizeAlone
<1>1. IInv => ResizeAlone
  BY DEF IInv, WorkInv, ResizeAlone
<1>2. QED
  BY <1>1, InvHolds, PTL

(* What a collected copy names is freed before EndFrame only if it is a    *)
(* texture's heap.                                                         *)
THEOREM DxCopiesHold == Spec => []CollectedCopiesWhole
<1>1. IInv => CollectedCopiesWhole
  BY DEF IInv
<1>2. QED
  BY <1>1, InvHolds, PTL

(* currentFrame is the swap chain's buffer in every open frame.            *)
THEOREM DxSlotHolds == Spec => []SlotIsBackBuffer
<1>1. IInv => SlotIsBackBuffer
  BY DEF IInv, TurnInv, SlotIsBackBuffer
<1>2. QED
  BY <1>1, InvHolds, PTL

(* ClearPendingReleases forgets a pipeline only while the window closes.   *)
THEOREM DxLeakHolds == Spec => LeakOnlyAtClose
<1>1. ASSUME IInv, [Next]_vars, NEW p \in Pipelines, stage[p] # "leaked", stage'[p] = "leaked"
      PROVE  pc = "free"
  <2>1. p \in Objects /\ p \notin Uploads
    BY DeviceAssumption DEF Objects
  <2>2. Clearing /\ p \in Drawn /\ <<stage[p], stage'[p]>> \in Abstract!Moves
    BY <1>1, <2>1, StageMoves DEF IInv
  <2>3. stage[p] = "released" /\ pDraws # {}
    BY <1>1, <2>2 DEF Abstract!Moves, Drawn
  <2>4. pc # "shutdown"
    BY <1>1, <2>1, <2>3 DEF IInv, ReleasedInv
  <2>5. pc # "begin"
    BY <1>1, <2>3 DEF IInv, CollectedInv
  <2>6. QED
    BY <2>2, <2>4, <2>5, ClearingFacts
<1>2. IInv /\ [Next]_vars
        => [\A p \in Pipelines : stage[p] # "leaked" /\ stage'[p] = "leaked"
              => pc = "free"]_vars
  BY <1>1
<1>3. QED
  BY <1>2, InvHolds, PTL DEF Spec, LeakOnlyAtClose

(* Every step of the device is a step of GpuObjects or changes none of what *)
(* it sees.                                                                *)
THEOREM DxImplementsHolds == Spec => ImplementsGpuObjects
<1>1. Init => Abstract!Init
  BY DEF Init, Abstract!Init, Uses
<1>2. ASSUME IInv, IInv', [Next]_vars PROVE [Abstract!Next]_<<stage, Uses(queue)>>
  <2>0. TypeOK /\ UploadInv /\ BoundInv /\ WorkInv
    BY <1>2 DEF IInv
  <2>1. stage' \in [Objects -> Abstract!Stages] /\ Uses(queue') \subseteq Objects
    <3>1. TypeOK'
      BY <1>2 DEF IInv
    <3>2. (Uses(queue) \subseteq Objects)'
      BY <3>1, UsesType, PTL
    <3>3. QED
      BY <3>1, <3>2 DEF TypeOK, Stages, Abstract!Stages
  <2>2. ASSUME NEW o \in Objects, stage'[o] # stage[o]
        PROVE  /\ <<stage[o], stage'[o]>> \in Abstract!Moves
               /\ stage'[o] = "freed" => o \notin Uses(queue)
    BY <1>2, <2>0, <2>2, StageMoves, RunUsesNothing
  <2>3. \A o \in Uses(queue') \ Uses(queue) : stage'[o] \notin {"none", "freed"}
    BY <1>2, <2>0, UsesStep
  <2>4. QED
    BY <2>1, <2>2, <2>3 DEF Abstract!Next
<1>3. QED
  BY <1>1, <1>2, InvHolds, PTL DEF Spec, ImplementsGpuObjects, Abstract!Spec

============================================================================
