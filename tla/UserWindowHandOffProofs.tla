--------------------- MODULE UserWindowHandOffProofs ---------------------
(***************************************************************************)
(* Every step of a window that is neither minimised nor switched is a step *)
(* of FrameHandOff or leaves its turn and its frame alone.                 *)
(***************************************************************************)
EXTENDS UserWindowProofs, UserWindowHandOff

(* Everything proved about such a window, in one place.                     *)
ServingInv ==
  /\ TypeOK /\ PushInv /\ OneUpdate /\ HasUpdate
  /\ NoRestart /\ InTurn /\ Recorded /\ Kept

HandOffStep == [HandOff!Next]_<<turnOf, recordedOf>>

(* A step that requests the stop, or comes after the request, is Stop.      *)
LEMMA StopImplements ==
  ASSUME stopThread' PROVE HandOffStep
  BY DEF HandOffStep, HandOff!Next, HandOff!Stop, turnOf, recordedOf

(* The worker's steps while the UI thread serves.                           *)
LEMMA WorkerImplements ==
  ASSUME ServingInv, Worker \/ WSpuriousWake, ~stopThread'
  PROVE  HandOffStep
<1> USE DEF turnOf, recordedOf, Asking, UpdateSteps, Work
<1>1. ~stopThread /\ UNCHANGED <<ui, stopThread>> /\ ui \in Serving
  BY DEF ServingInv, NoRestart, Worker, WLock, WCheck, WBlock, WClear, WStamp,
     WMark, WUndraw, WUpdate, WPush, WDraw, WThaw, WUnmark, WSpuriousWake, sync
<1>2. CASE WCheck
  <2>1. CASE workAvailable
    <3>1. turnOf = "asked" /\ recordedOf = <<>>
      BY <1>1, <1>2, <2>1 DEF WCheck, ServingInv, InTurn
    <3>2. turnOf' = "recording" /\ recordedOf' = <<>>
      BY <1>1, <1>2, <2>1 DEF WCheck, ServingInv, InTurn, frame
    <3>3. HandOff!Begin
      BY <3>1, <3>2 DEF HandOff!Begin
    <3>4. QED
      BY <3>3 DEF HandOffStep, HandOff!Next
  <2>2. CASE ~workAvailable
    BY <1>1, <1>2, <2>2 DEF WCheck, HandOffStep, frame, list
  <2>3. QED
    BY <2>1, <2>2
<1>3. CASE WClear
  BY <1>1, <1>3 DEF WClear, HandOffStep, frame, sync, ServingInv, InTurn
<1>4. CASE WPush
  <2>1. turnOf = "recording" /\ recordedOf = commands
    BY <1>1, <1>4 DEF WPush, ServingInv, InTurn
  <2>2. turnOf' = "recording" /\ recordedOf' = Append(commands, update)
    BY <1>1, <1>4 DEF WPush, ServingInv, InTurn, frame, sync
  <2>3. Len(commands) < Pushes
    BY <1>4 DEF WPush, ServingInv, Recorded, PushInv
  <2>4. commands = <<>> \/ commands[1] = update
    BY DEF ServingInv, TypeOK, ListOK, OneUpdate
  <2>5. update \in Frames
    BY DEF ServingInv, TypeOK, ListOK
  <2>6. HandOff!Record
    BY <2>1, <2>2, <2>3, <2>4, <2>5 DEF HandOff!Record
  <2>7. QED
    BY <2>6 DEF HandOffStep, HandOff!Next
<1>5. CASE WDraw
  <2>1. turnOf = "recording" /\ recordedOf = commands /\ Len(commands) = Pushes
    BY <1>1, <1>5 DEF WDraw, ServingInv, InTurn, Recorded
  <2>2. CASE Asking
    <3>1. turnOf' = "lost" /\ recordedOf' = <<>>
      BY <1>1, <1>5, <2>2 DEF WDraw, ServingInv, InTurn, sync
    <3>2. HandOff!Lose
      BY <2>1, <3>1 DEF HandOff!Lose
    <3>3. QED
      BY <3>2 DEF HandOffStep, HandOff!Next
  <2>3. CASE ~Asking
    <3>1. turnOf' = "finished" /\ recordedOf' = commands
      BY <1>1, <1>5, <2>3 DEF WDraw, list
    <3>2. HandOff!Finish
      BY <2>1, <3>1 DEF HandOff!Finish
    <3>3. QED
      BY <3>2 DEF HandOffStep, HandOff!Next
  <2>4. QED
    BY <2>2, <2>3
<1>6. CASE WUndraw
  BY <1>1, <1>6 DEF WUndraw, HandOffStep, ServingInv, InTurn, list, sync
<1>7. CASE WStamp \/ WMark \/ WUpdate
  BY <1>1, <1>7 DEF WStamp, WMark, WUpdate, HandOffStep, frame, list, sync
<1>8. CASE WLock \/ WBlock \/ WThaw \/ WUnmark \/ WSpuriousWake
  BY <1>1, <1>8 DEF WLock, WBlock, WThaw, WUnmark, WSpuriousWake, HandOffStep,
     frame, list, sync
<1>9. QED
  BY <1>2, <1>3, <1>4, <1>5, <1>6, <1>7, <1>8 DEF Worker

(* The UI thread draws with Submit and asks with AskForWork; nothing else   *)
(* that it does while it renders shows.                                     *)
LEMMA RenderImplements ==
  ASSUME ServingInv, NoRestart', UIRender, ~stopThread'
  PROVE  HandOffStep
<1> USE DEF turnOf, recordedOf, Asking, UI
<1>1. ~stopThread /\ ui \in Serving
  BY DEF ServingInv, NoRestart, UIRender, Return, Render, MinPredraw, MinIdle,
     MinWork, MinNotify, FreezeTest, FreezeSet, Choose, DestroyBox, Idle,
     Submit, ChooseAgain, AskForWork, Undraw, Rest, NotifyWorker, Present, sync
<1>2. CASE Submit
  <2>1. turnOf = "finished" /\ recordedOf = commands /\ Len(commands) = Pushes
    BY <1>1, <1>2 DEF Submit, ServingInv, InTurn, Kept
  <2>2. turnOf' = "finished" /\ recordedOf' = <<>>
    BY <1>1, <1>2, <2>1 DEF Submit, frame, sync
  <2>3. HandOff!Draw
    BY <2>1, <2>2 DEF HandOff!Draw
  <2>4. QED
    BY <2>3 DEF HandOffStep, HandOff!Next
<1>3. CASE AskForWork
  <2>1. turnOf = "finished"
    BY <1>1, <1>3 DEF AskForWork, ServingInv, InTurn
  <2>2. turnOf' = "asked" /\ recordedOf' = <<>>
    BY <1>1, <1>3 DEF AskForWork, ServingInv, InTurn
  <2>3. HandOff!Ask
    BY <2>1, <2>2 DEF HandOff!Ask
  <2>4. QED
    BY <2>3 DEF HandOffStep, HandOff!Next
<1>4. CASE Undraw
  BY <1>1, <1>4 DEF Undraw, HandOffStep, list, sync
<1>5. CASE MinPredraw \/ MinIdle \/ MinWork \/ MinNotify
  BY <1>1, <1>5 DEF MinPredraw, MinIdle, MinWork, MinNotify, Serving,
     RenderSteps, MinimisedSteps
<1>6. CASE NotifyWorker
  BY <1>1, <1>6 DEF NotifyWorker, Notify, UpdateSteps, HandOffStep, frame, list,
     sync
<1>7. CASE Render \/ FreezeTest \/ FreezeSet \/ Choose \/ DestroyBox \/ Idle
             \/ ChooseAgain \/ Rest \/ Present
  BY <1>1, <1>7 DEF Render, FreezeTest, FreezeSet, Choose, DestroyBox, Idle,
     ChooseAgain, Rest, Present, Return, HandOffStep, frame, list, sync
<1>8. QED
  BY <1>2, <1>3, <1>4, <1>5, <1>6, <1>7 DEF UIRender

(* Polling and the dialog leave the hand-off alone, and shutdown comes after *)
(* the request to stop.                                                     *)
LEMMA OthersImplement ==
  ASSUME ServingInv, UIPoll \/ UIStop \/ Dialog \/ UNCHANGED vars, ~stopThread'
  PROVE  HandOffStep
<1> USE DEF turnOf, recordedOf, Asking, UI, frame, list, sync
<1>1. CASE UIPoll
  BY <1>1 DEF UIPoll, PollNothing, Gate, Minimise, Resize, Click, JoinBox,
     Close, Switch, HandOffStep
<1>2. CASE UIStop
  <2>1. stopThread /\ ui # "restart"
    BY <1>2 DEF UIStop, StopLock, StopNotify, StopSpin, StopKill, StopBox,
       StopKillBox, StopJoinBox, StopJoin, ClearList, Release, Restart,
       ServingInv, NoRestart, Serving, RenderSteps, MinimisedSteps
  <2>2. stopThread'
    BY <1>2, <2>1 DEF UIStop, StopLock, StopNotify, StopSpin, StopKill, StopBox,
       StopKillBox, StopJoinBox, StopJoin, ClearList, Release, Restart
  <2>3. QED
    BY <2>2
<1>3. CASE Dialog
  BY <1>3 DEF Dialog, BPause, BOpen, BClose, BInactive, BResume, HandOffStep
<1>4. CASE UNCHANGED vars
  BY <1>4 DEF vars, HandOffStep
<1>5. QED
  BY <1>1, <1>2, <1>3, <1>4

LEMMA ImplementsStep ==
  ASSUME ServingInv, NoRestart', [Next]_vars PROVE HandOffStep
  BY StopImplements, WorkerImplements, RenderImplements, OthersImplement
     DEF Next, UIThread

LEMMA ImplementsInit == Init => HandOff!Init
  BY DEF Init, HandOff!Init, turnOf, recordedOf, Asking, UpdateSteps

(* A window with a callback that is neither minimised nor switched           *)
(* implements the abstract hand-off.                                        *)
THEOREM HandOffHolds ==
  ASSUME HasUpdate, Events \cap {"minimise", "switch"} = {}
  PROVE  Spec => ImplementsHandOff
<1>1. Spec => []ServingInv
  <2>1. HasUpdate
    OBVIOUS
  <2>2. QED
    BY <2>1, TypeCorrect, OneUpdateHolds, ServingHolds, PTL DEF ServingInv
<1>2. ServingInv /\ ServingInv' /\ [Next]_vars => HandOffStep
  BY ImplementsStep DEF ServingInv
<1>3. QED
  BY <1>1, <1>2, ImplementsInit, PTL DEF Spec, ImplementsHandOff, HandOff!Spec, HandOffStep
============================================================================
