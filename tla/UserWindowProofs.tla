------------------------- MODULE UserWindowProofs -------------------------
(***************************************************************************)
(* Proofs about UserWindow for every set of frame identities, every number *)
(* of commands in an update and every choice of events, except where a     *)
(* theorem assumes that some events do not happen.                         *)
(***************************************************************************)
EXTENDS UserWindow, TLAPS

(* A callback that is in push_back has a command left to record.           *)
PushInv == worker = "push" => pushed < Pushes

(* Each group of fields keeps its types under every step.                  *)
LEMMA ThreadsStep ==
  ASSUME ThreadsOK, [Next]_vars PROVE ThreadsOK'
<1> USE DEF ThreadsOK, vars, sync, frame, list, dialog, view, UI, Work, Box,
    Notify
<1>1. CASE Worker \/ WSpuriousWake
  BY <1>1 DEF Worker, WLock, WCheck, WBlock, WClear, WStamp, WMark, WUndraw,
      WUpdate, WPush, WDraw, WThaw, WUnmark, WSpuriousWake, WorkerSteps,
      LockedSteps, UpdateSteps
<1>2. CASE Dialog
  BY <1>2 DEF Dialog, BPause, BOpen, BClose, BInactive, BResume, BoxSteps
<1>3. CASE UIPoll
  BY <1>3 DEF UIPoll, PollNothing, Gate, Minimise, Resize, Click, JoinBox,
      Close, Switch, UISteps, RenderSteps, StopSteps, BoxSteps
<1>4. CASE UIRender
  BY <1>4 DEF UIRender, Return, Render, MinPredraw, MinIdle, MinWork,
      MinNotify, FreezeTest, FreezeSet, Choose, DestroyBox, Idle, Submit,
      ChooseAgain, AskForWork, Undraw, Rest, NotifyWorker, Present, UISteps,
      RenderSteps, MinimisedSteps, WorkerSteps
<1>5. CASE UIStop
  BY <1>5 DEF UIStop, StopLock, StopNotify, StopSpin, StopKill, StopBox,
      StopKillBox, StopJoinBox, StopJoin, ClearList, Release, Restart,
      UISteps, StopSteps, SpinSteps, ReleaseSteps, RenderSteps, WorkerSteps,
      BoxSteps
<1>6. CASE UNCHANGED vars
  BY <1>6
<1>7. QED
  BY <1>1, <1>2, <1>3, <1>4, <1>5, <1>6 DEF Next, UIThread

(* The steps that touch the list, its lock or the update it records.       *)
ListAction == WClear \/ WUpdate \/ WPush \/ Submit \/ ClearList \/ Release \/ Restart

LEMMA ListChanges ==
  ASSUME [Next]_vars PROVE ListAction \/ UNCHANGED list
<1> USE DEF ListAction, vars, sync, frame, list, dialog, view
<1>1. CASE Worker \/ WSpuriousWake
  BY <1>1 DEF Worker, WLock, WCheck, WBlock, WClear, WStamp, WMark, WUndraw,
      WUpdate, WPush, WDraw, WThaw, WUnmark, WSpuriousWake
<1>2. CASE Dialog
  BY <1>2 DEF Dialog, BPause, BOpen, BClose, BInactive, BResume
<1>3. CASE UIPoll
  BY <1>3 DEF UIPoll, PollNothing, Gate, Minimise, Resize, Click, JoinBox,
      Close, Switch
<1>4. CASE UIRender
  BY <1>4 DEF UIRender, Return, Render, MinPredraw, MinIdle, MinWork,
      MinNotify, FreezeTest, FreezeSet, Choose, DestroyBox, Idle, Submit,
      ChooseAgain, AskForWork, Undraw, Rest, NotifyWorker, Present
<1>5. CASE UIStop
  BY <1>5 DEF UIStop, StopLock, StopNotify, StopSpin, StopKill, StopBox,
      StopKillBox, StopJoinBox, StopJoin, ClearList, Release, Restart
<1>6. CASE UNCHANGED vars
  BY <1>6
<1>7. QED
  BY <1>1, <1>2, <1>3, <1>4, <1>5, <1>6 DEF Next, UIThread

LEMMA ListStep ==
  ASSUME ListOK, PushInv, [Next]_vars PROVE ListOK'
<1> USE DEF ListOK, PushInv, Work, UI, Free
<1>1. CASE WClear
  BY <1>1, WindowAssumption DEF WClear
<1>2. CASE WUpdate
  BY <1>2 DEF WUpdate
<1>3. CASE WPush
  <2>1. pushed < Pushes /\ pushed' = pushed + 1
    BY <1>3 DEF WPush
  <2>2. pushed' \in 0..Pushes
    BY <2>1, WindowAssumption
  <2>3. commands' \in Seq(Frames)
    BY <1>3 DEF WPush
  <2>4. QED
    BY <1>3, <2>2, <2>3 DEF WPush
<1>4. CASE Submit \/ ClearList \/ Release \/ Restart
  <2>1. commands' = <<>> /\ update' = update /\ pushed' = pushed
    BY <1>4 DEF Submit, ClearList, Release, Restart
  <2>2. listLock' = Free
    BY <1>4 DEF Submit, ClearList, Release, Restart
  <2>3. QED
    BY <2>1, <2>2
<1>5. CASE UNCHANGED list
  BY <1>5 DEF list
<1>6. QED
  BY <1>1, <1>2, <1>3, <1>4, <1>5, ListChanges DEF ListAction

LEMMA PushStep ==
  ASSUME ListOK, PushInv, [Next]_vars PROVE PushInv'
<1> USE WindowAssumption DEF ListOK, PushInv, vars, sync, frame, list, dialog,
    view, UI, Work, Box, Notify
<1>1. CASE Worker \/ WSpuriousWake
  BY <1>1 DEF Worker, WLock, WCheck, WBlock, WClear, WStamp, WMark, WUndraw,
      WUpdate, WPush, WDraw, WThaw, WUnmark, WSpuriousWake
<1>2. CASE Dialog
  BY <1>2 DEF Dialog, BPause, BOpen, BClose, BInactive, BResume
<1>3. CASE UIPoll
  BY <1>3 DEF UIPoll, PollNothing, Gate, Minimise, Resize, Click, JoinBox,
      Close, Switch
<1>4. CASE UIRender
  BY <1>4 DEF UIRender, Return, Render, MinPredraw, MinIdle, MinWork,
      MinNotify, FreezeTest, FreezeSet, Choose, DestroyBox, Idle, Submit,
      ChooseAgain, AskForWork, Undraw, Rest, NotifyWorker, Present
<1>5. CASE UIStop
  BY <1>5 DEF UIStop, StopLock, StopNotify, StopSpin, StopKill, StopBox,
      StopKillBox, StopJoinBox, StopJoin, ClearList, Release, Restart
<1>6. CASE UNCHANGED vars
  BY <1>6
<1>7. QED
  BY <1>1, <1>2, <1>3, <1>4, <1>5, <1>6 DEF Next, UIThread

LEMMA MutexStep ==
  ASSUME MutexOK, [Next]_vars PROVE MutexOK'
<1> USE DEF MutexOK, Free, vars, sync, frame, list, dialog, view
<1>1. CASE Worker \/ WSpuriousWake
  BY <1>1 DEF Worker, WLock, WCheck, WBlock, WClear, WStamp, WMark, WUndraw,
      WUpdate, WPush, WDraw, WThaw, WUnmark, WSpuriousWake
<1>2. CASE Dialog
  BY <1>2 DEF Dialog, BPause, BOpen, BClose, BInactive, BResume
<1>3. CASE UIPoll
  BY <1>3 DEF UIPoll, PollNothing, Gate, Minimise, Resize, Click, JoinBox,
      Close, Switch
<1>4. CASE UIRender
  BY <1>4 DEF UIRender, Return, Render, MinPredraw, MinIdle, MinWork,
      MinNotify, FreezeTest, FreezeSet, Choose, DestroyBox, Idle, Submit,
      ChooseAgain, AskForWork, Undraw, Rest, NotifyWorker, Present
<1>5. CASE UIStop
  BY <1>5 DEF UIStop, StopLock, StopNotify, StopSpin, StopKill, StopBox,
      StopKillBox, StopJoinBox, StopJoin, ClearList, Release, Restart
<1>6. CASE UNCHANGED vars
  BY <1>6
<1>7. QED
  BY <1>1, <1>2, <1>3, <1>4, <1>5, <1>6 DEF Next, UIThread

LEMMA SyncStep ==
  ASSUME SyncOK, [Next]_vars PROVE SyncOK'
<1> USE DEF SyncOK, vars, sync, frame, list, dialog, view
<1>1. CASE Worker \/ WSpuriousWake
  BY <1>1 DEF Worker, WLock, WCheck, WBlock, WClear, WStamp, WMark, WUndraw,
      WUpdate, WPush, WDraw, WThaw, WUnmark, WSpuriousWake
<1>2. CASE Dialog
  BY <1>2 DEF Dialog, BPause, BOpen, BClose, BInactive, BResume
<1>3. CASE UIPoll
  BY <1>3 DEF UIPoll, PollNothing, Gate, Minimise, Resize, Click, JoinBox,
      Close, Switch
<1>4. CASE UIRender
  BY <1>4 DEF UIRender, Return, Render, MinPredraw, MinIdle, MinWork,
      MinNotify, FreezeTest, FreezeSet, Choose, DestroyBox, Idle, Submit,
      ChooseAgain, AskForWork, Undraw, Rest, NotifyWorker, Present
<1>5. CASE UIStop
  BY <1>5 DEF UIStop, StopLock, StopNotify, StopSpin, StopKill, StopBox,
      StopKillBox, StopJoinBox, StopJoin, ClearList, Release, Restart
<1>6. CASE UNCHANGED vars
  BY <1>6
<1>7. QED
  BY <1>1, <1>2, <1>3, <1>4, <1>5, <1>6 DEF Next, UIThread

LEMMA FrameStep ==
  ASSUME FrameOK, [Next]_vars PROVE FrameOK'
<1> USE DEF FrameOK, vars, sync, frame, list, dialog, view
<1>1. CASE Worker \/ WSpuriousWake
  BY <1>1 DEF Worker, WLock, WCheck, WBlock, WClear, WStamp, WMark, WUndraw,
      WUpdate, WPush, WDraw, WThaw, WUnmark, WSpuriousWake
<1>2. CASE Dialog
  BY <1>2 DEF Dialog, BPause, BOpen, BClose, BInactive, BResume
<1>3. CASE UIPoll
  BY <1>3 DEF UIPoll, PollNothing, Gate, Minimise, Resize, Click, JoinBox,
      Close, Switch
<1>4. CASE UIRender
  BY <1>4 DEF UIRender, Return, Render, MinPredraw, MinIdle, MinWork,
      MinNotify, FreezeTest, FreezeSet, Choose, DestroyBox, Idle, Submit,
      ChooseAgain, AskForWork, Undraw, Rest, NotifyWorker, Present
<1>5. CASE UIStop
  BY <1>5 DEF UIStop, StopLock, StopNotify, StopSpin, StopKill, StopBox,
      StopKillBox, StopJoinBox, StopJoin, ClearList, Release, Restart
<1>6. CASE UNCHANGED vars
  BY <1>6
<1>7. QED
  BY <1>1, <1>2, <1>3, <1>4, <1>5, <1>6 DEF Next, UIThread

LEMMA DialogStep ==
  ASSUME DialogOK, [Next]_vars PROVE DialogOK'
<1> USE DEF DialogOK, vars, sync, frame, list, dialog, view
<1>1. CASE Worker \/ WSpuriousWake
  BY <1>1 DEF Worker, WLock, WCheck, WBlock, WClear, WStamp, WMark, WUndraw,
      WUpdate, WPush, WDraw, WThaw, WUnmark, WSpuriousWake
<1>2. CASE Dialog
  BY <1>2 DEF Dialog, BPause, BOpen, BClose, BInactive, BResume
<1>3. CASE UIPoll
  BY <1>3 DEF UIPoll, PollNothing, Gate, Minimise, Resize, Click, JoinBox,
      Close, Switch
<1>4. CASE UIRender
  BY <1>4 DEF UIRender, Return, Render, MinPredraw, MinIdle, MinWork,
      MinNotify, FreezeTest, FreezeSet, Choose, DestroyBox, Idle, Submit,
      ChooseAgain, AskForWork, Undraw, Rest, NotifyWorker, Present
<1>5. CASE UIStop
  BY <1>5 DEF UIStop, StopLock, StopNotify, StopSpin, StopKill, StopBox,
      StopKillBox, StopJoinBox, StopJoin, ClearList, Release, Restart
<1>6. CASE UNCHANGED vars
  BY <1>6
<1>7. QED
  BY <1>1, <1>2, <1>3, <1>4, <1>5, <1>6 DEF Next, UIThread

LEMMA ViewStep ==
  ASSUME ViewOK, [Next]_vars PROVE ViewOK'
<1> USE DEF ViewOK, vars, sync, frame, list, dialog, view
<1>1. CASE Worker \/ WSpuriousWake
  BY <1>1 DEF Worker, WLock, WCheck, WBlock, WClear, WStamp, WMark, WUndraw,
      WUpdate, WPush, WDraw, WThaw, WUnmark, WSpuriousWake
<1>2. CASE Dialog
  BY <1>2 DEF Dialog, BPause, BOpen, BClose, BInactive, BResume
<1>3. CASE UIPoll
  BY <1>3 DEF UIPoll, PollNothing, Gate, Minimise, Resize, Click, JoinBox,
      Close, Switch
<1>4. CASE UIRender
  BY <1>4 DEF UIRender, Return, Render, MinPredraw, MinIdle, MinWork,
      MinNotify, FreezeTest, FreezeSet, Choose, DestroyBox, Idle, Submit,
      ChooseAgain, AskForWork, Undraw, Rest, NotifyWorker, Present
<1>5. CASE UIStop
  BY <1>5 DEF UIStop, StopLock, StopNotify, StopSpin, StopKill, StopBox,
      StopKillBox, StopJoinBox, StopJoin, ClearList, Release, Restart
<1>6. CASE UNCHANGED vars
  BY <1>6
<1>7. QED
  BY <1>1, <1>2, <1>3, <1>4, <1>5, <1>6 DEF Next, UIThread

LEMMA TypeStep == TypeOK /\ PushInv /\ [Next]_vars => TypeOK' /\ PushInv'
  BY ThreadsStep, MutexStep, ListStep, PushStep, SyncStep, FrameStep, DialogStep, ViewStep DEF TypeOK

LEMMA TypeInit == Init => TypeOK /\ PushInv
<1> SUFFICES ASSUME Init PROVE TypeOK /\ PushInv
  OBVIOUS
<1>1. ThreadsOK
  BY DEF Init, ThreadsOK, UISteps, WorkerSteps, BoxSteps
<1>2. MutexOK /\ PushInv
  BY DEF Init, MutexOK, PushInv, Free
<1>3. ListOK
  BY WindowAssumption DEF Init, ListOK, Free
<1>4. SyncOK /\ FrameOK
  BY DEF Init, SyncOK, FrameOK
<1>5. DialogOK /\ ViewOK
  BY DEF Init, DialogOK, ViewOK
<1>6. QED
  BY <1>1, <1>2, <1>3, <1>4, <1>5 DEF TypeOK

(* Every reachable state is well typed.                                    *)
THEOREM TypeCorrect == Spec => [](TypeOK /\ PushInv)
  BY TypeInit, TypeStep, PTL DEF Spec
---------------------------------------------------------------------------
(* What Submit executes belongs to one update: a push adds a command of the *)
(* current update, and an update begins with an empty list.                *)
LEMMA OneUpdateStep ==
  ASSUME ListOK, OneUpdate, [Next]_vars PROVE OneUpdate'
<1> USE DEF ListOK, OneUpdate
<1>1. CASE WPush
  <2>1. commands' = Append(commands, update) /\ update' = update
    BY <1>1 DEF WPush
  <2>2. Len(commands') = Len(commands) + 1
    BY <2>1
  <2>3. ASSUME NEW i \in 1..Len(commands') PROVE commands'[i] = update'
    BY <2>1, <2>2
  <2>4. QED
    BY <2>1, <2>3
<1>2. CASE WClear \/ Submit \/ ClearList \/ Release \/ Restart
  BY <1>2 DEF WClear, Submit, ClearList, Release, Restart
<1>3. CASE WUpdate \/ UNCHANGED list
  BY <1>3 DEF WUpdate, list
<1>4. QED
  BY <1>1, <1>2, <1>3, ListChanges DEF ListAction

(* The command list never mixes updates.                                   *)
THEOREM OneUpdateHolds == Spec => []OneUpdate
<1>1. Init => OneUpdate
  BY DEF Init, OneUpdate
<1>2. TypeOK /\ OneUpdate /\ [Next]_vars => OneUpdate'
  BY OneUpdateStep DEF TypeOK
<1>3. QED
  BY <1>1, <1>2, TypeCorrect, PTL DEF Spec
---------------------------------------------------------------------------
(* Once its join has returned a thread is gone until the UI thread, which   *)
(* is inside shutdown meanwhile, starts another.                           *)
ReleaseInv ==
  /\ ui \in {"stopJoin"} \cup ReleaseSteps => box \in {"none", "terminated"}
  /\ ui \in ReleaseSteps => worker = "none"

LEMMA ReleaseStep ==
  ASSUME ThreadsOK, ReleaseInv, [Next]_vars PROVE ReleaseInv'
<1> USE DEF ReleaseInv, ThreadsOK, ReleaseSteps, vars, sync, frame, list,
    dialog, view, UI, Work, Box, Notify
<1>1. CASE Worker \/ WSpuriousWake
  BY <1>1 DEF Worker, WLock, WCheck, WBlock, WClear, WStamp, WMark, WUndraw,
      WUpdate, WPush, WDraw, WThaw, WUnmark, WSpuriousWake
<1>2. CASE Dialog
  BY <1>2 DEF Dialog, BPause, BOpen, BClose, BInactive, BResume
<1>3. CASE UIPoll
  BY <1>3 DEF UIPoll, PollNothing, Gate, Minimise, Resize, Click, JoinBox,
      Close, Switch
<1>4. CASE UIRender
  BY <1>4 DEF UIRender, Return, Render, MinPredraw, MinIdle, MinWork,
      MinNotify, FreezeTest, FreezeSet, Choose, DestroyBox, Idle, Submit,
      ChooseAgain, AskForWork, Undraw, Rest, NotifyWorker, Present
<1>5. CASE UIStop
  BY <1>5 DEF UIStop, StopLock, StopNotify, StopSpin, StopKill, StopBox,
      StopKillBox, StopJoinBox, StopJoin, ClearList, Release, Restart
<1>6. CASE UNCHANGED vars
  BY <1>6
<1>7. QED
  BY <1>1, <1>2, <1>3, <1>4, <1>5, <1>6 DEF Next, UIThread

(* Device resources are released with no other thread of the window alive. *)
THEOREM ReleaseAloneHolds == Spec => []ReleaseAlone
<1>1. Init => ReleaseInv
  BY DEF Init, ReleaseInv, ReleaseSteps
<1>2. TypeOK /\ ReleaseInv /\ [Next]_vars => ReleaseInv'
  BY ReleaseStep DEF TypeOK
<1>3. ReleaseInv => ReleaseAlone
  BY DEF ReleaseInv, ReleaseAlone
<1>4. QED
  BY <1>1, <1>2, <1>3, TypeCorrect, PTL DEF Spec

(* A worker that tests the predicate holds updateMutex, and StopThreads sets *)
(* stopThread with the mutex free: it is set from there until a new worker *)
(* is started, so the worker cannot begin to wait any more.                *)
StopInv ==
  /\ worker \in LockedSteps => mutex = "worker"
  /\ ui \in (StopSteps \ {"stopLock"}) \cup ReleaseSteps \cup {"ended"} =>
       /\ stopThread /\ worker # "block"
       /\ ui # "stopNotify" => worker # "waiting"

(* The stop request is not lost, as the request for an update can be: once *)
(* StopThreads has notified the worker it does not wait in updateCv, nor is *)
(* it about to, and stopThread is set when it looks next.                  *)
StopHeard ==
  ui \in StopSteps \ {"stopLock", "stopNotify"} =>
    stopThread /\ worker \notin {"block", "waiting"}

LEMMA StopStep ==
  ASSUME ThreadsOK, StopInv, [Next]_vars PROVE StopInv'
<1> USE DEF StopInv, ThreadsOK, LockedSteps, StopSteps, SpinSteps, ReleaseSteps, Free, vars,
    sync, frame, list, dialog, view, UI, Work, Box, Notify
<1>1. CASE Worker \/ WSpuriousWake
  BY <1>1 DEF Worker, WLock, WCheck, WBlock, WClear, WStamp, WMark, WUndraw,
      WUpdate, WPush, WDraw, WThaw, WUnmark, WSpuriousWake
<1>2. CASE Dialog
  BY <1>2 DEF Dialog, BPause, BOpen, BClose, BInactive, BResume
<1>3. CASE UIPoll
  BY <1>3 DEF UIPoll, PollNothing, Gate, Minimise, Resize, Click, JoinBox,
      Close, Switch
<1>4. CASE UIRender
  BY <1>4 DEF UIRender, Return, Render, MinPredraw, MinIdle, MinWork,
      MinNotify, FreezeTest, FreezeSet, Choose, DestroyBox, Idle, Submit,
      ChooseAgain, AskForWork, Undraw, Rest, NotifyWorker, Present
<1>5. CASE UIStop
  BY <1>5 DEF UIStop, StopLock, StopNotify, StopSpin, StopKill, StopBox,
      StopKillBox, StopJoinBox, StopJoin, ClearList, Release, Restart
<1>6. CASE UNCHANGED vars
  BY <1>6
<1>7. QED
  BY <1>1, <1>2, <1>3, <1>4, <1>5, <1>6 DEF Next, UIThread

(* While StopThreads spins, terminates and joins, the worker has heard it. *)
THEOREM StopHeardHolds == Spec => []StopHeard
<1>1. Init => StopInv
  BY DEF Init, StopInv, LockedSteps, StopSteps, SpinSteps, ReleaseSteps
<1>2. TypeOK /\ StopInv /\ [Next]_vars => StopInv'
  BY StopStep DEF TypeOK
<1>3. StopInv => StopHeard
  BY DEF StopInv, StopHeard
<1>4. QED
  BY <1>1, <1>2, <1>3, TypeCorrect, PTL DEF Spec

(* Only WMark sets updateInProgress, and the worker leaves Running either by *)
(* WUnmark, which clears it, or terminated and joined, which clears it too. *)
LEMMA InProgressStep ==
  ASSUME HasUpdate, FrameOK, ReleaseInv, InProgressRuns, [Next]_vars PROVE InProgressRuns'
<1> USE DEF InProgressRuns, Running, FrameOK, ReleaseInv, ReleaseSteps, vars,
    sync, frame, list, dialog, view, UI, Work, Box, Notify
<1>1. CASE Worker \/ WSpuriousWake
  BY <1>1 DEF Worker, WLock, WCheck, WBlock, WClear, WStamp, WMark, WUndraw,
      WUpdate, WPush, WDraw, WThaw, WUnmark, WSpuriousWake
<1>2. CASE Dialog
  BY <1>2 DEF Dialog, BPause, BOpen, BClose, BInactive, BResume
<1>3. CASE UIPoll
  BY <1>3 DEF UIPoll, PollNothing, Gate, Minimise, Resize, Click, JoinBox,
      Close, Switch
<1>4. CASE UIRender
  BY <1>4 DEF UIRender, Return, Render, MinPredraw, MinIdle, MinWork,
      MinNotify, FreezeTest, FreezeSet, Choose, DestroyBox, Idle, Submit,
      ChooseAgain, AskForWork, Undraw, Rest, NotifyWorker, Present
<1>5. CASE UIStop
  BY <1>5 DEF UIStop, StopLock, StopNotify, StopSpin, StopKill, StopBox,
      StopKillBox, StopJoinBox, StopJoin, ClearList, Release, Restart
<1>6. CASE UNCHANGED vars
  BY <1>6
<1>7. QED
  BY <1>1, <1>2, <1>3, <1>4, <1>5, <1>6 DEF Next, UIThread

(* With a callback, updateInProgress is never left over from a past update. *)
THEOREM InProgressHolds == ASSUME HasUpdate PROVE Spec => []InProgressRuns
<1>1. Init => ReleaseInv /\ InProgressRuns
  BY DEF Init, ReleaseInv, ReleaseSteps, InProgressRuns
<1>2. TypeOK /\ ReleaseInv /\ InProgressRuns /\ [Next]_vars
        => ReleaseInv' /\ InProgressRuns'
  BY ReleaseStep, InProgressStep, HasUpdate DEF TypeOK
<1>3. QED
  BY <1>1, <1>2, TypeCorrect, PTL DEF Spec
---------------------------------------------------------------------------
(* Whole frames.  The UI thread serves until the end of the window: without  *)
(* a restart it never comes back from StopThreads, and a window that is not  *)
(* minimised renders in full.                                                *)
Serving == {"poll", "gate", "joinBox", "stopLock"} \cup (RenderSteps \ MinimisedSteps)
NoRestart ==
  /\ ~iconic /\ stopFor = "close"
  /\ ui \in Serving \/ (ui \notin MinimisedSteps \cup {"restart"} /\ stopThread)

(* While the UI thread serves, work is available, being recorded, or        *)
(* finished and not yet taken back, and only one of the three.               *)
InTurn ==
  ui \in Serving =>
    /\ worker \in UpdateSteps => ~workAvailable
    /\ predraw /\ ui # "undraw" => worker \notin UpdateSteps /\ ~workAvailable
    /\ ui \in {"destroyBox", "idle", "submit", "work"} => predraw

(* The list holds what the update has recorded so far, and a finished frame  *)
(* until Submit.                                                             *)
Recorded ==
  /\ worker \in {"stamp", "mark", "undraw"} => Len(commands) = 0 /\ pushed = 0
  /\ worker \in {"update", "push"} => Len(commands) = pushed
  /\ worker = "draw" => Len(commands) = Pushes
Kept ==
  ui \in Serving /\ predraw /\ ui \notin {"chooseAgain", "work", "undraw"}
    => Len(commands) = Pushes

LEMMA NoRestartStep ==
  ASSUME Events \cap {"minimise", "switch"} = {},
         ThreadsOK, NoRestart, [Next]_vars PROVE NoRestart'
<1> USE DEF ThreadsOK, NoRestart, Serving, RenderSteps, MinimisedSteps,
    StopSteps, SpinSteps, ReleaseSteps, vars, sync, frame, list, dialog, view,
    UI, Work, Box, Notify
<1>1. CASE Worker \/ WSpuriousWake
  BY <1>1 DEF Worker, WLock, WCheck, WBlock, WClear, WStamp, WMark, WUndraw,
      WUpdate, WPush, WDraw, WThaw, WUnmark, WSpuriousWake
<1>2. CASE Dialog
  BY <1>2 DEF Dialog, BPause, BOpen, BClose, BInactive, BResume
<1>3. CASE UIPoll
  BY <1>3 DEF UIPoll, PollNothing, Gate, Minimise, Resize, Click, JoinBox,
      Close, Switch
<1>4. CASE UIRender
  BY <1>4 DEF UIRender, Return, Render, MinPredraw, MinIdle, MinWork,
      MinNotify, FreezeTest, FreezeSet, Choose, DestroyBox, Idle, Submit,
      ChooseAgain, AskForWork, Undraw, Rest, NotifyWorker, Present
<1>5. CASE UIStop
  BY <1>5 DEF UIStop, StopLock, StopNotify, StopSpin, StopKill, StopBox,
      StopKillBox, StopJoinBox, StopJoin, ClearList, Release, Restart
<1>6. CASE UNCHANGED vars
  BY <1>6
<1>7. QED
  BY <1>1, <1>2, <1>3, <1>4, <1>5, <1>6 DEF Next, UIThread

LEMMA InTurnStep ==
  ASSUME ThreadsOK, NoRestart, NoRestart', InTurn, [Next]_vars PROVE InTurn'
<1> USE DEF NoRestart, InTurn, Serving, UpdateSteps, RenderSteps,
    MinimisedSteps, StopSteps, SpinSteps, ReleaseSteps, vars, sync, frame,
    list, dialog, view, UI, Work, Box, Notify
<1>1. CASE Worker \/ WSpuriousWake
  BY <1>1 DEF Worker, WLock, WCheck, WBlock, WClear, WStamp, WMark, WUndraw,
      WUpdate, WPush, WDraw, WThaw, WUnmark, WSpuriousWake
<1>2. CASE Dialog
  BY <1>2 DEF Dialog, BPause, BOpen, BClose, BInactive, BResume
<1>3. CASE UIPoll
  BY <1>3 DEF UIPoll, PollNothing, Gate, Minimise, Resize, Click, JoinBox,
      Close, Switch
<1>4. CASE UIRender
  BY <1>4 DEF UIRender, Return, Render, MinPredraw, MinIdle, MinWork,
      MinNotify, FreezeTest, FreezeSet, Choose, DestroyBox, Idle, Submit,
      ChooseAgain, AskForWork, Undraw, Rest, NotifyWorker, Present
<1>5. CASE UIStop
  BY <1>5 DEF UIStop, StopLock, StopNotify, StopSpin, StopKill, StopBox,
      StopKillBox, StopJoinBox, StopJoin, ClearList, Release, Restart
<1>6. CASE UNCHANGED vars
  BY <1>6
<1>7. QED
  BY <1>1, <1>2, <1>3, <1>4, <1>5, <1>6 DEF Next, UIThread

(* Nobody but the worker moves it along its loop.                           *)
LEMMA OthersStep ==
  ASSUME ~Worker, ~WSpuriousWake, [Next]_vars PROVE worker' = worker \/ worker' \in {"lock", "none", "killed"}
<1> USE DEF vars, sync, frame, list, dialog, view, UI, Work, Box, Notify
<1>1. CASE Dialog
  BY <1>1 DEF Dialog, BPause, BOpen, BClose, BInactive, BResume
<1>2. CASE UIPoll
  BY <1>2 DEF UIPoll, PollNothing, Gate, Minimise, Resize, Click, JoinBox,
      Close, Switch
<1>3. CASE UIRender
  BY <1>3 DEF UIRender, Return, Render, MinPredraw, MinIdle, MinWork,
      MinNotify, FreezeTest, FreezeSet, Choose, DestroyBox, Idle, Submit,
      ChooseAgain, AskForWork, Undraw, Rest, NotifyWorker, Present
<1>4. CASE UIStop
  BY <1>4 DEF UIStop, StopLock, StopNotify, StopSpin, StopKill, StopBox,
      StopKillBox, StopJoinBox, StopJoin, ClearList, Release, Restart
<1>5. CASE UNCHANGED vars
  BY <1>5
<1>6. QED
  BY <1>1, <1>2, <1>3, <1>4, <1>5 DEF Next, UIThread

(* Only the worker records, except where the UI thread submits or shutdown   *)
(* empties the list, and there the worker records nothing.                  *)
LEMMA RecordedStep ==
  ASSUME TypeOK, ReleaseInv, NoRestart, InTurn, Recorded, [Next]_vars
  PROVE  Recorded'
<1> USE DEF Recorded, Work, UI
<1>1. CASE WClear
  BY <1>1 DEF WClear
<1>2. CASE WUpdate
  BY <1>2 DEF WUpdate
<1>3. CASE WPush
  <2>1. /\ worker' = "update" /\ Len(commands') = Len(commands) + 1
        /\ pushed' = pushed + 1 /\ Len(commands) = pushed
    BY <1>3 DEF WPush, TypeOK, ListOK
  <2>2. QED
    BY <2>1
<1>4. CASE Submit
  <2>1. worker \notin UpdateSteps /\ worker' = worker
    BY <1>4 DEF Submit, InTurn, Serving, RenderSteps, MinimisedSteps
  <2>2. QED
    BY <2>1 DEF UpdateSteps
<1>5. CASE ClearList \/ Release \/ Restart
  <2>1. worker' \in {"none", "lock"}
    BY <1>5 DEF ClearList, Release, Restart, ReleaseInv, ReleaseSteps
  <2>2. QED
    BY <2>1
<1>6. CASE UNCHANGED list /\ (Worker \/ WSpuriousWake)
  BY <1>6 DEF list, Worker, WLock, WCheck, WBlock, WClear, WStamp, WMark,
     WUndraw, WUpdate, WPush, WDraw, WThaw, WUnmark, WSpuriousWake
<1>7. CASE UNCHANGED list /\ ~(Worker \/ WSpuriousWake)
  <2>1. worker' = worker \/ worker' \in {"lock", "none", "killed"}
    BY <1>7, OthersStep
  <2>2. QED
    BY <1>7, <2>1 DEF list
<1>8. QED
  BY <1>1, <1>2, <1>3, <1>4, <1>5, <1>6, <1>7, ListChanges DEF ListAction

LEMMA KeptRest ==
  ASSUME NoRestart, NoRestart', Recorded, Kept, UNCHANGED list, [Next]_vars PROVE Kept'
<1> USE DEF NoRestart, Recorded, Kept, Serving, UpdateSteps, RenderSteps,
    MinimisedSteps, StopSteps, SpinSteps, ReleaseSteps, vars, sync, frame,
    list, dialog, view, UI, Work, Box, Notify
<1>1. CASE Worker \/ WSpuriousWake
  BY <1>1 DEF Worker, WLock, WCheck, WBlock, WClear, WStamp, WMark, WUndraw,
      WUpdate, WPush, WDraw, WThaw, WUnmark, WSpuriousWake
<1>2. CASE Dialog
  BY <1>2 DEF Dialog, BPause, BOpen, BClose, BInactive, BResume
<1>3. CASE UIPoll
  BY <1>3 DEF UIPoll, PollNothing, Gate, Minimise, Resize, Click, JoinBox,
      Close, Switch
<1>4. CASE UIRender
  BY <1>4 DEF UIRender, Return, Render, MinPredraw, MinIdle, MinWork,
      MinNotify, FreezeTest, FreezeSet, Choose, DestroyBox, Idle, Submit,
      ChooseAgain, AskForWork, Undraw, Rest, NotifyWorker, Present
<1>5. CASE UIStop
  BY <1>5 DEF UIStop, StopLock, StopNotify, StopSpin, StopKill, StopBox,
      StopKillBox, StopJoinBox, StopJoin, ClearList, Release, Restart
<1>6. CASE UNCHANGED vars
  BY <1>6
<1>7. QED
  BY <1>1, <1>2, <1>3, <1>4, <1>5, <1>6 DEF Next, UIThread

LEMMA KeptStep ==
  ASSUME TypeOK, NoRestart, NoRestart', InTurn, Recorded, Kept, [Next]_vars
  PROVE  Kept'
<1> USE DEF Kept, Serving, RenderSteps, MinimisedSteps, UI, Work
<1>1. CASE WClear \/ WUpdate \/ WPush
  <2>1. worker \in UpdateSteps /\ UNCHANGED <<ui, predraw>>
    BY <1>1 DEF WClear, WUpdate, WPush, UpdateSteps, frame
  <2>2. QED
    BY <2>1 DEF InTurn
<1>2. CASE Submit
  BY <1>2 DEF Submit
<1>3. CASE ClearList \/ Release \/ Restart
  <2>1. ui' \in {"release", "restart", "ended"} \/ ui = "restart"
    BY <1>3 DEF ClearList, Release, Restart
  <2>2. QED
    BY <2>1 DEF NoRestart
<1>4. CASE UNCHANGED list
  BY <1>4, KeptRest
<1>5. QED
  BY <1>1, <1>2, <1>3, <1>4, ListChanges DEF ListAction

LEMMA HandOffInit ==
  Init => ReleaseInv /\ NoRestart /\ InTurn /\ Recorded /\ Kept
  BY DEF Init, ReleaseInv, ReleaseSteps, NoRestart, InTurn, Recorded, Kept, Serving,
     UpdateSteps, MinimisedSteps

(* The four parts hold together.                                            *)
LEMMA ServingHolds ==
  ASSUME Events \cap {"minimise", "switch"} = {}
  PROVE  Spec => [](NoRestart /\ InTurn /\ Recorded /\ Kept)
<1> DEFINE Inv == ReleaseInv /\ NoRestart /\ InTurn /\ Recorded /\ Kept
<1>1. TypeOK /\ Inv /\ [Next]_vars => Inv'
  <2> SUFFICES ASSUME TypeOK, Inv, [Next]_vars PROVE Inv'
    OBVIOUS
  <2>1. ThreadsOK
    BY DEF TypeOK
  <2>2. ReleaseInv' /\ NoRestart'
    BY <2>1, ReleaseStep, NoRestartStep
  <2>3. InTurn'
    BY <2>1, <2>2, InTurnStep
  <2>4. Recorded' /\ Kept'
    BY <2>2, RecordedStep, KeptStep
  <2>5. QED
    BY <2>2, <2>3, <2>4
<1>2. QED
  BY <1>1, HandOffInit, TypeCorrect, PTL DEF Spec

(* A window that is neither minimised nor switched submits whole frames, and *)
(* asks for the next one only while it takes the finished one back.         *)
THEOREM WholeFrameHolds ==
  ASSUME Events \cap {"minimise", "switch"} = {}
  PROVE  Spec => [](WholeFrame /\ RequestAfterCollect)
<1>1. InTurn /\ Kept => WholeFrame
  BY DEF InTurn, Kept, WholeFrame, Serving, RenderSteps, MinimisedSteps
<1>2. NoRestart /\ InTurn => RequestAfterCollect
  BY DEF NoRestart, InTurn, RequestAfterCollect
<1>3. QED
  BY <1>1, <1>2, ServingHolds, PTL

(* With the flags as they are, outside that one step: no update is asked for *)
(* while a finished frame waits, unless the threads are being stopped.       *)
THEOREM RequestAfterCollectHolds ==
  ASSUME Events \cap {"minimise", "switch"} = {}
  PROVE  Spec => []RequestAfterCollect
BY WholeFrameHolds, PTL
============================================================================
