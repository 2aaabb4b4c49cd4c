---------------------------- MODULE UserWindow ----------------------------
(***************************************************************************)
(* The frame hand-off of a user window (bnUserWindow.cpp, bnWindow.cpp):   *)
(* the UI thread polls messages, renders and shuts down; the user update   *)
(* thread (the worker) records one frame of draw commands at a time; the   *)
(* frozen-process dialog runs on a third thread while an update is late.   *)
(*                                                                         *)
(* Each thread has a program counter, and a step reads or writes at most   *)
(* one of the fields another thread also writes, unless a lock covers the  *)
(* step.  The plain bools are read and written as single memory accesses   *)
(* in program order.  bnUserWindow::rendering is TRUE exactly in the steps *)
(* of RenderFrame, so it is not a variable of its own.                     *)
(*                                                                         *)
(* Data: a draw command is the id of the update that recorded it; updateIt *)
(* and updateItNum appear only through updateItNum < updateIt (overdue).   *)
(***************************************************************************)
EXTENDS Naturals, Sequences

CONSTANTS
  Frames,     (* identities of user updates; consecutive ones differ       *)
  Pushes,     (* draw commands one update records                          *)
  Events,     (* what the person at the window may do                      *)
  HasUpdate   (* FALSE: a WASM window created without an update callback   *)

ASSUME WindowAssumption ==
  /\ \A u \in Frames : Frames \ {u} # {}
  /\ Frames # {}
  /\ Pushes \in Nat \ {0}
  /\ Events \subseteq {"minimise", "resize", "click", "switch", "close"}
  /\ HasUpdate \in BOOLEAN

VARIABLES
  ui,               (* the UI thread's program counter                     *)
  worker,           (* the update thread's program counter; "none": joined *)
  box,              (* the dialog thread's program counter                 *)
  mutex,            (* the holder of updateMutex                           *)
  stopThread, workAvailable,
  updateInProgress, predraw, frozenProcess, overdue,
  listLock,         (* the holder of userGraphics->commands' own mutex     *)
  commands,         (* userGraphics->commands                              *)
  update,           (* the update the worker began last                    *)
  pushed,           (* commands that update has recorded                   *)
  pauseRender, messageBoxActive, invertAnimation,
  iconic,           (* the window is minimised                             *)
  resizing,         (* RenderFrame was called by the Resize handler        *)
  stopFor           (* the caller of StopThreads                           *)

sync   == <<mutex, stopThread, workAvailable>>
frame  == <<updateInProgress, predraw, frozenProcess, overdue>>
list   == <<listLock, commands, update, pushed>>
dialog == <<pauseRender, messageBoxActive, invertAnimation>>
view   == <<iconic, resizing, stopFor>>
vars   == <<ui, worker, box, sync, frame, list, dialog, view>>

Free == "free"

MinimisedSteps == {"minPredraw", "minIdle", "minWork", "minNotify"}
RenderSteps ==
  {"render", "freezeBusy", "freezeLate", "freezePredraw", "freezeSet", "choose",
   "destroyBox", "idle", "submit", "chooseAgain", "work", "undraw", "rest", "notify",
   "present"} \cup MinimisedSteps
SpinSteps == {"stopSpin", "stopSpinPredraw", "stopSpinFrozen", "stopKill"}
StopSteps ==
  {"stopLock", "stopNotify", "stopBox", "stopKillBox", "stopJoinBox", "stopJoin"}
    \cup SpinSteps
ReleaseSteps == {"clear", "release", "restart"}
UISteps == {"poll", "gate", "joinBox", "ended"}
             \cup RenderSteps \cup StopSteps \cup ReleaseSteps

LockedSteps == {"check", "block"}
UpdateSteps == {"clear", "stamp", "mark", "undraw", "update", "push", "draw"}
WorkerSteps == {"none", "lock", "waiting", "thaw", "unmark", "exited", "killed"}
                 \cup LockedSteps \cup UpdateSteps

BoxSteps == {"none", "spawned", "paused", "open", "closing", "resume", "done",
             "terminated"}

Init ==
  /\ ui = "poll" /\ worker = "lock" /\ box = "none"
  /\ mutex = Free /\ stopThread = FALSE /\ workAvailable = TRUE
  /\ updateInProgress = FALSE /\ predraw = FALSE
  /\ frozenProcess = FALSE /\ overdue = FALSE
  /\ listLock = Free /\ commands = <<>> /\ update \in Frames /\ pushed = 0
  /\ pauseRender = FALSE /\ messageBoxActive = FALSE /\ invertAnimation = FALSE
  /\ iconic = FALSE /\ resizing = FALSE /\ stopFor = "close"

UI(from, to)  == ui = from /\ ui' = to
Work(from, to) == worker = from /\ worker' = to
Box(from, to) == box = from /\ box' = to

(* updateCv.notify_one(): a thread blocked in wait goes on to take the mutex *)
(* again; nobody hears it otherwise.                                         *)
Notify == worker' = IF worker = "waiting" THEN "lock" ELSE worker
---------------------------------------------------------------------------
(* The worker: UserThreadLoop.                                             *)

WLock ==
  /\ Work("lock", "check") /\ mutex = Free /\ mutex' = "worker"
  /\ UNCHANGED <<ui, box, stopThread, workAvailable, frame, list, dialog, view>>

\* Mutant: the worker takes the work and leaves workAvailable set.
WCheckKeeps ==
  /\ worker = "check"
  /\ \/ stopThread /\ worker' = "exited" /\ mutex' = Free
     \/ ~stopThread /\ workAvailable /\ worker' = "clear" /\ mutex' = Free
     \/ ~stopThread /\ ~workAvailable /\ worker' = "block" /\ UNCHANGED mutex
  /\ UNCHANGED <<ui, box, stopThread, workAvailable, frame, list, dialog, view>>

(* The predicate of updateCv.wait, evaluated with the mutex held; a stop     *)
(* leaves the loop and the unique_lock, work is taken and the lock dropped.  *)
WCheck ==
  /\ worker = "check"
  /\ \/ stopThread /\ worker' = "exited" /\ mutex' = Free /\ UNCHANGED workAvailable
     \/ ~stopThread /\ workAvailable /\ workAvailable' = FALSE
          /\ worker' = "clear" /\ mutex' = Free
     \/ ~stopThread /\ ~workAvailable /\ worker' = "block"
          /\ UNCHANGED <<mutex, workAvailable>>
  /\ UNCHANGED <<ui, box, stopThread, frame, list, dialog, view>>

(* wait releases the mutex and starts to listen in one step.                *)
WBlock ==
  /\ Work("block", "waiting") /\ mutex' = Free
  /\ UNCHANGED <<ui, box, stopThread, workAvailable, frame, list, dialog, view>>

WSpuriousWake ==
  /\ Work("waiting", "lock")
  /\ UNCHANGED <<ui, box, sync, frame, list, dialog, view>>

\* Mutant: the list is not emptied before the next update.
WClearSkipped ==
  /\ Work("clear", "stamp") /\ listLock = Free /\ pushed' = 0
  /\ \E u \in Frames \ {update} : update' = u
  /\ UNCHANGED <<ui, box, sync, frame, listLock, commands, dialog, view>>

(* userGraphics->commands.clear(): the next update starts from nothing.     *)
WClear ==
  /\ Work("clear", "stamp") /\ listLock = Free
  /\ commands' = <<>> /\ pushed' = 0
  /\ \E u \in Frames \ {update} : update' = u
  /\ UNCHANGED <<ui, box, sync, frame, listLock, dialog, view>>

(* updateItNum = updateIt                                                   *)
WStamp ==
  /\ Work("stamp", "mark") /\ overdue' = FALSE
  /\ UNCHANGED <<ui, box, sync, updateInProgress, predraw, frozenProcess, list,
                 dialog, view>>

WMark ==
  /\ Work("mark", "undraw") /\ updateInProgress' = TRUE
  /\ UNCHANGED <<ui, box, sync, predraw, frozenProcess, overdue, list, dialog, view>>

\* Mutant: predraw announces the frame before the callback has recorded it.
WUndrawEarly ==
  /\ Work("undraw", IF HasUpdate THEN "update" ELSE "lock") /\ predraw' = TRUE
  /\ UNCHANGED <<ui, box, sync, updateInProgress, frozenProcess, overdue, list,
                 dialog, view>>

(* A WASM window without a callback goes straight back to the wait.         *)
WUndraw ==
  /\ Work("undraw", IF HasUpdate THEN "update" ELSE "lock") /\ predraw' = FALSE
  /\ UNCHANGED <<ui, box, sync, updateInProgress, frozenProcess, overdue, list,
                 dialog, view>>

\* Mutant: one command too many.
WUpdateOneMore ==
  /\ worker = "update"
  /\ \/ pushed <= Pushes /\ worker' = "push" /\ listLock = Free /\ listLock' = "worker"
     \/ pushed > Pushes /\ worker' = "draw" /\ UNCHANGED listLock
  /\ UNCHANGED <<ui, box, sync, frame, commands, update, pushed, dialog, view>>

(* The user's ON_UPDATE callback records Pushes commands, each with a        *)
(* push_back under the list's lock, and returns.                             *)
WUpdate ==
  /\ worker = "update"
  /\ \/ pushed < Pushes /\ worker' = "push" /\ listLock = Free /\ listLock' = "worker"
     \/ pushed = Pushes /\ worker' = "draw" /\ UNCHANGED listLock
  /\ UNCHANGED <<ui, box, sync, frame, commands, update, pushed, dialog, view>>

WPush ==
  /\ Work("push", "update")
  /\ commands' = Append(commands, update) /\ pushed' = pushed + 1 /\ listLock' = Free
  /\ UNCHANGED <<ui, box, sync, frame, update, dialog, view>>

WDraw ==
  /\ Work("draw", "thaw") /\ predraw' = TRUE
  /\ UNCHANGED <<ui, box, sync, updateInProgress, frozenProcess, overdue, list,
                 dialog, view>>

WThaw ==
  /\ Work("thaw", "unmark") /\ frozenProcess' = FALSE
  /\ UNCHANGED <<ui, box, sync, updateInProgress, predraw, overdue, list, dialog, view>>

\* Mutant: updateInProgress is left set.
WUnmarkForgotten ==
  /\ Work("unmark", "lock")
  /\ UNCHANGED <<ui, box, sync, frame, list, dialog, view>>

WUnmark ==
  /\ Work("unmark", "lock") /\ updateInProgress' = FALSE
  /\ UNCHANGED <<ui, box, sync, predraw, frozenProcess, overdue, list, dialog, view>>

Worker == WLock \/ WCheck \/ WBlock \/ WClear \/ WStamp \/ WMark \/ WUndraw
            \/ WUpdate \/ WPush \/ WDraw \/ WThaw \/ WUnmark
---------------------------------------------------------------------------
(* The dialog thread that a click on a frozen window starts.                *)

BPause ==
  /\ Box("spawned", "paused") /\ pauseRender' = TRUE
  /\ UNCHANGED <<ui, worker, sync, frame, list, messageBoxActive, invertAnimation, view>>

BOpen ==
  /\ Box("paused", "open") /\ messageBoxActive' = TRUE
  /\ UNCHANGED <<ui, worker, sync, frame, list, pauseRender, invertAnimation, view>>

(* The dialog is closed by the person or by DestroyMessageBox.              *)
BClose ==
  /\ Box("open", "closing")
  /\ UNCHANGED <<ui, worker, sync, frame, list, dialog, view>>

BInactive ==
  /\ Box("closing", "resume") /\ messageBoxActive' = FALSE
  /\ UNCHANGED <<ui, worker, sync, frame, list, pauseRender, invertAnimation, view>>

BResume ==
  /\ Box("resume", "done") /\ pauseRender' = FALSE
  /\ UNCHANGED <<ui, worker, sync, frame, list, messageBoxActive, invertAnimation, view>>
---------------------------------------------------------------------------
(* The UI thread: run and the handlers PollMessages dispatches to.          *)

PollNothing ==
  /\ UI("poll", "gate")
  /\ UNCHANGED <<worker, box, sync, frame, list, dialog, view>>

\* Mutant: a paused window does not render, whether or not a frame is finished.
GatePaused ==
  /\ UI("gate", IF pauseRender THEN "poll" ELSE "render")
  /\ UNCHANGED <<worker, box, sync, frame, list, dialog, view>>

(* A paused window renders only to collect a finished frame.                *)
Gate ==
  /\ UI("gate", IF pauseRender /\ ~predraw THEN "poll" ELSE "render")
  /\ UNCHANGED <<worker, box, sync, frame, list, dialog, view>>

(* The Resize handler renders at once, whatever pauseRender says.           *)
Resize ==
  /\ UI("poll", "render") /\ "resize" \in Events /\ resizing' = TRUE
  /\ UNCHANGED <<worker, box, sync, frame, list, dialog, iconic, stopFor>>

(* A window that is minimised, or shown again, gets WM_SIZE too.  The handler *)
(* compares SIZE_MINIMIZED with longParameter, which is the new size and not  *)
(* the reason, so it runs as for any other size.                              *)
Minimise ==
  /\ UI("poll", "render") /\ "minimise" \in Events
  /\ iconic' = ~iconic /\ resizing' = TRUE
  /\ UNCHANGED <<worker, box, sync, frame, list, dialog, stopFor>>

(* MouseButtonUp over a window whose update is late: the first click starts  *)
(* the animation, the next one the dialog, joining the previous dialog.      *)
Click ==
  /\ "click" \in Events /\ frozenProcess /\ invertAnimation' = TRUE
  /\ UI("poll", IF invertAnimation /\ ~messageBoxActive THEN "joinBox" ELSE "poll")
  /\ UNCHANGED <<worker, box, sync, frame, list, pauseRender, messageBoxActive, view>>

JoinBox ==
  /\ UI("joinBox", "poll") /\ box \in {"none", "done"} /\ box' = "spawned"
  /\ UNCHANGED <<worker, sync, frame, list, dialog, view>>

(* The window's Destroy event: shutdown, then the run loop ends.            *)
Close ==
  /\ UI("poll", "stopLock") /\ "close" \in Events /\ stopFor' = "close"
  /\ UNCHANGED <<worker, box, sync, frame, list, dialog, iconic, resizing>>

(* switchGraphics calls preDestroyFunctions before shutdown(false).         *)
Switch ==
  /\ UI("poll", "stopLock") /\ "switch" \in Events
  /\ stopFor' = "preDestroy"
  /\ UNCHANGED <<worker, box, sync, frame, list, dialog, iconic, resizing>>
---------------------------------------------------------------------------
(* The UI thread: RenderFrame.                                              *)

(* RenderFrame goes back to run, or to the Resize handler, which unpauses.  *)
Return ==
  /\ ui' = "poll" /\ resizing' = FALSE
  /\ pauseRender' = (pauseRender /\ ~resizing)

Render ==
  /\ UI("render", IF iconic THEN "minPredraw" ELSE "freezeBusy") /\ overdue' = TRUE
  /\ UNCHANGED <<worker, box, sync, updateInProgress, predraw, frozenProcess, list,
                 dialog, view>>

(* A minimised window draws nothing and asks for the next update.           *)
MinPredraw ==
  /\ UI("minPredraw", "minIdle") /\ predraw' = FALSE
  /\ UNCHANGED <<worker, box, sync, updateInProgress, frozenProcess, overdue, list,
                 dialog, view>>

MinIdle ==
  /\ UI("minIdle", "minWork") /\ updateInProgress' = FALSE
  /\ UNCHANGED <<worker, box, sync, predraw, frozenProcess, overdue, list, dialog, view>>

MinWork ==
  /\ UI("minWork", "minNotify") /\ workAvailable' = TRUE
  /\ UNCHANGED <<worker, box, mutex, stopThread, frame, list, dialog, view>>

MinNotify ==
  /\ ui = "minNotify" /\ Notify /\ Return
  /\ UNCHANGED <<box, sync, frame, list, messageBoxActive, invertAnimation, iconic,
                 stopFor>>

(* updateInProgress && updateItNum < updateIt && !predraw, read in order.   *)
FreezeTest ==
  /\ \/ UI("freezeBusy", IF updateInProgress THEN "freezeLate" ELSE "choose")
     \/ UI("freezeLate", IF overdue THEN "freezePredraw" ELSE "choose")
     \/ UI("freezePredraw", IF predraw THEN "choose" ELSE "freezeSet")
  /\ UNCHANGED <<worker, box, sync, frame, list, dialog, view>>

FreezeSet ==
  /\ UI("freezeSet", "choose") /\ frozenProcess' = TRUE
  /\ UNCHANGED <<worker, box, sync, updateInProgress, predraw, overdue, list, dialog,
                 view>>

(* No finished frame: the cached picture of the last one is drawn instead.  *)
Choose ==
  /\ UI("choose", IF predraw THEN "destroyBox" ELSE "chooseAgain")
  /\ UNCHANGED <<worker, box, sync, frame, list, dialog, view>>

(* DestroyMessageBox closes an open dialog and spins until it has closed; one *)
(* whose thread was terminated stays registered and will never say that it is. *)
DestroyBox ==
  /\ UI("destroyBox", "idle") /\ box \notin {"open", "terminated"}
  /\ frozenProcess' = FALSE
  /\ UNCHANGED <<worker, box, sync, updateInProgress, predraw, overdue, list, dialog,
                 view>>

Idle ==
  /\ UI("idle", "submit") /\ updateInProgress' = FALSE
  /\ UNCHANGED <<worker, box, sync, predraw, frozenProcess, overdue, list, dialog, view>>

(* userGraphics->Submit() executes and empties the list under its lock.     *)
Submit ==
  /\ UI("submit", "chooseAgain") /\ listLock = Free /\ commands' = <<>>
  /\ UNCHANGED <<worker, box, sync, frame, listLock, update, pushed, dialog, view>>

ChooseAgain ==
  /\ UI("chooseAgain", IF predraw THEN "work" ELSE "present")
  /\ UNCHANGED <<worker, box, sync, frame, list, dialog, view>>

(* workAvailable is written without updateMutex.                            *)
AskForWork ==
  /\ UI("work", "undraw") /\ workAvailable' = TRUE
  /\ UNCHANGED <<worker, box, mutex, stopThread, frame, list, dialog, view>>

\* Mutant: the finished frame is not taken back when the next one is asked for.
UndrawForgotten ==
  /\ UI("undraw", "rest")
  /\ UNCHANGED <<worker, box, sync, frame, list, dialog, view>>

Undraw ==
  /\ UI("undraw", "rest") /\ predraw' = FALSE
  /\ UNCHANGED <<worker, box, sync, updateInProgress, frozenProcess, overdue, list,
                 dialog, view>>

Rest ==
  /\ UI("rest", "notify") /\ updateInProgress' = FALSE /\ invertAnimation' = FALSE
  /\ UNCHANGED <<worker, box, sync, predraw, frozenProcess, overdue, list, pauseRender,
                 messageBoxActive, view>>

NotifyWorker ==
  /\ UI("notify", "present") /\ Notify
  /\ UNCHANGED <<box, sync, frame, list, dialog, view>>

Present ==
  /\ ui = "present" /\ Return
  /\ UNCHANGED <<worker, box, sync, frame, list, messageBoxActive, invertAnimation,
                 iconic, stopFor>>
---------------------------------------------------------------------------
(* The UI thread: StopThreads.                                              *)

\* Mutant: the stop request is written without updateMutex.
StopUnlocked ==
  /\ UI("stopLock", "stopNotify") /\ stopThread' = TRUE /\ workAvailable' = TRUE
  /\ UNCHANGED <<worker, box, mutex, frame, list, dialog, view>>

StopLock ==
  /\ UI("stopLock", "stopNotify") /\ mutex = Free
  /\ stopThread' = TRUE /\ workAvailable' = TRUE
  /\ UNCHANGED <<worker, box, mutex, frame, list, dialog, view>>

StopNotify ==
  /\ UI("stopNotify", "stopSpin") /\ Notify
  /\ UNCHANGED <<box, sync, frame, list, dialog, view>>

(* while (updateInProgress) { if (predraw) break; if (frozenProcess) kill   *)
(* and break; if (!joinable) break; }, one read at a time.                  *)
StopSpin ==
  /\ \/ UI("stopSpin", IF updateInProgress THEN "stopSpinPredraw" ELSE "stopBox")
     \/ UI("stopSpinPredraw", IF predraw THEN "stopBox" ELSE "stopSpinFrozen")
     \/ UI("stopSpinFrozen", IF frozenProcess THEN "stopKill"
                             ELSE IF worker = "none" THEN "stopBox" ELSE "stopSpin")
  /\ UNCHANGED <<worker, box, sync, frame, list, dialog, view>>

(* TerminateThread: the worker ends where it is and keeps the locks it has. *)
StopKill ==
  /\ UI("stopKill", "stopBox")
  /\ worker' = IF worker \in {"none", "exited"} THEN worker ELSE "killed"
  /\ UNCHANGED <<box, sync, frame, list, dialog, view>>

StopBox ==
  /\ UI("stopBox", IF messageBoxActive THEN "stopKillBox" ELSE "stopJoinBox")
  /\ UNCHANGED <<worker, box, sync, frame, list, dialog, view>>

(* TerminateThread, on a dialog that runs or on one that has returned.       *)
StopKillBox ==
  /\ UI("stopKillBox", "stopJoinBox")
  /\ \/ box = "open" /\ box' = "terminated"
     \/ box \in {"none", "terminated"} /\ UNCHANGED box
     \/ box \notin {"open", "none", "terminated"} /\ box' = "done"
  /\ UNCHANGED <<worker, sync, frame, list, dialog, view>>

StopJoinBox ==
  /\ UI("stopJoinBox", "stopJoin") /\ box \in {"none", "done", "terminated"}
  /\ box' = IF box = "done" THEN "none" ELSE box
  /\ UNCHANGED <<worker, sync, frame, list, dialog, view>>

\* Mutant: the worker is left running instead of joined.
StopDetach ==
  /\ ui = "stopJoin" /\ updateInProgress' = FALSE
  /\ \/ stopFor = "preDestroy" /\ ui' = "stopLock" /\ stopFor' = "switch"
          /\ pauseRender' = TRUE
     \/ stopFor # "preDestroy" /\ ui' = "clear" /\ UNCHANGED <<stopFor, pauseRender>>
  /\ UNCHANGED <<worker, box, sync, predraw, frozenProcess, overdue, list,
                 messageBoxActive, invertAnimation, iconic, resizing>>

(* join waits for the thread to end.  switchGraphics then pauses rendering   *)
(* and calls shutdown(false), which stops the threads once more.             *)
StopJoin ==
  /\ ui = "stopJoin" /\ worker \in {"none", "exited", "killed"} /\ worker' = "none"
  /\ updateInProgress' = FALSE
  /\ \/ stopFor = "preDestroy" /\ ui' = "stopLock" /\ stopFor' = "switch"
          /\ pauseRender' = TRUE
     \/ stopFor # "preDestroy" /\ ui' = "clear" /\ UNCHANGED <<stopFor, pauseRender>>
  /\ UNCHANGED <<box, sync, predraw, frozenProcess, overdue, list, messageBoxActive,
                 invertAnimation, iconic, resizing>>
---------------------------------------------------------------------------
(* The UI thread: the rest of shutdown, and of switchGraphics.              *)

(* userGraphics->commands.clear(), under the list's own lock.               *)
ClearList ==
  /\ UI("clear", "release") /\ listLock = Free /\ commands' = <<>>
  /\ pauseRender' = (pauseRender \/ stopFor = "switch")
  /\ UNCHANGED <<worker, box, sync, frame, listLock, update, pushed, messageBoxActive,
                 invertAnimation, view>>

(* The user's ON_RELEASE or ON_CHANGE_GRAPHICS, Submit, the device released. *)
Release ==
  /\ UI("release", IF stopFor = "switch" THEN "restart" ELSE "ended")
  /\ listLock = Free /\ commands' = <<>>
  /\ frozenProcess' = FALSE /\ updateInProgress' = FALSE
  /\ UNCHANGED <<worker, box, sync, predraw, overdue, listLock, update, pushed, dialog,
                 view>>

(* init makes new command lists and starts a worker; the WM_SIZE that        *)
(* switchGraphics sends then renders through the Resize handler.             *)
Restart ==
  /\ UI("restart", "render") /\ resizing' = TRUE
  /\ stopThread' = FALSE /\ worker' = "lock" /\ commands' = <<>> /\ listLock' = Free
  /\ UNCHANGED <<box, mutex, workAvailable, frame, update, pushed, dialog, iconic,
                 stopFor>>

UIPoll == PollNothing \/ Gate \/ Minimise \/ Resize \/ Click \/ JoinBox \/ Close \/ Switch
UIRender == Render \/ MinPredraw \/ MinIdle \/ MinWork \/ MinNotify \/ FreezeTest
              \/ FreezeSet \/ Choose \/ DestroyBox \/ Idle \/ Submit \/ ChooseAgain
              \/ AskForWork \/ Undraw \/ Rest \/ NotifyWorker \/ Present
UIStop == StopLock \/ StopNotify \/ StopSpin \/ StopKill \/ StopBox \/ StopKillBox
            \/ StopJoinBox \/ StopJoin \/ ClearList \/ Release \/ Restart
UIThread == UIPoll \/ UIRender \/ UIStop
Dialog == BPause \/ BOpen \/ BClose \/ BInactive \/ BResume

Next == UIThread \/ Worker \/ WSpuriousWake \/ Dialog
Spec == Init /\ [][Next]_vars

(* Each thread runs whenever it can: the UI thread never stops polling, an   *)
(* update the user wrote returns, a dialog told to close does so, PollMessages *)
(* empties its queue, and a mutex released again and again is taken in the   *)
(* end.  What the person does, and a spurious wake-up, need never happen.    *)
Fairness ==
  /\ WF_vars(UIThread) /\ SF_vars(PollNothing) /\ SF_vars(StopLock)
  /\ WF_vars(Worker)
  /\ WF_vars(BPause) /\ WF_vars(BOpen) /\ WF_vars(BInactive) /\ WF_vars(BResume)
  /\ WF_vars(ui = "destroyBox" /\ BClose)
FairSpec == Spec /\ Fairness
---------------------------------------------------------------------------
(* The state of every field and thread has its type, and a callback records   *)
(* no more than its commands.                                                *)
ThreadsOK ==
  /\ ui \in UISteps /\ worker \in WorkerSteps /\ box \in BoxSteps
  /\ stopFor \in {"close", "preDestroy", "switch"}
ListOK ==
  /\ listLock \in {Free, "worker"}
  /\ commands \in Seq(Frames) /\ update \in Frames /\ pushed \in 0..Pushes
MutexOK == mutex \in {Free, "worker"}
SyncOK == stopThread \in BOOLEAN /\ workAvailable \in BOOLEAN
FrameOK == /\ updateInProgress \in BOOLEAN /\ predraw \in BOOLEAN
           /\ frozenProcess \in BOOLEAN /\ overdue \in BOOLEAN
DialogOK == /\ pauseRender \in BOOLEAN /\ messageBoxActive \in BOOLEAN
            /\ invertAnimation \in BOOLEAN
ViewOK == iconic \in BOOLEAN /\ resizing \in BOOLEAN
TypeOK == ThreadsOK /\ MutexOK /\ ListOK /\ SyncOK /\ FrameOK /\ DialogOK /\ ViewOK

(* The list that Submit executes never mixes two updates, also when the      *)
(* window is minimised, switched or closed in the middle of one: every       *)
(* command in it was recorded by the update the worker began last.           *)
OneUpdate == \A i \in DOMAIN commands : commands[i] = update

(* While shutdown releases the device, and until a new worker is started,    *)
(* neither the worker nor the dialog thread exists: whichever way StopThreads *)
(* left its loop, both were joined.                                          *)
ReleaseAlone == ui \in ReleaseSteps => worker = "none" /\ box \in {"none", "terminated"}

(* updateInProgress is set only while the worker is between its mark and the  *)
(* end of its update, or was terminated there: the UI thread, which also      *)
(* clears it, and StopThreads, which spins on it, never see it left over from *)
(* an update that has ended.                                                  *)
Running == {"undraw", "update", "push", "draw", "thaw", "unmark"}
InProgressRuns == updateInProgress => worker \in Running \cup {"killed"}

(* When nothing minimises or restarts the window, userGraphics->Submit runs   *)
(* on a whole frame and the worker is not recording meanwhile, although no    *)
(* lock orders the UI thread's reads of predraw and the worker's writes.      *)
WholeFrame == ui = "submit" => worker \notin UpdateSteps /\ Len(commands) = Pushes

(* And the next update is asked for only while the finished frame is being    *)
(* taken back: outside that one step no frame waits while work is available.  *)
RequestAfterCollect == workAvailable /\ predraw => ui = "undraw" \/ stopThread

(* A terminated worker took a lock with it.                                   *)
Orphaned == /\ worker \in {"none", "exited", "killed"}
            /\ mutex # Free \/ listLock # Free

(* The UI thread waits in join for a dialog that only the person can close.   *)
AwaitsPerson == ui \in {"joinBox", "stopJoinBox"} /\ box = "open"

(* StopThreads always reaches its end: the stop request is never lost by a    *)
(* worker about to wait and the spin on updateInProgress ends, except when a  *)
(* terminated worker holds a lock or a dialog is joined while open.           *)
StopCompletes == (ui = "stopLock") ~> (ui = "clear" \/ Orphaned \/ AwaitsPerson)

(* A finished frame is always collected, also by a paused or a minimised      *)
(* window, unless the window ends first, the UI thread is stuck as above, or   *)
(* DestroyMessageBox waits for a dialog that StopThreads terminated.          *)
FrameCollected ==
  predraw ~> (~predraw \/ ui = "ended" \/ Orphaned \/ AwaitsPerson
                \/ (ui = "destroyBox" /\ box = "terminated"))

(* updateCv "Signals the worker that there's work to do" (bnUserWindow.h:145): *)
(* an update that is asked for is begun.                                      *)
RequestTaken == workAvailable ~> (~workAvailable \/ ui = "ended")

(* stopThread "Signals the worker to exit cleanly" (bnUserWindow.h:148): the  *)
(* worker that StopThreads ends leaves no lock behind.                        *)
ExitsCleanly == worker = "killed" => mutex = Free /\ listLock = Free

(* updateInProgress serves to "Track whether the worker is running"           *)
(* (bnUserWindow.h:150): it is not set while the worker waits for work.       *)
TracksWorker == worker = "waiting" => ~updateInProgress
============================================================================
