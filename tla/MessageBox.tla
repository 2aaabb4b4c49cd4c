----------------------------- MODULE MessageBox -----------------------------
(* The dialog of a frozen window (bnMessageBox), from the click that starts   *)
(* its thread to the DestroyMessageBox that deletes it: the UI thread of the  *)
(* user window, the dialog's thread, the dialog's audio thread and its device *)
(* (bnAudioDeviceWin32).  A fault is behaviour the code leaves undefined: the *)
(* program stops there, and the properties say when it may.                   *)
EXTENDS Integers, Sequences

CONSTANTS
  StreamFrames,   \* frames of the dialog's sound
  MixFrame,       \* bytes of a frame in the format the sound was made for
  FrameSizes,     \* bytes of a frame on the devices the person may change to
  BufferFrames,   \* frames the device's buffer takes
  FlickerFrames   \* frames a flicker lasts

ASSUME SoundAssumption ==
  /\ {StreamFrames, MixFrame, BufferFrames, FlickerFrames} \subseteq Nat \ {0}
  /\ FrameSizes \subseteq Nat \ {0}

VARIABLES
  ui, messageBoxActive,                  \* the user window's thread, and its flag
  dialog, audio,                         \* where the dialog's two threads are
  fault,
  entry,                                 \* currentMessageBoxes[id]
  handles, window,                       \* the list of windows; the dialog's own
  running, canBeDeleted, posted,         \* posted: WM_CLOSE is in the queue
  flickering, flickerFramesRemaining, iconic,
  present, audioClient, pause, started, frameSize, room,
  stream, active, bytesWritten

user == <<ui, messageBoxActive>>
box == <<entry, handles, window, running, canBeDeleted, posted>>
flicker == <<flickering, flickerFramesRemaining, iconic>>
device == <<present, audioClient, pause, started, frameSize, room>>
sound == <<stream, active, bytesWritten>>
vars == <<user, dialog, audio, fault, box, flicker, device, sound>>

Total == StreamFrames * MixFrame
Owner == handles[Len(handles)]

UISteps == {"loop", "join", "find", "close", "post", "spin", "destroy", "stopKill", "stopJoin"}
RunSteps == {"test", "poll", "drained", "frame", "startClient", "stopPress", "stopIconic",
             "shutDevice", "shutReset", "shutStream", "exit"}
DialogSteps == {"none", "start", "insert", "create", "run", "assign", "left", "inactive",
                "ended", "failed", "killed"} \cup RunSteps
AudioSteps == {"none", "test", "update", "pausing", "reset", "open", "unpause", "start",
               "handle", "openAgain", "unpauseAgain", "startAgain",
               "check", "recover", "reopen", "unpauseMix", "startMix",
               "mix", "mixing", "release", "ended"}
Faults == {"none", "nullBox", "freedEntry", "nullDevice", "nullClient", "freedStream"}

Init ==
  /\ ui = "loop" /\ messageBoxActive = FALSE
  /\ dialog = "none" /\ audio = "none" /\ fault = "none"
  /\ entry = "absent" /\ handles = <<"user">> /\ window = "none"
  /\ running = FALSE /\ canBeDeleted = FALSE /\ posted = FALSE
  /\ flickering = FALSE /\ flickerFramesRemaining = 0 /\ iconic = FALSE
  /\ present = FALSE /\ audioClient = "none" /\ pause = FALSE /\ started = FALSE
  /\ frameSize = MixFrame /\ room = FALSE
  /\ stream = "none" /\ active = FALSE /\ bytesWritten = 0

UI(from, to) == ui = from /\ ui' = to
Box(from, to) == dialog = from /\ dialog' = to
Audio(from, to) == audio = from /\ audio' = to

(* The fields of a box that has just been made, and of none.                  *)
Fresh ==
  /\ running' = FALSE /\ canBeDeleted' = FALSE /\ posted' = FALSE
  /\ flickering' = FALSE /\ flickerFramesRemaining' = 0 /\ iconic' = FALSE
  /\ pause' = FALSE /\ started' = FALSE /\ frameSize' = MixFrame
  /\ stream' = "none" /\ active' = FALSE /\ bytesWritten' = 0
---------------------------------------------------------------------------
(* The UI thread of the user window.                                         *)

(* A click on a frozen window, which shows its animation already.            *)
Click ==
  /\ UI("loop", "join") /\ ~messageBoxActive
  /\ UNCHANGED <<messageBoxActive, dialog, audio, fault, box, flicker,
                 device, sound>>

Join ==
  /\ UI("join", "loop") /\ dialog \in {"none", "ended"} /\ dialog' = "start"
  /\ UNCHANGED <<messageBoxActive, audio, fault, box, flicker, device, sound>>

(* Every frame the window collects ends in DestroyMessageBox.                *)
Collect ==
  /\ UI("loop", "find")
  /\ UNCHANGED <<messageBoxActive, dialog, audio, fault, box, flicker,
                 device, sound>>

Find ==
  /\ ui = "find"
  /\ \/ entry = "absent" /\ ui' = "loop" /\ UNCHANGED fault
     \/ entry = "null" /\ fault' = "nullBox" /\ UNCHANGED ui
     \/ entry = "box" /\ ui' = "close" /\ UNCHANGED fault
  /\ UNCHANGED <<messageBoxActive, dialog, audio, box, flicker, device, sound>>

(* close: running is cleared, WM_CLOSE posted, canBeDeleted waited for.       *)
CloseRunning ==
  /\ UI("close", "post") /\ running' = FALSE
  /\ UNCHANGED <<messageBoxActive, dialog, audio, fault, entry, handles,
                 window, canBeDeleted, posted, flicker, device, sound>>

ClosePost ==
  /\ UI("post", "spin") /\ posted' = (window = "open")
  /\ UNCHANGED <<messageBoxActive, dialog, audio, fault, entry, handles,
                 window, running, canBeDeleted, flicker, device, sound>>

\* Mutant: close does not wait for the dialog's loop to end.
CloseNoSpin ==
  /\ UI("spin", "destroy")
  /\ UNCHANGED <<messageBoxActive, dialog, audio, fault, box, flicker,
                 device, sound>>

CloseSpin ==
  /\ UI("spin", "destroy") /\ canBeDeleted
  /\ UNCHANGED <<messageBoxActive, dialog, audio, fault, box, flicker,
                 device, sound>>

\* Mutant: the destructor leaves the window's handle in the list.
DestroyKeepsHandle ==
  /\ UI("destroy", "loop") /\ audio \in {"none", "ended"} /\ entry' = "absent"
  /\ Fresh /\ present' = FALSE /\ audioClient' = "none" /\ room' = FALSE
  /\ UNCHANGED <<messageBoxActive, dialog, audio, fault, handles, window>>

(* handles.erase: what stands behind the k-th handle moves up.                *)
Erased(k) == [i \in 1..Len(handles)-1 |-> handles[IF i < k THEN i ELSE i + 1]]

(* erase deletes the box: ~bnWindow joins the audio thread and takes the      *)
(* handle out of the list, where it finds it.                                 *)
Destroy ==
  /\ UI("destroy", "loop") /\ audio \in {"none", "ended"} /\ entry' = "absent"
  /\ \E k \in DOMAIN handles :
       /\ handles[k] = "box" /\ \A j \in 1..k-1 : handles[j] # "box"
       /\ handles' = Erased(k)
  /\ Fresh /\ present' = FALSE /\ audioClient' = "none" /\ room' = FALSE
  /\ UNCHANGED <<messageBoxActive, dialog, audio, fault, window>>

(* StopThreads, of a window that switchGraphics keeps.                       *)
Stop ==
  /\ UI("loop", IF messageBoxActive THEN "stopKill" ELSE "stopJoin")
  /\ UNCHANGED <<messageBoxActive, dialog, audio, fault, box, flicker,
                 device, sound>>

(* TerminateThread; Windows destroys the windows of a thread that ends.       *)
StopKill ==
  /\ UI("stopKill", "stopJoin")
  /\ dialog' = IF dialog \in {"none", "ended"} THEN dialog ELSE "killed"
  /\ window' = IF window = "none" THEN "none" ELSE "destroyed"
  /\ UNCHANGED <<messageBoxActive, audio, fault, entry, handles, running,
                 canBeDeleted, posted, flicker, device, sound>>

StopJoin ==
  /\ UI("stopJoin", "loop") /\ dialog \in {"none", "ended", "killed"} /\ dialog' = "none"
  /\ UNCHANGED <<messageBoxActive, audio, fault, box, flicker, device, sound>>
---------------------------------------------------------------------------
(* The dialog's thread: CreateBlockingMessageBox and the constructor.        *)

Begin ==
  /\ Box("start", "insert") /\ messageBoxActive' = TRUE
  /\ UNCHANGED <<ui, audio, fault, box, flicker, device, sound>>

(* currentMessageBoxes[id] makes an empty entry, or finds the one of a dialog *)
(* the person closed and no frame has collected yet.                          *)
Insert ==
  /\ Box("insert", "create") /\ entry' = IF entry = "absent" THEN "null" ELSE entry
  /\ UNCHANGED <<user, audio, fault, handles, window, running, canBeDeleted, posted,
                 flicker, device, sound>>

(* Initialize finds pause FALSE: Unpause does nothing and the client is not   *)
(* started.  No device, or one that does not open, leaves the dialog silent.  *)
OpenFirst ==
  present' \in BOOLEAN /\ room' = TRUE /\ audioClient' = IF present' THEN "open" ELSE "none"

(* The dialog's owner is the last window made; with a destroyed one no window *)
(* and no graphics device is made, and the constructor waits for ever in close. *)
Create ==
  /\ dialog = "create"
  /\ \/ /\ Owner = "user" /\ dialog' = "run" /\ audio' = "test"
        /\ handles' = Append(handles, "box") /\ window' = "open"
        /\ Fresh /\ OpenFirst
     \/ /\ Owner # "user" /\ dialog' = "failed" /\ handles' = Append(handles, "none")
        /\ UNCHANGED <<audio, window, running, canBeDeleted, posted, flicker, device, sound>>
  /\ UNCHANGED <<user, fault, entry>>

(* create starts the audio thread before it sets running.                     *)
SetRunning ==
  /\ Box("run", "assign") /\ running' = TRUE
  /\ UNCHANGED <<user, audio, fault, entry, handles, window, canBeDeleted, posted, flicker,
                 device, sound>>

(* The reference to the map's entry is taken before the box is constructed.   *)
Assign ==
  /\ \/ entry = "absent" /\ dialog = "assign" /\ fault' = "freedEntry"
          /\ UNCHANGED <<dialog, entry>>
     \/ entry # "absent" /\ Box("assign", "test") /\ entry' = "box" /\ UNCHANGED fault
  /\ UNCHANGED <<user, audio, handles, window, running, canBeDeleted, posted, flicker,
                 device, sound>>
---------------------------------------------------------------------------
(* The dialog's thread: run and the handlers PollMessages dispatches to.     *)

TestRunning ==
  /\ dialog = "test" /\ dialog' = IF running THEN "poll" ELSE "exit"
  /\ UNCHANGED <<user, audio, fault, box, flicker, device, sound>>

PollNothing ==
  /\ Box("poll", "drained") /\ ~posted
  /\ UNCHANGED <<user, audio, fault, box, flicker, device, sound>>

Minimise ==
  /\ Box("poll", "drained") /\ ~posted /\ iconic' = ~iconic
  /\ UNCHANGED <<user, audio, fault, box, flickering, flickerFramesRemaining, device, sound>>

(* Activate, and a key, whose case falls through to it: Unpause.             *)
Activate ==
  /\ ~posted
  /\ \/ present /\ pause /\ Box("poll", "startClient") /\ pause' = FALSE
     \/ ~(present /\ pause) /\ Box("poll", "drained") /\ UNCHANGED pause
  /\ UNCHANGED <<user, audio, fault, box, flicker, present, audioClient, started, frameSize,
                 room, sound>>

(* A press on the caption: Pause, and a flicker is cut short.                *)
Press ==
  /\ ~posted /\ flickerFramesRemaining' = IF flickering THEN 0 ELSE flickerFramesRemaining
  /\ \/ ~present /\ dialog = "poll" /\ fault' = "nullDevice" /\ UNCHANGED <<dialog, pause>>
     \/ present /\ pause /\ Box("poll", "drained") /\ UNCHANGED <<pause, fault>>
     \/ present /\ ~pause /\ Box("poll", "stopPress") /\ pause' = TRUE /\ UNCHANGED fault
  /\ UNCHANGED <<user, audio, box, flickering, iconic, present, audioClient, started,
                 frameSize, room, sound>>

(* What Pause and Unpause do to the client after they have set the flag.      *)
ClientStep(on) ==
  /\ \/ audioClient = "none" /\ fault' = "nullClient" /\ UNCHANGED started
     \/ audioClient # "none" /\ started' = (on /\ audioClient = "open") /\ UNCHANGED fault
  /\ UNCHANGED <<user, box, flicker, present, audioClient, pause, frameSize, room, sound>>

StartClient == Box("startClient", "drained") /\ ClientStep(TRUE) /\ UNCHANGED audio
StopPress == Box("stopPress", "drained") /\ ClientStep(FALSE) /\ UNCHANGED audio
StopIconic == Box("stopIconic", "test") /\ ClientStep(FALSE) /\ UNCHANGED audio

(* WM_CLOSE, posted by close or sent by the close button: Destroy, shutdown.  *)
Shutdown ==
  /\ Box("poll", "shutDevice") /\ window = "open" /\ window' = "closing"
  /\ running' = FALSE /\ posted' = FALSE
  /\ UNCHANGED <<user, audio, fault, entry, handles, canBeDeleted, flicker, device, sound>>

(* rootAudioDevice->Shutdown: ClearAllStreams, then ResetAudioDevice.         *)
ShutDevice ==
  /\ \/ ~present /\ dialog = "shutDevice" /\ fault' = "nullDevice"
          /\ UNCHANGED <<dialog, stream, active>>
     \/ present /\ Box("shutDevice", "shutReset") /\ active' = FALSE
          /\ stream' = (IF active THEN "finished" ELSE stream) /\ UNCHANGED fault
  /\ UNCHANGED <<user, audio, box, flicker, device, bytesWritten>>

ShutReset ==
  /\ Box("shutReset", "shutStream") /\ audioClient' = "none" /\ started' = FALSE
  /\ UNCHANGED <<user, audio, fault, box, flicker, present, pause, frameSize, room, sound>>

ShutStream ==
  /\ Box("shutStream", "drained") /\ window' = "destroyed"
  /\ stream' = IF stream = "none" THEN "none" ELSE "deleted"
  /\ UNCHANGED <<user, audio, fault, entry, handles, running, canBeDeleted, posted, flicker,
                 device, active, bytesWritten>>

Drained ==
  /\ dialog = "drained" /\ dialog' = IF running THEN "frame" ELSE "exit"
  /\ UNCHANGED <<user, audio, fault, box, flicker, device, sound>>

\* Mutant: a minimised, paused dialog waits to be restored before it goes on.
FrameIconicStays ==
  /\ dialog = "frame" /\ iconic
  /\ \/ ~present /\ fault' = "nullDevice" /\ UNCHANGED <<dialog, pause>>
     \/ present /\ ~pause /\ dialog' = "stopIconic" /\ pause' = TRUE /\ UNCHANGED fault
  /\ UNCHANGED <<user, audio, box, flicker, present, audioClient, started, frameSize, room,
                 sound>>

FrameIconic ==
  /\ dialog = "frame" /\ iconic
  /\ \/ ~present /\ fault' = "nullDevice" /\ UNCHANGED <<dialog, pause>>
     \/ present /\ pause /\ dialog' = "test" /\ UNCHANGED <<pause, fault>>
     \/ present /\ ~pause /\ dialog' = "stopIconic" /\ pause' = TRUE /\ UNCHANGED fault
  /\ UNCHANGED <<user, audio, box, flicker, present, audioClient, started, frameSize, room,
                 sound>>

\* Mutant: a click on the owner renews the countdown of a flicker that runs.
FlickerRenewed(clicked) ==
  LET on == flickering \/ clicked
      left == IF clicked THEN FlickerFrames ELSE flickerFramesRemaining
  IN /\ flickering' = (on /\ left > 0)
     /\ flickerFramesRemaining' = IF flickering' THEN left - 1 ELSE left

\* Mutant: the countdown goes on when it has run out.
FlickerUntested(clicked) ==
  LET left == IF clicked /\ ~flickering THEN FlickerFrames ELSE flickerFramesRemaining
  IN /\ flickering' = (flickering \/ clicked)
     /\ flickerFramesRemaining' = IF flickering' THEN left - 1 ELSE left

(* clicked: the button is down over the owner, which is not in front.         *)
Flicker(clicked) ==
  LET on == flickering \/ clicked
      left == IF clicked /\ ~flickering THEN FlickerFrames ELSE flickerFramesRemaining
  IN /\ flickering' = (on /\ left > 0)
     /\ flickerFramesRemaining' = IF flickering' THEN left - 1 ELSE left

(* RenderFrame deletes a finished stream, and queues the sound on the first   *)
(* frame, in the device's format of that moment.                              *)
RenderStream ==
  /\ \/ stream = "finished" /\ stream' = "deleted" /\ UNCHANGED active
     \/ stream = "none" /\ present /\ stream' = "playing" /\ active' = TRUE
     \/ stream = "none" /\ ~present /\ UNCHANGED <<stream, active>>
     \/ stream \in {"playing", "deleted"} /\ UNCHANGED <<stream, active>>
  /\ UNCHANGED bytesWritten

Frame ==
  /\ Box("frame", "test") /\ ~iconic
  /\ \E clicked \in BOOLEAN : Flicker(clicked)
  /\ RenderStream
  /\ UNCHANGED <<user, audio, fault, box, iconic, device>>

Exit ==
  /\ Box("exit", "left") /\ canBeDeleted' = TRUE
  /\ UNCHANGED <<user, audio, fault, entry, handles, window, running, posted, flicker,
                 device, sound>>

Inactive ==
  /\ Box("left", "inactive") /\ messageBoxActive' = FALSE
  /\ UNCHANGED <<ui, audio, fault, box, flicker, device, sound>>

(* The thread ends, and with it the window of a dialog that did not shut down. *)
End ==
  /\ Box("inactive", "ended") /\ window' = "destroyed"
  /\ UNCHANGED <<user, audio, fault, entry, handles, running, canBeDeleted, posted, flicker,
                 device, sound>>
---------------------------------------------------------------------------
(* The audio thread: the loop of create, and UpdateFrame.                    *)

AudioTest ==
  /\ audio = "test"
  /\ \/ ~running /\ audio' = "ended"
     \/ running /\ present /\ ~pause /\ audio' = "update"
  /\ UNCHANGED <<user, dialog, fault, box, flicker, device, sound>>

(* Nothing to play; the device as it was; another default device, for which   *)
(* the old one is paused and reset.                                           *)
AudioUpdate ==
  /\ audio = "update"
  /\ \/ (audioClient # "open" \/ ~active) /\ audio' = "test" /\ UNCHANGED pause
     \/ audioClient = "open" /\ active /\ audio' = "check" /\ UNCHANGED pause
     \/ /\ audioClient = "open" /\ active /\ pause' = TRUE
        /\ audio' = IF pause THEN "reset" ELSE "pausing"
  /\ UNCHANGED <<user, dialog, fault, box, flicker, present, audioClient, started, frameSize,
                 room, sound>>

AudioPause == Audio("pausing", "reset") /\ ClientStep(FALSE) /\ UNCHANGED dialog

(* ResetAudioDevice, of UpdateFrame or of HandleAudioDeviceError.            *)
Reset(from, to) ==
  /\ Audio(from, to) /\ audioClient' = "none" /\ started' = FALSE
  /\ UNCHANGED <<user, dialog, fault, box, flicker, present, pause, frameSize, room, sound>>

AudioReset == Reset("reset", "open") \/ Reset("handle", "openAgain") \/ Reset("recover", "reopen")

(* Initialize: a device that opens, in its own format, or one that fails on   *)
(* the way, before or after it made a client.                                 *)
Open(from, opened, failed) ==
  /\ audio = from
  /\ \/ audio' = opened /\ audioClient' = "open" /\ room' = TRUE /\ frameSize' \in FrameSizes
     \/ audio' = failed /\ audioClient' \in {"none", "useless"} /\ UNCHANGED <<frameSize, room>>
  /\ UNCHANGED <<user, dialog, fault, box, flicker, present, pause, started, sound>>

AudioOpen ==
  \/ Open("open", "unpause", "handle")
  \/ Open("openAgain", "unpauseAgain", "test")
  \/ Open("reopen", "unpauseMix", "mix")

Unpause(from, paused, running_) ==
  /\ audio = from /\ pause' = FALSE /\ audio' = IF pause THEN paused ELSE running_
  /\ UNCHANGED <<user, dialog, fault, box, flicker, present, audioClient, started, frameSize,
                 room, sound>>

AudioUnpause ==
  \/ Unpause("unpause", "start", "check")
  \/ Unpause("unpauseAgain", "startAgain", "test")
  \/ Unpause("unpauseMix", "startMix", "mix")

AudioStart ==
  /\ Audio("start", "check") \/ Audio("startAgain", "test") \/ Audio("startMix", "mix")
  /\ ClientStep(TRUE) /\ UNCHANGED dialog

(* A client the dialog's shutdown took away in the meantime is opened again,   *)
(* and the mix goes on whether or not that works.                             *)
AudioCheck ==
  /\ audio = "check" /\ audio' = IF audioClient = "open" THEN "mix" ELSE "recover"
  /\ UNCHANGED <<user, dialog, fault, box, flicker, device, sound>>

(* GetBuffer takes all the room there is, or fails: a device that is gone is   *)
(* opened again, another error is only reported.                              *)
Take(finishes) ==
  /\ Audio("mix", "mixing") /\ ~pause /\ audioClient = "open" /\ room /\ room' = FALSE
  /\ stream' = IF finishes THEN "finished" ELSE stream
  /\ UNCHANGED <<user, dialog, fault, box, flicker, present, audioClient, pause, started,
                 frameSize, active, bytesWritten>>

\* Mutant: a stream the buffer has room for is marked as finished before it is mixed.
TakeFinishes == Take(Total - bytesWritten <= BufferFrames * MixFrame)

TakeBuffer == Take(FALSE)

(* Paused, no room, or an error; a client without its renderer is not noticed. *)
AudioMix ==
  /\ audio = "mix"
  /\ \/ (pause \/ (audioClient # "none" /\ ~room)) /\ audio' = "test" /\ UNCHANGED fault
     \/ ~pause /\ (audioClient = "none" \/ (audioClient = "useless" /\ room))
          /\ fault' = "nullClient" /\ UNCHANGED audio
     \/ ~pause /\ audioClient # "none" /\ room /\ audio' \in {"handle", "test"}
          /\ UNCHANGED fault
  /\ UNCHANGED <<user, dialog, box, flicker, device, sound>>

\* Mutant: as many frames are read as the buffer takes, however many are left.
CopyBuffer(available) == available

(* framesLeft is counted in frames of the device.                            *)
Copy(available) ==
  LET left == (Total - bytesWritten) \div frameSize
  IN IF available < left THEN available ELSE left

\* Mutant: a stream is finished when more than all of it is written.
WrittenBeyond(bytes) == bytes > Total

Written(bytes) == bytes >= Total

(* The loop over activeStreams, for the one stream of the dialog: its frames  *)
(* are read with the channels of the device and counted in frames of its own. *)
Mix ==
  /\ active /\ stream # "deleted" /\ Audio("mixing", "release")
  /\ \E available \in 1..BufferFrames :
       bytesWritten' = bytesWritten + Copy(available) * MixFrame
  /\ IF Written(bytesWritten') THEN stream' = "finished" /\ active' = FALSE
                               ELSE UNCHANGED <<stream, active>>
  /\ UNCHANGED <<user, dialog, fault, box, flicker, device>>

(* The dialog's thread cleared the list or deleted the stream meanwhile.      *)
MixFreed ==
  /\ audio = "mixing" /\ (~active \/ stream = "deleted") /\ fault' = "freedStream"
  /\ UNCHANGED <<user, dialog, audio, box, flicker, device, sound>>

AudioRelease ==
  /\ audio = "release"
  /\ \/ audioClient = "none" /\ fault' = "nullClient" /\ UNCHANGED audio
     \/ audioClient # "none" /\ audio' \in {"handle", "test"} /\ UNCHANGED fault
  /\ UNCHANGED <<user, dialog, box, flicker, device, sound>>

(* The device plays what is in its buffer once its client is started.        *)
Play ==
  /\ started /\ ~room /\ room' = TRUE
  /\ UNCHANGED <<user, dialog, audio, fault, box, flicker, present, audioClient, pause, started,
                 frameSize, sound>>
---------------------------------------------------------------------------
DestroyMessageBox == Find \/ CloseRunning \/ ClosePost \/ CloseSpin \/ Destroy
UIThread == Click \/ Join \/ Collect \/ DestroyMessageBox \/ Stop \/ StopKill \/ StopJoin
Construct == Begin \/ Insert \/ Create \/ SetRunning \/ Assign
Handle == PollNothing \/ Minimise \/ Activate \/ Press \/ StartClient \/ StopPress
            \/ Shutdown \/ ShutDevice \/ ShutReset \/ ShutStream
Run == TestRunning \/ Handle \/ Drained \/ FrameIconic \/ StopIconic \/ Frame \/ Exit
DialogThread == Construct \/ Run \/ Inactive \/ End
AudioThread == AudioTest \/ AudioUpdate \/ AudioPause \/ AudioReset \/ AudioOpen \/ AudioUnpause
                 \/ AudioStart \/ AudioCheck \/ TakeBuffer \/ AudioMix \/ Mix \/ MixFreed \/ AudioRelease

Next == fault = "none" /\ (UIThread \/ DialogThread \/ AudioThread \/ Play)
Spec == Init /\ [][Next]_vars

(* Each thread runs, the device plays, and a buffer asked for again and again *)
(* is given in the end.  What the person does need never happen.              *)
Fairness ==
  /\ WF_vars(fault = "none" /\ DestroyMessageBox)
  /\ WF_vars(fault = "none" /\ DialogThread)
  /\ WF_vars(fault = "none" /\ AudioThread)
  /\ WF_vars(fault = "none" /\ Play)
  /\ SF_vars(fault = "none" /\ TakeBuffer)
FairSpec == Spec /\ Fairness
---------------------------------------------------------------------------
(* Every variable has its type, and no more is written than the stream and a  *)
(* buffer together hold.                                                      *)
TypeOK ==
  /\ ui \in UISteps /\ dialog \in DialogSteps /\ audio \in AudioSteps /\ fault \in Faults
  /\ messageBoxActive \in BOOLEAN
  /\ entry \in {"absent", "null", "box"}
  /\ handles \in Seq({"user", "box", "none"}) /\ Len(handles) >= 1
  /\ window \in {"none", "open", "closing", "destroyed"}
  /\ {running, canBeDeleted, posted, flickering, iconic} \subseteq BOOLEAN
  /\ flickerFramesRemaining \in 0..FlickerFrames
  /\ {present, pause, started, room, active} \subseteq BOOLEAN
  /\ audioClient \in {"none", "useless", "open"} /\ frameSize \in FrameSizes \cup {MixFrame}
  /\ stream \in {"none", "playing", "finished", "deleted"}
  /\ bytesWritten \in 0..(Total + BufferFrames * MixFrame)

(* DestroyMessageBox deletes a dialog on the UI thread while the dialog's own  *)
(* thread may be anywhere: it never does so while that thread is in run, in a  *)
(* handler or in shutdown, because close waits for canBeDeleted.              *)
BoxOutlived == [][entry = "box" /\ entry' = "absent" => dialog \notin RunSteps]_vars

(* A new dialog takes the window made last as its owner: it is the user's      *)
(* window, also after dialogs have come and gone, unless the person closed the *)
(* last dialog and no frame has been collected since.                         *)
OwnerAlive ==
  dialog = "create" /\ Owner # "user" => entry = "box" /\ window = "destroyed"

(* No lock orders the audio thread, which mixes the stream, and the dialog's,  *)
(* which deletes it: the stream is deleted, or the list cleared, under the mix *)
(* only by the shutdown of a closing window, never by RenderFrame.            *)
StreamWhole == fault = "freedStream" => window \in {"closing", "destroyed"}

(* What the mix is about to read lies within the stream, also after it has been *)
(* opened on another device, unless that device's frames are smaller than the  *)
(* stream's: the frames of the one are counted in those of the other.         *)
ReadsWithin ==
  audio = "mixing" /\ active /\ frameSize >= MixFrame =>
    \A available \in 1..BufferFrames :
      LET frames == Copy(available) IN
      frames > 0 => bytesWritten + (frames - 1) * MixFrame + frameSize <= Total

(* The dialog's thread is gone and will not set canBeDeleted.                 *)
Abandoned == dialog \in {"none", "killed"} /\ ~canBeDeleted

(* DestroyMessageBox returns, wherever the dialog is (minimised, flickering, in *)
(* the middle of a handler) and whatever its audio thread does, unless the     *)
(* dialog's thread was terminated before.                                     *)
DestroyReturns == (ui = "find") ~> (ui = "loop" \/ fault # "none" \/ Abandoned)

(* A flicker ends however often or long the owner is clicked, unless the       *)
(* dialog is minimised or its loop ends first.                                *)
FlickerEnds ==
  []<>(~flickering \/ iconic \/ dialog \notin RunSteps \/ fault # "none")

(* A sound that plays ends: the device cannot stay started, in the stream's    *)
(* own format and not paused, while the stream stays queued for ever.          *)
Sounding ==
  /\ active /\ running /\ audio # "ended" /\ fault = "none"
  /\ present /\ started /\ ~pause /\ frameSize = MixFrame
SoundEnds == []<>~Sounding
============================================================================
