------------------------- MODULE MessageBoxProofs -------------------------
(***************************************************************************)
(* Proofs about MessageBox for every length and format of the sound, every *)
(* buffer of the device and every format it may change to.                 *)
(***************************************************************************)
EXTENDS MessageBox, SequenceTheorems, TLAPS

(* The steps of a dialog that has a window of its own.                     *)
OwnSteps == RunSteps \cup {"run", "assign"}

(* A new dialog finds the user's window, or the one of a dialog that was   *)
(* closed and not collected.                                               *)
OwnerKnown == Owner = "user" \/ (entry = "box" /\ window = "destroyed")

(* The list of windows: the user's first, one dialog's at most; the handle *)
(* of a window that could not be made is there only after a dialog that    *)
(* failed, and no dialog comes after it.                                   *)
HandlesInv ==
  /\ handles[1] = "user"
  /\ \A j, k \in DOMAIN handles : handles[j] = handles[k] /\ handles[k] = "box" => j = k
  /\ \A k \in DOMAIN handles : handles[k] = "none" =>
       messageBoxActive /\ dialog \in {"failed", "killed", "none"}
  /\ \A k \in DOMAIN handles : handles[k] = "user" => k = 1
  /\ entry = "box" => \E k \in DOMAIN handles : handles[k] = "box"
  /\ dialog \in OwnSteps => Owner = "box"

(* Which dialog may follow which.                                          *)
DialogInv ==
  /\ dialog \in {"start", "insert", "create", "ended"} => OwnerKnown
  /\ dialog \in {"none", "killed"} /\ ~messageBoxActive => OwnerKnown
  /\ dialog \in {"left", "inactive"} =>
       (entry = "box" \/ Owner = "user") /\ window # "none"
  /\ dialog \in RunSteps => entry = "box" /\ window # "none"
  /\ dialog \in {"run", "assign"} => entry # "box" /\ window # "none"
  /\ dialog \in OwnSteps \cup {"insert", "create", "left", "failed"} => messageBoxActive
  /\ dialog = "killed" => ui = "stopJoin"
  /\ ui = "join" => dialog # "none" \/ ~messageBoxActive

(* When the UI thread deletes a box, its dialog's loop has ended.          *)
DeleteInv ==
  /\ canBeDeleted => dialog \notin OwnSteps
  /\ ui \in {"close", "post", "spin", "destroy"} => entry = "box"
  /\ ui = "destroy" => canBeDeleted

(* The places of the audio thread from where it mixes without asking again *)
(* whether there is anything to play.                                      *)
MixSteps == {"pausing", "reset", "open", "unpause", "start", "check", "recover", "reopen",
             "unpauseMix", "startMix", "mix", "mixing"}

Shut == window \in {"closing", "destroyed"}

SoundInv ==
  /\ active => stream = "playing" /\ bytesWritten < Total
  /\ stream = "none" => bytesWritten = 0
  /\ audio \in MixSteps => active \/ Shut
  /\ dialog \in {"shutDevice", "shutReset", "shutStream"} => Shut
  /\ dialog \in {"shutReset", "shutStream"} => ~active

IInv ==
  /\ TypeOK /\ HandlesInv /\ DialogInv /\ DeleteInv /\ SoundInv /\ StreamWhole

-----------------------------------------------------------------------------
(* Arithmetic of the sound.                                                *)

LEMMA TotalType == Total \in Nat \ {0} /\ MixFrame \in Nat \ {0} /\ BufferFrames \in Nat \ {0}
<1>1. StreamFrames \in Nat \ {0} /\ MixFrame \in Nat \ {0} /\ BufferFrames \in Nat \ {0}
  BY SoundAssumption
<1>2. \A m \in Nat \ {0}, n \in Nat \ {0} : m * n \in Nat \ {0}
  OBVIOUS
<1>3. QED
  BY <1>1, <1>2 DEF Total

LEMMA Division ==
  ASSUME NEW d \in Nat \ {0}, NEW n \in Int
  PROVE  /\ n \div d \in Int
         /\ (n \div d) * d <= n
         /\ n >= 0 => n \div d \in Nat
  OBVIOUS

LEMMA Product ==
  ASSUME NEW m \in Nat, NEW n \in Nat, NEW d \in Nat, m <= n
  PROVE  m * d \in Nat /\ m * d <= n * d
  OBVIOUS

LEMMA SizeType == TypeOK => frameSize \in Nat \ {0}
  BY SoundAssumption DEF TypeOK

(* The mix reads no more than the buffer takes.                            *)
LEMMA CopyType ==
  ASSUME TypeOK, bytesWritten < Total, NEW available \in 1..BufferFrames
  PROVE  /\ Copy(available) \in Nat
         /\ Copy(available) * MixFrame \in Nat
         /\ Copy(available) * MixFrame <= BufferFrames * MixFrame
<1>1. /\ frameSize \in Nat \ {0} /\ bytesWritten \in Nat /\ Total \in Nat
      /\ MixFrame \in Nat /\ BufferFrames \in Nat
  BY SizeType, TotalType DEF TypeOK
<1>2. (Total - bytesWritten) \div frameSize \in Nat
  <2>1. Total - bytesWritten \in Int /\ Total - bytesWritten >= 0
    BY <1>1
  <2>2. QED
    BY <1>1, <2>1, Division
<1>3. Copy(available) \in Nat /\ Copy(available) <= BufferFrames
  BY <1>1, <1>2 DEF Copy
<1>4. QED
  BY <1>1, <1>3, Product

(* The list after a handle is added or taken out.                          *)
LEMMA HandlesType ==
  ASSUME TypeOK
  PROVE  /\ handles \in Seq({"user", "box", "none"}) /\ Len(handles) \in Nat \ {0}
         /\ DOMAIN handles = 1..Len(handles) /\ 1 \in DOMAIN handles
         /\ Len(handles) \in DOMAIN handles
         /\ \A k \in DOMAIN handles : handles[k] \in {"user", "box", "none"}
<1>1. handles \in Seq({"user", "box", "none"}) /\ Len(handles) >= 1
  BY DEF TypeOK
<1>2. /\ Len(handles) \in Nat /\ DOMAIN handles = 1..Len(handles)
      /\ handles \in [1..Len(handles) -> {"user", "box", "none"}]
  BY <1>1, LenProperties
<1>3. QED
  BY <1>1, <1>2

LEMMA AppendHandle ==
  ASSUME TypeOK, NEW h \in {"user", "box", "none"}, handles' = Append(handles, h)
  PROVE  /\ handles' \in Seq({"user", "box", "none"})
         /\ Len(handles') = Len(handles) + 1
         /\ DOMAIN handles' = 1..Len(handles)+1
         /\ \A k \in DOMAIN handles : handles'[k] = handles[k]
         /\ handles'[Len(handles)+1] = h
         /\ Owner' = h
<1>1. /\ handles' \in Seq({"user", "box", "none"})
      /\ Len(handles') = Len(handles) + 1
      /\ DOMAIN handles' = 1..Len(handles)+1
      /\ \A k \in DOMAIN handles : handles'[k] = handles[k]
      /\ handles'[Len(handles)+1] = h
  BY HandlesType, AppendProperties, LenProperties
<1>2. QED
  BY <1>1 DEF Owner

LEMMA EraseHandle ==
  ASSUME TypeOK, NEW k \in DOMAIN handles, k # 1, handles' = Erased(k)
  PROVE  /\ handles' \in Seq({"user", "box", "none"})
         /\ Len(handles') = Len(handles) - 1 /\ Len(handles') \in Nat \ {0}
         /\ DOMAIN handles' = 1..Len(handles)-1
         /\ \A i \in DOMAIN handles' :
              handles'[i] = handles[IF i < k THEN i ELSE i + 1]
         /\ \A i \in DOMAIN handles' : (IF i < k THEN i ELSE i + 1) \in DOMAIN handles \ {k}
<1>1. /\ Len(handles) \in Nat \ {0} /\ DOMAIN handles = 1..Len(handles)
      /\ handles \in [1..Len(handles) -> {"user", "box", "none"}]
  BY HandlesType
<1>2. Len(handles) - 1 \in Nat \ {0} /\ k \in 2..Len(handles)
  BY <1>1
<1>3. \A i \in 1..Len(handles)-1 : (IF i < k THEN i ELSE i + 1) \in DOMAIN handles \ {k}
  BY <1>1, <1>2
<1>4. Erased(k) \in [1..Len(handles)-1 -> {"user", "box", "none"}]
  BY <1>1, <1>3 DEF Erased
<1>5. Erased(k) \in Seq({"user", "box", "none"}) /\ Len(Erased(k)) = Len(handles) - 1
  BY <1>2, <1>4
<1>6. \A i \in 1..Len(handles)-1 : handles'[i] = handles[IF i < k THEN i ELSE i + 1]
  BY DEF Erased
<1>7. QED
  BY <1>2, <1>3, <1>4, <1>5, <1>6

-----------------------------------------------------------------------------
(* Types.                                                                  *)

LEMMA TypeInit == Init => TypeOK
<1> SUFFICES ASSUME Init PROVE TypeOK
  OBVIOUS
<1>1. bytesWritten \in 0..(Total + BufferFrames * MixFrame)
      /\ flickerFramesRemaining \in 0..FlickerFrames
  <2>1. BufferFrames * MixFrame \in Nat /\ Total \in Nat /\ FlickerFrames \in Nat
    BY TotalType, Product, SoundAssumption
  <2>2. QED
    BY <2>1 DEF Init
<1>2. handles \in Seq({"user", "box", "none"}) /\ Len(handles) >= 1
  BY DEF Init
<1>3. QED
  BY <1>1, <1>2 DEF Init, TypeOK, UISteps, DialogSteps, RunSteps, AudioSteps, Faults

(* The parts of the state that have a type of their own.                   *)
StepsType ==
  /\ ui \in UISteps /\ dialog \in DialogSteps /\ audio \in AudioSteps /\ fault \in Faults

BoxType ==
  /\ messageBoxActive \in BOOLEAN /\ running \in BOOLEAN /\ canBeDeleted \in BOOLEAN
  /\ posted \in BOOLEAN
  /\ entry \in {"absent", "null", "box"}
  /\ window \in {"none", "open", "closing", "destroyed"}
  /\ flickering \in BOOLEAN /\ iconic \in BOOLEAN
  /\ flickerFramesRemaining \in 0..FlickerFrames

DeviceType ==
  /\ present \in BOOLEAN /\ pause \in BOOLEAN /\ started \in BOOLEAN /\ room \in BOOLEAN
  /\ active \in BOOLEAN
  /\ audioClient \in {"none", "useless", "open"} /\ frameSize \in FrameSizes \cup {MixFrame}
  /\ stream \in {"none", "playing", "finished", "deleted"}

LEMMA TypeParts ==
  /\ TypeOK => StepsType /\ BoxType /\ DeviceType
  /\ StepsType /\ BoxType /\ DeviceType
     /\ handles \in Seq({"user", "box", "none"}) /\ Len(handles) >= 1
     /\ bytesWritten \in 0..(Total + BufferFrames * MixFrame) => TypeOK
  BY DEF TypeOK, StepsType, BoxType, DeviceType

LEMMA StepsStep ==
  ASSUME TypeOK, [Next]_vars PROVE StepsType'
<1> USE DEF StepsType, UISteps, DialogSteps, RunSteps, AudioSteps, Faults, vars, user, box,
    flicker, device, sound, UI, Box, Audio
<1>0. StepsType
  BY TypeParts
<1>1. CASE UIThread
  <2>1. CASE Click \/ Join \/ Collect \/ Find \/ CloseRunning \/ ClosePost \/ CloseSpin
    BY <1>0, <2>1 DEF Click, Join, Collect, Find, CloseRunning, ClosePost, CloseSpin
  <2>2. CASE Destroy \/ Stop \/ StopKill \/ StopJoin
    BY <1>0, <2>2 DEF Destroy, Stop, StopKill, StopJoin
  <2>3. QED
    BY <1>1, <2>1, <2>2 DEF UIThread, DestroyMessageBox
<1>2. CASE DialogThread
  <2>1. CASE Construct
    BY <1>0, <2>1 DEF Construct, Begin, Insert, Create, SetRunning, Assign
  <2>2. CASE TestRunning \/ PollNothing \/ Minimise \/ Activate \/ Press
    BY <1>0, <2>2 DEF TestRunning, PollNothing, Minimise, Activate, Press
  <2>3. CASE StartClient \/ StopPress \/ StopIconic
    BY <1>0, <2>3 DEF StartClient, StopPress, StopIconic, ClientStep
  <2>4. CASE Shutdown \/ ShutDevice \/ ShutReset \/ ShutStream
    BY <1>0, <2>4 DEF Shutdown, ShutDevice, ShutReset, ShutStream
  <2>5. CASE Drained \/ FrameIconic \/ Frame \/ Exit \/ Inactive \/ End
    BY <1>0, <2>5 DEF Drained, FrameIconic, Frame, Exit, Inactive, End
  <2>6. QED
    BY <1>2, <2>1, <2>2, <2>3, <2>4, <2>5 DEF DialogThread, Run, Handle
<1>3. CASE AudioThread
  <2>1. CASE AudioTest \/ AudioUpdate \/ AudioPause \/ AudioReset
    BY <1>0, <2>1 DEF AudioTest, AudioUpdate, AudioPause, ClientStep, AudioReset, Reset
  <2>2. CASE AudioOpen \/ AudioUnpause \/ AudioStart
    BY <1>0, <2>2 DEF AudioOpen, Open, AudioUnpause, Unpause, AudioStart, ClientStep
  <2>3. CASE TakeBuffer \/ AudioCheck \/ AudioMix \/ Mix \/ MixFreed \/ AudioRelease
    BY <1>0, <2>3 DEF TakeBuffer, Take, AudioCheck, AudioMix, Mix, MixFreed, AudioRelease
  <2>4. QED
    BY <1>3, <2>1, <2>2, <2>3 DEF AudioThread
<1>4. CASE Play \/ UNCHANGED vars
  BY <1>0, <1>4 DEF Play
<1>5. QED
  BY <1>1, <1>2, <1>3, <1>4 DEF Next

LEMMA BoxStep ==
  ASSUME TypeOK, [Next]_vars PROVE BoxType'
<1> USE DEF BoxType, vars, user, box, flicker
<1>0. BoxType /\ FlickerFrames \in Nat \ {0} /\ 0 \in 0..FlickerFrames
  BY TypeParts, SoundAssumption
<1>1. CASE UIThread
  <2>1. CASE Click \/ Join \/ Collect \/ Find \/ CloseRunning \/ ClosePost \/ CloseSpin
    BY <1>0, <2>1 DEF Click, Join, Collect, Find, CloseRunning, ClosePost, CloseSpin
  <2>2. CASE Destroy \/ Stop \/ StopKill \/ StopJoin
    <3>1. CASE Destroy
      BY <1>0, <3>1 DEF Destroy, Fresh
    <3>2. CASE Stop
      BY <1>0, <3>2 DEF Stop
    <3>3. CASE StopKill
      BY <1>0, <3>3 DEF StopKill
    <3>4. CASE StopJoin
      BY <1>0, <3>4 DEF StopJoin
    <3>5. QED
      BY <2>2, <3>1, <3>2, <3>3, <3>4
  <2>3. QED
    BY <1>1, <2>1, <2>2 DEF UIThread, DestroyMessageBox
<1>2. CASE DialogThread
  <2>1. CASE Construct
    <3>1. CASE Begin
      BY <1>0, <3>1 DEF Begin
    <3>2. CASE Insert
      BY <1>0, <3>2 DEF Insert
    <3>3. CASE Create
      BY <1>0, <3>3 DEF Create, Fresh
    <3>4. CASE SetRunning
      BY <1>0, <3>4 DEF SetRunning
    <3>5. CASE Assign
      BY <1>0, <3>5 DEF Assign
    <3>6. QED
      BY <2>1, <3>1, <3>2, <3>3, <3>4, <3>5 DEF Construct
  <2>2. CASE TestRunning \/ PollNothing \/ Minimise \/ Activate \/ Press
    <3>1. CASE TestRunning \/ PollNothing
      BY <1>0, <3>1 DEF TestRunning, PollNothing
    <3>2. CASE Minimise
      BY <1>0, <3>2 DEF Minimise
    <3>3. CASE Activate
      BY <1>0, <3>3 DEF Activate
    <3>4. CASE Press
      BY <1>0, <3>4 DEF Press
    <3>5. QED
      BY <2>2, <3>1, <3>2, <3>3, <3>4
  <2>3. CASE StartClient \/ StopPress \/ StopIconic
    BY <1>0, <2>3 DEF StartClient, StopPress, StopIconic, ClientStep
  <2>4. CASE Shutdown \/ ShutDevice \/ ShutReset \/ ShutStream
    BY <1>0, <2>4 DEF Shutdown, ShutDevice, ShutReset, ShutStream
  <2>5. CASE Drained \/ FrameIconic \/ Exit \/ Inactive \/ End
    BY <1>0, <2>5 DEF Drained, FrameIconic, Exit, Inactive, End
  <2>6. CASE Frame
    <3>1. PICK clicked \in BOOLEAN : Flicker(clicked)
      BY <2>6 DEF Frame
    <3>2. flickering' \in BOOLEAN /\ flickerFramesRemaining' \in 0..FlickerFrames
      <4>1. FlickerFrames \in Nat /\ flickerFramesRemaining \in Nat
        BY <1>0
      <4>2. DEFINE left == IF clicked /\ ~flickering THEN FlickerFrames
                           ELSE flickerFramesRemaining
      <4>3. left \in 0..FlickerFrames
        BY <1>0, <4>1
      <4>4. flickering' = ((flickering \/ clicked) /\ left > 0)
            /\ flickerFramesRemaining' = IF flickering' THEN left - 1 ELSE left
        BY <3>1 DEF Flicker
      <4>5. flickering' \in BOOLEAN /\ (flickering' => left > 0)
        BY <4>4
      <4>6. flickerFramesRemaining' \in 0..FlickerFrames
        BY <4>1, <4>3, <4>4, <4>5
      <4>7. QED
        BY <4>5, <4>6
    <3>3. QED
      BY <1>0, <2>6, <3>2 DEF Frame
  <2>7. QED
    BY <1>2, <2>1, <2>2, <2>3, <2>4, <2>5, <2>6 DEF DialogThread, Run, Handle
<1>3. CASE AudioThread
  <2>1. UNCHANGED <<user, box, flicker>>
    BY <1>3 DEF AudioThread, AudioTest, AudioUpdate, AudioPause, ClientStep, AudioReset, Reset,
       AudioOpen, Open, AudioUnpause, Unpause, AudioStart, AudioCheck, TakeBuffer, Take, AudioMix,
       Mix, MixFreed, AudioRelease
  <2>2. QED
    BY <1>0, <2>1
<1>4. CASE Play \/ UNCHANGED vars
  BY <1>0, <1>4 DEF Play
<1>5. QED
  BY <1>1, <1>2, <1>3, <1>4 DEF Next

LEMMA DeviceStep ==
  ASSUME TypeOK, [Next]_vars PROVE DeviceType'
<1> USE DEF DeviceType, vars, device, sound
<1>0. DeviceType
  BY TypeParts
<1>1. CASE UIThread
  <2>1. CASE Destroy
    BY <1>0, <2>1 DEF Destroy, Fresh
  <2>2. CASE ~Destroy
    BY <1>0, <1>1, <2>2 DEF UIThread, DestroyMessageBox, Click, Join, Collect, Find,
       CloseRunning, ClosePost, CloseSpin, Stop, StopKill, StopJoin
  <2>3. QED
    BY <2>1, <2>2
<1>2. CASE DialogThread
  <2>1. CASE Create
    BY <1>0, <2>1 DEF Create, Fresh, OpenFirst
  <2>2. CASE Begin \/ Insert \/ SetRunning \/ Assign
    BY <1>0, <2>2 DEF Begin, Insert, SetRunning, Assign
  <2>3. CASE TestRunning \/ PollNothing \/ Minimise
    BY <1>0, <2>3 DEF TestRunning, PollNothing, Minimise
  <2>4. CASE Activate
    BY <1>0, <2>4 DEF Activate
  <2>5. CASE Press
    BY <1>0, <2>5 DEF Press
  <2>6. CASE StartClient \/ StopPress \/ StopIconic
    BY <1>0, <2>6 DEF StartClient, StopPress, StopIconic, ClientStep
  <2>7. CASE Shutdown \/ ShutDevice \/ ShutReset \/ ShutStream
    BY <1>0, <2>7 DEF Shutdown, ShutDevice, ShutReset, ShutStream
  <2>8. CASE Drained \/ FrameIconic \/ Exit \/ Inactive \/ End
    BY <1>0, <2>8 DEF Drained, FrameIconic, Exit, Inactive, End
  <2>9. CASE Frame
    BY <1>0, <2>9 DEF Frame, RenderStream
  <2>10. QED
    BY <1>2, <2>1, <2>2, <2>3, <2>4, <2>5, <2>6, <2>7, <2>8, <2>9
       DEF DialogThread, Construct, Run, Handle
<1>3. CASE AudioThread
  <2>1. CASE AudioTest \/ AudioUpdate \/ AudioPause \/ AudioReset
    BY <1>0, <2>1 DEF AudioTest, AudioUpdate, AudioPause, ClientStep, AudioReset, Reset
  <2>2. CASE AudioOpen \/ AudioUnpause \/ AudioStart
    BY <1>0, <2>2 DEF AudioOpen, Open, AudioUnpause, Unpause, AudioStart, ClientStep
  <2>3. CASE TakeBuffer
    BY <1>0, <2>3 DEF TakeBuffer, Take
  <2>4. CASE AudioCheck \/ AudioMix \/ Mix \/ MixFreed \/ AudioRelease
    BY <1>0, <2>4 DEF AudioCheck, AudioMix, Mix, MixFreed, AudioRelease
  <2>5. QED
    BY <1>3, <2>1, <2>2, <2>3, <2>4 DEF AudioThread
<1>4. CASE Play \/ UNCHANGED vars
  BY <1>0, <1>4 DEF Play
<1>5. QED
  BY <1>1, <1>2, <1>3, <1>4 DEF Next

(* Who touches the list of windows and the count of bytes.                 *)
LEMMA RestChanges ==
  ASSUME [Next]_vars
  PROVE  /\ Create \/ Destroy \/ UNCHANGED handles
         /\ Create \/ Destroy \/ Mix \/ UNCHANGED bytesWritten
<1> USE DEF vars, box, sound
<1>1. CASE UIThread
  BY <1>1 DEF UIThread, DestroyMessageBox, Click, Join, Collect, Find,
     CloseRunning, ClosePost, CloseSpin, Stop, StopKill, StopJoin
<1>2. CASE DialogThread
  <2>1. CASE Construct
    BY <2>1 DEF Construct, Begin, Insert, SetRunning, Assign
  <2>2. CASE Handle
    BY <2>2 DEF Handle, PollNothing, Minimise, Activate, Press, StartClient, StopPress,
       ClientStep, Shutdown, ShutDevice, ShutReset, ShutStream
  <2>3. CASE TestRunning \/ Drained \/ FrameIconic \/ StopIconic \/ Frame \/ Exit
             \/ Inactive \/ End
    BY <2>3 DEF TestRunning, Drained, FrameIconic, StopIconic, ClientStep, Frame,
       RenderStream, Exit, Inactive, End
  <2>4. QED
    BY <1>2, <2>1, <2>2, <2>3 DEF DialogThread, Run
<1>3. CASE AudioThread
  <2>1. CASE AudioTest \/ AudioUpdate \/ AudioPause \/ AudioReset \/ AudioOpen
    BY <2>1 DEF AudioTest, AudioUpdate, AudioPause, ClientStep, AudioReset, Reset, AudioOpen,
       Open
  <2>2. CASE AudioUnpause \/ AudioStart \/ TakeBuffer
    BY <2>2 DEF AudioUnpause, Unpause, AudioStart, ClientStep, TakeBuffer, Take
  <2>3. CASE AudioCheck \/ AudioMix \/ MixFreed \/ AudioRelease
    BY <2>3 DEF AudioCheck, AudioMix, MixFreed, AudioRelease
  <2>4. CASE Mix
    BY <2>4 DEF Mix
  <2>5. QED
    BY <1>3, <2>1, <2>2, <2>3, <2>4 DEF AudioThread
<1>4. CASE Play \/ UNCHANGED vars
  BY <1>4 DEF Play
<1>5. QED
  BY <1>1, <1>2, <1>3, <1>4 DEF Next

(* What a mix writes.                                                      *)
LEMMA MixFacts ==
  ASSUME TypeOK, SoundInv, Mix
  PROVE  /\ bytesWritten' \in 0..(Total + BufferFrames * MixFrame)
         /\ active' => bytesWritten' < Total /\ active
<1>1. bytesWritten \in Nat /\ Total \in Nat /\ bytesWritten < Total
      /\ BufferFrames * MixFrame \in Nat
  BY TotalType, Product DEF Mix, SoundInv, TypeOK
<1>2. PICK available \in 1..BufferFrames :
        bytesWritten' = bytesWritten + Copy(available) * MixFrame
  BY DEF Mix
<1>3. Copy(available) * MixFrame \in Nat
      /\ Copy(available) * MixFrame <= BufferFrames * MixFrame
  BY <1>1, CopyType
<1>4. bytesWritten' \in 0..(Total + BufferFrames * MixFrame)
  BY <1>1, <1>2, <1>3
<1>5. active' => ~Written(bytesWritten') /\ active
  BY DEF Mix
<1>6. QED
  BY <1>1, <1>4, <1>5 DEF Written

(* What the destructor leaves of the list.                                 *)
LEMMA DestroyFacts ==
  ASSUME TypeOK, HandlesInv, Destroy
  PROVE  \E k \in DOMAIN handles :
           k # 1 /\ handles[k] = "box" /\ handles' = Erased(k)
<1>1. PICK k \in DOMAIN handles : handles[k] = "box" /\ handles' = Erased(k)
  BY DEF Destroy
<1>2. k # 1
  BY <1>1 DEF HandlesInv
<1>3. QED
  BY <1>1, <1>2

LEMMA TypeStep ==
  ASSUME TypeOK, HandlesInv, SoundInv, [Next]_vars PROVE TypeOK'
<1>1. StepsType' /\ BoxType' /\ DeviceType'
  BY StepsStep, BoxStep, DeviceStep
<1>2. handles' \in Seq({"user", "box", "none"}) /\ Len(handles') >= 1
  <2>1. CASE Create
    <3>1. \E h \in {"box", "none"} : handles' = Append(handles, h)
      BY <2>1 DEF Create
    <3>2. QED
      BY <3>1, AppendHandle, HandlesType
  <2>2. CASE Destroy
    BY <2>2, DestroyFacts, EraseHandle
  <2>3. CASE UNCHANGED handles
    BY <2>3 DEF TypeOK
  <2>4. QED
    BY <2>1, <2>2, <2>3, RestChanges
<1>3. bytesWritten' \in 0..(Total + BufferFrames * MixFrame)
  <2>1. CASE Create \/ Destroy
    <3>1. bytesWritten' \in {0, bytesWritten}
      BY <2>1 DEF Create, Destroy, Fresh, sound
    <3>2. Total \in Nat /\ BufferFrames * MixFrame \in Nat
      BY TotalType, Product
    <3>3. QED
      BY <3>1, <3>2 DEF TypeOK
  <2>2. CASE Mix
    BY <2>2, MixFacts
  <2>3. CASE UNCHANGED bytesWritten
    BY <2>3 DEF TypeOK
  <2>4. QED
    BY <2>1, <2>2, <2>3, RestChanges
<1>4. QED
  BY <1>1, <1>2, <1>3 DEF StepsType, BoxType, DeviceType, TypeOK

-----------------------------------------------------------------------------
(* The life of a dialog.                                                   *)

life == <<ui, messageBoxActive, dialog, entry, handles, window, canBeDeleted>>

(* A step of run, of a handler or of shutdown.                             *)
Within ==
  /\ dialog \in RunSteps /\ dialog' \in RunSteps
  /\ window' = window \/ window' \in {"closing", "destroyed"}
  /\ UNCHANGED <<ui, messageBoxActive, entry, handles, canBeDeleted>>

(* A step of the UI thread by itself.                                      *)
Alone ==
  /\ ui # "stopJoin"
  /\ ui' = "join" => ui = "join" \/ ~messageBoxActive
  /\ ui' \in {"close", "post", "spin", "destroy"} =>
       ui \in {"close", "post", "spin", "destroy"} \/ entry = "box"
  /\ ui' = "destroy" => ui = "destroy" \/ canBeDeleted
  /\ UNCHANGED <<messageBoxActive, dialog, entry, handles, window, canBeDeleted>>

LEMMA LifeChanges ==
  ASSUME TypeOK, [Next]_vars
  PROVE  \/ UNCHANGED life \/ Within \/ Alone
         \/ Join \/ Destroy \/ StopKill \/ StopJoin
         \/ Begin \/ Insert \/ Create \/ SetRunning \/ Assign
         \/ Exit \/ Inactive \/ End
<1> USE DEF vars, user, box, life, UI, Box, RunSteps
<1>1. CASE UIThread
  <2>1. CASE Click \/ Collect \/ CloseRunning \/ ClosePost \/ CloseSpin \/ Stop
    BY <2>1 DEF Click, Collect, CloseRunning, ClosePost, CloseSpin, Stop, Alone
  <2>2. CASE Find
    BY <2>2 DEF Find, Alone
  <2>3. QED
    BY <1>1, <2>1, <2>2 DEF UIThread, DestroyMessageBox
<1>2. CASE DialogThread
  <2>1. CASE TestRunning \/ PollNothing \/ Minimise \/ Drained
    BY <2>1 DEF TestRunning, PollNothing, Minimise, Drained, Within
  <2>2. CASE Activate
    BY <2>2 DEF Activate, Within
  <2>3. CASE Press
    BY <2>3 DEF Press, Within
  <2>4. CASE StartClient \/ StopPress \/ StopIconic
    BY <2>4 DEF StartClient, StopPress, StopIconic, ClientStep, Within
  <2>5. CASE Shutdown \/ ShutReset \/ ShutStream
    BY <2>5 DEF Shutdown, ShutReset, ShutStream, Within
  <2>6. CASE ShutDevice
    BY <2>6 DEF ShutDevice, Within
  <2>7. CASE FrameIconic
    BY <2>7 DEF FrameIconic, Within
  <2>8. CASE Frame
    BY <2>8 DEF Frame, Within
  <2>9. QED
    BY <1>2, <2>1, <2>2, <2>3, <2>4, <2>5, <2>6, <2>7, <2>8
       DEF DialogThread, Construct, Run, Handle
<1>3. CASE AudioThread
  <2>1. CASE AudioTest \/ AudioUpdate \/ AudioPause \/ AudioReset \/ AudioOpen
    BY <2>1 DEF AudioTest, AudioUpdate, AudioPause, ClientStep, AudioReset, Reset, AudioOpen,
       Open
  <2>2. CASE AudioUnpause \/ AudioStart \/ TakeBuffer
    BY <2>2 DEF AudioUnpause, Unpause, AudioStart, ClientStep, TakeBuffer, Take
  <2>3. CASE AudioCheck \/ AudioMix \/ Mix \/ MixFreed \/ AudioRelease
    BY <2>3 DEF AudioCheck, AudioMix, Mix, MixFreed, AudioRelease
  <2>4. QED
    BY <1>3, <2>1, <2>2, <2>3 DEF AudioThread
<1>4. CASE Play \/ UNCHANGED vars
  BY <1>4 DEF Play
<1>5. QED
  BY <1>1, <1>2, <1>3, <1>4 DEF Next

(* While a dialog's entry is there, its window is the last made, or one    *)
(* that failed is.                                                         *)
LEMMA BoxOwner ==
  ASSUME TypeOK, HandlesInv
  PROVE  /\ entry = "box" => Owner # "user"
         /\ Owner = "user" => Len(handles) = 1
         /\ Owner = handles[Len(handles)] /\ Len(handles) \in DOMAIN handles
<1>1. /\ DOMAIN handles = 1..Len(handles) /\ Len(handles) \in DOMAIN handles
      /\ Len(handles) \in Nat \ {0}
  BY HandlesType
<1>2. Owner = "user" => Len(handles) = 1
  BY <1>1 DEF Owner, HandlesInv
<1>3. ASSUME entry = "box" PROVE Len(handles) # 1
  <2>1. PICK k \in DOMAIN handles : handles[k] = "box"
    BY <1>3 DEF HandlesInv
  <2>2. k # 1
    BY <2>1 DEF HandlesInv
  <2>3. QED
    BY <1>1, <2>2
<1>4. QED
  BY <1>1, <1>2, <1>3 DEF Owner

(* What a box leaves when the UI thread deletes it.                        *)
LEMMA DestroyOwner ==
  ASSUME TypeOK, HandlesInv, DeleteInv, Destroy
  PROVE  /\ dialog \notin OwnSteps
         /\ \A i \in DOMAIN handles' : handles'[i] # "box"
         /\ \A i \in DOMAIN handles' : handles'[i] = "user" => i = 1
         /\ \A i \in DOMAIN handles' :
              handles'[i] = "none" => \E k \in DOMAIN handles : handles[k] = "none"
         /\ handles'[1] = "user"
         /\ (\A k \in DOMAIN handles : handles[k] # "none") => Owner' = "user"
         /\ entry' = "absent" /\ UNCHANGED <<messageBoxActive, dialog, window>>
<1>0. dialog \notin OwnSteps /\ UNCHANGED <<messageBoxActive, dialog, window>>
      /\ entry' = "absent"
  BY DEF Destroy, DeleteInv, UI
<1>1. PICK k \in DOMAIN handles : k # 1 /\ handles[k] = "box" /\ handles' = Erased(k)
  BY DestroyFacts
<1>2. /\ Len(handles') = Len(handles) - 1 /\ Len(handles') \in Nat \ {0}
      /\ Len(handles) \in Nat \ {0}
      /\ DOMAIN handles' = 1..Len(handles)-1 /\ DOMAIN handles = 1..Len(handles)
      /\ \A i \in DOMAIN handles' :
           handles'[i] = handles[IF i < k THEN i ELSE i + 1]
      /\ \A i \in DOMAIN handles' : (IF i < k THEN i ELSE i + 1) \in DOMAIN handles \ {k}
      /\ \A i \in DOMAIN handles : handles[i] \in {"user", "box", "none"}
  BY <1>1, EraseHandle, HandlesType
<1>3. \A i \in DOMAIN handles' : handles'[i] # "box"
  BY <1>1, <1>2 DEF HandlesInv
<1>4. ASSUME NEW i \in DOMAIN handles', handles'[i] = "user" PROVE i = 1
  <2>1. (IF i < k THEN i ELSE i + 1) = 1
    BY <1>2, <1>4 DEF HandlesInv
  <2>2. QED
    BY <1>2, <2>1
<1>5. handles'[1] = "user"
  BY <1>1, <1>2 DEF HandlesInv
<1>6. ASSUME \A j \in DOMAIN handles : handles[j] # "none" PROVE Owner' = "user"
  <2>1. Len(handles') \in DOMAIN handles'
    BY <1>2
  <2>2. handles'[Len(handles')] = "user"
    BY <1>2, <1>3, <1>6, <2>1
  <2>3. QED
    BY <2>2 DEF Owner
<1>7. ASSUME NEW i \in DOMAIN handles', handles'[i] = "none"
      PROVE  \E j \in DOMAIN handles : handles[j] = "none"
  BY <1>2, <1>7
<1>8. QED
  BY <1>0, <1>3, <1>4, <1>5, <1>6, <1>7

LEMMA HandlesStep ==
  ASSUME TypeOK, HandlesInv, DialogInv, DeleteInv, [Next]_vars PROVE HandlesInv'
<1> USE DEF RunSteps, OwnSteps, UI, Box
<1>0. /\ DOMAIN handles = 1..Len(handles) /\ Len(handles) \in Nat \ {0}
      /\ Len(handles) \in DOMAIN handles
  BY HandlesType
<1>1. CASE Create
  <2>1. /\ dialog = "create" /\ messageBoxActive /\ UNCHANGED <<messageBoxActive, entry>>
        /\ \A k \in DOMAIN handles : handles[k] # "none"
    BY <1>1 DEF Create, user, DialogInv, HandlesInv
  <2>2. CASE Owner = "user" /\ dialog' = "run" /\ handles' = Append(handles, "box")
    <3>1. Len(handles) = 1 /\ DOMAIN handles' = 1..2 /\ handles'[1] = "user"
          /\ handles'[2] = "box" /\ Owner' = "box"
      BY <1>0, <2>2, AppendHandle, BoxOwner DEF HandlesInv
    <3>2. \A k \in DOMAIN handles' : k = 1 \/ k = 2
      BY <3>1
    <3>3. 2 \in DOMAIN handles'
      BY <3>1
    <3>4. QED
      BY <3>1, <3>2, <3>3 DEF HandlesInv
  <2>3. CASE Owner # "user" /\ dialog' = "failed" /\ handles' = Append(handles, "none")
    <3>1. /\ DOMAIN handles' = 1..Len(handles)+1
          /\ \A k \in DOMAIN handles : handles'[k] = handles[k]
          /\ handles'[Len(handles)+1] = "none"
      BY <2>3, AppendHandle
    <3>2. \A k \in DOMAIN handles' : k \in DOMAIN handles \/ k = Len(handles)+1
      BY <1>0, <3>1
    <3>3. /\ handles'[1] = "user"
          /\ \A k \in DOMAIN handles' : handles'[k] = "user" => k = 1
          /\ \A j, k \in DOMAIN handles' :
               handles'[j] = handles'[k] /\ handles'[k] = "box" => j = k
      BY <1>0, <3>1, <3>2 DEF HandlesInv
    <3>4. entry' = "box" => \E k \in DOMAIN handles' : handles'[k] = "box"
      BY <1>0, <2>1, <3>1 DEF HandlesInv
    <3>5. QED
      BY <2>1, <2>3, <3>3, <3>4 DEF HandlesInv
  <2>4. QED
    BY <1>1, <2>2, <2>3 DEF Create
<1>2. CASE Destroy
  <2>1. \A k \in DOMAIN handles : handles[k] = "none" =>
          messageBoxActive /\ dialog \in {"failed", "killed", "none"}
    BY DEF HandlesInv
  <2>2. QED
    BY <1>2, <2>1, DestroyOwner DEF HandlesInv
<1>3. CASE UNCHANGED handles
  <2>0. Owner' = Owner
    BY <1>3 DEF Owner
  <2>1. CASE UNCHANGED life \/ Within \/ Alone
    BY <1>3, <2>0, <2>1 DEF life, Within, Alone, HandlesInv
  <2>2. CASE Join
    BY <1>3, <2>0, <2>2 DEF Join, HandlesInv, DialogInv, box
  <2>3. CASE StopKill \/ StopJoin
    BY <1>3, <2>0, <2>3 DEF StopKill, StopJoin, HandlesInv, box
  <2>4. CASE Begin \/ Insert \/ SetRunning
    BY <1>3, <2>0, <2>4 DEF Begin, Insert, SetRunning, HandlesInv, box, user
  <2>5. CASE Assign
    <3>1. dialog = "assign" /\ Owner = "box" /\ handles[Len(handles)] = "box"
      BY <2>5 DEF Assign, HandlesInv, Owner
    <3>2. \A k \in DOMAIN handles : handles[k] # "none"
      BY <3>1 DEF HandlesInv
    <3>3. QED
      BY <1>0, <1>3, <2>0, <2>5, <3>1, <3>2 DEF Assign, HandlesInv, user
  <2>6. CASE Exit \/ Inactive \/ End
    BY <1>3, <2>0, <2>6 DEF Exit, Inactive, End, HandlesInv, box, user
  <2>7. QED
    BY <1>1, <1>2, <2>1, <2>2, <2>3, <2>4, <2>5, <2>6, LifeChanges
<1>4. QED
  BY <1>1, <1>2, <1>3, RestChanges

LEMMA DialogStep ==
  ASSUME TypeOK, HandlesInv, DialogInv, DeleteInv, [Next]_vars PROVE DialogInv'
<1> USE DEF DialogInv, OwnerKnown, RunSteps, OwnSteps, UI, Box
<1>1. CASE Create
  <2>1. dialog = "create" /\ messageBoxActive /\ UNCHANGED <<ui, messageBoxActive, entry>>
    BY <1>1 DEF Create, user
  <2>2. CASE Owner = "user" /\ dialog' = "run" /\ window' = "open"
    BY <2>1, <2>2, BoxOwner
  <2>3. CASE dialog' = "failed"
    BY <2>1, <2>3
  <2>4. QED
    BY <1>1, <2>2, <2>3 DEF Create
<1>2. CASE Destroy
  <2>1. /\ dialog \notin OwnSteps /\ entry' = "absent" /\ ui = "destroy" /\ ui' = "loop"
        /\ UNCHANGED <<messageBoxActive, dialog, window>>
        /\ (\A k \in DOMAIN handles : handles[k] # "none") => Owner' = "user"
    BY <1>2, DestroyOwner DEF Destroy
  <2>2. Owner' = "user" \/ (messageBoxActive /\ dialog \in {"failed", "killed", "none"})
    BY <2>1 DEF HandlesInv
  <2>3. QED
    BY <2>1, <2>2
<1>3. CASE ~Create /\ ~Destroy
  <2>0. Owner' = Owner
    BY <1>3, RestChanges DEF Owner
  <2>1. CASE UNCHANGED life \/ Within \/ Alone
    BY <2>0, <2>1 DEF life, Within, Alone
  <2>2. CASE Join
    BY <2>0, <2>2 DEF Join, box
  <2>3. CASE StopKill
    BY <2>0, <2>3 DEF StopKill, TypeOK, DialogSteps
  <2>4. CASE StopJoin
    BY <2>0, <2>4 DEF StopJoin, box
  <2>5. CASE Begin
    BY <2>0, <2>5 DEF Begin, box
  <2>6. CASE Insert
    BY <2>0, <2>6 DEF Insert, user
  <2>7. CASE SetRunning
    BY <2>0, <2>7 DEF SetRunning, user
  <2>8. CASE Assign
    BY <2>0, <2>8 DEF Assign, user
  <2>9. CASE Exit
    BY <2>0, <2>9 DEF Exit, user
  <2>10. CASE Inactive \/ End
    BY <2>0, <2>10 DEF Inactive, End, box, user
  <2>11. QED
    BY <1>3, <2>1, <2>2, <2>3, <2>4, <2>5, <2>6, <2>7, <2>8, <2>9, <2>10, LifeChanges
<1>4. QED
  BY <1>1, <1>2, <1>3

LEMMA DeleteStep ==
  ASSUME TypeOK, HandlesInv, DialogInv, DeleteInv, [Next]_vars PROVE DeleteInv'
<1> USE DEF DeleteInv, RunSteps, OwnSteps, UI, Box
<1>1. CASE UNCHANGED life \/ Within \/ Alone
  BY <1>1 DEF life, Within, Alone
<1>2. CASE Join \/ StopKill \/ StopJoin
  BY <1>2 DEF Join, StopKill, StopJoin, box
<1>3. CASE Destroy
  BY <1>3 DEF Destroy, Fresh
<1>4. CASE Create
  <2>1. CASE Owner = "user" /\ dialog' = "run" /\ canBeDeleted' = FALSE
    <3>1. entry # "box"
      BY <2>1, BoxOwner
    <3>2. QED
      BY <1>4, <2>1, <3>1 DEF Create, user
  <2>2. CASE dialog' = "failed" /\ UNCHANGED canBeDeleted
    BY <1>4, <2>2 DEF Create, user
  <2>3. QED
    BY <1>4, <2>1, <2>2 DEF Create, Fresh
<1>5. CASE Begin \/ Insert \/ SetRunning \/ Assign
  BY <1>5 DEF Begin, Insert, SetRunning, Assign, box, user
<1>6. CASE Exit \/ Inactive \/ End
  BY <1>6 DEF Exit, Inactive, End, box, user
<1>7. QED
  BY <1>1, <1>2, <1>3, <1>4, <1>5, <1>6, LifeChanges

-----------------------------------------------------------------------------
(* The sound.                                                              *)

ShutSteps == {"shutDevice", "shutReset", "shutStream"}

(* A step that leaves the stream alone and does not begin a mix by itself. *)
Quiet ==
  /\ UNCHANGED sound
  /\ audio' \in MixSteps => audio \in MixSteps \/ active
  /\ UNCHANGED window \/ Shut'
  /\ dialog' \in ShutSteps => dialog' = dialog \/ (dialog' = "shutDevice" /\ Shut')

LEMMA SoundChanges ==
  ASSUME TypeOK, [Next]_vars
  PROVE  \/ Quiet
         \/ Create \/ Destroy \/ StopKill
         \/ ShutDevice \/ ShutReset \/ ShutStream \/ Frame \/ Mix
<1> USE DEF vars, box, sound, UI, Box, Audio, MixSteps, ShutSteps, Quiet, Shut
<1>1. CASE UIThread
  BY <1>1 DEF UIThread, DestroyMessageBox, Click, Join, Collect, Find, CloseRunning,
     ClosePost, CloseSpin, Stop, StopJoin
<1>2. CASE DialogThread
  <2>1. CASE Begin \/ Insert \/ SetRunning \/ Assign
    BY <2>1 DEF Begin, Insert, SetRunning, Assign
  <2>2. CASE TestRunning \/ PollNothing \/ Minimise \/ Drained
    BY <2>2 DEF TestRunning, PollNothing, Minimise, Drained
  <2>3. CASE Activate \/ Press
    BY <2>3 DEF Activate, Press
  <2>4. CASE StartClient \/ StopPress \/ StopIconic
    BY <2>4 DEF StartClient, StopPress, StopIconic, ClientStep
  <2>5. CASE Shutdown
    BY <2>5 DEF Shutdown
  <2>6. CASE FrameIconic \/ Exit \/ Inactive \/ End
    BY <2>6 DEF FrameIconic, Exit, Inactive, End
  <2>7. QED
    BY <1>2, <2>1, <2>2, <2>3, <2>4, <2>5, <2>6 DEF DialogThread, Construct, Run, Handle
<1>3. CASE AudioThread
  <2>1. CASE AudioTest \/ AudioUpdate
    BY <2>1 DEF AudioTest, AudioUpdate
  <2>2. CASE AudioPause \/ AudioReset \/ AudioOpen
    BY <2>2 DEF AudioPause, ClientStep, AudioReset, Reset, AudioOpen, Open
  <2>3. CASE AudioUnpause \/ AudioStart
    BY <2>3 DEF AudioUnpause, Unpause, AudioStart, ClientStep
  <2>4. CASE TakeBuffer
    BY <2>4 DEF TakeBuffer, Take
  <2>5. CASE AudioCheck \/ AudioMix \/ MixFreed \/ AudioRelease
    BY <2>5 DEF AudioCheck, AudioMix, MixFreed, AudioRelease
  <2>6. QED
    BY <1>3, <2>1, <2>2, <2>3, <2>4, <2>5 DEF AudioThread
<1>4. CASE Play \/ UNCHANGED vars
  BY <1>4 DEF Play
<1>5. QED
  BY <1>1, <1>2, <1>3, <1>4 DEF Next

LEMMA SoundStep ==
  ASSUME TypeOK, DialogInv, SoundInv, [Next]_vars PROVE SoundInv'
<1> USE DEF SoundInv, UI, Box, Audio, MixSteps, ShutSteps
<1>0. active \in BOOLEAN /\ Total \in Nat \ {0}
  BY TotalType DEF TypeOK
<1>1. CASE Quiet
  <2>1. Shut => Shut'
    BY <1>1 DEF Quiet, Shut
  <2>2. Total' = Total
    BY DEF Total
  <2>3. /\ UNCHANGED <<stream, active, bytesWritten>>
        /\ audio' \in MixSteps => audio \in MixSteps \/ active
        /\ dialog' \in ShutSteps => dialog' = dialog \/ (dialog' = "shutDevice" /\ Shut')
    BY <1>1 DEF Quiet, sound
  <2>4. (active' => stream' = "playing" /\ bytesWritten' < Total')
        /\ (stream' = "none" => bytesWritten' = 0)
    BY <2>2, <2>3
  <2>5. audio' \in MixSteps => active' \/ Shut'
    BY <2>1, <2>3
  <2>6. (dialog' \in ShutSteps => Shut') /\ (dialog' \in {"shutReset", "shutStream"} => ~active')
    BY <2>1, <2>3
  <2>7. QED
    BY <2>4, <2>5, <2>6
<1>2. CASE Create
  <2>1. CASE dialog' = "run" /\ audio' = "test" /\ Fresh
    BY <1>0, <2>1 DEF Fresh, Total
  <2>2. CASE dialog' = "failed" /\ UNCHANGED <<audio, window, sound>>
    BY <1>0, <2>2 DEF sound, Shut, Total
  <2>3. QED
    BY <1>2, <2>1, <2>2 DEF Create
<1>3. CASE Destroy
  <2>1. /\ audio' \notin MixSteps /\ UNCHANGED <<dialog, window>>
        /\ stream' = "none" /\ ~active' /\ bytesWritten' = 0
    BY <1>3 DEF Destroy, Fresh
  <2>2. QED
    BY <1>0, <2>1 DEF Shut, Total
<1>4. CASE StopKill
  <2>1. /\ dialog' \in {"none", "ended", "killed"} /\ UNCHANGED <<audio, sound>>
        /\ UNCHANGED window \/ Shut'
    BY <1>4 DEF StopKill, Shut
  <2>2. QED
    BY <1>0, <2>1 DEF Shut, sound, Total
<1>5. CASE ShutDevice
  BY <1>0, <1>5 DEF ShutDevice, box, Shut, Total
<1>6. CASE ShutReset
  BY <1>0, <1>6 DEF ShutReset, box, sound, Shut, Total
<1>7. CASE ShutStream
  BY <1>0, <1>7 DEF ShutStream, Shut, Total
<1>8. CASE Frame
  <2>1. UNCHANGED <<audio, window>> /\ dialog' = "test" /\ RenderStream
    BY <1>8 DEF Frame, box
  <2>2. /\ UNCHANGED bytesWritten
        /\ active => active' /\ stream' = "playing"
        /\ active' => active \/ (stream = "none" /\ stream' = "playing")
        /\ stream' = "none" => stream = "none"
    BY <1>0, <2>1 DEF RenderStream
  <2>3. active' => stream' = "playing" /\ bytesWritten' < Total'
    BY <1>0, <2>2 DEF Total
  <2>4. QED
    BY <2>1, <2>2, <2>3 DEF Shut
<1>9. CASE Mix
  <2>1. /\ audio' = "release" /\ UNCHANGED <<window, dialog>> /\ active
        /\ (active' => stream' = stream) /\ (stream' = "none" => stream = "none")
    BY <1>9 DEF Mix, box
  <2>2. active' => bytesWritten' < Total'
    BY <1>9, MixFacts DEF Total
  <2>3. QED
    BY <2>1, <2>2 DEF Shut
<1>10. QED
  BY <1>1, <1>2, <1>3, <1>4, <1>5, <1>6, <1>7, <1>8, <1>9, SoundChanges

(* Where a fault comes from that says the stream was freed.                *)
LEMMA FaultChanges ==
  ASSUME TypeOK, [Next]_vars, fault' = "freedStream"
  PROVE  MixFreed \/ (fault = "freedStream" /\ UNCHANGED window)
<1> USE DEF vars, box
<1>1. CASE UNCHANGED vars
  BY <1>1
<1>2. CASE fault = "none" /\ UIThread
  BY <1>2 DEF UIThread, DestroyMessageBox, Click, Join, Collect, Find, CloseRunning,
     ClosePost, CloseSpin, Destroy, Stop, StopKill, StopJoin
<1>3. CASE fault = "none" /\ DialogThread
  <2>1. CASE Construct
    BY <1>3, <2>1 DEF Construct, Begin, Insert, Create, SetRunning, Assign
  <2>2. CASE TestRunning \/ PollNothing \/ Minimise \/ Drained \/ Activate \/ Press
    BY <1>3, <2>2 DEF TestRunning, PollNothing, Minimise, Drained, Activate, Press
  <2>3. CASE StartClient \/ StopPress \/ StopIconic
    BY <1>3, <2>3 DEF StartClient, StopPress, StopIconic, ClientStep
  <2>4. CASE Shutdown \/ ShutDevice \/ ShutReset \/ ShutStream
    BY <1>3, <2>4 DEF Shutdown, ShutDevice, ShutReset, ShutStream
  <2>5. CASE FrameIconic \/ Frame \/ Exit \/ Inactive \/ End
    BY <1>3, <2>5 DEF FrameIconic, Frame, Exit, Inactive, End
  <2>6. QED
    BY <1>3, <2>1, <2>2, <2>3, <2>4, <2>5 DEF DialogThread, Run, Handle
<1>4. CASE fault = "none" /\ AudioThread
  <2>1. CASE AudioTest \/ AudioUpdate \/ AudioPause \/ AudioReset \/ AudioOpen
    BY <1>4, <2>1 DEF AudioTest, AudioUpdate, AudioPause, ClientStep, AudioReset, Reset,
       AudioOpen, Open
  <2>2. CASE AudioUnpause \/ AudioStart \/ TakeBuffer
    BY <1>4, <2>2 DEF AudioUnpause, Unpause, AudioStart, ClientStep, TakeBuffer, Take
  <2>3. CASE AudioCheck \/ AudioMix \/ Mix \/ AudioRelease
    BY <1>4, <2>3 DEF AudioCheck, AudioMix, Mix, AudioRelease
  <2>4. QED
    BY <1>4, <2>1, <2>2, <2>3 DEF AudioThread
<1>5. CASE fault = "none" /\ Play
  BY <1>5 DEF Play
<1>6. QED
  BY <1>1, <1>2, <1>3, <1>4, <1>5 DEF Next

LEMMA StreamStep ==
  ASSUME TypeOK, SoundInv, StreamWhole, [Next]_vars PROVE StreamWhole'
<1> SUFFICES ASSUME fault' = "freedStream" PROVE window' \in {"closing", "destroyed"}
  BY DEF StreamWhole
<1>1. CASE MixFreed
  <2>1. audio = "mixing" /\ ~active /\ window' = window
    BY <1>1 DEF MixFreed, SoundInv, box
  <2>2. QED
    BY <2>1 DEF SoundInv, MixSteps, Shut
<1>2. CASE fault = "freedStream" /\ UNCHANGED window
  BY <1>2 DEF StreamWhole
<1>3. QED
  BY <1>1, <1>2, FaultChanges

(* frames - 1 frames of the stream and one of the device, which is larger. *)
LEMMA FramesFit ==
  ASSUME NEW f \in Nat \ {0}, NEW m \in Nat, NEW d \in Nat, m <= d
  PROVE  (f - 1) * m + d <= f * d
<1>1. f - 1 \in Nat
  OBVIOUS
<1>2. \A x \in Nat, a \in Nat, b \in Nat : a <= b => x * a <= x * b
  OBVIOUS
<1>3. (f - 1) * m <= (f - 1) * d
  BY <1>1, <1>2
<1>4. (f - 1) * d + d = f * d
  OBVIOUS
<1>5. (f - 1) * m \in Int /\ (f - 1) * d \in Int /\ f * d \in Int
  OBVIOUS
<1>6. QED
  BY <1>3, <1>4, <1>5

LEMMA ReadsOk == TypeOK /\ SoundInv => ReadsWithin
<1> SUFFICES ASSUME TypeOK, SoundInv, audio = "mixing", active, frameSize >= MixFrame,
                    NEW available \in 1..BufferFrames, Copy(available) > 0
             PROVE  bytesWritten + (Copy(available) - 1) * MixFrame + frameSize <= Total
  BY DEF ReadsWithin
<1>1. bytesWritten \in Nat /\ bytesWritten < Total /\ Total \in Nat
      /\ MixFrame \in Nat \ {0} /\ frameSize \in Nat \ {0}
  BY TotalType, SizeType DEF SoundInv, TypeOK
<1> DEFINE frames == Copy(available)
           left == (Total - bytesWritten) \div frameSize
<1>2. frames \in Nat \ {0}
  BY <1>1, CopyType
<1>3. left \in Nat /\ left * frameSize <= Total - bytesWritten
  <2>1. Total - bytesWritten \in Int /\ Total - bytesWritten >= 0
    BY <1>1
  <2>2. QED
    BY <1>1, <2>1, Division
<1>4. frames <= left
  BY <1>2, <1>3 DEF Copy
<1> HIDE DEF frames, left
<1>5. frames * frameSize \in Nat /\ frames * frameSize <= left * frameSize
  BY <1>1, <1>2, <1>3, <1>4, Product
<1>6. (frames - 1) * MixFrame + frameSize <= frames * frameSize
  BY <1>1, <1>2, FramesFit
<1>7. (frames - 1) * MixFrame \in Int /\ left * frameSize \in Int
  BY <1>1, <1>2, <1>3
<1>8. bytesWritten + (frames - 1) * MixFrame + frameSize <= Total
  BY <1>1, <1>3, <1>5, <1>6, <1>7
<1>9. QED
  BY <1>8 DEF frames

(* The window made last is the user's, or the box not collected.           *)
LEMMA OwnerOk == DialogInv => OwnerAlive
  BY DEF DialogInv, OwnerKnown, OwnerAlive

(* Only the UI thread's erase takes a box out of the map.                  *)
LEMMA OutlivedStep ==
  ASSUME TypeOK, HandlesInv, DeleteInv, [Next]_vars, entry = "box", entry' = "absent"
  PROVE  dialog \notin RunSteps
<1>1. CASE Destroy
  BY <1>1, DestroyOwner DEF OwnSteps
<1>2. entry' = entry \/ Insert \/ Assign \/ Destroy
  BY LifeChanges DEF life, Within, Alone, Join, StopKill, StopJoin, Begin, Create, SetRunning,
     Exit, Inactive, End, box, user
<1>3. ~Insert /\ ~Assign
  BY DEF Insert, Assign
<1>4. QED
  BY <1>1, <1>2, <1>3

-----------------------------------------------------------------------------
(* What close waits for.                                                   *)

(* A box whose loop has not ended belongs to a dialog that is in it, or to *)
(* one whose thread was terminated; while its deletion waits nothing sets  *)
(* running again.                                                          *)
CloseInv ==
  /\ entry = "box" /\ ~canBeDeleted =>
       dialog \in RunSteps \/ (dialog \in {"none", "killed"} /\ messageBoxActive)
  /\ ui \in {"post", "spin"} => ~running

(* DestroyMessageBox never waits in vain for a dialog whose thread lives:  *)
(* the dialog has left its loop, or it is in the loop and finds running    *)
(* clear at its next test.                                                 *)
CloseHeard ==
  ui \in {"post", "spin"} =>
    ~running /\ (canBeDeleted \/ dialog \in RunSteps \/ Abandoned)

LEMMA RunningChanges ==
  ASSUME [Next]_vars, running' # running PROVE SetRunning \/ running' = FALSE
<1> USE DEF vars, box
<1>1. CASE UIThread
  BY <1>1 DEF UIThread, DestroyMessageBox, Click, Join, Collect, Find, CloseRunning,
     ClosePost, CloseSpin, Destroy, Fresh, Stop, StopKill, StopJoin
<1>2. CASE DialogThread
  <2>1. CASE Construct
    BY <2>1 DEF Construct, Begin, Insert, Create, Fresh, Assign
  <2>2. CASE TestRunning \/ PollNothing \/ Minimise \/ Drained \/ Activate \/ Press
    BY <2>2 DEF TestRunning, PollNothing, Minimise, Drained, Activate, Press
  <2>3. CASE StartClient \/ StopPress \/ StopIconic
    BY <2>3 DEF StartClient, StopPress, StopIconic, ClientStep
  <2>4. CASE Shutdown \/ ShutDevice \/ ShutReset \/ ShutStream
    BY <2>4 DEF Shutdown, ShutDevice, ShutReset, ShutStream
  <2>5. CASE FrameIconic \/ Frame \/ Exit \/ Inactive \/ End
    BY <2>5 DEF FrameIconic, Frame, Exit, Inactive, End
  <2>6. QED
    BY <1>2, <2>1, <2>2, <2>3, <2>4, <2>5 DEF DialogThread, Run, Handle
<1>3. CASE AudioThread
  BY <1>3 DEF AudioThread, AudioTest, AudioUpdate, AudioPause, ClientStep, AudioReset, Reset,
     AudioOpen, Open, AudioUnpause, Unpause, AudioStart, AudioCheck, TakeBuffer, Take, AudioMix,
     Mix, MixFreed, AudioRelease
<1>4. CASE Play \/ UNCHANGED vars
  BY <1>4 DEF Play
<1>5. QED
  BY <1>1, <1>2, <1>3, <1>4 DEF Next

(* Only CloseRunning begins the wait.                                      *)
LEMMA WaitBegins ==
  ASSUME [Next]_vars, ui' \in {"post", "spin"}
  PROVE  CloseRunning \/ ui \in {"post", "spin"}
<1> USE DEF vars, user, UI
<1>1. CASE UIThread
  BY <1>1 DEF UIThread, DestroyMessageBox, Click, Join, Collect, Find,
     ClosePost, CloseSpin, Destroy, Stop, StopKill, StopJoin
<1>2. CASE DialogThread
  <2>1. CASE Construct
    BY <2>1 DEF Construct, Begin, Insert, Create, SetRunning, Assign
  <2>2. CASE Run
    BY <2>2 DEF Run, Handle, TestRunning, PollNothing, Minimise, Drained, Activate, Press,
       StartClient, StopPress, StopIconic, ClientStep, Shutdown, ShutDevice, ShutReset,
       ShutStream, FrameIconic, Frame, Exit
  <2>3. CASE Inactive \/ End
    BY <2>3 DEF Inactive, End
  <2>4. QED
    BY <1>2, <2>1, <2>2, <2>3 DEF DialogThread
<1>3. CASE AudioThread
  BY <1>3 DEF AudioThread, AudioTest, AudioUpdate, AudioPause, ClientStep, AudioReset, Reset,
     AudioOpen, Open, AudioUnpause, Unpause, AudioStart, AudioCheck, TakeBuffer, Take, AudioMix,
     Mix, MixFreed, AudioRelease
<1>4. CASE Play \/ UNCHANGED vars
  BY <1>4 DEF Play
<1>5. QED
  BY <1>1, <1>2, <1>3, <1>4 DEF Next

LEMMA CloseStep ==
  ASSUME TypeOK, HandlesInv, DialogInv, DeleteInv, CloseInv, [Next]_vars PROVE CloseInv'
<1> DEFINE LoopOver ==
             entry = "box" /\ ~canBeDeleted =>
               dialog \in RunSteps \/ (dialog \in {"none", "killed"} /\ messageBoxActive)
<1>1. LoopOver'
  <2> USE DEF CloseInv, RunSteps, OwnSteps, UI, Box
  <2>1. CASE UNCHANGED life \/ Within \/ Alone
    BY <2>1 DEF life, Within, Alone
  <2>2. CASE Join \/ StopJoin
    BY <2>2 DEF Join, StopJoin, box, DialogInv
  <2>3. CASE StopKill
    BY <2>3 DEF StopKill, DialogInv
  <2>4. CASE Destroy
    BY <2>4 DEF Destroy
  <2>5. CASE Create
    <3>1. entry = "box" => Owner # "user"
      BY BoxOwner
    <3>2. QED
      BY <2>5, <3>1 DEF Create, user
  <2>6. CASE Begin \/ Insert \/ SetRunning \/ Assign
    BY <2>6 DEF Begin, Insert, SetRunning, Assign, box, user, DialogInv
  <2>7. CASE Exit \/ Inactive \/ End
    BY <2>7 DEF Exit, Inactive, End, box, user
  <2>8. QED
    BY <2>1, <2>2, <2>3, <2>4, <2>5, <2>6, <2>7, LifeChanges
<1>2. ASSUME ui' \in {"post", "spin"} PROVE ~running'
  <2>1. CASE CloseRunning
    BY <2>1 DEF CloseRunning
  <2>2. CASE ui \in {"post", "spin"}
    <3>1. entry = "box" /\ ~running
      BY <2>2 DEF DeleteInv, CloseInv
    <3>2. ~SetRunning
      BY <3>1 DEF SetRunning, Box, DialogInv
    <3>3. QED
      BY <3>1, <3>2, RunningChanges
  <2>3. QED
    BY <1>2, <2>1, <2>2, WaitBegins
<1>3. QED
  BY <1>1, <1>2 DEF CloseInv

-----------------------------------------------------------------------------
(* The invariant.                                                          *)

LEMMA InvInit == Init => IInv
<1> SUFFICES ASSUME Init PROVE IInv
  OBVIOUS
<1>1. TypeOK
  BY TypeInit
<1>2. /\ handles = <<"user">> /\ DOMAIN handles = {1} /\ handles[1] = "user"
      /\ Len(handles) = 1
  BY DEF Init
<1>3. HandlesInv
  BY <1>2 DEF Init, HandlesInv, OwnSteps, RunSteps
<1>4. DialogInv
  BY <1>2 DEF Init, DialogInv, OwnerKnown, Owner, OwnSteps, RunSteps
<1>5. DeleteInv /\ SoundInv /\ StreamWhole
  BY DEF Init, DeleteInv, SoundInv, StreamWhole, MixSteps
<1>6. QED
  BY <1>1, <1>3, <1>4, <1>5 DEF IInv

LEMMA InvStep == IInv /\ [Next]_vars => IInv'
<1> SUFFICES ASSUME IInv, [Next]_vars PROVE IInv'
  OBVIOUS
<1>1. TypeOK /\ HandlesInv /\ DialogInv /\ DeleteInv /\ SoundInv /\ StreamWhole
  BY DEF IInv
<1>2. TypeOK'
  BY <1>1, TypeStep
<1>3. HandlesInv' /\ DialogInv' /\ DeleteInv'
  BY <1>1, HandlesStep, DialogStep, DeleteStep
<1>4. SoundInv' /\ StreamWhole'
  BY <1>1, SoundStep, StreamStep
<1>5. QED
  BY <1>2, <1>3, <1>4 DEF IInv

LEMMA InvHolds == Spec => []IInv
  BY InvInit, InvStep, PTL DEF Spec

(* Every variable of the dialog keeps its type, and no more is written than *)
(* the stream and one buffer together hold.                                *)
THEOREM MbTypeCorrect == Spec => []TypeOK
<1>1. IInv => TypeOK
  BY DEF IInv
<1>2. QED
  BY <1>1, InvHolds, PTL

(* A new dialog finds the user's window last in the list and takes it as its *)
(* owner, however many dialogs came and went, unless the person closed the *)
(* last one and no frame has collected it: ~bnWindow takes out of the list *)
(* what its constructor put there, and nothing else.                       *)
THEOREM MbOwnerHolds == Spec => []OwnerAlive
<1>1. IInv => OwnerAlive
  BY OwnerOk DEF IInv
<1>2. QED
  BY <1>1, InvHolds, PTL

(* The stream is deleted, or the list of streams cleared, under the audio  *)
(* thread's mix only by the shutdown of a window that closes.              *)
THEOREM MbStreamHolds == Spec => []StreamWhole
<1>1. IInv => StreamWhole
  BY DEF IInv
<1>2. QED
  BY <1>1, InvHolds, PTL

(* What the mix reads lies within the stream, for every length of the sound *)
(* and every device whose frames are not smaller than the stream's.        *)
THEOREM MbReadsHold == Spec => []ReadsWithin
<1>1. IInv => ReadsWithin
  BY ReadsOk DEF IInv
<1>2. QED
  BY <1>1, InvHolds, PTL

(* The UI thread never deletes a dialog whose own thread is in run, in one *)
(* of its handlers or in shutdown: only the erase takes the entry away, it *)
(* stands after the wait for canBeDeleted, and no dialog begins meanwhile. *)
THEOREM MbOutlivedHolds == Spec => BoxOutlived
<1>1. IInv /\ [Next]_vars =>
        [entry = "box" /\ entry' = "absent" => dialog \notin RunSteps]_vars
  BY OutlivedStep DEF IInv
<1>2. QED
  BY <1>1, InvHolds, PTL DEF Spec, BoxOutlived

(* While DestroyMessageBox waits for canBeDeleted, it is set, or the dialog *)
(* is in its loop with running clear, or its thread was terminated.        *)
THEOREM MbCloseHeardHolds == Spec => []CloseHeard
<1>1. Init => CloseInv
  BY DEF Init, CloseInv
<1>2. IInv /\ CloseInv /\ [Next]_vars => CloseInv'
  BY CloseStep DEF IInv
<1>3. IInv /\ CloseInv => CloseHeard
  BY DEF IInv, DeleteInv, CloseInv, CloseHeard, Abandoned
<1>4. QED
  BY <1>1, <1>2, <1>3, InvHolds, PTL DEF Spec
============================================================================
