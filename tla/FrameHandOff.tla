--------------------------- MODULE FrameHandOff ---------------------------
(***************************************************************************)
(* What the hand-off of frames between a window's worker and its UI thread *)
(* promises while the window is neither minimised nor given another        *)
(* device: at any time one frame is asked for, or being recorded, or       *)
(* finished; it is recorded by one update, drawn whole, drawn at most once, *)
(* and taken back before the next one begins.                              *)
(*                                                                         *)
(* It promises no more: a frame may be taken back undrawn, or be finished  *)
(* so fast that the UI thread takes it back in the act of asking for it,   *)
(* and then nobody asks again.                                             *)
(***************************************************************************)
EXTENDS Naturals, Sequences

CONSTANTS Frames, Pushes

VARIABLES
  turn,       (* "asked", "recording", "finished", "lost" or "stopped"     *)
  recorded    (* what has been recorded of the frame and not been drawn    *)

Init == turn = "asked" /\ recorded = <<>>

Begin == turn = "asked" /\ turn' = "recording" /\ UNCHANGED recorded

(* A frame is recorded by a single update.                                  *)
Record ==
  /\ turn = "recording" /\ Len(recorded) < Pushes
  /\ \E u \in Frames : /\ recorded = <<>> \/ recorded[1] = u
                       /\ recorded' = Append(recorded, u)
  /\ UNCHANGED turn

Finish ==
  /\ turn = "recording" /\ Len(recorded) = Pushes
  /\ turn' = "finished" /\ UNCHANGED recorded

(* The worker finishes while the UI thread is still resetting predraw for   *)
(* the frame before this one.                                               *)
Lose ==
  /\ turn = "recording" /\ Len(recorded) = Pushes
  /\ turn' = "lost" /\ recorded' = <<>>

Draw ==
  /\ turn = "finished" /\ Len(recorded) = Pushes
  /\ recorded' = <<>> /\ UNCHANGED turn

(* The finished frame is taken back, drawn or not, and the next asked for.  *)
Ask == turn = "finished" /\ turn' = "asked" /\ recorded' = <<>>

Stop == turn' = "stopped" /\ recorded' = <<>>

Next == Begin \/ Record \/ Finish \/ Lose \/ Draw \/ Ask \/ Stop
Spec == Init /\ [][Next]_<<turn, recorded>>
============================================================================
