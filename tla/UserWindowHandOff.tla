------------------------ MODULE UserWindowHandOff ------------------------
(***************************************************************************)
(* UserWindow as an implementation of FrameHandOff.                        *)
(***************************************************************************)
EXTENDS UserWindow

(* The one step in which a frame has been asked for and predraw still       *)
(* belongs to the last one.                                                 *)
Asking == ui = "undraw"

turnOf ==
  IF stopThread THEN "stopped"
  ELSE IF predraw /\ ~Asking THEN "finished"
  ELSE IF worker \in UpdateSteps THEN "recording"
  ELSE IF workAvailable THEN "asked"
  ELSE "lost"

(* What the list holds before the update empties it is no part of a frame.  *)
recordedOf ==
  IF turnOf = "finished" \/ (turnOf = "recording" /\ worker # "clear")
  THEN commands ELSE <<>>

HandOff == INSTANCE FrameHandOff WITH turn <- turnOf, recorded <- recordedOf

(* A window that is neither minimised nor switched hands its frames over as  *)
(* FrameHandOff promises: the plain flags of three threads amount to a turn  *)
(* that passes between two of them.                                          *)
ImplementsHandOff == HandOff!Spec
============================================================================
