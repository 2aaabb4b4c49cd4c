---------------------------- MODULE GpuObjects ----------------------------
(***************************************************************************)
(* What a graphics device promises about the objects it hands out: an      *)
(* object goes from created to released to freed, the device's queue only  *)
(* ever uses objects that are not freed, and a released object is freed    *)
(* only when nothing in the queue uses it any more.                        *)
(***************************************************************************)
CONSTANTS Objects

VARIABLES
  stage,      (* "none", "live", "released", "freed" or "leaked"           *)
  inUse       (* the objects the device's queue still reads or writes      *)

Stages == {"none", "live", "released", "freed", "leaked"}

(* The moves an object may make in one step, besides staying where it is:   *)
(* one that is created and released by the same call ends released.         *)
Moves == {<<"none", "live">>, <<"none", "released">>, <<"live", "released">>,
          <<"released", "freed">>, <<"released", "leaked">>}

Init ==
  /\ stage = [o \in Objects |-> "none"]
  /\ inUse = {}

(* Any number of objects move at once; the queue takes in objects that are  *)
(* not freed and lets go of others.                                         *)
Next ==
  /\ stage' \in [Objects -> Stages]
  /\ \A o \in Objects :
       stage'[o] # stage[o] =>
         /\ <<stage[o], stage'[o]>> \in Moves
         /\ stage'[o] = "freed" => o \notin inUse
  /\ inUse' \subseteq Objects
  /\ \A o \in inUse' \ inUse : stage'[o] \notin {"none", "freed"}

Spec == Init /\ [][Next]_<<stage, inUse>>

============================================================================
