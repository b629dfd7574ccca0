---------------------------- MODULE MotionPermit ----------------------------
(***************************************************************************)
(* What moveit_move promises of a motion, whatever its calls do to their   *)
(* files: the safety gate, the deterministic checks and the human pass it  *)
(* in this order, each after the one before, and what moves is what was    *)
(* judged, unless somebody wrote it over after it was granted.             *)
(* MotionPipeline is shown to implement this module.                       *)
(***************************************************************************)
CONSTANTS
  Moves,     \* the calls
  Plans,     \* the trajectories, each with its field safe
  NoPlan     \* no trajectory

VARIABLES
  locked,    \* the monitor shows LOCKED
  stage,     \* of each call; "exempt" when it is planOnly
  blind,     \* the gate had no answer to judge by
  judged,    \* the trajectory that passed the checks
  swapped,   \* its file was written after the motion was granted
  goal       \* what was sent to the robot

permitVars == <<locked, stage, blind, judged, swapped, goal>>

Underway == {"asked", "cleared", "judged", "granted"}

PermitInit ==
  /\ locked = FALSE
  /\ stage \in [Moves -> {"asked", "exempt"}]
  /\ blind = [m \in Moves |-> FALSE]
  /\ judged = [m \in Moves |-> NoPlan]
  /\ swapped = [m \in Moves |-> FALSE]
  /\ goal = [m \in Moves |-> NoPlan]

Advance(m, from, to) ==
  stage[m] = from /\ stage' = [stage EXCEPT ![m] = to]

(* The gate: under a lock a call passes only unseen.                       *)
Clear(m) ==
  /\ Advance(m, "asked", "cleared")
  /\ \E unseen \in BOOLEAN :
       /\ locked => unseen
       /\ blind' = [blind EXCEPT ![m] = unseen]
  /\ UNCHANGED <<locked, judged, swapped, goal>>

(* The checks pass a safe trajectory.                                      *)
Judge(m) ==
  /\ Advance(m, "cleared", "judged")
  /\ \E plan \in Plans :
       plan.safe /\ judged' = [judged EXCEPT ![m] = plan]
  /\ UNCHANGED <<locked, blind, swapped, goal>>

(* The human has seen the verdict.                                         *)
Grant(m) ==
  /\ Advance(m, "judged", "granted")
  /\ UNCHANGED <<locked, blind, judged, swapped, goal>>

(* The robot gets what was judged.                                         *)
Move(m) ==
  /\ Advance(m, "granted", "moved")
  /\ \E plan \in Plans :
       /\ ~swapped[m] => plan = judged[m]
       /\ goal' = [goal EXCEPT ![m] = plan]
  /\ UNCHANGED <<locked, blind, judged, swapped>>

(* Any of the steps may deny.                                              *)
GiveUp(m) ==
  /\ stage[m] \in Underway
  /\ stage' = [stage EXCEPT ![m] = "over"]
  /\ judged' = [judged EXCEPT ![m] = NoPlan]
  /\ UNCHANGED <<locked, blind, swapped, goal>>

(* A file of calls that are about to move is written.                      *)
Swap(S) ==
  /\ \A m \in S : stage[m] \in {"granted", "exempt"}
  /\ swapped' = [m \in Moves |-> swapped[m] \/ m \in S]
  /\ UNCHANGED <<locked, stage, blind, judged, goal>>

(* What the monitor shows changes.                                         *)
Show(l) ==
  /\ locked' = l
  /\ UNCHANGED <<stage, blind, judged, swapped, goal>>

PermitNext ==
  \/ \E m \in Moves : Clear(m) \/ Judge(m) \/ Grant(m) \/ Move(m) \/ GiveUp(m)
  \/ \E S \in SUBSET Moves : Swap(S)
  \/ \E l \in BOOLEAN : Show(l)

PermitSpec == PermitInit /\ [][PermitNext]_permitVars
=============================================================================
