---------------------------- MODULE SafetyLatch ----------------------------
(***************************************************************************)
(* What the safety monitor promises the rest of the system, seen from      *)
(* outside the process: a latch that danger or a human sets and that only  *)
(* a human unlock releases, and the state a late subscriber of             *)
(* /safety/state reads.  SafetyMonitor is shown to implement this module;  *)
(* MotionPipeline uses it as its environment.                              *)
(***************************************************************************)
CONSTANT Restarts      \* TRUE when the monitor may die and be started again

VARIABLES
  state,               \* "NORMAL", "LOCKED", or "DOWN" (no monitor process)
  shown,               \* the latched sample of /safety/state, "none" if absent
  taken                \* a lock was taken in the life of this monitor

latchVars == <<state, shown, taken>>

LatchTypeOK ==
  /\ state \in {"NORMAL", "LOCKED", "DOWN"}
  /\ shown \in {"none", "NORMAL", "LOCKED"}
  /\ taken \in BOOLEAN

LatchInit == state = "NORMAL" /\ shown = "none" /\ taken = FALSE

(* A CRITICAL event or a human lock latches; it may find the latch set.    *)
Lock ==
  /\ state \in {"NORMAL", "LOCKED"}
  /\ state' = "LOCKED" /\ taken' = TRUE
  /\ UNCHANGED shown

(* The only way out of LOCKED.                                             *)
Release ==
  /\ state = "LOCKED"
  /\ state' = "NORMAL"
  /\ UNCHANGED <<shown, taken>>

(* A publication carries the state of the instant it read the latch, which *)
(* may be over: it never shows LOCKED before a lock was taken.             *)
Show(s) ==
  /\ state # "DOWN"
  /\ s = "LOCKED" => taken
  /\ shown' = s
  /\ UNCHANGED <<state, taken>>

(* The state is shown as it is.                                            *)
ShowCurrent == shown # state /\ Show(state)

(* The process dies: its transient-local sample goes with it.              *)
Die ==
  /\ Restarts
  /\ state # "DOWN"
  /\ state' = "DOWN" /\ shown' = "none"
  /\ taken' = FALSE

(* A monitor is started, with a fresh latch.                               *)
Start ==
  /\ state = "DOWN"
  /\ state' = "NORMAL"
  /\ UNCHANGED <<shown, taken>>

LatchNext ==
  \/ Lock
  \/ Release
  \/ \E s \in {"NORMAL", "LOCKED"} : Show(s)
  \/ Die
  \/ Start

LatchSpec == LatchInit /\ [][LatchNext]_latchVars /\ WF_latchVars(ShowCurrent)
=============================================================================
