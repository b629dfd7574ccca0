-------------------------- MODULE MCSafetyMonitor --------------------------
(* An instance of SafetyMonitor for TLC: one cause that locks and is seen  *)
(* at every tick, beside the one-shot cause of the watched node and the    *)
(* cause of a human's lock.                                                *)
EXTENDS SafetyMonitor

LockOnly == {"feedback_loss"}
=============================================================================
