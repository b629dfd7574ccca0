-------------------------- MODULE MCSafetyCheckers --------------------------
(* Instances of SafetyCheckers for TLC.                                    *)
EXTENDS SafetyCheckers
=============================================================================
