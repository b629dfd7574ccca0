--------------------------- MODULE MCExecWatchdog ---------------------------
(* Instances of ExecWatchdog for TLC, in units of five seconds: requests   *)
(* on both sides of the least inner and outer timers, and the default.     *)
EXTENDS ExecWatchdog

ShortToLong == {0, 2, 4, 6, 9, 18}
DefaultTimeout == {18}
=============================================================================
