---------------------------- MODULE MCPtySession ----------------------------
(* Instances of PtySession for TLC.  Two units of output fill the pty;     *)
(* offsets get a second digit at 2; two statuses may overlap.              *)
EXTENDS PtySession

CONSTANTS r1, r2
OneReader == {r1}
TwoReaders == {r1, r2}
=============================================================================
