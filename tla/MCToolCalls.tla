---------------------------- MODULE MCToolCalls ----------------------------
(* One slot that is called for any tool; the other runs commands and       *)
(* forgets the workspace in the meantime.                                  *)
EXTENDS ToolCalls

CONSTANTS c1, c2, ws, distro

MCAuto == <<distro, ws>>
MCPrograms == [c \in Calls |-> IF c = c1 THEN AllPrograms
                               ELSE ListingTools \cup Workspace("reset")]
=============================================================================
