-------------------------- MODULE MCStateClient --------------------------
(* A small instance of StateClient.                                        *)
EXTENDS StateClient

(* Nothing at the path, a stale socket of ours that others may write, a    *)
(* foreign socket, and a directory that others may write.                  *)
MCInodes ==
  {[kind |-> "none", own |-> FALSE, open |-> FALSE, dir |-> "private"],
   [kind |-> "socket", own |-> TRUE, open |-> TRUE, dir |-> "private"],
   [kind |-> "socket", own |-> FALSE, open |-> FALSE, dir |-> "sticky"],
   [kind |-> "none", own |-> FALSE, open |-> FALSE, dir |-> "shared"]}
==========================================================================
