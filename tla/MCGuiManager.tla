---------------------------- MODULE MCGuiManager ----------------------------
(* Two calls in flight, two applications one after the other under one     *)
(* label, and a window of the user's that is not on the allowlist.         *)
EXTENDS GuiManager, TLC

GuiSymmetry == Permutations(Calls)
=============================================================================
