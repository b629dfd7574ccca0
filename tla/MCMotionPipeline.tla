-------------------------- MODULE MCMotionPipeline --------------------------
(* Instances of MotionPipeline for TLC.                                    *)
EXTENDS MotionPipeline, TLC

CONSTANTS m1, m2

TwoMoves == {m1, m2}
MoveSymmetry == Permutations(TwoMoves)
=============================================================================
