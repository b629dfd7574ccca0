----------------------------- MODULE RobotTools -----------------------------
(***************************************************************************)
(* The handlers of the profile, safety, MoveIt and vision packages, in the *)
(* vocabulary of ToolSteps.  moveit_move is in MotionPipeline.             *)
(***************************************************************************)
EXTENDS ToolSteps

(* Profiles: Python helpers that print JSON, error or not.                 *)

(* The question comes before the arguments are looked at.                  *)
ZeroPoseSemantics == {<<Ask, Refusable, Write("stdout")>>}

(* With a good profile the safety monitor is started as well.              *)
RobotRegister == {<<Refusable, Ask, Write("stdout")>>,
                  <<Refusable, Ask, Write("stdout"), Job>>}

RobotLoad == {<<Refusable, Read("stdout")>>}

(* Mutant of RobotTopology: only learning is taken for a write.            *)
RobotTopologyAsksToLearn(action) ==
  {IF action = "snapshot" THEN <<Refusable, Write("stdout")>>
   ELSE IF action = "learn"
     THEN <<Refusable, Ask, Refusable, Write("stdout")>>
   ELSE <<Refusable, Read("stdout")>>}

RobotTopology(action) ==
  {IF action = "snapshot" THEN <<Refusable, Ask, Write("stdout")>>
   ELSE IF action = "learn"
     THEN <<Refusable, Ask, Refusable, Write("stdout")>>
   ELSE <<Refusable, Read("stdout")>>}

(* Safety.                                                                 *)

(* resolveProfilePath: the profile is looked up unless its path is given.  *)
RobotSafetyStart == {<<Refusable, Refusable, Ask, Job>>,
                     <<Refusable, Read("never"), Refusable, Ask, Job>>}
RobotSafetyState == {<<Read("never")>>}
RobotSafetyArbitrate == {<<Read("stdout")>>}
RobotSafetyLock == {<<Ask, Write("strict")>>}
RobotSafetyUnlock == {<<Ask, Write("strict")>>}

(* MoveIt, the tools that do not move.                                     *)
MoveitDiscover == {<<Read("strict")>>}
MoveitStatus == {<<Read("stdout")>>}

(* The profile when a robot is named, then the file, then the validator,   *)
(* whose failure is a verdict.                                             *)
MotionValidate == {<<Refusable, Refusable, Read("never")>>,
                   <<Refusable, Read("never"), Refusable, Read("never")>>}

(* Vision.                                                                 *)

(* The provider, built when there was none at start, then the gateway.     *)
VisionDescribe == {<<Peek>>, <<Refusable, Peek>>}

(* The capture directory is the plugin's own: only a path outside is a     *)
(* write.                                                                  *)
ImageSnapshot(path) ==
  {IF path = "inside" THEN <<Refusable, Refusable, Read("strict")>>
   ELSE <<Refusable, Refusable, Ask, Write("strict")>>}
VlmAnalyze == {<<Read("strict")>>}
VisionTopics == {<<Read("strict")>>}
VisionAnalyze == {<<Read("strict")>>}
VisionSetKey == {<<Refusable, Ask, Act>>}

(* What is built is reported for the setup that the commands source.       *)
VisionDoctor == {<<Report, Read("never"), Read("never")>>}

(* What each package registers.                                            *)
ProfilePrograms ==
  ZeroPoseSemantics \cup RobotRegister \cup RobotLoad
    \cup (UNION {RobotTopology(a) : a \in {"show", "diagnose", "search",
                                           "snapshot", "learn"}})
SafetyPrograms ==
  RobotSafetyStart \cup RobotSafetyState \cup RobotSafetyArbitrate
    \cup RobotSafetyLock \cup RobotSafetyUnlock
MoveitPrograms == MoveitDiscover \cup MoveitStatus \cup MotionValidate
VisionPrograms ==
  VisionDescribe \cup (UNION {ImageSnapshot(p) : p \in {"inside", "outside"}})
    \cup VlmAnalyze \cup VisionTopics \cup VisionAnalyze \cup VisionSetKey
    \cup VisionDoctor

RobotPrograms ==
  ProfilePrograms \cup SafetyPrograms \cup MoveitPrograms \cup VisionPrograms
=============================================================================
