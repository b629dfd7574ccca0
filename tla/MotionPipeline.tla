--------------------------- MODULE MotionPipeline ---------------------------
(***************************************************************************)
(* moveit_move (packages/moveit/src/tools.ts): plan, validate, approve,    *)
(* check again, execute.  Each element of Moves is one call of the tool;   *)
(* the calls run concurrently on the host's event loop and meet in the     *)
(* plan directory, in the caller's files and at the safety gate.  A step   *)
(* ends at an await or at an access of a helper process to a file.  The    *)
(* monitor is its abstract promise, SafetyLatch.                           *)
(***************************************************************************)
EXTENDS SafetyLatch, Naturals

CONSTANTS
  Moves,        \* the calls of moveit_move
  Modes,        \* the modes a caller may ask for, see AllModes
  MaxClock,     \* bound: the wall clock, in milliseconds
  MaxStateAge   \* max_state_age_ms of the robot profile

AllModes == {"planned", "relative", "trajectory", "plan_only",
             "plan_trajectory"}
PlanOnlyModes == {"plan_only", "plan_trajectory"}

ASSUME CallsAssumption == {"absent", "torn", "caller"} \cap Moves = {}
ASSUME ModesAssumption == Modes \subseteq AllModes
ASSUME ClockAssumption == MaxClock \in Nat /\ MaxStateAge \in Nat

VARIABLES
  pc,           \* where each call is
  mode,         \* "planned" stands for joint_abs and pose_abs, "relative"
                \* for joint_rel and pose_rel; with planOnly the four are
                \* "plan_only", and trajectory is "plan_trajectory"
  clock,        \* Date.now()
  path,         \* planFile of each call, or its trajectoryOut
  namedAt,      \* history: when the call chose planFile
  file,         \* what is in the plan directory and the caller's file
  vcfg,         \* now_ms and current_state.stamp_ms of the frozen config
  validated,    \* the trajectory the first validation fingerprinted
  loaded,       \* what the executing helper read
  sent,         \* history: the helper sent it to /execute_trajectory
  unanswered,   \* history: the gate let the call pass without an answer
  standing,     \* history: LOCKED was shown when the call began, and ever since
  rewritten     \* history: planFile was written between recheck and load

callVars == <<mode, path, namedAt, vcfg, validated, loaded, sent, unanswered,
              rewritten>>
vars == <<latchVars, pc, clock, file, standing, callVars>>

(* A plan file is known by the millisecond in its name; one path more is   *)
(* the caller's, for `trajectory` and for `trajectoryOut`.                 *)
UserFile == MaxClock + 1
NoPath == MaxClock + 2
Paths == 0..UserFile

(* A trajectory is known by who planned it and whether it passes the       *)
(* deterministic checks; a file may also be absent or half written.        *)
Trajectories == [by : Moves \cup {"caller"}, safe : BOOLEAN]
Absent == [by |-> "absent", safe |-> FALSE]
Torn == [by |-> "torn", safe |-> FALSE]
Contents == Trajectories \cup {Absent, Torn}

NoStamp == MaxClock + 1
Labels == {"idle", "gate", "file", "plan", "write", "sample", "validate",
           "ready", "approve", "recheck", "load", "send", "ended"}

(* The type of every variable of MotionPipeline.                         *)
PipelineTypeOK ==
  /\ LatchTypeOK
  /\ pc \in [Moves -> Labels]
  /\ mode \in [Moves -> AllModes]
  /\ clock \in 0..MaxClock
  /\ path \in [Moves -> 0..NoPath]
  /\ namedAt \in [Moves -> 0..NoStamp]
  /\ file \in [Paths -> Contents]
  /\ vcfg \in [Moves -> [now : 0..MaxClock, stamp : 0..NoStamp]]
  /\ validated \in [Moves -> Contents]
  /\ loaded \in [Moves -> Contents]
  /\ \A flag \in {sent, unanswered, standing, rewritten} :
       flag \in [Moves -> BOOLEAN]

Init ==
  /\ LatchInit
  /\ pc = [m \in Moves |-> "idle"]
  /\ mode \in [Moves -> Modes]
  /\ clock = 0
  /\ path = [m \in Moves |-> NoPath]
  /\ namedAt = [m \in Moves |-> NoStamp]
  /\ file = [p \in Paths |-> IF p = UserFile
                               THEN [by |-> "caller", safe |-> TRUE]
                               ELSE Absent]
  /\ vcfg = [m \in Moves |-> [now |-> 0, stamp |-> NoStamp]]
  /\ validated = [m \in Moves |-> Absent]
  /\ loaded = [m \in Moves |-> Absent]
  /\ sent = [m \in Moves |-> FALSE]
  /\ unanswered = [m \in Moves |-> FALSE]
  /\ standing = [m \in Moves |-> FALSE]
  /\ rewritten = [m \in Moves |-> FALSE]

Goto(m, label) == pc' = [pc EXCEPT ![m] = label]
At(m, label) == pc[m] = label
PlanOnly(m) == mode[m] \in PlanOnlyModes

-----------------------------------------------------------------------------
(* The call and the safety gate.                                           *)

(* planOnly skips the gate and asks for approval before it plans.          *)
Call(m) ==
  /\ At(m, "idle")
  /\ Goto(m, IF PlanOnly(m) THEN "approve" ELSE "gate")
  /\ standing' = [standing EXCEPT ![m] = shown = "LOCKED"]
  /\ UNCHANGED <<latchVars, clock, file, callVars>>

(* `topic echo --once` of three seconds: a running monitor may be too slow *)
(* to answer, and an absent sample never does.                             *)
MayAnswer == IF shown = "none" THEN {FALSE} ELSE BOOLEAN

(* Mutant: a prepared trajectory passes the gate.                          *)
RefusedPlans(m, answered) ==
  answered /\ shown = "LOCKED" /\ mode[m] # "trajectory"

Refused(m, answered) == answered /\ shown = "LOCKED"

(* enforceSafetyLock.  The moveit package passes no safetyStrict, so the   *)
(* gate always warns and lets the call pass when there is no answer.       *)
Gate(m) ==
  /\ At(m, "gate")
  /\ \E answered \in MayAnswer :
       /\ Goto(m, IF Refused(m, answered) THEN "ended" ELSE "file")
       /\ unanswered' = [unanswered EXCEPT ![m] = ~answered]
  /\ UNCHANGED <<latchVars, clock, file, standing, mode, path, namedAt, vcfg,
                 validated, loaded, sent, rewritten>>

-----------------------------------------------------------------------------
(* The plan.                                                               *)

(* Mutant: every call plans into the same file.                            *)
PlanNameFixed(now) == 0

(* `moveit_plan_${Date.now()}.json`.                                       *)
PlanName(now) == now

(* The caller's trajectory must be there; a plan gets a name, unless the   *)
(* plan directory is not private.                                          *)
ChooseFile(m) ==
  /\ At(m, "file")
  /\ \/ /\ mode[m] = "trajectory"
        /\ path' = [path EXCEPT ![m] = UserFile]
        /\ Goto(m, IF file[UserFile] = Absent THEN "ended" ELSE "sample")
        /\ UNCHANGED namedAt
     \/ /\ mode[m] # "trajectory"
        /\ path' = [path EXCEPT ![m] = PlanName(clock)]
        /\ namedAt' = [namedAt EXCEPT ![m] = clock]
        /\ Goto(m, "plan")
     \/ /\ mode[m] # "trajectory"
        /\ Goto(m, "ended")
        /\ UNCHANGED <<path, namedAt>>
  /\ UNCHANGED <<latchVars, clock, file, standing, mode, vcfg, validated,
                 loaded, sent, unanswered, rewritten>>

AfterPlan(m) == IF mode[m] = "plan_only" THEN "ended" ELSE "sample"

(* A write by a helper, seen by every call that is about to load the file. *)
WriteFile(p, content) ==
  /\ file' = [file EXCEPT ![p] = content]
  /\ rewritten' = [n \in Moves |->
                     rewritten[n] \/ (path[n] = p /\ At(n, "load"))]

(* The helper plans, opens its --out file and so empties it ...            *)
OpenPlan(m) ==
  /\ At(m, "plan")
  /\ WriteFile(path[m], Torn)
  /\ Goto(m, "write")
  /\ UNCHANGED <<latchVars, clock, standing, mode, path, namedAt, vcfg,
                 validated, loaded, sent, unanswered>>

(* ... and dumps the planned trajectory.                                   *)
WritePlan(m) ==
  /\ At(m, "write")
  /\ \E safe \in BOOLEAN : WriteFile(path[m], [by |-> m, safe |-> safe])
  /\ Goto(m, AfterPlan(m))
  /\ UNCHANGED <<latchVars, clock, standing, mode, path, namedAt, vcfg,
                 validated, loaded, sent, unanswered>>

(* A helper that was killed, or failed without a word, ends the call; one  *)
(* that printed its error lets it go on without a plan.                    *)
PlanFails(m) ==
  /\ \/ At(m, "plan") /\ Goto(m, AfterPlan(m))
     \/ (At(m, "plan") \/ At(m, "write")) /\ Goto(m, "ended")
  /\ UNCHANGED <<latchVars, clock, file, standing, callVars>>

-----------------------------------------------------------------------------
(* Validation and approval.                                                *)

(* Mutant: the stamp is that of a robot whose clock runs ahead.            *)
StampAhead(m, ok) ==
  IF mode[m] = "relative" /\ ok THEN clock + MaxClock + 2 ELSE NoStamp

(* Only the relative modes sample the robot's joints, and may fail to.     *)
Stamp(m, ok) == IF mode[m] = "relative" /\ ok THEN clock ELSE NoStamp

(* The state is stamped when the sample arrives, and the configuration     *)
(* with the same clock: both validations use these values.                 *)
Sample(m) ==
  /\ At(m, "sample")
  /\ \E ok \in BOOLEAN :
       vcfg' = [vcfg EXCEPT ![m] = [now |-> clock, stamp |-> Stamp(m, ok)]]
  /\ Goto(m, "validate")
  /\ UNCHANGED <<latchVars, clock, file, standing, mode, path, namedAt,
                 validated, loaded, sent, unanswered, rewritten>>

(* check_freshness.                                                        *)
FreshState(m) ==
  LET c == vcfg[m] IN
  IF c.stamp = NoStamp THEN mode[m] # "relative"
                       ELSE c.now <= c.stamp + MaxStateAge

(* The validator on the file as it is now; what it cannot read is unsafe.  *)
Verdict(m) ==
  LET found == file[path[m]] IN
  found \in Trajectories /\ found.safe /\ FreshState(m)

Validate(m) ==
  /\ At(m, "validate")
  /\ validated' = [validated EXCEPT ![m] = file[path[m]]]
  /\ Goto(m, IF Verdict(m) THEN "ready" ELSE "ended")
  /\ UNCHANGED <<latchVars, clock, file, standing, mode, path, namedAt, vcfg,
                 loaded, sent, unanswered, rewritten>>

(* Only a controller known to be offline stops the call.                   *)
Ready(m) ==
  /\ At(m, "ready")
  /\ Goto(m, "approve") \/ Goto(m, "ended")
  /\ UNCHANGED <<latchVars, clock, file, standing, callVars>>

(* The answer may take any time; every outcome but one denies.  A granted  *)
(* planOnly call plans into the trajectoryOut of its caller; with mode     *)
(* trajectory its helper ignores --plan-only and loads the caller's file.  *)
Approve(m) ==
  /\ At(m, "approve")
  /\ \/ Goto(m, "ended") /\ UNCHANGED path
     \/ /\ PlanOnly(m)
        /\ path' = [path EXCEPT ![m] = UserFile]
        /\ Goto(m, IF mode[m] = "plan_only" THEN "plan" ELSE "load")
     \/ /\ ~PlanOnly(m)
        /\ Goto(m, "recheck")
        /\ UNCHANGED path
  /\ UNCHANGED <<latchVars, clock, file, standing, mode, namedAt, vcfg,
                 validated, loaded, sent, unanswered, rewritten>>

(* Mutant: the second validation does not compare the fingerprints.        *)
UnchangedSinceSafe(m) == file[path[m]].safe

(* The fingerprint of the second validation is that of the first.          *)
UnchangedSince(m) == file[path[m]] = validated[m]

Recheck(m) ==
  /\ At(m, "recheck")
  /\ Goto(m, IF Verdict(m) /\ UnchangedSince(m) THEN "load" ELSE "ended")
  /\ UNCHANGED <<latchVars, clock, file, standing, callVars>>

-----------------------------------------------------------------------------
(* Execution.                                                              *)

(* The executing helper reads the file again; it ends on one it cannot     *)
(* parse, and on missing arguments before it opens it.                     *)
Load(m) ==
  /\ At(m, "load")
  /\ \/ /\ file[path[m]] \in Trajectories
        /\ loaded' = [loaded EXCEPT ![m] = file[path[m]]]
        /\ Goto(m, "send")
     \/ Goto(m, "ended") /\ UNCHANGED loaded
  /\ UNCHANGED <<latchVars, clock, file, standing, mode, path, namedAt, vcfg,
                 validated, sent, unanswered, rewritten>>

(* After up to ten seconds of waiting for move_group it sends the goal.    *)
(* The tool then verifies and reports, which moves nothing.                *)
Send(m) ==
  /\ At(m, "send")
  /\ sent' = [sent EXCEPT ![m] = TRUE]
  /\ Goto(m, "ended")
  /\ UNCHANGED <<latchVars, clock, file, standing, mode, path, namedAt, vcfg,
                 validated, loaded, unanswered, rewritten>>

NoServer(m) ==
  /\ At(m, "send")
  /\ Goto(m, "ended")
  /\ UNCHANGED <<latchVars, clock, file, standing, callVars>>

-----------------------------------------------------------------------------
(* The environment.                                                        *)

Monitor ==
  /\ LatchNext
  /\ standing' = [m \in Moves |-> standing[m] /\ shown' = "LOCKED"]
  /\ UNCHANGED <<pc, clock, file, callVars>>

Time ==
  /\ clock < MaxClock
  /\ clock' = clock + 1
  /\ UNCHANGED <<latchVars, pc, file, standing, callVars>>

Step(m) ==
  \/ Call(m) \/ Gate(m) \/ ChooseFile(m)
  \/ OpenPlan(m) \/ WritePlan(m) \/ PlanFails(m)
  \/ Sample(m) \/ Validate(m) \/ Ready(m) \/ Approve(m) \/ Recheck(m)
  \/ Load(m) \/ Send(m) \/ NoServer(m)

Next == (\E m \in Moves : Step(m)) \/ Monitor \/ Time

Spec == Init /\ [][Next]_vars
-----------------------------------------------------------------------------
(* Properties.                                                             *)

(* The goal that reaches the robot is the trajectory that was validated    *)
(* and approved, and a safe one, unless the call was planOnly or its file  *)
(* was written in the window between the second validation and the         *)
(* helper's own read.                                                      *)
OnlyValidatedMoves ==
  \A m \in Moves :
    sent[m] /\ ~PlanOnly(m) /\ ~rewritten[m] =>
      loaded[m] = validated[m] /\ loaded[m].safe

(* A call as MotionPermit sees it.                                         *)
StageOf(m) ==
  IF PlanOnly(m) THEN "exempt"
  ELSE CASE pc[m] \in {"idle", "gate"} -> "asked"
         [] pc[m] \in {"file", "plan", "write", "sample", "validate"} ->
              "cleared"
         [] pc[m] \in {"ready", "approve"} -> "judged"
         [] pc[m] \in {"recheck", "load", "send"} -> "granted"
         [] pc[m] = "ended" -> IF sent[m] THEN "moved" ELSE "over"

JudgedOf(m) == IF StageOf(m) \in {"judged", "granted", "moved"}
               THEN validated[m] ELSE Absent
GoalOf(m) == IF StageOf(m) = "moved" THEN loaded[m] ELSE Absent

Stages == [m \in Moves |-> StageOf(m)]
Judgements == [m \in Moves |-> JudgedOf(m)]
Goals == [m \in Moves |-> GoalOf(m)]

Permit == INSTANCE MotionPermit
  WITH Plans <- Trajectories, NoPlan <- Absent, locked <- shown = "LOCKED",
       stage <- Stages, blind <- unanswered, judged <- Judgements,
       swapped <- rewritten, goal <- Goals

(* However concurrent calls interleave, each motion passes the gate, the   *)
(* checks and the human in this order, and the goal that reaches the robot *)
(* is the safe trajectory that was judged, unless the call was planOnly or *)
(* its file was written between the approval and the helper's own read.    *)
ImplementsPermit == Permit!PermitSpec

(* No other call named its plan in the same millisecond.                   *)
NoTwin(m) == \A n \in Moves \ {m} : namedAt[n] # namedAt[m]

(* Concurrent calls do not execute each other's plans, nor an unsafe one,  *)
(* unless two of them name their file in the same millisecond.             *)
OwnPlanMoves ==
  \A m \in Moves :
    sent[m] /\ mode[m] \in {"planned", "relative"} /\ NoTwin(m) =>
      loaded[m].by = m /\ loaded[m].safe

(* A lock shown when the call began and shown ever since keeps the robot   *)
(* still, unless the gate had no answer or the call was planOnly.          *)
StandingLockBlocks ==
  \A m \in Moves : sent[m] /\ standing[m] => unanswered[m] \/ PlanOnly(m)

(* "Plan only, do not execute": a planOnly call sends no goal.             *)
PlanOnlyNeverMoves == \A m \in Moves : PlanOnly(m) => ~sent[m]
=============================================================================
