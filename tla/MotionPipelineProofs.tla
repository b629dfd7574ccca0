------------------------ MODULE MotionPipelineProofs ------------------------
(* Proofs about MotionPipeline, for any calls, modes and times.            *)
EXTENDS MotionPipeline, TLAPS

(* Where a call has a file, but for planOnly's wait for its approval.      *)
HasFile(m) ==
  \/ pc[m] \in {"plan", "write", "sample", "validate", "ready", "recheck",
                "load", "send"}
  \/ pc[m] = "approve" /\ ~PlanOnly(m)

(* What is true of a call at each place of its pipeline.                   *)
FileInv == \A m \in Moves : HasFile(m) => path[m] \in Paths

PlanOnlyInv ==
  \A m \in Moves :
    /\ mode[m] = "plan_only" =>
         pc[m] \in {"idle", "approve", "plan", "write", "ended"} /\ ~sent[m]
    /\ mode[m] = "plan_trajectory" =>
         pc[m] \in {"idle", "approve", "load", "send", "ended"}

SentInv == \A m \in Moves : sent[m] => pc[m] = "ended"

(* Before the load the file is the validated one, after it the copy is.    *)
LoadInv ==
  \A m \in Moves : pc[m] = "load" /\ ~PlanOnly(m) /\ ~rewritten[m] =>
    file[path[m]] = validated[m] /\ validated[m].safe

GoalInv ==
  \A m \in Moves :
    (pc[m] = "send" \/ sent[m]) /\ ~PlanOnly(m) /\ ~rewritten[m] =>
      loaded[m] = validated[m] /\ loaded[m].safe

StandingInv == \A m \in Moves : standing[m] => shown = "LOCKED"

(* A call that is past the gate under a standing lock had no answer.       *)
GateInv ==
  \A m \in Moves :
    ~PlanOnly(m) /\ pc[m] \notin {"idle", "gate"} /\ standing[m] =>
      unanswered[m] \/ (pc[m] = "ended" /\ ~sent[m])

PlaceInv ==
  FileInv /\ PlanOnlyInv /\ SentInv /\ LoadInv /\ GoalInv
  /\ StandingInv /\ GateInv

(* The names of the values an element of Contents can be are not needed.   *)
LEMMA ConstantsTyped ==
  /\ UserFile \in Paths /\ UserFile \in 0..NoPath /\ NoPath \in 0..NoPath
  /\ 0..MaxClock \subseteq Paths /\ 0..MaxClock \subseteq 0..NoPath
  /\ 0..MaxClock \subseteq 0..NoStamp /\ NoStamp \in 0..NoStamp
  /\ 0 \in 0..MaxClock /\ NoPath \notin Paths
  /\ Absent \in Contents /\ Torn \in Contents
  /\ Trajectories \subseteq Contents
BY ClockAssumption, SMT
DEF UserFile, NoPath, Paths, NoStamp, Absent, Torn, Contents

(* The calls, files and latch start with their types.                      *)
LEMMA InitTyped == Init => PipelineTypeOK
<1> SUFFICES ASSUME Init PROVE PipelineTypeOK
  OBVIOUS
<1> USE DEF Init
<1>1. LatchTypeOK
  BY DEF LatchTypeOK, LatchInit
<1>2. pc \in [Moves -> Labels] /\ mode \in [Moves -> AllModes]
  BY ModesAssumption DEF Labels
<1>3. clock \in 0..MaxClock /\ path \in [Moves -> 0..NoPath]
      /\ namedAt \in [Moves -> 0..NoStamp]
  BY ConstantsTyped
<1>4. [by |-> "caller", safe |-> TRUE] \in Contents
  BY DEF Contents, Trajectories
<1>5. file \in [Paths -> Contents]
  BY <1>4, ConstantsTyped
<1>6. vcfg \in [Moves -> [now : 0..MaxClock, stamp : 0..NoStamp]]
  BY ConstantsTyped
<1>7. validated \in [Moves -> Contents] /\ loaded \in [Moves -> Contents]
  BY ConstantsTyped
<1>8. \A flag \in {sent, unanswered, standing, rewritten} :
        flag \in [Moves -> BOOLEAN]
  OBVIOUS
<1> QED
  BY <1>1, <1>2, <1>3, <1>5, <1>6, <1>7, <1>8 DEF PipelineTypeOK

(* At the start no call holds a file, a verdict or a goal.                 *)
LEMMA InitPlaced == Init => PlaceInv
BY DEF Init, PlaceInv, FileInv, PlanOnlyInv, SentInv, LoadInv, GoalInv,
       StandingInv, GateInv, HasFile

(* A write of a helper, whatever it writes and whoever looks on.           *)
LEMMA WriteTyped ==
  ASSUME PipelineTypeOK, NEW p, NEW content \in Contents,
         WriteFile(p, content)
  PROVE  /\ file' \in [Paths -> Contents]
         /\ rewritten' \in [Moves -> BOOLEAN]
<1>1. file' \in [Paths -> Contents]
  BY DEF PipelineTypeOK, WriteFile
<1>2. \A n \in Moves :
        (rewritten[n] \/ (path[n] = p /\ At(n, "load"))) \in BOOLEAN
  BY Zenon
<1>3. rewritten' \in [Moves -> BOOLEAN]
  BY <1>2 DEF WriteFile
<1> QED BY <1>1, <1>3

(* Each step of a call keeps the types, where the call has the file it     *)
(* reads.                                                                  *)
LEMMA CallTyped ==
  ASSUME PipelineTypeOK, FileInv, NEW m \in Moves, Step(m)
  PROVE  PipelineTypeOK'
<1> USE DEF Goto, At, callVars
<1>1. LatchTypeOK'
  BY DEF PipelineTypeOK, LatchTypeOK, latchVars, Step, Call, Gate, ChooseFile,
         OpenPlan, WritePlan, PlanFails, Sample, Validate, Ready, Approve,
         Recheck, Load, Send, NoServer
<1>2. CASE Call(m)
  BY <1>2, <1>1, ConstantsTyped DEF Call, PipelineTypeOK, Labels
<1>3. CASE Gate(m)
  BY <1>3, <1>1, ConstantsTyped DEF Gate, PipelineTypeOK, Labels, Refused
<1>4. CASE ChooseFile(m)
  <2>1. path' \in [Moves -> 0..NoPath] /\ namedAt' \in [Moves -> 0..NoStamp]
    <3>1. clock \in 0..NoPath /\ clock \in 0..NoStamp /\ UserFile \in 0..NoPath
      BY ConstantsTyped DEF PipelineTypeOK
    <3> QED BY <1>4, <3>1 DEF ChooseFile, PipelineTypeOK, PlanName
  <2>2. pc' \in [Moves -> Labels]
    BY <1>4 DEF ChooseFile, PipelineTypeOK, Labels
  <2> QED BY <1>4, <1>1, <2>1, <2>2 DEF ChooseFile, PipelineTypeOK
<1>5. CASE OpenPlan(m)
  <2>1. file' \in [Paths -> Contents] /\ rewritten' \in [Moves -> BOOLEAN]
    BY <1>5, WriteTyped, ConstantsTyped DEF OpenPlan
  <2> QED BY <1>5, <1>1, <2>1 DEF OpenPlan, PipelineTypeOK, Labels
<1>6. CASE WritePlan(m)
  <2>1. PICK safe \in BOOLEAN : WriteFile(path[m], [by |-> m, safe |-> safe])
    BY <1>6 DEF WritePlan
  <2>2. [by |-> m, safe |-> safe] \in Contents
    BY DEF Contents, Trajectories
  <2>3. file' \in [Paths -> Contents] /\ rewritten' \in [Moves -> BOOLEAN]
    BY <2>1, <2>2, WriteTyped
  <2> QED BY <1>6, <1>1, <2>3 DEF WritePlan, PipelineTypeOK, Labels, AfterPlan
<1>7. CASE PlanFails(m)
  BY <1>7, <1>1, ConstantsTyped DEF PlanFails, PipelineTypeOK, Labels, AfterPlan
<1>8. CASE Sample(m)
  BY <1>8, <1>1, ConstantsTyped DEF Sample, PipelineTypeOK, Labels, Stamp
<1>9. CASE Validate(m)
  BY <1>9, <1>1, ConstantsTyped DEF Validate, PipelineTypeOK, Labels, FileInv,
    HasFile
<1>10. CASE Ready(m)
  BY <1>10, <1>1, ConstantsTyped DEF Ready, PipelineTypeOK, Labels
<1>11. CASE Approve(m)
  BY <1>11, <1>1, ConstantsTyped DEF Approve, PipelineTypeOK, Labels
<1>12. CASE Recheck(m)
  BY <1>12, <1>1, ConstantsTyped DEF Recheck, PipelineTypeOK, Labels
<1>13. CASE Load(m)
  BY <1>13, <1>1, ConstantsTyped DEF Load, PipelineTypeOK, Labels, FileInv,
    HasFile
<1>14. CASE Send(m)
  BY <1>14, <1>1, ConstantsTyped DEF Send, PipelineTypeOK, Labels
<1>15. CASE NoServer(m)
  BY <1>15, <1>1, ConstantsTyped DEF NoServer, PipelineTypeOK, Labels
<1> QED
  BY <1>2, <1>3, <1>4, <1>5, <1>6, <1>7, <1>8, <1>9, <1>10, <1>11, <1>12,
    <1>13, <1>14, <1>15 DEF Step

(* The monitor and the clock keep them too.                                *)
LEMMA EnvironmentTyped ==
  ASSUME PipelineTypeOK, Monitor \/ Time
  PROVE  PipelineTypeOK'
<1> USE DEF callVars
<1>1. CASE Monitor
  <2>1. LatchTypeOK'
    BY <1>1 DEF Monitor, LatchNext, Lock, Release, Show, Die, Start,
                PipelineTypeOK, LatchTypeOK
  <2>2. \A m \in Moves : (standing[m] /\ shown' = "LOCKED") \in BOOLEAN
    BY Zenon
  <2>3. standing' \in [Moves -> BOOLEAN]
    BY <1>1, <2>2 DEF Monitor
  <2> QED BY <1>1, <2>1, <2>3 DEF Monitor, PipelineTypeOK
<1>2. CASE Time
  <2>1. clock' \in 0..MaxClock
    BY <1>2, ClockAssumption DEF Time, PipelineTypeOK
  <2> QED BY <1>2, <2>1 DEF Time, PipelineTypeOK, LatchTypeOK, latchVars
<1> QED BY <1>1, <1>2

(* Each step of a call n keeps every call where the invariant has it.      *)
LEMMA CallPlaced ==
  ASSUME PipelineTypeOK, PlaceInv, NEW n \in Moves, Step(n)
  PROVE  PlaceInv'
<1> USE DEF Goto, At, callVars, PipelineTypeOK, PlaceInv, PlanOnly,
            PlanOnlyModes
<1>1. CASE Call(n)
  <2>1. FileInv'
    BY <1>1 DEF Call, FileInv, HasFile
  <2>2. PlanOnlyInv'
    BY <1>1 DEF Call, PlanOnlyInv
  <2>3. SentInv'
    BY <1>1 DEF Call, SentInv
  <2>4. LoadInv'
    BY <1>1 DEF Call, LoadInv, FileInv, HasFile
  <2>5. GoalInv'
    BY <1>1 DEF Call, GoalInv, LoadInv, SentInv
  <2>6. StandingInv'
    BY <1>1 DEF Call, StandingInv, latchVars
  <2>7. GateInv'
    BY <1>1 DEF Call, GateInv, SentInv, StandingInv, latchVars
  <2> QED BY <2>1, <2>2, <2>3, <2>4, <2>5, <2>6, <2>7
<1>2. CASE Gate(n)
  <2>1. FileInv'
    BY <1>2 DEF Gate, Refused, MayAnswer, FileInv, HasFile
  <2>2. PlanOnlyInv'
    BY <1>2 DEF Gate, Refused, MayAnswer, PlanOnlyInv
  <2>3. SentInv'
    BY <1>2 DEF Gate, Refused, MayAnswer, SentInv
  <2>4. LoadInv'
    BY <1>2 DEF Gate, Refused, MayAnswer, LoadInv, FileInv, HasFile
  <2>5. GoalInv'
    BY <1>2 DEF Gate, Refused, MayAnswer, GoalInv, LoadInv, SentInv
  <2>6. StandingInv'
    BY <1>2 DEF Gate, Refused, MayAnswer, StandingInv, latchVars
  <2>7. GateInv'
    BY <1>2 DEF Gate, Refused, MayAnswer, GateInv, SentInv, StandingInv,
      latchVars
  <2> QED BY <2>1, <2>2, <2>3, <2>4, <2>5, <2>6, <2>7
<1>3. CASE ChooseFile(n)
  <2>1. FileInv'
    BY <1>3, ConstantsTyped DEF ChooseFile, PlanName, FileInv, HasFile
  <2>2. PlanOnlyInv'
    BY <1>3 DEF ChooseFile, PlanName, PlanOnlyInv
  <2>3. SentInv'
    BY <1>3 DEF ChooseFile, PlanName, SentInv
  <2>4. LoadInv'
    BY <1>3 DEF ChooseFile, PlanName, LoadInv, FileInv, HasFile
  <2>5. GoalInv'
    BY <1>3 DEF ChooseFile, PlanName, GoalInv, LoadInv, SentInv
  <2>6. StandingInv'
    BY <1>3 DEF ChooseFile, PlanName, StandingInv, latchVars
  <2>7. GateInv'
    BY <1>3 DEF ChooseFile, PlanName, GateInv, SentInv, StandingInv, latchVars
  <2> QED BY <2>1, <2>2, <2>3, <2>4, <2>5, <2>6, <2>7
<1>4. CASE OpenPlan(n)
  <2>1. FileInv'
    BY <1>4 DEF OpenPlan, WriteFile, FileInv, HasFile
  <2>2. PlanOnlyInv'
    BY <1>4 DEF OpenPlan, WriteFile, PlanOnlyInv
  <2>3. SentInv'
    BY <1>4 DEF OpenPlan, WriteFile, SentInv
  <2>4. LoadInv'
    BY <1>4 DEF OpenPlan, WriteFile, LoadInv, FileInv, HasFile
  <2>5. GoalInv'
    BY <1>4 DEF OpenPlan, WriteFile, GoalInv, LoadInv, SentInv
  <2>6. StandingInv'
    BY <1>4 DEF OpenPlan, WriteFile, StandingInv, latchVars
  <2>7. GateInv'
    BY <1>4 DEF OpenPlan, WriteFile, GateInv, SentInv, StandingInv, latchVars
  <2> QED BY <2>1, <2>2, <2>3, <2>4, <2>5, <2>6, <2>7
<1>5. CASE WritePlan(n)
  <2>1. FileInv'
    BY <1>5 DEF WritePlan, WriteFile, AfterPlan, FileInv, HasFile
  <2>2. PlanOnlyInv'
    BY <1>5 DEF WritePlan, WriteFile, AfterPlan, PlanOnlyInv
  <2>3. SentInv'
    BY <1>5 DEF WritePlan, WriteFile, AfterPlan, SentInv
  <2>4. LoadInv'
    BY <1>5 DEF WritePlan, WriteFile, AfterPlan, LoadInv, FileInv, HasFile
  <2>5. GoalInv'
    BY <1>5 DEF WritePlan, WriteFile, AfterPlan, GoalInv, LoadInv, SentInv
  <2>6. StandingInv'
    BY <1>5 DEF WritePlan, WriteFile, AfterPlan, StandingInv, latchVars
  <2>7. GateInv'
    BY <1>5 DEF WritePlan, WriteFile, AfterPlan, GateInv, SentInv, StandingInv,
      latchVars
  <2> QED BY <2>1, <2>2, <2>3, <2>4, <2>5, <2>6, <2>7
<1>6. CASE PlanFails(n)
  <2>1. FileInv'
    BY <1>6 DEF PlanFails, AfterPlan, FileInv, HasFile
  <2>2. PlanOnlyInv'
    BY <1>6 DEF PlanFails, AfterPlan, PlanOnlyInv
  <2>3. SentInv'
    BY <1>6 DEF PlanFails, AfterPlan, SentInv
  <2>4. LoadInv'
    BY <1>6 DEF PlanFails, AfterPlan, LoadInv, FileInv, HasFile
  <2>5. GoalInv'
    BY <1>6 DEF PlanFails, AfterPlan, GoalInv, LoadInv, SentInv
  <2>6. StandingInv'
    BY <1>6 DEF PlanFails, AfterPlan, StandingInv, latchVars
  <2>7. GateInv'
    BY <1>6 DEF PlanFails, AfterPlan, GateInv, SentInv, StandingInv, latchVars
  <2> QED BY <2>1, <2>2, <2>3, <2>4, <2>5, <2>6, <2>7
<1>7. CASE Sample(n)
  <2>1. FileInv'
    BY <1>7 DEF Sample, FileInv, HasFile
  <2>2. PlanOnlyInv'
    BY <1>7 DEF Sample, PlanOnlyInv
  <2>3. SentInv'
    BY <1>7 DEF Sample, SentInv
  <2>4. LoadInv'
    BY <1>7 DEF Sample, LoadInv, FileInv, HasFile
  <2>5. GoalInv'
    BY <1>7 DEF Sample, GoalInv, LoadInv, SentInv
  <2>6. StandingInv'
    BY <1>7 DEF Sample, StandingInv, latchVars
  <2>7. GateInv'
    BY <1>7 DEF Sample, GateInv, SentInv, StandingInv, latchVars
  <2> QED BY <2>1, <2>2, <2>3, <2>4, <2>5, <2>6, <2>7
<1>8. CASE Validate(n)
  <2>1. FileInv'
    BY <1>8 DEF Validate, Verdict, FileInv, HasFile
  <2>2. PlanOnlyInv'
    BY <1>8 DEF Validate, Verdict, PlanOnlyInv
  <2>3. SentInv'
    BY <1>8 DEF Validate, Verdict, SentInv
  <2>4. LoadInv'
    BY <1>8 DEF Validate, Verdict, LoadInv, FileInv, HasFile
  <2>5. GoalInv'
    BY <1>8 DEF Validate, Verdict, GoalInv, LoadInv, SentInv
  <2>6. StandingInv'
    BY <1>8 DEF Validate, Verdict, StandingInv, latchVars
  <2>7. GateInv'
    BY <1>8 DEF Validate, Verdict, GateInv, SentInv, StandingInv, latchVars
  <2> QED BY <2>1, <2>2, <2>3, <2>4, <2>5, <2>6, <2>7
<1>9. CASE Ready(n)
  <2>1. FileInv'
    BY <1>9 DEF Ready, FileInv, HasFile
  <2>2. PlanOnlyInv'
    BY <1>9 DEF Ready, PlanOnlyInv
  <2>3. SentInv'
    BY <1>9 DEF Ready, SentInv
  <2>4. LoadInv'
    BY <1>9 DEF Ready, LoadInv, FileInv, HasFile
  <2>5. GoalInv'
    BY <1>9 DEF Ready, GoalInv, LoadInv, SentInv
  <2>6. StandingInv'
    BY <1>9 DEF Ready, StandingInv, latchVars
  <2>7. GateInv'
    BY <1>9 DEF Ready, GateInv, SentInv, StandingInv, latchVars
  <2> QED BY <2>1, <2>2, <2>3, <2>4, <2>5, <2>6, <2>7
<1>10. CASE Approve(n)
  <2>1. FileInv'
    BY <1>10, ConstantsTyped DEF Approve, FileInv, HasFile
  <2>2. PlanOnlyInv'
    BY <1>10 DEF Approve, PlanOnlyInv
  <2>3. SentInv'
    BY <1>10 DEF Approve, SentInv
  <2>4. LoadInv'
    BY <1>10 DEF Approve, LoadInv, FileInv, HasFile
  <2>5. GoalInv'
    BY <1>10 DEF Approve, GoalInv, LoadInv, SentInv
  <2>6. StandingInv'
    BY <1>10 DEF Approve, StandingInv, latchVars
  <2>7. GateInv'
    BY <1>10 DEF Approve, GateInv, SentInv, StandingInv, latchVars
  <2> QED BY <2>1, <2>2, <2>3, <2>4, <2>5, <2>6, <2>7
<1>11. CASE Recheck(n)
  <2>1. FileInv'
    BY <1>11 DEF Recheck, Verdict, UnchangedSince, FileInv, HasFile
  <2>2. PlanOnlyInv'
    BY <1>11 DEF Recheck, Verdict, UnchangedSince, PlanOnlyInv
  <2>3. SentInv'
    BY <1>11 DEF Recheck, Verdict, UnchangedSince, SentInv
  <2>4. LoadInv'
    BY <1>11 DEF Recheck, Verdict, UnchangedSince, LoadInv, FileInv, HasFile
  <2>5. GoalInv'
    BY <1>11 DEF Recheck, Verdict, UnchangedSince, GoalInv, LoadInv, SentInv
  <2>6. StandingInv'
    BY <1>11 DEF Recheck, Verdict, UnchangedSince, StandingInv, latchVars
  <2>7. GateInv'
    BY <1>11 DEF Recheck, Verdict, UnchangedSince, GateInv, SentInv,
      StandingInv, latchVars
  <2> QED BY <2>1, <2>2, <2>3, <2>4, <2>5, <2>6, <2>7
<1>12. CASE Load(n)
  <2>1. FileInv'
    BY <1>12 DEF Load, FileInv, HasFile
  <2>2. PlanOnlyInv'
    BY <1>12 DEF Load, PlanOnlyInv
  <2>3. SentInv'
    BY <1>12 DEF Load, SentInv
  <2>4. LoadInv'
    BY <1>12 DEF Load, LoadInv, FileInv, HasFile
  <2>5. GoalInv'
    BY <1>12 DEF Load, GoalInv, LoadInv, SentInv
  <2>6. StandingInv'
    BY <1>12 DEF Load, StandingInv, latchVars
  <2>7. GateInv'
    BY <1>12 DEF Load, GateInv, SentInv, StandingInv, latchVars
  <2> QED BY <2>1, <2>2, <2>3, <2>4, <2>5, <2>6, <2>7
<1>13. CASE Send(n)
  <2>1. FileInv'
    BY <1>13 DEF Send, FileInv, HasFile
  <2>2. PlanOnlyInv'
    BY <1>13 DEF Send, PlanOnlyInv
  <2>3. SentInv'
    BY <1>13 DEF Send, SentInv
  <2>4. LoadInv'
    BY <1>13 DEF Send, LoadInv, FileInv, HasFile
  <2>5. GoalInv'
    BY <1>13 DEF Send, GoalInv, LoadInv, SentInv
  <2>6. StandingInv'
    BY <1>13 DEF Send, StandingInv, latchVars
  <2>7. GateInv'
    BY <1>13 DEF Send, GateInv, SentInv, StandingInv, latchVars
  <2> QED BY <2>1, <2>2, <2>3, <2>4, <2>5, <2>6, <2>7
<1>14. CASE NoServer(n)
  <2>1. FileInv'
    BY <1>14 DEF NoServer, FileInv, HasFile
  <2>2. PlanOnlyInv'
    BY <1>14 DEF NoServer, PlanOnlyInv
  <2>3. SentInv'
    BY <1>14 DEF NoServer, SentInv
  <2>4. LoadInv'
    BY <1>14 DEF NoServer, LoadInv, FileInv, HasFile
  <2>5. GoalInv'
    BY <1>14 DEF NoServer, GoalInv, LoadInv, SentInv
  <2>6. StandingInv'
    BY <1>14 DEF NoServer, StandingInv, latchVars
  <2>7. GateInv'
    BY <1>14 DEF NoServer, GateInv, SentInv, StandingInv, latchVars
  <2> QED BY <2>1, <2>2, <2>3, <2>4, <2>5, <2>6, <2>7
<1> QED
  BY <1>1, <1>2, <1>3, <1>4, <1>5, <1>6, <1>7, <1>8, <1>9, <1>10, <1>11, <1>12,
    <1>13, <1>14 DEF Step

(* The monitor and the clock move no call; a lock that is no longer shown  *)
(* stands no longer.                                                       *)
LEMMA EnvironmentPlaced ==
  ASSUME PipelineTypeOK, PlaceInv, Monitor \/ Time
  PROVE  PlaceInv'
<1> USE DEF callVars, PlaceInv, PlanOnly
<1>1. FileInv' /\ PlanOnlyInv' /\ SentInv' /\ LoadInv' /\ GoalInv'
  BY DEF Monitor, Time, FileInv, HasFile, PlanOnlyInv, SentInv, LoadInv, GoalInv
<1>2. StandingInv'
  BY DEF Monitor, Time, StandingInv, latchVars
<1>3. \A m \in Moves : standing'[m] => standing[m]
  BY DEF Monitor, Time
<1>4. GateInv'
  BY <1>3 DEF Monitor, Time, GateInv
<1> QED BY <1>1, <1>2, <1>4

(* Types and places together are inductive.                                *)
LEMMA PipelineInductive == Spec => [](PipelineTypeOK /\ PlaceInv)
<1>1. Init => PipelineTypeOK /\ PlaceInv
  BY InitTyped, InitPlaced
<1>2. PipelineTypeOK /\ PlaceInv /\ [Next]_vars => (PipelineTypeOK /\ PlaceInv)'
  <2> SUFFICES ASSUME PipelineTypeOK, PlaceInv, [Next]_vars
               PROVE  PipelineTypeOK' /\ PlaceInv'
    OBVIOUS
  <2>1. CASE \E m \in Moves : Step(m)
    BY <2>1, CallTyped, CallPlaced DEF PlaceInv
  <2>2. CASE Monitor \/ Time
    BY <2>2, EnvironmentTyped, EnvironmentPlaced
  <2>3. CASE UNCHANGED vars
    <3>1. PipelineTypeOK'
      BY <2>3 DEF vars, latchVars, callVars, PipelineTypeOK, LatchTypeOK
    <3>2. PlaceInv'
      BY <2>3 DEF vars, latchVars, callVars, PlaceInv, FileInv, HasFile,
                  PlanOnlyInv, SentInv, LoadInv, GoalInv, StandingInv,
                  GateInv, PlanOnly
    <3> QED BY <3>1, <3>2
  <2> QED BY <2>1, <2>2, <2>3 DEF Next
<1> QED BY <1>1, <1>2, PTL DEF Spec

(* For any number of concurrent calls the variables keep their types.      *)
THEOREM PipelineTyped == Spec => []PipelineTypeOK
BY PipelineInductive, PTL

(* For any number of concurrent calls, in any modes, the goal sent to the  *)
(* robot is the trajectory that was validated, and a safe one, unless its  *)
(* file was written after the second validation.                           *)
THEOREM ValidatedMoves == Spec => []OnlyValidatedMoves
<1>1. PipelineTypeOK /\ PlaceInv => OnlyValidatedMoves
  BY DEF PlaceInv, GoalInv, OnlyValidatedMoves
<1> QED BY <1>1, PipelineInductive, PTL

(* For any number of concurrent calls, a lock shown from the beginning of  *)
(* a call until its goal is sent was never seen by its gate.               *)
THEOREM StandingLock == Spec => []StandingLockBlocks
<1>1. PipelineTypeOK /\ PlaceInv => StandingLockBlocks
  BY DEF PlaceInv, GateInv, SentInv, PlanOnlyInv, StandingLockBlocks
<1> QED BY <1>1, PipelineInductive, PTL

(* PlanOnlyNeverMoves does not hold, and this is how far it fails: the one *)
(* planOnly call that moves the robot asked for mode trajectory.           *)
OnlyTrajectoryPlansMove ==
  \A m \in Moves : PlanOnly(m) /\ sent[m] => mode[m] = "plan_trajectory"

(* For any number of concurrent calls; where nobody asks for a planOnly    *)
(* trajectory, "plan only, do not execute" is true.                        *)
THEOREM PlanOnlyPlans ==
  /\ Spec => []OnlyTrajectoryPlansMove
  /\ "plan_trajectory" \notin Modes => (Spec => []PlanOnlyNeverMoves)
<1>1. PipelineTypeOK /\ PlaceInv => OnlyTrajectoryPlansMove
  BY DEF PlaceInv, PlanOnlyInv, OnlyTrajectoryPlansMove, PlanOnly,
         PlanOnlyModes
<1>2. Spec => []OnlyTrajectoryPlansMove
  BY <1>1, PipelineInductive, PTL
<1>3. ASSUME "plan_trajectory" \notin Modes PROVE Spec => []PlanOnlyNeverMoves
  <2> DEFINE Asked == mode \in [Moves -> Modes]
  <2>1. Init => Asked
    BY DEF Init
  <2>2. Asked /\ [Next]_vars => Asked'
    <3>1. [Next]_vars => mode' = mode
      BY DEF Next, Step, Call, Gate, ChooseFile, OpenPlan, WritePlan,
             PlanFails, Sample, Validate, Ready, Approve, Recheck, Load, Send,
             NoServer, Monitor, Time, vars, callVars, AfterPlan
    <3> QED BY <3>1
  <2>3. Asked /\ OnlyTrajectoryPlansMove => PlanOnlyNeverMoves
    BY <1>3 DEF OnlyTrajectoryPlansMove, PlanOnlyNeverMoves
  <2> HIDE DEF Asked
  <2> QED BY <1>2, <2>1, <2>2, <2>3, PTL DEF Spec
<1> QED BY <1>2, <1>3
-----------------------------------------------------------------------------
(* Whose plan a call executes.                                             *)

Named(m) == namedAt[m] # NoStamp
Plans(m) == mode[m] \in {"planned", "relative"}
PlanOf(n, p) == namedAt[n] = p /\ (file[p] = Torn \/ file[p].by = n)

(* A call that chose a name plans into the file of that name; one that did *)
(* not and has a file has the caller's.                                    *)
Placed(m) ==
  /\ Named(m) => namedAt[m] \in 0..MaxClock /\ path[m] = namedAt[m]
                 /\ Plans(m)
                 /\ pc[m] \notin {"idle", "gate", "file"}
  /\ HasFile(m) /\ ~Named(m) => path[m] = UserFile
  /\ HasFile(m) /\ Plans(m) => Named(m)
  /\ mode[m] = "trajectory" => pc[m] \notin {"plan", "write"}

NameInv == \A m \in Moves : Placed(m)

(* What is in a plan file was put there by a call that chose its name.     *)
FilesInv ==
  \A p \in 0..MaxClock : file[p] # Absent => \E n \in Moves : PlanOf(n, p)

(* Only another call that chose the same name can write between recheck    *)
(* and load.                                                               *)
RewrittenInv ==
  \A m \in Moves : rewritten[m] =>
    /\ pc[m] \in {"load", "send", "ended"}
    /\ Named(m) => \E n \in Moves \ {m} : namedAt[n] = namedAt[m]

LoadedInv ==
  \A m \in Moves : (pc[m] = "send" \/ sent[m]) =>
    /\ Plans(m) => Named(m)
    /\ Named(m) => \E n \in Moves : /\ namedAt[n] = namedAt[m]
                                     /\ loaded[m].by = n

OwnInv == NameInv /\ FilesInv /\ RewrittenInv /\ LoadedInv

(* The instants, the file of the caller and "no name yet" are all          *)
(* different.                                                              *)
LEMMA NamesDiffer ==
  /\ NoStamp \notin 0..MaxClock /\ UserFile \notin 0..MaxClock
  /\ 0..MaxClock \subseteq Paths
  /\ \A m \in Moves : [by |-> m, safe |-> TRUE].by = m
BY ClockAssumption, SMT DEF NoStamp, UserFile, Paths

(* At the start no plan file is named or written.                          *)
LEMMA InitOwn == Init => OwnInv
<1> SUFFICES ASSUME Init PROVE OwnInv
  OBVIOUS
<1>1. NameInv
  BY DEF Init, NameInv, Placed, Named, HasFile
<1>2. FilesInv
  BY NamesDiffer DEF Init, FilesInv
<1>3. RewrittenInv /\ LoadedInv
  BY DEF Init, RewrittenInv, LoadedInv
<1> QED BY <1>1, <1>2, <1>3 DEF OwnInv

(* The calls are not the names of files that hold no trajectory.           *)
LEMMA CallersNamed == Absent \notin Trajectories /\ Torn \notin Trajectories
BY CallsAssumption DEF Absent, Torn, Trajectories

(* A call n writes a plan file only under its own name.                    *)
LEMMA WriteOwn ==
  ASSUME PipelineTypeOK, PlaceInv, OwnInv, NEW n \in Moves,
         pc[n] \in {"plan", "write"}, NEW content,
         content = Torn \/ content.by = n,
         WriteFile(path[n], content), UNCHANGED namedAt, UNCHANGED path,
         NEW label, Goto(n, label)
  PROVE  FilesInv' /\ RewrittenInv'
<1>1. HasFile(n) /\ path[n] \in Paths
  BY DEF HasFile, PlaceInv, FileInv
<1>2. path[n] \in 0..MaxClock => namedAt[n] = path[n]
  BY <1>1, NamesDiffer DEF OwnInv, NameInv, Placed
<1>3. ASSUME NEW p \in 0..MaxClock, file'[p] # Absent
      PROVE  \E k \in Moves : PlanOf(k, p)'
  <2>1. CASE p = path[n]
    <3>1. file'[p] = content
      BY <1>1, <2>1 DEF WriteFile, PipelineTypeOK
    <3> QED BY <1>2, <1>3, <2>1, <3>1 DEF PlanOf
  <2>2. CASE p # path[n]
    <3>1. file'[p] = file[p]
      BY <2>2, NamesDiffer DEF WriteFile, PipelineTypeOK
    <3>2. PICK k \in Moves : PlanOf(k, p)
      BY <1>3, <3>1 DEF OwnInv, FilesInv
    <3> QED BY <3>1, <3>2 DEF PlanOf
  <2> QED BY <2>1, <2>2
<1>4. ASSUME NEW m \in Moves, rewritten'[m]
      PROVE  pc'[m] \in {"load", "send", "ended"}
  <2>1. pc[m] \in {"load", "send", "ended"}
    BY <1>4 DEF WriteFile, At, OwnInv, RewrittenInv
  <2>2. m # n
    BY <2>1
  <2> QED BY <2>1, <2>2 DEF Goto, PipelineTypeOK
<1>5. ASSUME NEW m \in Moves, rewritten'[m], Named(m)
      PROVE  \E k \in Moves \ {m} : namedAt[k] = namedAt[m]
  <2>1. CASE rewritten[m]
    BY <2>1, <1>5 DEF OwnInv, RewrittenInv
  <2>2. CASE ~rewritten[m]
    <3>1. path[m] = path[n] /\ pc[m] = "load"
      BY <1>5, <2>2 DEF WriteFile, At
    <3>2. path[n] \in 0..MaxClock /\ namedAt[m] = path[n]
      BY <1>5, <3>1 DEF OwnInv, NameInv, Placed
    <3>3. namedAt[n] = namedAt[m] /\ n # m
      BY <1>2, <3>1, <3>2
    <3> QED BY <3>3
  <2> QED BY <2>1, <2>2
<1>6. FilesInv'
  BY <1>3 DEF FilesInv
<1>7. RewrittenInv'
  BY <1>4, <1>5 DEF RewrittenInv, Named
<1> QED BY <1>6, <1>7

(* Each step of a call n keeps every name and every plan where it was.     *)
LEMMA CallOwn ==
  ASSUME PipelineTypeOK, PlaceInv, OwnInv, NEW n \in Moves, Step(n)
  PROVE  OwnInv'
<1> USE DEF Goto, At, callVars, OwnInv, Plans, PlanOnly, PlanOnlyModes
<1>1. CASE OpenPlan(n)
  <2>1. FilesInv' /\ RewrittenInv'
    BY <1>1, WriteOwn DEF OpenPlan
  <2>2. NameInv'
    BY <1>1 DEF OpenPlan, NameInv, Placed, Named, HasFile, PipelineTypeOK
  <2>3. LoadedInv'
    BY <1>1 DEF OpenPlan, LoadedInv, Named, PipelineTypeOK
  <2> QED BY <2>1, <2>2, <2>3
<1>2. CASE WritePlan(n)
  <2>1. PICK safe \in BOOLEAN : WriteFile(path[n], [by |-> n, safe |-> safe])
    BY <1>2 DEF WritePlan
  <2>2. [by |-> n, safe |-> safe].by = n
    OBVIOUS
  <2>3. /\ UNCHANGED namedAt /\ UNCHANGED path /\ pc[n] = "write"
        /\ Goto(n, AfterPlan(n))
    BY <1>2 DEF WritePlan
  <2>4. FilesInv' /\ RewrittenInv'
    BY <2>1, <2>2, <2>3, WriteOwn
  <2>5. NameInv'
    BY <1>2 DEF WritePlan, AfterPlan, NameInv, Placed, Named, HasFile,
      PipelineTypeOK
  <2>6. LoadedInv'
    BY <1>2 DEF WritePlan, AfterPlan, LoadedInv, Named, PipelineTypeOK
  <2> QED BY <2>4, <2>5, <2>6
<1>3. CASE Call(n)
  <2>1. NameInv'
    BY <1>3 DEF Call, NameInv, Placed, Named, HasFile, PipelineTypeOK
  <2>2. FilesInv' /\ RewrittenInv'
    <3>1. UNCHANGED <<file, namedAt>>
      BY <1>3 DEF Call
    <3>2. FilesInv'
      BY <3>1 DEF FilesInv, PlanOf
    <3>3. RewrittenInv'
      BY <1>3 DEF Call, RewrittenInv, Named, PipelineTypeOK
    <3> QED BY <3>2, <3>3
  <2>3. LoadedInv'
    BY <1>3 DEF Call, LoadedInv, Named, PipelineTypeOK
  <2> QED BY <2>1, <2>2, <2>3
<1>4. CASE Gate(n)
  <2>1. NameInv'
    BY <1>4 DEF Gate, Refused, MayAnswer, NameInv, Placed, Named, HasFile,
      PipelineTypeOK
  <2>2. FilesInv' /\ RewrittenInv'
    <3>1. UNCHANGED <<file, namedAt>>
      BY <1>4 DEF Gate, Refused, MayAnswer
    <3>2. FilesInv'
      BY <3>1 DEF FilesInv, PlanOf
    <3>3. RewrittenInv'
      BY <1>4 DEF Gate, Refused, MayAnswer, RewrittenInv, Named, PipelineTypeOK
    <3> QED BY <3>2, <3>3
  <2>3. LoadedInv'
    BY <1>4 DEF Gate, Refused, MayAnswer, LoadedInv, Named, PipelineTypeOK
  <2> QED BY <2>1, <2>2, <2>3
<1>5. CASE ChooseFile(n)
  <2>1. ~Named(n) /\ clock \in 0..MaxClock /\ clock # NoStamp
    BY <1>5, NamesDiffer DEF ChooseFile, NameInv, Placed, PipelineTypeOK
  <2>2. NameInv'
    <3> SUFFICES ASSUME NEW m \in Moves PROVE Placed(m)'
      BY DEF NameInv
    <3> Placed(m)
      BY DEF NameInv
    <3>1. CASE m # n
      BY <1>5, <3>1 DEF ChooseFile, Placed, Named, HasFile, PipelineTypeOK
    <3>2. CASE m = n /\ mode[n] = "trajectory"
      <4>1. path'[n] = UserFile /\ namedAt' = namedAt /\ mode' = mode
        BY <1>5, <3>2 DEF ChooseFile, PipelineTypeOK
      <4>2. pc'[n] \in {"ended", "sample"}
        BY <1>5, <3>2 DEF ChooseFile, PipelineTypeOK
      <4>3. ~Named(n)'
        BY <2>1, <4>1 DEF Named
      <4> QED BY <3>2, <4>1, <4>2, <4>3 DEF Placed
    <3>3. CASE m = n /\ mode[n] # "trajectory" /\ pc'[n] # "plan"
      <4>1. UNCHANGED <<path, namedAt, mode>> /\ pc'[n] = "ended"
        BY <1>5, <3>3 DEF ChooseFile, PipelineTypeOK
      <4> QED BY <2>1, <3>3, <4>1 DEF Placed, Named, HasFile
    <3>4. CASE m = n /\ mode[n] # "trajectory" /\ pc'[n] = "plan"
      <4>1. /\ path'[n] = clock /\ namedAt'[n] = clock /\ pc'[n] = "plan"
            /\ mode' = mode
        BY <1>5, <3>4 DEF ChooseFile, PlanName, PipelineTypeOK
      <4>2. Plans(n)
        BY <1>5, <3>4 DEF ChooseFile, PlaceInv, PlanOnlyInv, PipelineTypeOK,
                          AllModes
      <4> QED BY <2>1, <3>4, <4>1, <4>2 DEF Placed, Named, HasFile
    <3> QED BY <3>1, <3>2, <3>3, <3>4
  <2>3. FilesInv'
    BY <1>5, NamesDiffer DEF ChooseFile, PlanName, FilesInv, PlanOf, NameInv,
             Placed, Named, PipelineTypeOK
  <2>4. RewrittenInv'
    BY <1>5, NamesDiffer DEF ChooseFile, PlanName, RewrittenInv, NameInv,
             Placed, Named, PipelineTypeOK
  <2>5. LoadedInv'
    BY <1>5, NamesDiffer DEF ChooseFile, PlanName, LoadedInv, NameInv, Placed,
             Named, PlaceInv, SentInv, PipelineTypeOK
  <2> QED BY <2>2, <2>3, <2>4, <2>5
<1>6. CASE PlanFails(n)
  <2>1. NameInv'
    BY <1>6 DEF PlanFails, AfterPlan, NameInv, Placed, Named, HasFile,
      PipelineTypeOK
  <2>2. FilesInv' /\ RewrittenInv'
    <3>1. UNCHANGED <<file, namedAt>>
      BY <1>6 DEF PlanFails, AfterPlan
    <3>2. FilesInv'
      BY <3>1 DEF FilesInv, PlanOf
    <3>3. RewrittenInv'
      BY <1>6 DEF PlanFails, AfterPlan, RewrittenInv, Named, PipelineTypeOK
    <3> QED BY <3>2, <3>3
  <2>3. LoadedInv'
    BY <1>6 DEF PlanFails, AfterPlan, LoadedInv, Named, PipelineTypeOK
  <2> QED BY <2>1, <2>2, <2>3
<1>7. CASE Sample(n)
  <2>1. NameInv'
    BY <1>7 DEF Sample, NameInv, Placed, Named, HasFile, PipelineTypeOK
  <2>2. FilesInv' /\ RewrittenInv'
    <3>1. UNCHANGED <<file, namedAt>>
      BY <1>7 DEF Sample
    <3>2. FilesInv'
      BY <3>1 DEF FilesInv, PlanOf
    <3>3. RewrittenInv'
      BY <1>7 DEF Sample, RewrittenInv, Named, PipelineTypeOK
    <3> QED BY <3>2, <3>3
  <2>3. LoadedInv'
    BY <1>7 DEF Sample, LoadedInv, Named, PipelineTypeOK
  <2> QED BY <2>1, <2>2, <2>3
<1>8. CASE Validate(n)
  <2>1. NameInv'
    BY <1>8 DEF Validate, Verdict, NameInv, Placed, Named, HasFile,
      PipelineTypeOK
  <2>2. FilesInv' /\ RewrittenInv'
    <3>1. UNCHANGED <<file, namedAt>>
      BY <1>8 DEF Validate, Verdict
    <3>2. FilesInv'
      BY <3>1 DEF FilesInv, PlanOf
    <3>3. RewrittenInv'
      BY <1>8 DEF Validate, Verdict, RewrittenInv, Named, PipelineTypeOK
    <3> QED BY <3>2, <3>3
  <2>3. LoadedInv'
    BY <1>8 DEF Validate, Verdict, LoadedInv, Named, PipelineTypeOK
  <2> QED BY <2>1, <2>2, <2>3
<1>9. CASE Ready(n)
  <2>1. NameInv'
    BY <1>9 DEF Ready, NameInv, Placed, Named, HasFile, PipelineTypeOK
  <2>2. FilesInv' /\ RewrittenInv'
    <3>1. UNCHANGED <<file, namedAt>>
      BY <1>9 DEF Ready
    <3>2. FilesInv'
      BY <3>1 DEF FilesInv, PlanOf
    <3>3. RewrittenInv'
      BY <1>9 DEF Ready, RewrittenInv, Named, PipelineTypeOK
    <3> QED BY <3>2, <3>3
  <2>3. LoadedInv'
    BY <1>9 DEF Ready, LoadedInv, Named, PipelineTypeOK
  <2> QED BY <2>1, <2>2, <2>3
<1>10. CASE Approve(n)
  <2>1. NameInv'
    BY <1>10 DEF Approve, NameInv, Placed, Named, HasFile, PipelineTypeOK
  <2>2. FilesInv' /\ RewrittenInv'
    <3>1. UNCHANGED <<file, namedAt>>
      BY <1>10 DEF Approve
    <3>2. FilesInv'
      BY <3>1 DEF FilesInv, PlanOf
    <3>3. RewrittenInv'
      BY <1>10 DEF Approve, RewrittenInv, Named, PipelineTypeOK
    <3> QED BY <3>2, <3>3
  <2>3. LoadedInv'
    BY <1>10 DEF Approve, LoadedInv, Named, PipelineTypeOK
  <2> QED BY <2>1, <2>2, <2>3
<1>11. CASE Recheck(n)
  <2>1. NameInv'
    BY <1>11 DEF Recheck, Verdict, UnchangedSince, NameInv, Placed, Named,
      HasFile, PipelineTypeOK
  <2>2. FilesInv' /\ RewrittenInv'
    <3>1. UNCHANGED <<file, namedAt>>
      BY <1>11 DEF Recheck, Verdict, UnchangedSince
    <3>2. FilesInv'
      BY <3>1 DEF FilesInv, PlanOf
    <3>3. RewrittenInv'
      BY <1>11 DEF Recheck, Verdict, UnchangedSince, RewrittenInv, Named,
                   PipelineTypeOK
    <3> QED BY <3>2, <3>3
  <2>3. LoadedInv'
    BY <1>11 DEF Recheck, Verdict, UnchangedSince, LoadedInv, Named,
      PipelineTypeOK
  <2> QED BY <2>1, <2>2, <2>3
<1>12. CASE Load(n)
  <2>1. NameInv'
    BY <1>12 DEF Load, NameInv, Placed, Named, HasFile, PipelineTypeOK
  <2>2. FilesInv' /\ RewrittenInv'
    <3>1. UNCHANGED <<file, namedAt>>
      BY <1>12 DEF Load
    <3>2. FilesInv'
      BY <3>1 DEF FilesInv, PlanOf
    <3>3. RewrittenInv'
      BY <1>12 DEF Load, RewrittenInv, Named, PipelineTypeOK
    <3> QED BY <3>2, <3>3
  <2>3. HasFile(n) /\ (Plans(n) => Named(n))
    BY <1>12 DEF Load, HasFile, NameInv, Placed, PlaceInv, PlanOnlyInv
  <2>4. ASSUME Named(n), file[path[n]] \in Trajectories
        PROVE  \E j \in Moves : namedAt[j] = namedAt[n] /\ file[path[n]].by = j
    <3>1. path[n] = namedAt[n] /\ path[n] \in 0..MaxClock
      BY <2>4 DEF NameInv, Placed
    <3>2. file[path[n]] # Absent /\ file[path[n]] # Torn
      BY <2>4, CallersNamed
    <3>3. PICK j \in Moves : PlanOf(j, path[n])
      BY <3>1, <3>2 DEF FilesInv
    <3> QED BY <3>1, <3>2, <3>3 DEF PlanOf
  <2>5. LoadedInv'
    BY <1>12, <2>3, <2>4 DEF Load, LoadedInv, Named, PipelineTypeOK
  <2> QED BY <2>1, <2>2, <2>5
<1>13. CASE Send(n)
  <2>1. NameInv'
    BY <1>13 DEF Send, NameInv, Placed, Named, HasFile, PipelineTypeOK
  <2>2. FilesInv' /\ RewrittenInv'
    <3>1. UNCHANGED <<file, namedAt>>
      BY <1>13 DEF Send
    <3>2. FilesInv'
      BY <3>1 DEF FilesInv, PlanOf
    <3>3. RewrittenInv'
      BY <1>13 DEF Send, RewrittenInv, Named, PipelineTypeOK
    <3> QED BY <3>2, <3>3
  <2>3. LoadedInv'
    BY <1>13 DEF Send, LoadedInv, Named, PipelineTypeOK
  <2> QED BY <2>1, <2>2, <2>3
<1>14. CASE NoServer(n)
  <2>1. NameInv'
    BY <1>14 DEF NoServer, NameInv, Placed, Named, HasFile, PipelineTypeOK
  <2>2. FilesInv' /\ RewrittenInv'
    <3>1. UNCHANGED <<file, namedAt>>
      BY <1>14 DEF NoServer
    <3>2. FilesInv'
      BY <3>1 DEF FilesInv, PlanOf
    <3>3. RewrittenInv'
      BY <1>14 DEF NoServer, RewrittenInv, Named, PipelineTypeOK
    <3> QED BY <3>2, <3>3
  <2>3. LoadedInv'
    BY <1>14 DEF NoServer, LoadedInv, Named, PipelineTypeOK
  <2> QED BY <2>1, <2>2, <2>3
<1> QED
  BY <1>1, <1>2, <1>3, <1>4, <1>5, <1>6, <1>7, <1>8, <1>9, <1>10, <1>11, <1>12,
    <1>13, <1>14 DEF Step

(* Every plan file belongs to a call that was named after its instant.     *)
LEMMA OwnInductive == Spec => []OwnInv
<1>1. PipelineTypeOK /\ PlaceInv /\ OwnInv /\ [Next]_vars => OwnInv'
  <2> SUFFICES ASSUME PipelineTypeOK, PlaceInv, OwnInv, [Next]_vars
               PROVE  OwnInv'
    OBVIOUS
  <2>1. CASE \E m \in Moves : Step(m)
    BY <2>1, CallOwn
  <2>2. CASE Monitor \/ Time \/ UNCHANGED vars
    <3>1. UNCHANGED <<pc, mode, path, namedAt, file, loaded, sent, rewritten>>
      BY <2>2 DEF Monitor, Time, vars, callVars
    <3> QED BY <3>1 DEF OwnInv, NameInv, Placed, Named, HasFile, FilesInv,
                        PlanOf, RewrittenInv, LoadedInv, Plans, PlanOnly
  <2> QED BY <2>1, <2>2 DEF Next
<1> QED BY <1>1, InitOwn, PipelineInductive, PTL DEF Spec

(* For any number of concurrent calls, a call that plans executes its own  *)
(* plan, and a safe one, unless another call chose its file's name in the  *)
(* same millisecond.                                                       *)
THEOREM OwnPlan == Spec => []OwnPlanMoves
<1>1. PipelineTypeOK /\ PlaceInv /\ OwnInv => OwnPlanMoves
  <2> SUFFICES ASSUME PlaceInv, OwnInv, NEW m \in Moves, sent[m],
                      Plans(m), NoTwin(m)
               PROVE  loaded[m].by = m /\ loaded[m].safe
    BY DEF OwnPlanMoves, Plans
  <2>1. Named(m)
    BY DEF OwnInv, LoadedInv
  <2>2. loaded[m].by = m
    BY <2>1 DEF OwnInv, LoadedInv, NoTwin
  <2>3. ~rewritten[m]
    BY <2>1 DEF OwnInv, RewrittenInv, NoTwin
  <2>4. loaded[m].safe
    BY <2>3 DEF PlaceInv, GoalInv, PlanOnly, PlanOnlyModes, Plans
  <2> QED BY <2>2, <2>4
<1> QED BY <1>1, PipelineInductive, OwnInductive, PTL
-----------------------------------------------------------------------------
(* The pipeline implements MotionPermit.                                   *)

(* Nothing is known of an answer before the gate, and a helper that is     *)
(* about to send has read a trajectory.                                    *)
HandInv ==
  \A m \in Moves :
    /\ pc[m] \in {"idle", "gate"} => ~unanswered[m]
    /\ pc[m] = "send" => loaded[m] \in Trajectories

PermitInv == PipelineTypeOK /\ PlaceInv /\ HandInv

LEMMA HandStep == ASSUME PermitInv, [Next]_vars PROVE HandInv'
<1> USE DEF PermitInv, PipelineTypeOK, HandInv, Goto, At, callVars, AfterPlan
<1>1. ASSUME NEW n \in Moves, Step(n) PROVE HandInv'
  BY <1>1 DEF Step, Call, Gate, ChooseFile, OpenPlan, WritePlan, PlanFails,
     Sample, Validate, Ready, Approve, Recheck, Load, Send, NoServer
<1>2. CASE Monitor \/ Time \/ UNCHANGED vars
  BY <1>2 DEF Monitor, Time, vars
<1> QED
  BY <1>1, <1>2 DEF Next

(* A step of one call is seen as a step of that call, and of the files.    *)
LEMMA StepLocal ==
  ASSUME PermitInv, NEW n \in Moves, Step(n)
  PROVE  /\ UNCHANGED <<shown, mode>>
         /\ \A m \in Moves \ {n} :
              /\ (StageOf(m))' = StageOf(m)
              /\ (JudgedOf(m))' = JudgedOf(m)
              /\ (GoalOf(m))' = GoalOf(m)
<1>1. /\ UNCHANGED <<shown, mode>>
      /\ \A m \in Moves \ {n} :
           /\ pc'[m] = pc[m] /\ sent'[m] = sent[m]
           /\ validated'[m] = validated[m] /\ loaded'[m] = loaded[m]
  BY DEF PermitInv, PipelineTypeOK, Goto, callVars, latchVars, Step, Call,
     Gate, ChooseFile, OpenPlan, WritePlan, PlanFails, Sample, Validate,
     Ready, Approve, Recheck, Load, Send, NoServer
<1>2. ASSUME NEW m \in Moves \ {n} PROVE (StageOf(m))' = StageOf(m)
  <2>1. pc'[m] = pc[m] /\ sent'[m] = sent[m] /\ mode'[m] = mode[m]
    BY <1>1
  <2> QED
    BY <2>1 DEF StageOf, PlanOnly
<1> QED
  BY <1>1, <1>2 DEF JudgedOf, GoalOf

(* The same, put together: what the step of call n may change.             *)
LEMMA StepSeen ==
  ASSUME PermitInv, NEW n \in Moves, Step(n),
         NEW s, NEW j, NEW g,
         s = (StageOf(n))', j = (JudgedOf(n))', g = (GoalOf(n))'
  PROVE  /\ (shown = "LOCKED")' = (shown = "LOCKED")
         /\ Stages' = [Stages EXCEPT ![n] = s]
         /\ Judgements' = [Judgements EXCEPT ![n] = j]
         /\ Goals' = [Goals EXCEPT ![n] = g]
         /\ Stages[n] = StageOf(n)
         /\ Judgements[n] = JudgedOf(n) /\ Goals[n] = GoalOf(n)
         /\ s = StageOf(n) => Stages' = Stages
         /\ j = JudgedOf(n) => Judgements' = Judgements
         /\ g = GoalOf(n) => Goals' = Goals
<1>1. /\ UNCHANGED shown
      /\ \A m \in Moves \ {n} :
           /\ (StageOf(m))' = StageOf(m)
           /\ (JudgedOf(m))' = JudgedOf(m)
           /\ (GoalOf(m))' = GoalOf(m)
  BY StepLocal
<1>2. Stages' = [m \in Moves |-> IF m = n THEN s ELSE StageOf(m)]
  BY <1>1 DEF Stages
<1>3. Judgements' = [m \in Moves |-> IF m = n THEN j ELSE JudgedOf(m)]
  BY <1>1 DEF Judgements
<1>4. Goals' = [m \in Moves |-> IF m = n THEN g ELSE GoalOf(m)]
  BY <1>1 DEF Goals
<1> QED
  BY <1>1, <1>2, <1>3, <1>4 DEF Stages, Judgements, Goals

(* A step that leaves its call where it was seen, and no file written.     *)
LEMMA StepUnseen ==
  ASSUME PermitInv, NEW n \in Moves, Step(n),
         (StageOf(n))' = StageOf(n), (JudgedOf(n))' = JudgedOf(n),
         (GoalOf(n))' = GoalOf(n), UNCHANGED unanswered
  PROVE  /\ UNCHANGED rewritten => UNCHANGED Permit!permitVars
         /\ UNCHANGED <<shown, Stages, Judgements, Goals>>
<1>1. UNCHANGED <<Stages, Judgements, Goals>> /\ UNCHANGED shown
  BY StepSeen, StepLocal
<1> QED
  BY <1>1 DEF Permit!permitVars

(* A step that ends its call before it moves.                              *)
LEMMA StepGivesUp ==
  ASSUME PermitInv, NEW n \in Moves, Step(n), ~PlanOnly(n),
         pc[n] # "ended", pc'[n] = "ended", ~sent'[n],
         UNCHANGED <<unanswered, rewritten>>
  PROVE  Permit!GiveUp(n)
<1>1. mode' = mode
  BY StepLocal
<1>2. (StageOf(n))' = "over"
  BY <1>1 DEF StageOf, PlanOnly
<1>3. StageOf(n) \in Permit!Underway
  BY DEF PermitInv, PipelineTypeOK, Labels, StageOf, Permit!Underway
<1>4. (JudgedOf(n))' = Absent /\ (GoalOf(n))' = Absent /\ GoalOf(n) = Absent
  BY <1>2, <1>3 DEF JudgedOf, GoalOf, Permit!Underway
<1>5. /\ (shown = "LOCKED")' = (shown = "LOCKED")
      /\ Stages' = [Stages EXCEPT ![n] = "over"]
      /\ Judgements' = [Judgements EXCEPT ![n] = Absent]
      /\ Goals' = Goals /\ Stages[n] = StageOf(n)
  BY <1>2, <1>4, StepSeen
<1> QED
  BY <1>3, <1>5 DEF Permit!GiveUp

(* A helper's write is seen by the calls that are about to load the file.  *)
LEMMA WriteIsSwap ==
  ASSUME PermitInv, NEW p, NEW content, WriteFile(p, content),
         UNCHANGED <<shown, Stages, Judgements, Goals, unanswered>>
  PROVE  \E S \in SUBSET Moves : Permit!Swap(S)
<1> DEFINE S == {m \in Moves : path[m] = p /\ At(m, "load")}
<1>1. ASSUME NEW m \in S PROVE Stages[m] \in {"granted", "exempt"}
  BY DEF Stages, StageOf, At
<1>2. rewritten' = [m \in Moves |-> rewritten[m] \/ m \in S]
  BY DEF WriteFile
<1>3. S \in SUBSET Moves
  OBVIOUS
<1> HIDE DEF S
<1>4. Permit!Swap(S)
  BY <1>1, <1>2 DEF Permit!Swap
<1> QED
  BY <1>3, <1>4

(* A planOnly call is exempt: it can only write over what others load.     *)
LEMMA ExemptIsPermitted ==
  ASSUME PermitInv, NEW n \in Moves, Step(n), PlanOnly(n)
  PROVE  \/ UNCHANGED Permit!permitVars
         \/ \E S \in SUBSET Moves : Permit!Swap(S)
<1>1. mode' = mode
  BY StepLocal
<1>2. StageOf(n) = "exempt" /\ (StageOf(n))' = "exempt"
  BY <1>1 DEF StageOf, PlanOnly
<1>3. /\ (JudgedOf(n))' = JudgedOf(n)
      /\ (GoalOf(n))' = GoalOf(n)
  BY <1>2 DEF JudgedOf, GoalOf
<1>4. pc[n] # "gate"
  BY DEF PermitInv, PlaceInv, PlanOnlyInv, PlanOnly, PlanOnlyModes
<1>5. UNCHANGED unanswered
  BY <1>4 DEF At, callVars, Step, Call, Gate, ChooseFile, OpenPlan,
     WritePlan, PlanFails, Sample, Validate, Ready, Approve, Recheck, Load,
     Send, NoServer
<1>6. \/ UNCHANGED rewritten
      \/ \E p, content : WriteFile(p, content)
  BY DEF callVars, Step, Call, Gate, ChooseFile, OpenPlan, WritePlan,
     PlanFails, Sample, Validate, Ready, Approve, Recheck, Load, Send, NoServer
<1> QED
  BY <1>2, <1>3, <1>5, <1>6, StepUnseen, WriteIsSwap

LEMMA GateIsPermitted ==
  ASSUME PermitInv, NEW n \in Moves, Gate(n), ~PlanOnly(n)
  PROVE  Permit!Clear(n) \/ Permit!GiveUp(n)
<1> USE DEF Goto, At
<1>t. /\ pc[n] = "gate" /\ ~unanswered[n] /\ mode' = mode /\ sent' = sent
      /\ pc \in [Moves -> Labels] /\ unanswered \in [Moves -> BOOLEAN]
      /\ rewritten' = rewritten /\ validated' = validated
      /\ loaded' = loaded /\ Step(n) /\ shown' = shown
  BY DEF PermitInv, PipelineTypeOK, HandInv, Gate, Step, latchVars
<1>1. PICK answered \in BOOLEAN :
        /\ pc' = [pc EXCEPT ![n] = IF Refused(n, answered) THEN "ended"
                                                           ELSE "file"]
        /\ unanswered' = [unanswered EXCEPT ![n] = ~answered]
  BY DEF Gate, MayAnswer
<1>2. CASE Refused(n, answered)
  <2>1. unanswered' = unanswered
    <3>1. (~answered) = unanswered[n]
      BY <1>t, <1>2 DEF Refused
    <3> QED
      BY <1>t, <1>1, <3>1
  <2>2. pc'[n] = "ended" /\ ~sent'[n]
    BY <1>t, <1>1, <1>2 DEF PermitInv, PlaceInv, SentInv
  <2> QED
    BY <1>t, <2>1, <2>2, StepGivesUp
<1>3. CASE ~Refused(n, answered)
  <2>1. pc'[n] = "file"
    BY <1>t, <1>1, <1>3
  <2>2. StageOf(n) = "asked" /\ (StageOf(n))' = "cleared"
    BY <1>t, <2>1 DEF StageOf, PlanOnly
  <2>3. /\ (JudgedOf(n))' = JudgedOf(n) /\ (GoalOf(n))' = GoalOf(n)
    BY <2>2 DEF JudgedOf, GoalOf
  <2>4. /\ (shown = "LOCKED")' = (shown = "LOCKED")
        /\ Stages' = [Stages EXCEPT ![n] = "cleared"]
        /\ Stages[n] = "asked"
        /\ Judgements' = Judgements /\ Goals' = Goals
    BY <1>t, <2>2, <2>3, StepSeen
  <2>5. shown = "LOCKED" => ~answered
    BY <1>3 DEF Refused
  <2>6. (~answered) \in BOOLEAN
    BY <1>1
  <2> QED
    BY <1>t, <1>1, <2>4, <2>5, <2>6 DEF Permit!Clear, Permit!Advance
<1> QED
  BY <1>2, <1>3

LEMMA ValidateIsPermitted ==
  ASSUME PermitInv, NEW n \in Moves, Validate(n), ~PlanOnly(n)
  PROVE  Permit!Judge(n) \/ Permit!GiveUp(n)
<1> USE DEF Goto, At
<1>t. /\ pc[n] = "validate" /\ mode' = mode /\ sent' = sent
      /\ pc \in [Moves -> Labels] /\ validated \in [Moves -> Contents]
      /\ UNCHANGED <<unanswered, rewritten, loaded, shown>> /\ Step(n)
      /\ validated' = [validated EXCEPT ![n] = file[path[n]]]
      /\ pc' = [pc EXCEPT ![n] = IF Verdict(n) THEN "ready" ELSE "ended"]
  BY DEF PermitInv, PipelineTypeOK, Validate, Step, latchVars
<1>1. CASE ~Verdict(n)
  BY <1>t, <1>1, StepGivesUp DEF PermitInv, PlaceInv, SentInv
<1>2. CASE Verdict(n)
  <2> DEFINE plan == file[path[n]]
  <2>1. plan \in Trajectories /\ plan.safe
    BY <1>2 DEF Verdict
  <2>2. pc'[n] = "ready" /\ validated'[n] = plan
    BY <1>t, <1>2
  <2>3. StageOf(n) = "cleared" /\ (StageOf(n))' = "judged"
    BY <1>t, <2>2 DEF StageOf, PlanOnly
  <2>4. /\ (JudgedOf(n))' = plan /\ (GoalOf(n))' = GoalOf(n)
    BY <2>2, <2>3 DEF JudgedOf, GoalOf
  <2> HIDE DEF plan
  <2>5. /\ (shown = "LOCKED")' = (shown = "LOCKED")
        /\ Stages' = [Stages EXCEPT ![n] = "judged"]
        /\ Stages[n] = "cleared"
        /\ Judgements' = [Judgements EXCEPT ![n] = plan] /\ Goals' = Goals
    BY <1>t, <2>3, <2>4, StepSeen
  <2> QED
    BY <1>t, <2>1, <2>5 DEF Permit!Judge, Permit!Advance
<1> QED
  BY <1>1, <1>2

LEMMA ApproveIsPermitted ==
  ASSUME PermitInv, NEW n \in Moves, Approve(n), ~PlanOnly(n)
  PROVE  Permit!Grant(n) \/ Permit!GiveUp(n)
<1> USE DEF Goto, At
<1>t. /\ pc[n] = "approve" /\ mode' = mode /\ sent' = sent
      /\ pc \in [Moves -> Labels]
      /\ UNCHANGED <<unanswered, rewritten, loaded, validated, shown>>
      /\ Step(n)
      /\ pc'[n] \in {"recheck", "ended"}
  BY DEF PermitInv, PipelineTypeOK, Approve, Step, latchVars
<1>1. CASE pc'[n] = "ended"
  BY <1>t, <1>1, StepGivesUp DEF PermitInv, PlaceInv, SentInv
<1>2. CASE pc'[n] = "recheck"
  <2>1. StageOf(n) = "judged" /\ (StageOf(n))' = "granted"
    BY <1>t, <1>2 DEF StageOf, PlanOnly
  <2>2. (JudgedOf(n))' = JudgedOf(n) /\ (GoalOf(n))' = GoalOf(n)
    BY <1>t, <2>1 DEF JudgedOf, GoalOf
  <2>3. /\ (shown = "LOCKED")' = (shown = "LOCKED")
        /\ Stages' = [Stages EXCEPT ![n] = "granted"]
        /\ Stages[n] = "judged" /\ Judgements' = Judgements /\ Goals' = Goals
    BY <1>t, <2>1, <2>2, StepSeen
  <2> QED
    BY <1>t, <2>3 DEF Permit!Grant, Permit!Advance
<1> QED
  BY <1>t, <1>1, <1>2

LEMMA SendIsPermitted ==
  ASSUME PermitInv, NEW n \in Moves, Send(n), ~PlanOnly(n)
  PROVE  Permit!Move(n)
<1> USE DEF Goto, At
<1>t. /\ pc[n] = "send" /\ mode' = mode /\ sent'[n] /\ pc'[n] = "ended"
      /\ UNCHANGED <<unanswered, rewritten, loaded, validated, shown>>
      /\ Step(n)
  BY DEF PermitInv, PipelineTypeOK, Send, Step, latchVars
<1>1. StageOf(n) = "granted" /\ (StageOf(n))' = "moved"
  BY <1>t DEF StageOf, PlanOnly
<1>2. /\ (JudgedOf(n))' = JudgedOf(n) /\ JudgedOf(n) = validated[n]
      /\ (GoalOf(n))' = loaded[n]
  BY <1>t, <1>1 DEF JudgedOf, GoalOf
<1>3. loaded[n] \in Trajectories /\ (~rewritten[n] => loaded[n] = validated[n])
  BY <1>t DEF PermitInv, HandInv, PlaceInv, GoalInv
<1>4. /\ (shown = "LOCKED")' = (shown = "LOCKED")
      /\ Stages' = [Stages EXCEPT ![n] = "moved"]
      /\ Stages[n] = "granted" /\ Judgements' = Judgements
      /\ Judgements[n] = validated[n]
      /\ Goals' = [Goals EXCEPT ![n] = loaded[n]]
  <2>1. PICK g \in Trajectories : g = loaded[n]
    BY <1>3
  <2> QED
    BY <1>t, <1>1, <1>2, <2>1, StepSeen
<1> QED
  BY <1>t, <1>3, <1>4 DEF Permit!Move, Permit!Advance

(* The other steps of a call that is to move: they leave it at its stage,  *)
(* or end it.                                                              *)
LEMMA WorkIsPermitted ==
  ASSUME PermitInv, NEW n \in Moves, ~PlanOnly(n),
         \/ Call(n) \/ ChooseFile(n) \/ OpenPlan(n) \/ WritePlan(n)
         \/ PlanFails(n) \/ Sample(n) \/ Ready(n) \/ Recheck(n) \/ Load(n)
         \/ NoServer(n)
  PROVE  \/ Permit!GiveUp(n) \/ UNCHANGED Permit!permitVars
         \/ \E S \in SUBSET Moves : Permit!Swap(S)
<1> USE DEF Goto, At, callVars
<1>t. /\ pc \in [Moves -> Labels] /\ Step(n)
      /\ UNCHANGED <<mode, unanswered, sent, validated>>
      /\ pc[n] # "ended"
  BY DEF PermitInv, PipelineTypeOK, Step, Call, ChooseFile, OpenPlan,
     WritePlan, PlanFails, Sample, Ready, Recheck, Load, NoServer
<1>s. ~sent[n]
  BY <1>t DEF PermitInv, PlaceInv, SentInv
<1>m. mode[n] # "plan_only"
  BY DEF PlanOnly, PlanOnlyModes
<1>1. CASE pc'[n] = "ended"
  <2>1. UNCHANGED rewritten
    BY <1>t, <1>1, <1>m DEF Call, ChooseFile, OpenPlan, WritePlan, PlanFails,
       Sample, Ready, Recheck, Load, NoServer, AfterPlan
  <2> QED
    BY <1>t, <1>s, <1>1, <2>1, StepGivesUp
<1>2. CASE pc'[n] # "ended"
  <2>1. \/ pc[n] = "idle" /\ pc'[n] = "gate"
        \/ pc[n] = "file" /\ pc'[n] \in {"sample", "plan"}
        \/ pc[n] = "plan" /\ pc'[n] \in {"write", "sample"}
        \/ pc[n] = "write" /\ pc'[n] = "sample"
        \/ pc[n] = "sample" /\ pc'[n] = "validate"
        \/ pc[n] = "ready" /\ pc'[n] = "approve"
        \/ pc[n] = "recheck" /\ pc'[n] = "load"
        \/ pc[n] = "load" /\ pc'[n] = "send"
    BY <1>t, <1>2, <1>m DEF Call, ChooseFile, OpenPlan, WritePlan, PlanFails,
       Sample, Ready, Recheck, Load, NoServer, AfterPlan
  <2>2. (StageOf(n))' = StageOf(n) /\ StageOf(n) # "moved"
    BY <1>t, <2>1 DEF StageOf, PlanOnly
  <2>3. (JudgedOf(n))' = JudgedOf(n) /\ (GoalOf(n))' = GoalOf(n)
    BY <1>t, <2>2 DEF JudgedOf, GoalOf
  <2>4. \/ UNCHANGED rewritten
        \/ \E p, content : WriteFile(p, content)
    BY DEF Call, ChooseFile, OpenPlan, WritePlan, PlanFails, Sample, Ready,
       Recheck, Load, NoServer
  <2> QED
    BY <1>t, <2>2, <2>3, <2>4, StepUnseen, WriteIsSwap
<1> QED
  BY <1>1, <1>2

LEMMA EnvironmentIsPermitted ==
  ASSUME PermitInv, Monitor \/ Time \/ UNCHANGED vars
  PROVE  (\E l \in BOOLEAN : Permit!Show(l)) \/ UNCHANGED Permit!permitVars
<1>1. UNCHANGED <<pc, mode, sent, validated, loaded, unanswered, rewritten>>
  BY DEF Monitor, Time, vars, callVars
<1>2. UNCHANGED <<Stages, Judgements, Goals>>
  BY <1>1 DEF Stages, Judgements, Goals, StageOf, JudgedOf, GoalOf, PlanOnly
<1>3. PICK l \in BOOLEAN : l = (shown' = "LOCKED")
  OBVIOUS
<1>4. Permit!Show(l)
  BY <1>1, <1>2, <1>3 DEF Permit!Show
<1> QED
  BY <1>4

(* However concurrent calls interleave, for any modes and times: a motion  *)
(* passes the gate, the checks and the human in this order, and what moves *)
(* is the safe trajectory that was judged, unless it was written over.     *)
THEOREM MotionsArePermitted == Spec => ImplementsPermit
<1>1. Init => PermitInv /\ Permit!PermitInit
  <2> SUFFICES ASSUME Init PROVE PermitInv /\ Permit!PermitInit
    OBVIOUS
  <2>1. PermitInv
    BY InitTyped, InitPlaced DEF Init, PermitInv, HandInv
  <2>2. \A m \in Moves : StageOf(m) \in {"asked", "exempt"}
    BY DEF Init, StageOf
  <2>3. \A m \in Moves : JudgedOf(m) = Absent /\ GoalOf(m) = Absent
    BY <2>2 DEF JudgedOf, GoalOf
  <2> QED
    BY <2>1, <2>2, <2>3 DEF Init, LatchInit, Permit!PermitInit, Stages,
       Judgements, Goals
<1>2. PermitInv /\ [Next]_vars => HandInv'
  BY HandStep
<1>3. PermitInv /\ [Next]_vars => [Permit!PermitNext]_(Permit!permitVars)
  <2> SUFFICES ASSUME PermitInv, [Next]_vars
               PROVE  Permit!PermitNext \/ UNCHANGED Permit!permitVars
    OBVIOUS
  <2>1. CASE Monitor \/ Time \/ UNCHANGED vars
    BY <2>1, EnvironmentIsPermitted DEF Permit!PermitNext
  <2>2. ASSUME NEW n \in Moves, Step(n)
        PROVE  Permit!PermitNext \/ UNCHANGED Permit!permitVars
    <3>1. CASE PlanOnly(n)
      BY <2>2, <3>1, ExemptIsPermitted DEF Permit!PermitNext
    <3>2. CASE ~PlanOnly(n)
      BY <2>2, <3>2, GateIsPermitted, ValidateIsPermitted, ApproveIsPermitted,
         SendIsPermitted, WorkIsPermitted DEF Step, Permit!PermitNext
    <3> QED
      BY <3>1, <3>2
  <2> QED
    BY <2>1, <2>2 DEF Next
<1> QED
  BY <1>1, <1>2, <1>3, PipelineInductive, PTL
     DEF Spec, PermitInv, ImplementsPermit, Permit!PermitSpec
=============================================================================
