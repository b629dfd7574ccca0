------------------------- MODULE ExecWatchdogProofs -------------------------
(***************************************************************************)
(* The two watchdogs for every timeout a caller may ask for: which helper  *)
(* may leave a trajectory behind, and when the inner watchdog always comes *)
(* first.                                                                  *)
(***************************************************************************)
EXTENDS ExecWatchdog, TLAPS

(* How late each stage of the helper can be.                               *)
StageInv ==
  /\ requested \in Requests /\ clock \in Nat /\ since \in Nat
  /\ helper = "start" => since = 0 /\ clock <= StartMax
  /\ helper = "wait" => since <= StartMax /\ clock <= since + WaitMax
  /\ helper = "send" =>
       /\ since <= StartMax + WaitMax /\ clock <= since + Timeout
       /\ goal # "none"
       /\ goal # "lost" => clock <= since + AnswerMax
  /\ helper = "result" =>
       since <= StartMax + WaitMax + AnswerMax /\ clock <= since + Timeout

(* Nothing is asked of the server any more, but what a cancel ends.        *)
Settled ==
  \/ goal \in {"none", "lost", "rejected", "ended"}
  \/ goal = "executing" /\ cancelAsked

(* What the goal is at each stage: a helper that ends by itself leaves     *)
(* nothing behind, and one that is killed was late.                        *)
GoalInv ==
  /\ helper \in Helpers
  /\ helper \in {"start", "wait"} => goal = "none"
  /\ helper = "send" =>
       goal \in {"sent", "lost", "executing", "rejected", "ended"}
  /\ helper = "result" => goal \in {"executing", "ended"}
  /\ helper = "exit" => Settled
  /\ helper = "gone" => Settled \/ (~Margin /\ since >= Grace)

WatchInv == StageInv /\ (AnswerMax < Timeout => GoalInv)

(* The two timers and the wait for the server are numbers, and the outer   *)
(* timer is ten seconds longer.                                            *)
LEMMA TimesTyped ==
  ASSUME requested \in Requests
  PROVE  /\ Timeout \in Nat /\ Outer \in Nat /\ WaitMax \in Nat
         /\ StartMax \in Nat /\ AnswerMax \in Nat
         /\ Timeout + Grace <= Outer /\ Grace = 2
BY TimesAssumption DEF Timeout, Outer, WaitMax, AtLeast, Grace

(* A call keeps the timeout it was made with.                              *)
LEMMA TimesStay ==
  ASSUME [Next]_vars
  PROVE  requested' = requested /\ Timeout' = Timeout /\ Outer' = Outer
<1>1. requested' = requested
  BY DEF Next, Helper, Start, SendGoal, NoServer, GoalAnswered, SendTimesOut,
         ResultArrives, ResultTimesOut, Exit, KillOuter, ServerAnswers,
         ServerEnds, Tick, vars
<1> QED BY <1>1 DEF Timeout, Outer, AtLeast

(* A helper that starts is in time and has sent nothing.                   *)
LEMMA StartedInTime == Init => WatchInv
BY TimesAssumption, SMT
DEF Init, WatchInv, StageInv, GoalInv, Helpers, Waiting

(* No step makes a stage of the helper last longer than its own wait.      *)
LEMMA StageStep ==
  ASSUME StageInv, [Next]_vars
  PROVE  StageInv'
<1>0. requested \in Requests
  BY DEF StageInv
<1> USE <1>0, TimesTyped, TimesStay DEF StageInv, Enter, Expired
<1>1. CASE Helper
  BY <1>1 DEF Helper, Start, SendGoal, NoServer, GoalAnswered, SendTimesOut,
              ResultArrives, ResultTimesOut, Exit
<1>2. CASE KillOuter
  BY <1>2 DEF KillOuter
<1>3. CASE ServerAnswers \/ ServerEnds
  BY <1>3 DEF ServerAnswers, ServerEnds
<1>4. CASE Tick
  BY <1>4 DEF Tick, Due, AnswerDue
<1>5. CASE UNCHANGED vars
  BY <1>5 DEF vars
<1> QED BY <1>1, <1>2, <1>3, <1>4, <1>5 DEF Next

(* No step but a late kill leaves a trajectory without helper and cancel.  *)
LEMMA GoalStep ==
  ASSUME StageInv, GoalInv, AnswerMax < Timeout, [Next]_vars
  PROVE  GoalInv'
<1>0. requested \in Requests
  BY DEF StageInv
<1>m. Margin' = Margin
  BY TimesStay DEF Margin
<1> USE <1>0, <1>m, TimesTyped DEF GoalInv, Enter, Helpers, Waiting, Settled
<1>1. CASE Helper
  <2>1. CASE SendTimesOut
    <3>1. goal = "lost"
      BY <2>1 DEF SendTimesOut, Expired, StageInv
    <3> QED BY <2>1, <3>1 DEF SendTimesOut
  <2>2. CASE Start \/ SendGoal \/ NoServer \/ GoalAnswered
    BY <2>2 DEF Start, SendGoal, NoServer, GoalAnswered
  <2>3. CASE ResultArrives \/ ResultTimesOut \/ Exit
    BY <2>3 DEF ResultArrives, ResultTimesOut, Cancel, Exit
  <2> QED BY <1>1, <2>1, <2>2, <2>3 DEF Helper
<1>2. CASE KillOuter
  <2>1. UNCHANGED <<since, goal, cancelAsked>> /\ helper' \in {helper, "gone"}
        /\ clock >= Outer
    BY <1>2 DEF KillOuter
  <2>2. CASE helper \in {"send", "result"} /\ goal # "lost"
    <3>1. clock <= since + Timeout
          /\ clock <= StartMax + WaitMax + AnswerMax + Timeout
      BY <2>2 DEF StageInv
    <3>2. since >= Grace
      BY <2>1, <3>1 DEF StageInv
    <3>3. ~Margin
      BY <2>1, <3>1 DEF StageInv, Margin
    <3> QED BY <2>1, <3>2, <3>3
  <2>3. CASE ~(helper \in {"send", "result"} /\ goal # "lost")
    BY <2>1, <2>3
  <2> QED BY <2>2, <2>3
<1>3. CASE ServerAnswers \/ ServerEnds
  BY <1>3 DEF ServerAnswers, ServerEnds
<1>4. CASE Tick
  BY <1>4 DEF Tick
<1>5. CASE UNCHANGED vars
  BY <1>5 DEF vars
<1> QED BY <1>1, <1>2, <1>3, <1>4, <1>5 DEF Next

(* The stages and the goal, of every state of a call.                      *)
LEMMA WatchInvariant == Spec => []WatchInv
<1>1. WatchInv /\ [Next]_vars => WatchInv'
  BY StageStep, GoalStep, TimesStay DEF WatchInv
<1> QED BY <1>1, StartedInTime, PTL DEF Spec

(* For every request, start and answer time: only a helper killed in a     *)
(* late wait leaves a trajectory that goes on without a cancel, and none   *)
(* when the outer timer has room for all its waits (moveit tools.ts,       *)
(* timeoutMs; moveit_common.py, execution watchdog).                       *)
THEOREM OnlyLateHelpersRunAway == Spec => []NoRunawayTrajectory
<1>1. ASSUME WatchInv PROVE NoRunawayTrajectory
  <2> SUFFICES ASSUME LeftMoving
               PROVE  ~Margin /\ (AnswerMax < Timeout => since >= Grace)
    BY DEF NoRunawayTrajectory
  <2>1. CASE AnswerMax < Timeout
    BY <1>1, <2>1 DEF WatchInv, GoalInv, Settled, LeftMoving
  <2>2. CASE ~(AnswerMax < Timeout)
    BY <2>2 DEF Margin
  <2> QED BY <2>1, <2>2
<1> QED BY <1>1, WatchInvariant, PTL

(* Whoever asks for a timeout that fits, with the start-up and the answer, *)
(* into 25 seconds is safe: the outer timer is never below forty.          *)
ShortRequestIsSafe ==
  StartMax + AnswerMax + Timeout <= 5 /\ AnswerMax <= 1 => NeverLeftMoving

(* For every such request, the promise of moveit_common.py:114 holds.      *)
THEOREM ShortTimeoutSuffices == Spec => []ShortRequestIsSafe
<1>1. ASSUME WatchInv, NoRunawayTrajectory PROVE ShortRequestIsSafe
  <2> SUFFICES ASSUME StartMax + AnswerMax + Timeout <= 5, AnswerMax <= 1
               PROVE  Margin
    BY <1>1 DEF ShortRequestIsSafe, NeverLeftMoving, NoRunawayTrajectory
  <2>1. requested \in Requests
    BY <1>1 DEF WatchInv, StageInv
  <2> QED BY <2>1, TimesAssumption
          DEF Margin, Timeout, Outer, WaitMax, AtLeast
<1> QED BY <1>1, WatchInvariant, OnlyLateHelpersRunAway, PTL

(* No request of thirty seconds or more, the default among them, has the   *)
(* margin, however fast the helper starts: the wait for the server alone   *)
(* may take the ten seconds the outer timer adds (tools.ts:367-368).       *)
LongRequestHasNoMargin == requested >= 6 => ~Margin

(* For every environment.                                                  *)
THEOREM DefaultHasNoMargin == Spec => []LongRequestHasNoMargin
<1>1. ASSUME WatchInv PROVE LongRequestHasNoMargin
  <2>1. requested \in Requests
    BY <1>1 DEF WatchInv, StageInv
  <2> QED BY <2>1, TimesAssumption
          DEF LongRequestHasNoMargin, Margin, Timeout, Outer, WaitMax, AtLeast
<1> QED BY <1>1, WatchInvariant, PTL

(* What OverrunIsCancelled leaves open, when: with the margin a trajectory *)
(* that has not ended is uncancelled only until the last deadline that the *)
(* helper can have set itself (ResultTimesOut).                            *)
CancelledInTime ==
  Margin /\ goal = "executing" /\ ~cancelAsked =>
    clock <= StartMax + WaitMax + AnswerMax + Timeout

(* For every timeout, start and answer time with the margin.               *)
THEOREM OverrunsEndInTime == Spec => []CancelledInTime
<1>1. ASSUME WatchInv PROVE CancelledInTime
  <2> SUFFICES ASSUME Margin, goal = "executing", ~cancelAsked
               PROVE  clock <= StartMax + WaitMax + AnswerMax + Timeout
    BY DEF CancelledInTime
  <2>1. helper \in {"send", "result"}
    BY <1>1 DEF Margin, WatchInv, GoalInv, Settled, Helpers, Waiting
  <2>2. requested \in Requests
    BY <1>1 DEF WatchInv, StageInv
  <2> QED BY <1>1, <2>1, <2>2, TimesTyped DEF WatchInv, StageInv
<1> QED BY <1>1, WatchInvariant, PTL
-----------------------------------------------------------------------------
(* How late each stage can be, with or without that margin: the helper may *)
(* outlive the call that started it.                                       *)
LastingInv ==
  /\ requested \in Requests
  /\ clock \in Nat /\ since \in 0..clock
  /\ helper \in Helpers /\ goal \in Goals
  /\ cancelAsked \in BOOLEAN /\ call \in {"running", "returned"}
  /\ clock <= Horizon /\ (call = "running" => clock <= Outer)
  /\ helper = "start" => clock <= StartMax /\ since = 0
  /\ helper = "wait" => since <= StartMax /\ clock <= since + WaitMax
  /\ helper = "send" =>
       since <= StartMax + WaitMax /\ clock <= since + Timeout
  /\ helper = "result" =>
       since <= StartMax + WaitMax + Timeout /\ clock <= since + Timeout

(* No stage ends after the horizon.                                        *)
LEMMA HorizonIsLast ==
  ASSUME requested \in Requests
  PROVE  /\ Horizon \in Nat /\ Outer <= Horizon
         /\ StartMax + WaitMax + 2 * Timeout <= Horizon
BY TimesAssumption DEF Horizon, Timeout, Outer, WaitMax, AtLeast

(* No step makes a stage last longer.                                      *)
LEMMA LastingStep ==
  ASSUME LastingInv, [Next]_vars
  PROVE  LastingInv'
<1>0. requested \in Requests
  BY DEF LastingInv
<1>h. Horizon' = Horizon
  BY TimesStay DEF Horizon
<1> USE <1>0, <1>h, TimesStay, TimesTyped, HorizonIsLast
    DEF LastingInv, Enter, Expired, Helpers, Waiting, Goals
<1>1. CASE Start \/ SendGoal \/ NoServer
  BY <1>1 DEF Start, SendGoal, NoServer
<1>2. CASE GoalAnswered \/ SendTimesOut \/ ResultArrives
  BY <1>2 DEF GoalAnswered, SendTimesOut, ResultArrives
<1>3. CASE ResultTimesOut \/ Exit
  <2>1. cancelAsked' \in BOOLEAN
    BY <1>3 DEF ResultTimesOut, Cancel, Exit
  <2>2. /\ UNCHANGED <<clock, goal>> /\ since' \in 0..clock
        /\ helper' \in {"exit", "gone"} /\ call' \in {call, "returned"}
    BY <1>3 DEF ResultTimesOut, Exit
  <2> QED BY <2>1, <2>2
<1>4. CASE KillOuter
  BY <1>4 DEF KillOuter
<1>5. CASE ServerAnswers \/ ServerEnds
  BY <1>5 DEF ServerAnswers, ServerEnds
<1>6. CASE Tick
  <2>1. /\ clock' = clock + 1
        /\ UNCHANGED <<helper, since, goal, cancelAsked, call>>
    BY <1>6 DEF Tick
  <2>2. clock' <= Horizon
    BY <1>6 DEF Tick, Due
  <2> QED BY <1>6, <2>1, <2>2 DEF Tick, Due
<1>7. CASE UNCHANGED vars
  BY <1>7 DEF vars
<1> QED BY <1>1, <1>2, <1>3, <1>4, <1>5, <1>6, <1>7 DEF Next, Helper

(* The types, and with them that the clock stops at the horizon, for every *)
(* timeout a caller may ask for.                                           *)
THEOREM TypeCorrect == Spec => []WatchdogTypeOK
<1>1. Init => LastingInv
  <2>1. ASSUME Init
        PROVE  0 \in 0..0 /\ 0 <= Outer /\ 0 <= Horizon /\ 0 <= StartMax
    <3>1. requested \in Requests
      BY <2>1 DEF Init
    <3> QED BY <3>1, TimesTyped, HorizonIsLast
  <2>2. ASSUME Init
        PROVE  /\ requested \in Requests
               /\ clock \in Nat /\ since \in 0..clock /\ clock <= Horizon
               /\ (call = "running" => clock <= Outer) /\ clock <= StartMax
               /\ since = 0
    BY <2>1, <2>2 DEF Init
  <2>3. ASSUME Init
        PROVE  /\ helper = "start" /\ helper \in Helpers /\ goal \in Goals
               /\ cancelAsked \in BOOLEAN /\ call \in {"running", "returned"}
    BY <2>3, Zenon DEF Init, Helpers, Waiting, Goals
  <2> QED BY <2>2, <2>3 DEF LastingInv
<1>2. LastingInv /\ [Next]_vars => LastingInv'
  BY LastingStep
<1>3. LastingInv => WatchdogTypeOK
  BY HorizonIsLast DEF LastingInv, WatchdogTypeOK
<1> QED BY <1>1, <1>2, <1>3, PTL DEF Spec
=============================================================================
