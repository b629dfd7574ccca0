---------------------------- MODULE ExecWatchdog ----------------------------
(***************************************************************************)
(* The execution phase of moveit_move: two watchdogs over one trajectory.  *)
(* The inner one is the helper's (moveit_move.py, mode trajectory, with    *)
(* MoveGroupClient of moveit_common.py): it cancels the goal when the      *)
(* result does not come in time.  The outer one is runCommand's timer      *)
(* (common/src/runner.ts), which kills what it started.  Time is counted   *)
(* in units of five seconds.                                               *)
(***************************************************************************)
EXTENDS Naturals

CONSTANTS
  Requests,    \* the timeoutMs a caller may ask for; 18 is the default
  StartMax,    \* environment: the helper connects to the graph within this
  AnswerMax    \* environment: move_group answers a goal within this, or never

ASSUME TimesAssumption ==
  Requests \subseteq Nat /\ StartMax \in 0..6 /\ AnswerMax \in Nat

VARIABLES
  requested,   \* timeoutMs of this call
  clock,       \* time since runCommand started the helper
  helper,      \* where the helper is
  since,       \* when it began to wait there
  goal,        \* the goal at the action server
  cancelAsked, \* the helper sent a cancel request
  call         \* runCommand: "running", or "returned"

vars == <<requested, clock, helper, since, goal, cancelAsked, call>>

AtLeast(low, n) == IF n < low THEN low ELSE n

(* --timeout of the helper: at least ten seconds.                          *)
Timeout == AtLeast(2, requested)

(* Mutant: the outer timer is the helper's.                                *)
OuterTight == Timeout

(* timeoutMs of runCommand: at least thirty seconds, and ten more.         *)
Outer == AtLeast(6, requested) + 2

(* MoveGroupClient.wait.                                                   *)
WaitMax == 2

Waiting == {"start", "wait", "send", "result"}
Helpers == Waiting \cup {"exit", "gone"}
Goals == {"none", "sent", "lost", "executing", "rejected", "ended"}

(* Bound: no helper waits longer, an orphan of the kill included.          *)
Horizon == Outer + 2 * Timeout

(* The type of every variable of ExecWatchdog.                           *)
WatchdogTypeOK ==
  /\ requested \in Requests
  /\ clock \in 0..Horizon
  /\ helper \in Helpers
  /\ since \in 0..clock
  /\ goal \in Goals
  /\ cancelAsked \in BOOLEAN
  /\ call \in {"running", "returned"}

Init ==
  /\ requested \in Requests
  /\ clock = 0 /\ helper = "start" /\ since = 0
  /\ goal = "none" /\ cancelAsked = FALSE /\ call = "running"

Enter(stage) == helper' = stage /\ since' = clock

(* Mutant: a future is awaited without its timeout.                        *)
ExpiredNever(delay) == FALSE

(* wait_for_server and spin_until_future_complete give up.                 *)
Expired(delay) == clock >= since + delay

-----------------------------------------------------------------------------
(* The helper.                                                             *)

(* It loads SRDF and trajectory, or ends on an error, then looks for       *)
(* /move_action (although it is going to use /execute_trajectory).         *)
Start ==
  /\ helper = "start"
  /\ Enter("wait") \/ Enter("exit")
  /\ UNCHANGED <<requested, clock, goal, cancelAsked, call>>

(* The request reaches an action server, or none: nobody waited for it.    *)
SendGoal ==
  /\ helper = "wait"
  /\ Enter("send")
  /\ goal' \in {"sent", "lost"}
  /\ UNCHANGED <<requested, clock, cancelAsked, call>>

NoServer ==
  /\ helper = "wait" /\ Expired(WaitMax)
  /\ Enter("exit")
  /\ UNCHANGED <<requested, clock, goal, cancelAsked, call>>

GoalAnswered ==
  /\ helper = "send" /\ goal \in {"executing", "ended", "rejected"}
  /\ Enter(IF goal = "rejected" THEN "exit" ELSE "result")
  /\ UNCHANGED <<requested, clock, goal, cancelAsked, call>>

(* No handle, no cancel: the error is that of a rejected goal.             *)
SendTimesOut ==
  /\ helper = "send" /\ Expired(Timeout)
  /\ Enter("exit")
  /\ UNCHANGED <<requested, clock, goal, cancelAsked, call>>

ResultArrives ==
  /\ helper = "result" /\ goal = "ended"
  /\ Enter("exit")
  /\ UNCHANGED <<requested, clock, goal, cancelAsked, call>>

(* Mutant: the timeout is reported like any other failure.                 *)
CancelNothing == cancelAsked

(* _cancel: fire and forget.                                               *)
Cancel == TRUE

ResultTimesOut ==
  /\ helper = "result" /\ Expired(Timeout)
  /\ cancelAsked' = Cancel
  /\ Enter("exit")
  /\ UNCHANGED <<requested, clock, goal, call>>

(* The end of the process is what runCommand waits for.                    *)
Exit ==
  /\ helper = "exit"
  /\ helper' = "gone"
  /\ call' = "returned"
  /\ UNCHANGED <<requested, clock, since, goal, cancelAsked>>

(* The SIGKILL of execFile goes to the process it started: the helper, or  *)
(* the `bash -lc` in front of it, which then leaves the helper running.    *)
KillOuter ==
  /\ call = "running" /\ clock >= Outer
  /\ call' = "returned"
  /\ helper' \in {helper, "gone"}
  /\ UNCHANGED <<requested, clock, since, goal, cancelAsked>>

-----------------------------------------------------------------------------
(* move_group.                                                             *)

ServerAnswers ==
  /\ goal = "sent"
  /\ goal' \in {"executing", "rejected"}
  /\ UNCHANGED <<requested, clock, helper, since, cancelAsked, call>>

(* The motion ends, by itself or on the cancel request, or never.          *)
ServerEnds ==
  /\ goal = "executing"
  /\ goal' = "ended"
  /\ UNCHANGED <<requested, clock, helper, since, cancelAsked, call>>

(* Time does not pass a deadline that somebody is about to meet, and ends  *)
(* with the last wait.                                                     *)
Due(stage, delay) == helper = stage /\ Expired(delay)
AnswerDue == goal \notin {"none", "lost"} /\ Due("send", AnswerMax)

Tick ==
  /\ IF call = "running" THEN clock < Outer ELSE helper \in Waiting
  /\ ~Due("start", StartMax) /\ ~Due("wait", WaitMax)
  /\ ~AnswerDue /\ ~Due("send", Timeout) /\ ~Due("result", Timeout)
  /\ clock' = clock + 1
  /\ UNCHANGED <<requested, helper, since, goal, cancelAsked, call>>

Helper ==
  \/ Start \/ SendGoal \/ NoServer \/ GoalAnswered \/ SendTimesOut
  \/ ResultArrives \/ ResultTimesOut \/ Exit

Next == Helper \/ KillOuter \/ ServerAnswers \/ ServerEnds \/ Tick

(* The helper's steps, the timers and the clock go on; the shutdown of the *)
(* helper may hang, and the action server owes nobody an answer or an end. *)
Fairness ==
  /\ WF_vars(Helper /\ helper # "exit")
  /\ WF_vars(KillOuter)
  /\ WF_vars(ServerAnswers /\ AnswerDue)
  /\ WF_vars(Tick)

Spec == Init /\ [][Next]_vars
FairSpec == Spec /\ Fairness
-----------------------------------------------------------------------------
(* Properties.                                                             *)

(* What runCommand allows above the helper's own timeout: ten seconds.     *)
Grace == 2

(* The helper's start, its wait for the server, the answer to the goal and *)
(* the whole timeout fit into the outer timer.                             *)
Margin ==
  /\ StartMax + WaitMax + AnswerMax + Timeout < Outer
  /\ AnswerMax < Timeout

(* Nobody is left to watch a trajectory that goes on without a cancel.     *)
LeftMoving == helper = "gone" /\ goal = "executing" /\ ~cancelAsked

(* The only helper that leaves one, of those whose goals are answered in   *)
(* time, was killed while it watched, having begun to wait ten seconds or  *)
(* more after its start; and not even so when the outer timer has room     *)
(* for all its waits.  (moveit_common.py's watchdog against runCommand's.) *)
NoRunawayTrajectory ==
  LeftMoving => ~Margin /\ (AnswerMax < Timeout => since >= Grace)

(* A trajectory that does not end is cancelled in the end, unless its      *)
(* helper is killed in such a late wait.                                   *)
OverrunIsCancelled ==
  goal = "executing" ~>
    (goal = "ended" \/ cancelAsked \/ (LeftMoving /\ since >= Grace))

(* moveit_common.py:114-115: "never leave the robot moving while the       *)
(* caller has given up".                                                   *)
NeverLeftMoving == ~LeftMoving
=============================================================================
