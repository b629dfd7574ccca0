--------------------------- MODULE SafetyCheckers ---------------------------
(***************************************************************************)
(* The checkers of safety_core.py as the safety_monitor node feeds them:   *)
(* joint samples and timers are served one at a time by the node's default *)
(* callback group, and every tick judges the sample received last, however *)
(* old it is.  One unit of time is one period of the tick timer; callbacks *)
(* other than the node scan take no time.                                  *)
(***************************************************************************)
EXTENDS Naturals, Sequences, FiniteSets

CONSTANTS
  FeedbackTimeout,     \* feedback.timeout_ms
  OverloadTime,        \* torque.overload_ms
  MinHits, Window,     \* motion.hysteresis: min_frames of the last window
  ScanMax,             \* environment: `ros2 node list` takes at most this
  QueueDepth           \* depth of the subscription

ASSUME CheckerAssumption ==
  /\ {FeedbackTimeout, OverloadTime, ScanMax} \subseteq Nat
  /\ {MinHits, Window, QueueDepth} \subseteq Nat \ {0}
  /\ MinHits <= Window

VARIABLES
  queue,       \* joint samples waiting for the callback
  joints,      \* the last sample handed to the core, or NoJoints
  age,         \* time since then (now_ms - last_seen_ms)
  scanning,    \* the scan runs; scanTime says for how long
  scanTime,
  tickDue,     \* the tick timer is ready
  hits,        \* tracking_hyst: the last hits, latest first
  spikes,      \* _spike_hyst
  prevTau,     \* _prev_tau
  overload,    \* time since _overload_since, or NotOver
  raised,      \* the causes the last tick raised
  silence,     \* history: time since a sample was published
  known,       \* history: samples had been received by then
  reported,    \* history: feedback_loss was raised since then
  fresh,       \* history: a sample was received since the last tick
  freshTicks,  \* history: ticks in a row that saw a new sample, up to 2
  sinceUnder   \* history: time since a tick saw no overload

feedVars == <<queue, joints, age>>
threadVars == <<scanning, scanTime, tickDue>>
checkerVars == <<hits, spikes, prevTau, overload, raised>>
historyVars == <<silence, known, reported, fresh, freshTicks, sinceUnder>>
vars == <<feedVars, threadVars, checkerVars, historyVars>>

(* A sample deviates from the commanded position or does not, and its      *)
(* torque is below (0) or above (1) the limit of a joint.  The two values  *)
(* are far enough apart for the slope limit.                               *)
JointSamples == [dev : BOOLEAN, tau : {0, 1}]
NoJoints == [dev |-> FALSE, tau |-> 2]
NotOver == OverloadTime + 1

(* Bound: silence, age and overload are not counted beyond these.          *)
DetectionBound ==
  FeedbackTimeout + QueueDepth * (FeedbackTimeout + ScanMax)
Count(n, cap) == IF n < cap THEN n + 1 ELSE n

(* The type of every variable of SafetyCheckers.                           *)
CheckersTypeOK ==
  /\ queue \in UNION {[1..n -> JointSamples] : n \in 0..QueueDepth}
  /\ joints \in JointSamples \cup {NoJoints}
  /\ {age, silence} \subseteq 0..(DetectionBound + 1)
  /\ scanTime \in 0..ScanMax
  /\ hits \in UNION {[1..n -> BOOLEAN] : n \in 0..Window}
  /\ spikes \in UNION {[1..n -> BOOLEAN] : n \in 0..2}
  /\ prevTau \in 0..2
  /\ {overload, sinceUnder} \subseteq 0..NotOver
  /\ raised \subseteq {"feedback_loss", "torque_spike", "torque_overload",
                       "tracking_error"}
  /\ freshTicks \in 0..2
  /\ {scanning, tickDue, known, reported, fresh} \subseteq BOOLEAN

Init ==
  /\ queue = <<>> /\ joints = NoJoints /\ age = 0
  /\ scanning = FALSE /\ scanTime = 0 /\ tickDue = FALSE
  /\ hits = <<>> /\ spikes = <<>> /\ prevTau = 2 /\ overload = NotOver
  /\ raised = {}
  /\ silence = 0 /\ known = FALSE /\ reported = FALSE
  /\ fresh = FALSE /\ freshTicks = 0 /\ sinceUnder = 0

-----------------------------------------------------------------------------
(* The checkers.                                                           *)

(* Mutant: the deque has no maxlen.                                        *)
RecordUnbounded(deque, hit, window) == <<hit>> \o deque

(* Hysteresis: record on a bounded deque, then count.                      *)
Record(deque, hit, window) ==
  IF Len(deque) < window THEN <<hit>> \o deque
                         ELSE <<hit>> \o SubSeq(deque, 1, window - 1)
Confirmed(deque, minHits) ==
  Cardinality({i \in DOMAIN deque : deque[i]}) >= minHits

(* Mutant: the comparison is not strict.                                   *)
SilentOrEqual(n) == n >= FeedbackTimeout

(* Mutant: seconds against milliseconds.                                   *)
SilentSeconds(n) == n > 1000 * FeedbackTimeout

(* FeedbackLossChecker.check, once a sample was seen.                      *)
Silent(n) == n > FeedbackTimeout
FeedbackLost == joints # NoJoints /\ Silent(age)

(* MotionChecker.update with a command stream that holds still: before the *)
(* first sample there is no deviation to record but a miss.                *)
NextHits ==
  IF joints = NoJoints THEN Record(hits, FALSE, Window)
                       ELSE Record(hits, joints.dev, Window)

(* TorqueChecker.update runs when there is an effort to look at; a spike   *)
(* needs two samples, and two hits of the last two.                        *)
TorqueSeen == joints # NoJoints
Spike == TorqueSeen /\ prevTau # 2 /\ joints.tau # prevTau

(* Mutant: a tick without a spike records nothing.                         *)
NextSpikesKept == IF Spike THEN Record(spikes, TRUE, 2) ELSE spikes

NextSpikes ==
  IF TorqueSeen /\ prevTau # 2 THEN Record(spikes, Spike, 2) ELSE spikes

Over == TorqueSeen /\ joints.tau = 1
Overloaded == Over /\ overload # NotOver /\ overload >= OverloadTime

(* Mutant: a sample below the limit does not end the overload.             *)
NextOverloadKept ==
  IF Over /\ (Overloaded \/ overload = NotOver) THEN 0 ELSE overload

(* Armed by the first tick above the limit, again by the event itself.     *)
NextOverload ==
  IF ~Over THEN NotOver
           ELSE IF Overloaded \/ overload = NotOver THEN 0 ELSE overload

(* The events of one tick.                                                 *)
Events ==
  (IF FeedbackLost THEN {"feedback_loss"} ELSE {}) \cup
  (IF Spike /\ Confirmed(NextSpikes, 2) THEN {"torque_spike"} ELSE {}) \cup
  (IF Overloaded THEN {"torque_overload"} ELSE {}) \cup
  (IF TorqueSeen /\ joints.dev /\ Confirmed(NextHits, MinHits)
     THEN {"tracking_error"} ELSE {})

-----------------------------------------------------------------------------
(* The callbacks.                                                          *)

Tick ==
  /\ ~scanning /\ tickDue
  /\ tickDue' = FALSE
  /\ hits' = NextHits
  /\ spikes' = NextSpikes
  /\ prevTau' = joints.tau
  /\ overload' = NextOverload
  /\ raised' = Events
  /\ reported' = (reported \/ FeedbackLost)
  /\ fresh' = FALSE
  /\ freshTicks' = IF fresh THEN Count(freshTicks, 2) ELSE 0
  /\ sinceUnder' = IF Over THEN sinceUnder ELSE 0
  /\ UNCHANGED <<feedVars, scanning, scanTime, silence, known>>

(* on_joint_state: the time of the callback counts, not that of the sample.*)
OnJoint ==
  /\ ~scanning /\ queue # <<>>
  /\ joints' = Head(queue)
  /\ queue' = Tail(queue)
  /\ age' = 0
  /\ fresh' = TRUE
  /\ UNCHANGED <<threadVars, checkerVars, silence, known, reported,
                 freshTicks, sinceUnder>>

(* _on_scan runs on the thread of the ticks, which is served before it.    *)
ScanStart ==
  /\ ScanMax > 0
  /\ ~scanning /\ ~tickDue
  /\ scanning' = TRUE /\ scanTime' = 0
  /\ UNCHANGED <<feedVars, tickDue, checkerVars, silence, known, reported,
                 fresh, freshTicks, sinceUnder>>

ScanEnd ==
  /\ scanning
  /\ scanning' = FALSE /\ scanTime' = 0
  /\ UNCHANGED <<feedVars, tickDue, checkerVars, historyVars>>

(* The robot publishes a sample; a full queue loses its oldest.            *)
Publish ==
  /\ \E s \in JointSamples :
       queue' = Append(IF Len(queue) < QueueDepth THEN queue
                                               ELSE Tail(queue), s)
  /\ silence' = 0 /\ reported' = FALSE
  /\ known' = (joints # NoJoints)
  /\ UNCHANGED <<joints, age, threadVars, checkerVars, fresh,
                 freshTicks, sinceUnder>>

(* A free thread serves what is ready before time goes on.                 *)
Time ==
  /\ IF scanning THEN scanTime < ScanMax ELSE ~tickDue /\ queue = <<>>
  /\ tickDue' = TRUE
  /\ scanTime' = IF scanning THEN scanTime + 1 ELSE 0
  /\ age' = Count(age, DetectionBound + 1)
  /\ silence' = Count(silence, DetectionBound + 1)
  /\ overload' = IF overload = NotOver THEN NotOver
                                       ELSE Count(overload, OverloadTime)
  /\ sinceUnder' = Count(sinceUnder, NotOver)
  /\ UNCHANGED <<queue, joints, scanning, hits, spikes, prevTau, raised,
                 known, reported, fresh, freshTicks>>

Next == Tick \/ OnJoint \/ ScanStart \/ ScanEnd \/ Publish \/ Time

Spec == Init /\ [][Next]_vars
-----------------------------------------------------------------------------
(* Properties.                                                             *)

TickRaises(cause) == Tick /\ cause \in raised'

(* A feedback loss is raised only when the robot has been silent for the   *)
(* timeout, or when its samples wait behind the tick that raises it.       *)
LossIsSilenceOrWait ==
  [][TickRaises("feedback_loss") =>
       silence > FeedbackTimeout \/ queue # <<>>]_vars

(* A robot that falls silent is reported within one timeout, and one       *)
(* timeout and one scan more for each sample the queue holds: a sample     *)
(* counts as new when it is read.                                          *)
SilenceIsReported ==
  known /\ silence > DetectionBound =>
    reported \/ tickDue \/ queue # <<>> \/ scanning

(* A spike is confirmed only by two ticks in a row that each saw a new     *)
(* sample: a tick that looks at the same sample again takes the hit back.  *)
SpikeNeedsFreshSamples ==
  [][TickRaises("torque_spike") => fresh /\ freshTicks' = 2]_vars

(* An overload is raised only after no tick saw the torque below its limit *)
(* for the whole time, scans between the ticks or not.                     *)
OverloadIsSustained ==
  [][TickRaises("torque_overload") => sinceUnder >= OverloadTime]_vars
=============================================================================
