--------------------------- MODULE SafetyMonitor ---------------------------
(***************************************************************************)
(* The safety_monitor node (packages/safety/safety/scripts/safety_monitor) *)
(* around the latch of safety_core.py.  Two threads of the node's          *)
(* MultiThreadedExecutor run at once: "cb" runs the callbacks of the       *)
(* default, mutually exclusive group (tick and scan timers, subscriptions),*)
(* "svc" those of the service group.  Every call of SafetyCore holds its   *)
(* lock and is one step; what the node does around it (the flag            *)
(* _locked_published, the publications) is not protected and is one step   *)
(* per access.                                                             *)
(***************************************************************************)
EXTENDS Naturals, FiniteSets

CONSTANTS
  Raised,        \* the causes the checkers can raise in this instance
  MaxCalls,      \* bound: calls of /safety/unlock and /safety/set_lock
  MaxDeaths,     \* bound: deaths of the process
  DumpMayFail    \* TRUE when writing a forensics file may raise

(* SafetyCore.tick collects the events of its checkers in this order, and  *)
(* on_node_scan the two watchdog causes in the same order.                 *)
TickOrder == <<"feedback_loss", "torque_spike", "torque_overload",
               "tracking_error", "stall", "watchdog_critical",
               "watchdog_observed">>

LOCKING_CAUSES == {"tracking_error", "stall", "feedback_loss",
                   "watchdog_critical", "torque_spike", "torque_overload",
                   "semantic_unsafe"}

TickCauses == {TickOrder[i] : i \in 1..7}
Causes == TickCauses \cup {"semantic_unsafe", ""}

ASSUME RaisedAssumption == Raised \subseteq TickCauses
ASSUME BoundsAssumption == MaxCalls \in Nat /\ MaxDeaths \in Nat
ASSUME DumpAssumption == DumpMayFail \in BOOLEAN

VARIABLES
  up,               \* the process runs
  latch,            \* LatchState: state, severity and cause
  lockedPublished,  \* _locked_published
  pc,               \* where each thread is
  msg,              \* the SafetyState each thread is filling
  nodeWatch,        \* the watchdog's entry of one critical node
  nodeAlive,        \* environment: that node is in `ros2 node list`
  cond,             \* environment: the causes the checkers raise at each tick
  lockActive,       \* what a subscriber of /safety/lock_active last received
  stateTopic,       \* the latched sample of /safety/state, or NoSample
  calls, deaths,    \* history, for the bounds
  released,         \* history: an unlock was accepted in this life
  unnamed           \* history: a set_lock of this life gave no cause

vars == <<up, latch, lockedPublished, pc, msg, nodeWatch, nodeAlive, cond,
          lockActive, stateTopic, calls, deaths, released, unnamed>>
envVars == <<nodeAlive, cond>>
boundVars == <<calls, deaths>>
lifeVars == <<released, unnamed>>

Threads == {"cb", "svc"}
Fresh == [state |-> "NORMAL", severity |-> "OK", cause |-> ""]
NoSample == [state |-> "none", severity |-> "none", cause |-> ""]
SeenNode == [misses |-> 0, seen |-> TRUE]
NodeDownMisses == 2

LatchStates == [state : {"NORMAL", "LOCKED"}, severity : {"OK", "CRITICAL"},
                cause : Causes]
Samples == LatchStates \cup {NoSample}
FirePcs == {"fire", "mark", "raise"}
PublishPcs == {"rdState", "rdSeverity", "rdCause", "publish"}
Labels == {"idle", "scan", "clear", "lower"} \cup FirePcs \cup PublishPcs
NodeWatches == [misses : 0..NodeDownMisses, seen : BOOLEAN]

(* The type of every variable of SafetyMonitor.                          *)
TypeOK ==
  /\ up \in BOOLEAN
  /\ latch \in LatchStates
  /\ lockedPublished \in BOOLEAN
  /\ pc \in [Threads -> Labels]
  /\ msg \in [Threads -> LatchStates]
  /\ nodeWatch \in NodeWatches
  /\ nodeAlive \in BOOLEAN
  /\ cond \subseteq Raised
  /\ lockActive \in BOOLEAN
  /\ stateTopic \in Samples
  /\ calls \in 0..MaxCalls
  /\ deaths \in 0..MaxDeaths
  /\ released \in BOOLEAN
  /\ unnamed \in BOOLEAN

Init ==
  /\ up = TRUE
  /\ latch = Fresh
  /\ lockedPublished = FALSE
  /\ pc = [t \in Threads |-> "idle"]
  /\ msg = [t \in Threads |-> Fresh]
  /\ nodeWatch = SeenNode
  /\ nodeAlive = TRUE
  /\ cond = {}
  /\ lockActive = FALSE
  /\ stateTopic = NoSample
  /\ calls = 0
  /\ deaths = 0
  /\ released = FALSE
  /\ unnamed = FALSE

-----------------------------------------------------------------------------
(* LatchState.                                                             *)

Goto(t, label) == pc' = [pc EXCEPT ![t] = label]

(* c is the last of the events E in the order they are triggered.          *)
LastOf(E, c) ==
  /\ c \in E
  /\ \E i \in 1..7 : /\ TickOrder[i] = c
                     /\ \A j \in 1..7 : TickOrder[j] \in E => j <= i

(* LatchState.trigger returned True for one of the events.                 *)
LockedNow(E) == E \cap LOCKING_CAUSES # {}

(* Mutant: the latch takes the severity of a warning.                      *)
LockedWarning(c) == [state |-> "LOCKED", severity |-> "WARNING", cause |-> c]

Locked(c) == [state |-> "LOCKED", severity |-> "CRITICAL", cause |-> c]

(* Mutant: the latch clears itself once no checker raises anything.        *)
TriggerAutoReset(E) ==
  IF LockedNow(E) \/ (latch.state = "LOCKED" /\ E # {})
    THEN \E c \in E : LastOf(E, c) /\ latch' = Locked(c)
    ELSE latch' = Fresh

(* trigger applied to each of the events E: a locking cause latches, and   *)
(* any event that finds the latch set, warnings too, leaves its cause.     *)
Trigger(E) ==
  IF LockedNow(E) \/ (latch.state = "LOCKED" /\ E # {})
    THEN \E c \in E : LastOf(E, c) /\ latch' = Locked(c)
    ELSE UNCHANGED latch

-----------------------------------------------------------------------------
(* The callbacks.                                                          *)

(* An exception of a callback ends executor.spin and the process with it:  *)
(* nothing of the memory is left, nor the publishers' latched samples.     *)
ProcessEnds ==
  /\ deaths < MaxDeaths
  /\ deaths' = deaths + 1
  /\ up' = FALSE
  /\ latch' = Fresh
  /\ lockedPublished' = FALSE
  /\ pc' = [t \in Threads |-> "idle"]
  /\ msg' = [t \in Threads |-> Fresh]
  /\ nodeWatch' = SeenNode
  /\ stateTopic' = NoSample
  /\ released' = FALSE
  /\ unnamed' = FALSE
  /\ UNCHANGED <<envVars, lockActive, calls>>

(* core.tick latches, then dumps the ring buffer while it holds the lock,  *)
(* outside any try: a dump that raises ends the process.                   *)
DumpFails(E) == DumpMayFail /\ LockedNow(E) /\ ProcessEnds

(* Mutant: the tick ignores locked_now.                                    *)
AfterTickSilent(E) == "rdState"

(* Mutant: a tick without a new lock does not publish the state.           *)
AfterTickQuiet(E) == IF LockedNow(E) THEN "fire" ELSE "idle"

(* _on_tick fires the lock when a trigger returned True, then publishes.   *)
AfterTick(E) == IF LockedNow(E) THEN "fire" ELSE "rdState"

Tick ==
  /\ up /\ pc["cb"] = "idle"
  /\ \/ /\ Trigger(cond)
        /\ Goto("cb", AfterTick(cond))
        /\ UNCHANGED <<up, lockedPublished, msg, nodeWatch, envVars,
                       lockActive, stateTopic, boundVars, lifeVars>>
     \/ DumpFails(cond)

(* _on_scan waits for `ros2 node list` on the thread of the ticks.         *)
ScanStart ==
  /\ up /\ pc["cb"] = "idle"
  /\ Goto("cb", "scan")
  /\ UNCHANGED <<up, latch, lockedPublished, msg, nodeWatch, envVars,
                 lockActive, stateTopic, boundVars, lifeVars>>

(* WatchdogChecker.on_node_scan for one critical node: down after two      *)
(* misses in a row, reported once until it is seen again.                  *)
Missed == IF nodeWatch.misses < NodeDownMisses
            THEN nodeWatch.misses + 1 ELSE nodeWatch.misses
NodeDown == ~nodeAlive /\ Missed >= NodeDownMisses /\ nodeWatch.seen
ScanResult ==
  IF nodeAlive
    THEN SeenNode
    ELSE [misses |-> Missed, seen |-> nodeWatch.seen /\ ~NodeDown]

(* Mutant: the scan ignores locked_now.                                    *)
AfterScanSilent(E) == "idle"

(* _on_scan fires and publishes only when a trigger returned True.         *)
AfterScan(E) == IF LockedNow(E) THEN "fire" ELSE "idle"

ScanEnd ==
  LET E == IF NodeDown THEN {"watchdog_critical"} ELSE {} IN
  /\ up /\ pc["cb"] = "scan"
  /\ \/ /\ nodeWatch' = ScanResult
        /\ Trigger(E)
        /\ Goto("cb", AfterScan(E))
        /\ UNCHANGED <<up, lockedPublished, msg, envVars, lockActive,
                       stateTopic, boundVars, lifeVars>>
     \/ DumpFails(E)

-----------------------------------------------------------------------------
(* The services.                                                           *)

Called == calls < MaxCalls /\ calls' = calls + 1

SvcUnlock ==
  /\ up /\ pc["svc"] = "idle" /\ Called
  /\ IF latch.state = "LOCKED"
       THEN latch' = Fresh /\ released' = TRUE /\ Goto("svc", "clear")
       ELSE UNCHANGED <<latch, released>> /\ Goto("svc", "rdState")
  /\ UNCHANGED <<up, lockedPublished, msg, nodeWatch, envVars, lockActive,
                 stateTopic, deaths, unnamed>>

ClearFlag ==
  /\ pc["svc"] = "clear"
  /\ lockedPublished' = FALSE
  /\ Goto("svc", "lower")
  /\ UNCHANGED <<up, latch, msg, nodeWatch, envVars, lockActive, stateTopic,
                 boundVars, lifeVars>>

LowerLock ==
  /\ pc["svc"] = "lower"
  /\ lockActive' = FALSE
  /\ Goto("svc", "rdState")
  /\ UNCHANGED <<up, latch, lockedPublished, msg, nodeWatch, envVars,
                 stateTopic, boundVars, lifeVars>>

(* robot_safety_lock presets the cause only when the caller gives none at  *)
(* all (tools.ts:206, ??): an empty one goes through and is latched.  Any  *)
(* word of the caller's own is latched as "semantic_unsafe" is here.       *)
SetLockCauses == {"semantic_unsafe", ""}

SvcSetLock ==
  /\ up /\ pc["svc"] = "idle" /\ Called
  /\ \E c \in SetLockCauses : /\ latch' = Locked(c)
                              /\ unnamed' = (unnamed \/ c = "")
  /\ Goto("svc", "fire")
  /\ UNCHANGED <<up, lockedPublished, msg, nodeWatch, envVars, lockActive,
                 stateTopic, deaths, released>>

-----------------------------------------------------------------------------
(* _fire_lock: test the flag, set it, publish True.                        *)

TestFlag(t) ==
  /\ pc[t] = "fire"
  /\ Goto(t, IF lockedPublished THEN "rdState" ELSE "mark")
  /\ UNCHANGED <<up, latch, lockedPublished, msg, nodeWatch, envVars,
                 lockActive, stateTopic, boundVars, lifeVars>>

MarkFlag(t) ==
  /\ pc[t] = "mark"
  /\ lockedPublished' = TRUE
  /\ Goto(t, "raise")
  /\ UNCHANGED <<up, latch, msg, nodeWatch, envVars, lockActive, stateTopic,
                 boundVars, lifeVars>>

RaiseLock(t) ==
  /\ pc[t] = "raise"
  /\ lockActive' = TRUE
  /\ Goto(t, "rdState")
  /\ UNCHANGED <<up, latch, lockedPublished, msg, nodeWatch, envVars,
                 stateTopic, boundVars, lifeVars>>

(* _publish_state reads the fields of the latch one by one, unlocked.      *)
ReadField(t, at, field, next) ==
  /\ pc[t] = at
  /\ msg' = [msg EXCEPT ![t] = [@ EXCEPT ![field] = latch[field]]]
  /\ Goto(t, next)
  /\ UNCHANGED <<up, latch, lockedPublished, nodeWatch, envVars, lockActive,
                 stateTopic, boundVars, lifeVars>>

(* Mutant: the severity of the sample is never filled in.                  *)
ReadSeveritySkipped(t) == ReadField(t, "rdSeverity", "state", "rdCause")

ReadState(t) == ReadField(t, "rdState", "state", "rdSeverity")
ReadSeverity(t) == ReadField(t, "rdSeverity", "severity", "rdCause")
ReadCause(t) == ReadField(t, "rdCause", "cause", "publish")

PublishState(t) ==
  /\ pc[t] = "publish"
  /\ stateTopic' = msg[t]
  /\ msg' = [msg EXCEPT ![t] = Fresh]
  /\ Goto(t, "idle")
  /\ UNCHANGED <<up, latch, lockedPublished, nodeWatch, envVars, lockActive,
                 boundVars, lifeVars>>

-----------------------------------------------------------------------------
(* The process and the robot.                                              *)

Kill == up /\ ProcessEnds

(* robot_safety_start launches a new node; subscribers of lock_active keep *)
(* the last value they received until the new node publishes one.          *)
Restart ==
  /\ ~up
  /\ up' = TRUE
  /\ UNCHANGED <<latch, lockedPublished, pc, msg, nodeWatch, envVars,
                 lockActive, stateTopic, boundVars, lifeVars>>

Robot ==
  /\ \/ cond' \in SUBSET Raised /\ cond' # cond /\ UNCHANGED nodeAlive
     \/ nodeAlive' = ~nodeAlive /\ UNCHANGED cond
  /\ UNCHANGED <<up, latch, lockedPublished, pc, msg, nodeWatch, lockActive,
                 stateTopic, boundVars, lifeVars>>

-----------------------------------------------------------------------------
(* What a thread does between the start and the end of a callback.         *)
Continue(t) ==
  \/ TestFlag(t) \/ MarkFlag(t) \/ RaiseLock(t)
  \/ ReadState(t) \/ ReadSeverity(t) \/ ReadCause(t) \/ PublishState(t)

Finish == ClearFlag \/ LowerLock

Next ==
  \/ Tick \/ ScanStart \/ ScanEnd
  \/ SvcUnlock \/ SvcSetLock \/ Finish
  \/ \E t \in Threads : Continue(t)
  \/ Kill \/ Restart \/ Robot

(* A started callback ends (WF).  The executor serves every ready timer in *)
(* turn, so scans do not starve the tick (SF).  Nobody owes a service      *)
(* call, a change of the robot, a death or a restart.                      *)
Fairness ==
  /\ SF_vars(Tick)
  /\ WF_vars(ScanEnd)
  /\ WF_vars(Finish)
  /\ \A t \in Threads : WF_vars(Continue(t))

Spec == Init /\ [][Next]_vars
FairSpec == Spec /\ Fairness
-----------------------------------------------------------------------------
(* Properties.                                                             *)

InFirePath == \E t \in Threads : pc[t] \in FirePcs

(* Until an unlock is accepted, a LOCKED latch has raised lock_active or a *)
(* thread is on its way to raise it, whatever the two threads' order in    *)
(* _fire_lock and even if both find the flag clear.                        *)
FirstLockIsSignalled ==
  (latch.state = "LOCKED" /\ ~released) => (lockActive \/ InFirePath)

(* _publish_state reads field by field while the latch moves: until an     *)
(* unlock is accepted a sample that says LOCKED is nevertheless of one     *)
(* state, for the state is read first and the other fields follow it: it   *)
(* is critical, and has no cause only when a set_lock of this life gave    *)
(* none.                                                                   *)
LockedSampleIsWhole ==
  (stateTopic.state = "LOCKED" /\ ~released) =>
    /\ stateTopic.severity = "CRITICAL"
    /\ stateTopic.cause = "" => unnamed

(* While the process lives, the latch is left by an accepted unlock alone: *)
(* the danger going away, a scan, a warning or a second event keep it.     *)
OnlyUnlockReleases ==
  [][latch.state = "LOCKED" /\ latch'.state = "NORMAL" /\ up'
       => released' /\ pc["svc"] = "idle" /\ calls' = calls + 1]_vars

(* A danger the checkers see at every tick is signalled on lock_active,    *)
(* for as long as it lasts and the process runs.                           *)
DangerIsSignalled ==
  \A c \in Raised \cap LOCKING_CAUSES :
    (up /\ c \in cond) ~> (lockActive \/ ~up \/ c \notin cond)

(* The same until an unlock is accepted: the first danger of a life always *)
(* reaches lock_active, two threads in _fire_lock or not.                  *)
FirstDangerIsSignalled ==
  \A c \in Raised \cap LOCKING_CAUSES :
    (up /\ c \in cond) ~> (lockActive \/ ~up \/ c \notin cond \/ released)

(* The node implements the latch it promises to its clients.               *)
Promise == INSTANCE SafetyLatch WITH
  Restarts <- MaxDeaths > 0,
  state <- IF up THEN latch.state ELSE "DOWN",
  shown <- stateTopic.state,
  taken <- released \/ latch.state = "LOCKED"

ImplementsLatch == Promise!LatchSpec
=============================================================================
