------------------------ MODULE SafetyMonitorProofs ------------------------
(***************************************************************************)
(* Safety of SafetyMonitor for every set of causes and every bound: the    *)
(* types, the signalling of the first lock, the wholeness of LOCKED        *)
(* samples, the latch, and the safety part of the implementation of        *)
(* SafetyLatch.                                                            *)
(***************************************************************************)
EXTENDS SafetyMonitor, TLAPS

(* The constant records the code starts from have the types of their       *)
(* variables.                                                              *)
LEMMA FreshTyped ==
  /\ Fresh \in LatchStates
  /\ NoSample \in Samples
  /\ SeenNode \in NodeWatches
<1>1. Fresh \in LatchStates
  BY DEF Fresh, LatchStates, Causes
<1>2. NoSample \in Samples
  BY DEF Samples
<1>3. SeenNode \in NodeWatches
  BY DEF SeenNode, NodeDownMisses, NodeWatches
<1> QED BY <1>1, <1>2, <1>3

(* A latch locked with a known cause is well typed.                        *)
LEMMA LockedTyped == \A c \in Causes : Locked(c) \in LatchStates
BY DEF Locked, LatchStates

(* Triggering events, whichever they are, leaves the latch as it was or    *)
(* locked with the cause of one of them.                                   *)
LEMMA TriggerEffect ==
  ASSUME NEW E, Trigger(E)
  PROVE  \/ UNCHANGED latch /\ ~LockedNow(E)
         \/ \E c \in TickCauses : latch' = Locked(c)
BY DEF Trigger, LastOf, TickCauses

(* A latch found LOCKED after triggering events was LOCKED before, or one  *)
(* of them is a locking event, of which the caller is told.                *)
LEMMA TriggerTells ==
  ASSUME NEW E, Trigger(E), latch'.state = "LOCKED"
  PROVE  latch.state = "LOCKED" \/ LockedNow(E)
BY DEF Trigger

(* The bound on service calls.                                             *)
LEMMA CalledTyped == TypeOK /\ Called => calls' \in 0..MaxCalls
BY BoundsAssumption DEF Called, TypeOK

(* The end of the process leaves well-typed memory and topics.             *)
LEMMA ProcessEndsTyped == TypeOK /\ ProcessEnds => TypeOK'
<1> SUFFICES ASSUME TypeOK, ProcessEnds PROVE TypeOK'
  OBVIOUS
<1>1. deaths' \in 0..MaxDeaths
  BY BoundsAssumption DEF ProcessEnds, TypeOK
<1> QED BY <1>1, FreshTyped DEF TypeOK, ProcessEnds, envVars, Labels

(* Every variable keeps its type: the fields of the latch and of the       *)
(* samples, the flag, the two program counters and the bounds.             *)
THEOREM TypeCorrect == Spec => []TypeOK
<1>1. Init => TypeOK
  <2> SUFFICES ASSUME Init PROVE TypeOK
    OBVIOUS
  <2>1. calls \in 0..MaxCalls /\ deaths \in 0..MaxDeaths
    BY BoundsAssumption DEF Init
  <2>2. cond \subseteq Raised
    BY DEF Init
  <2> QED BY <2>1, <2>2, FreshTyped DEF Init, TypeOK, Labels
<1>2. TypeOK /\ [Next]_vars => TypeOK'
  <2> SUFFICES ASSUME TypeOK, [Next]_vars PROVE TypeOK'
    OBVIOUS
  <2> USE DEF envVars, boundVars, lifeVars, Goto
  <2>1. ASSUME NEW E, Trigger(E) PROVE latch' \in LatchStates
    BY <2>1, TriggerEffect, LockedTyped DEF TypeOK, Causes
  <2>2. CASE Tick
    <3>1. CASE DumpFails(cond)
      BY <3>1, ProcessEndsTyped DEF DumpFails
    <3>2. CASE ~DumpFails(cond)
      BY <3>2, <2>2, <2>1
      DEF Tick, AfterTick, TypeOK, Labels, FirePcs, PublishPcs
    <3> QED BY <3>1, <3>2
  <2>3. CASE ScanStart
    BY <2>3 DEF ScanStart, TypeOK, Labels
  <2>4. CASE ScanEnd
    <3> DEFINE E == IF NodeDown THEN {"watchdog_critical"} ELSE {}
    <3>1. CASE DumpFails(E)
      BY <3>1, ProcessEndsTyped DEF DumpFails
    <3>2. CASE ~DumpFails(E)
      <4>1. ScanResult \in NodeWatches
        BY FreshTyped
        DEF TypeOK, ScanResult, Missed, NodeWatches, NodeDownMisses
      <4>2. nodeWatch' = ScanResult /\ Trigger(E)
            /\ pc' = [pc EXCEPT !["cb"] = AfterScan(E)]
            /\ UNCHANGED <<up, lockedPublished, msg, envVars, lockActive,
                           stateTopic, boundVars, lifeVars>>
        BY <3>2, <2>4 DEF ScanEnd
      <4>3. latch' \in LatchStates
        BY <4>2, <2>1
      <4> QED BY <4>1, <4>2, <4>3 DEF AfterScan, TypeOK, Labels, FirePcs
    <3> QED BY <3>1, <3>2
  <2>5. CASE SvcUnlock
    BY <2>5, CalledTyped, FreshTyped
    DEF SvcUnlock, TypeOK, Labels, PublishPcs
  <2>6. CASE SvcSetLock
    <3>1. SetLockCauses \subseteq Causes
      BY DEF Causes, SetLockCauses
    <3> QED BY <2>6, <3>1, CalledTyped, LockedTyped
            DEF SvcSetLock, TypeOK, Labels, FirePcs
  <2>7. CASE Finish
    BY <2>7 DEF Finish, ClearFlag, LowerLock, TypeOK, Labels, PublishPcs
  <2>8. CASE \E t \in Threads : Continue(t)
    <3> PICK t \in Threads : Continue(t)
      BY <2>8
    <3>1. CASE TestFlag(t) \/ MarkFlag(t) \/ RaiseLock(t)
      BY <3>1 DEF TestFlag, MarkFlag, RaiseLock,
                  TypeOK, Labels, FirePcs, PublishPcs
    <3>2. CASE ReadState(t)
      BY <3>2 DEF ReadState, ReadField, LatchStates,
                  TypeOK, Labels, PublishPcs
    <3>3. CASE ReadSeverity(t)
      BY <3>3 DEF ReadSeverity, ReadField, LatchStates,
                  TypeOK, Labels, PublishPcs
    <3>4. CASE ReadCause(t)
      BY <3>4 DEF ReadCause, ReadField, LatchStates,
                  TypeOK, Labels, PublishPcs
    <3>5. CASE PublishState(t)
      BY <3>5, FreshTyped DEF PublishState, Samples, TypeOK, Labels
    <3> QED BY <3>1, <3>2, <3>3, <3>4, <3>5 DEF Continue
  <2>9. CASE Kill
    BY <2>9, ProcessEndsTyped DEF Kill
  <2>10. CASE Restart
    BY <2>10 DEF Restart, TypeOK
  <2>11. CASE Robot
    BY <2>11 DEF Robot, TypeOK
  <2>12. CASE UNCHANGED vars
    BY <2>12 DEF vars, TypeOK
  <2> QED
    BY <2>2, <2>3, <2>4, <2>5, <2>6, <2>7, <2>8, <2>9, <2>10, <2>11, <2>12
    DEF Next
<1> QED BY <1>1, <1>2, PTL DEF Spec

-----------------------------------------------------------------------------
(* The first lock of a life.  What makes FirstLockIsSignalled inductive:   *)
(* the flag is set only by a thread that then raises, and only an accepted *)
(* unlock lets a thread clear the flag or lower the topic.                 *)
SignalInv ==
  /\ FirstLockIsSignalled
  /\ (lockedPublished /\ ~released) =>
       lockActive \/ \E t \in Threads : pc[t] = "raise"
  /\ pc["svc"] \in {"clear", "lower"} => released

(* The flag, lock_active and the threads of _fire_lock, until an unlock.   *)
LEMMA SignalInvariant == Spec => []SignalInv
<1>1. Init => SignalInv
  <2> SUFFICES ASSUME Init PROVE SignalInv
    OBVIOUS
  <2>1. latch.state = "NORMAL" /\ lockedPublished = FALSE
        /\ pc["svc"] = "idle"
    BY DEF Init, Fresh, Threads
  <2> QED BY <2>1 DEF SignalInv, FirstLockIsSignalled
<1>2. TypeOK /\ SignalInv /\ [Next]_vars => SignalInv'
  <2> SUFFICES ASSUME TypeOK, SignalInv, [Next]_vars PROVE SignalInv'
    OBVIOUS
  <2> USE DEF SignalInv, FirstLockIsSignalled, InFirePath, FirePcs, Threads,
              Goto, TypeOK, lifeVars
  <2>1. CASE ProcessEnds
    BY <2>1 DEF ProcessEnds, Fresh
  <2>2. CASE Tick
    <3>1. CASE DumpFails(cond)
      BY <3>1, <2>1 DEF DumpFails
    <3>2. CASE ~DumpFails(cond)
      <4>1. Trigger(cond)
            /\ pc' = [pc EXCEPT !["cb"] = AfterTick(cond)]
            /\ UNCHANGED <<lockedPublished, lockActive, released>>
        BY <3>2, <2>2 DEF Tick
      <4>2. CASE LockedNow(cond)
        BY <4>1, <4>2, <2>2 DEF AfterTick, Tick
      <4>3. CASE ~LockedNow(cond)
        BY <4>1, <4>3, <2>2, TriggerTells DEF AfterTick, Tick
      <4> QED BY <4>2, <4>3
    <3> QED BY <3>1, <3>2
  <2>3. CASE ScanStart
    BY <2>3 DEF ScanStart
  <2>4. CASE ScanEnd
    <3> DEFINE E == IF NodeDown THEN {"watchdog_critical"} ELSE {}
    <3>1. CASE DumpFails(E)
      BY <3>1, <2>1 DEF DumpFails
    <3>2. CASE ~DumpFails(E)
      <4>1. Trigger(E)
            /\ pc' = [pc EXCEPT !["cb"] = AfterScan(E)]
            /\ UNCHANGED <<lockedPublished, lockActive, released>>
        BY <3>2, <2>4 DEF ScanEnd
      <4> HIDE DEF E
      <4>2. CASE LockedNow(E)
        BY <4>1, <4>2, <2>4 DEF AfterScan, ScanEnd
      <4>3. CASE ~LockedNow(E)
        BY <4>1, <4>3, <2>4, TriggerTells DEF AfterScan, ScanEnd
      <4> QED BY <4>2, <4>3
    <3> QED BY <3>1, <3>2
  <2>5. CASE SvcUnlock
    BY <2>5 DEF SvcUnlock, Fresh
  <2>6. CASE SvcSetLock
    <3>1. pc["svc"] = "idle"
          /\ UNCHANGED <<lockActive, lockedPublished, released>>
          /\ pc' = [pc EXCEPT !["svc"] = "fire"]
      BY <2>6 DEF SvcSetLock
    <3> QED BY <3>1
  <2>7. CASE Finish
    BY <2>7 DEF Finish, ClearFlag, LowerLock
  <2>8. CASE \E t \in Threads : Continue(t)
    <3> PICK t \in Threads : Continue(t)
      BY <2>8
    <3>1. CASE TestFlag(t) \/ MarkFlag(t) \/ RaiseLock(t)
      BY <3>1 DEF TestFlag, MarkFlag, RaiseLock
    <3>2. CASE ReadState(t) \/ ReadSeverity(t) \/ ReadCause(t)
      BY <3>2 DEF ReadState, ReadSeverity, ReadCause, ReadField
    <3>3. CASE PublishState(t)
      BY <3>3 DEF PublishState
    <3> QED BY <3>1, <3>2, <3>3 DEF Continue
  <2>9. CASE Kill
    BY <2>9, <2>1 DEF Kill
  <2>10. CASE Restart
    BY <2>10 DEF Restart
  <2>11. CASE Robot
    BY <2>11 DEF Robot
  <2>12. CASE UNCHANGED vars
    BY <2>12 DEF vars
  <2> QED
    BY <2>2, <2>3, <2>4, <2>5, <2>6, <2>7, <2>8, <2>9, <2>10, <2>11, <2>12
    DEF Next
<1> QED BY <1>1, <1>2, TypeCorrect, PTL DEF Spec

(* Until an unlock is accepted a LOCKED latch is signalled on lock_active, *)
(* or a thread is in _fire_lock (safety_monitor, _fire_lock).              *)
THEOREM FirstLockSignalled == Spec => []FirstLockIsSignalled
<1>1. SignalInv => FirstLockIsSignalled
  BY DEF SignalInv
<1> QED BY <1>1, SignalInvariant, PTL

-----------------------------------------------------------------------------
(* How far the signal fails.  The one interleaving that leaves a LOCKED    *)
(* latch without its signal is a tick or a scan in _fire_lock while an     *)
(* unlock clears flag and topic (safety_monitor, _svc_unlock).             *)
Racing == pc["svc"] \in {"clear", "lower"} /\ pc["cb"] \in FirePcs

LockIsSignalled == latch.state = "LOCKED" => lockActive \/ InFirePath

(* Without it the flag is a promise of lock_active but for the step in     *)
(* which an unlock clears it, and the latch stays open until the unlock    *)
(* has lowered the topic.                                                  *)
FlagInv ==
  /\ LockIsSignalled
  /\ lockedPublished /\ pc["svc"] # "clear" =>
       lockActive \/ \E t \in Threads : pc[t] = "raise"
  /\ pc["svc"] = "lower" => ~lockedPublished
  /\ pc["svc"] \in {"clear", "lower"} => latch.state = "NORMAL"

(* What a tick or a scan does with its events, apart from an unlock.       *)
LEMMA EventsSignalled ==
  ASSUME TypeOK, FlagInv, NEW E, Trigger(E), pc["cb"] \notin FirePcs,
         NEW l, l \notin FirePcs \cup {"clear", "lower"},
         pc' = [pc EXCEPT !["cb"] = IF LockedNow(E) THEN "fire" ELSE l],
         UNCHANGED <<lockedPublished, lockActive>>, ~Racing'
  PROVE  FlagInv'
<1> USE DEF FlagInv, LockIsSignalled, InFirePath, FirePcs, Threads, TypeOK
<1>1. CASE LockedNow(E)
  BY <1>1 DEF Racing
<1>2. CASE ~LockedNow(E)
  <2>1. latch'.state = "LOCKED" => latch.state = "LOCKED"
    BY <1>2, TriggerTells
  <2>2. latch.state = "NORMAL" => latch'.state = "NORMAL"
    BY <1>2 DEF Trigger
  <2> QED BY <1>2, <2>1, <2>2
<1> QED BY <1>1, <1>2

(* Without the race every step keeps the promise of the flag.              *)
LEMMA FlagStep ==
  ASSUME TypeOK, FlagInv, ~Racing, ~Racing', [Next]_vars
  PROVE  FlagInv'
<1> USE DEF FlagInv, LockIsSignalled, InFirePath, FirePcs, Threads, Goto,
            TypeOK, Racing
<1>1. CASE ProcessEnds
  BY <1>1 DEF ProcessEnds, Fresh
<1>2. CASE Tick
  <2>1. CASE DumpFails(cond)
    BY <2>1, <1>1 DEF DumpFails
  <2>2. CASE ~DumpFails(cond)
    BY <1>2, <2>2, EventsSignalled DEF Tick, AfterTick
  <2> QED BY <2>1, <2>2
<1>3. CASE ScanEnd
  <2> DEFINE E == IF NodeDown THEN {"watchdog_critical"} ELSE {}
  <2>1. CASE DumpFails(E)
    BY <2>1, <1>1 DEF DumpFails
  <2>2. CASE ~DumpFails(E)
    <3>1. Trigger(E) /\ pc["cb"] = "scan"
          /\ pc' = [pc EXCEPT !["cb"] = AfterScan(E)]
          /\ UNCHANGED <<lockedPublished, lockActive>>
      BY <1>3, <2>2 DEF ScanEnd
    <3> HIDE DEF E
    <3> QED BY <3>1, EventsSignalled DEF AfterScan
  <2> QED BY <2>1, <2>2
<1>4. CASE SvcUnlock
  <2>1. pc["svc"] = "idle" /\ pc'["cb"] = pc["cb"]
        /\ UNCHANGED <<lockedPublished, lockActive>>
    BY <1>4 DEF SvcUnlock
  <2>2. \/ pc'["svc"] = "clear" /\ latch'.state = "NORMAL"
        \/ pc'["svc"] = "rdState" /\ UNCHANGED latch
    <3>1. CASE latch.state = "LOCKED"
      <4>1. latch' = Fresh /\ Goto("svc", "clear")
        BY <1>4, <3>1 DEF SvcUnlock
      <4> QED BY <4>1 DEF Fresh
    <3>2. CASE latch.state # "LOCKED"
      BY <1>4, <3>2 DEF SvcUnlock
    <3> QED BY <3>1, <3>2
  <2> QED BY <2>1, <2>2
<1>5. CASE SvcSetLock
  <2>1. pc["svc"] = "idle" /\ pc'["svc"] = "fire" /\ pc'["cb"] = pc["cb"]
        /\ UNCHANGED <<lockedPublished, lockActive>>
    BY <1>5 DEF SvcSetLock
  <2> QED BY <2>1
<1>6. CASE Finish
  BY <1>6 DEF Finish, ClearFlag, LowerLock
<1>7. CASE \E t \in Threads : Continue(t)
  <2> PICK t \in Threads : Continue(t)
    BY <1>7
  <2>1. CASE TestFlag(t) \/ MarkFlag(t) \/ RaiseLock(t)
    BY <2>1 DEF TestFlag, MarkFlag, RaiseLock
  <2>2. CASE ReadState(t) \/ ReadSeverity(t) \/ ReadCause(t)
    BY <2>2 DEF ReadState, ReadSeverity, ReadCause, ReadField
  <2>3. CASE PublishState(t)
    BY <2>3 DEF PublishState
  <2> QED BY <2>1, <2>2, <2>3 DEF Continue
<1>8. CASE Kill
  BY <1>8, <1>1 DEF Kill
<1>9. CASE ScanStart \/ Restart \/ Robot \/ UNCHANGED vars
  BY <1>9 DEF ScanStart, Restart, Robot, vars
<1> QED
  BY <1>2, <1>3, <1>4, <1>5, <1>6, <1>7, <1>8, <1>9 DEF Next

(* In every behaviour in which no lock overlaps the end of an unlock, any  *)
(* number of unlocks, locks and deaths leaves no LOCKED latch unsignalled. *)
THEOREM RaceIsTheOnlyLoss ==
  Spec /\ []~Racing => []LockIsSignalled
<1>1. Init => FlagInv
  <2> SUFFICES ASSUME Init PROVE FlagInv
    OBVIOUS
  <2>1. latch.state = "NORMAL" /\ lockedPublished = FALSE
        /\ pc["svc"] = "idle"
    BY DEF Init, Fresh, Threads
  <2> QED BY <2>1 DEF FlagInv, LockIsSignalled
<1>2. TypeOK /\ FlagInv /\ ~Racing /\ ~Racing' /\ [Next]_vars => FlagInv'
  BY FlagStep
<1>3. FlagInv => LockIsSignalled
  BY DEF FlagInv
<1> QED BY <1>1, <1>2, <1>3, TypeCorrect, PTL DEF Spec

(* lock_active falls after an accepted unlock and for no other reason: not *)
(* the end of the danger, and not the death of the node, whose subscribers *)
(* keep the value they received.                                           *)
OnlyUnlockLowers == [][lockActive /\ ~lockActive' => released]_vars

(* For any causes and bounds.                                              *)
THEOREM SignalOutlivesDanger == Spec => OnlyUnlockLowers
<1>1. SignalInv /\ [Next]_vars => [lockActive /\ ~lockActive' => released]_vars
  BY DEF Next, Tick, DumpFails, ProcessEnds, ScanStart, ScanEnd, SvcUnlock,
         SvcSetLock, Finish, ClearFlag, LowerLock, Continue, TestFlag,
         MarkFlag, RaiseLock, ReadState, ReadSeverity, ReadCause, ReadField,
         PublishState, Kill, Restart, Robot, vars, SignalInv
<1> QED BY <1>1, SignalInvariant, PTL DEF Spec, OnlyUnlockLowers
-----------------------------------------------------------------------------
(* The samples of /safety/state.  Until an unlock is accepted the latch    *)
(* only moves to LOCKED, so what a thread reads after the state is at      *)
(* least as late as the state.                                             *)
SampleInv ==
  /\ LockedSampleIsWhole
  /\ latch.state = "LOCKED" => /\ latch.severity = "CRITICAL"
                               /\ latch.cause = "" => unnamed
  /\ \A t \in Threads : (msg[t].state = "LOCKED" /\ ~released) =>
       /\ latch.state = "LOCKED"
       /\ pc[t] \in {"rdCause", "publish"} => msg[t].severity = "CRITICAL"
       /\ pc[t] = "publish" /\ msg[t].cause = "" => unnamed

(* A dead process leaves the memory of a fresh one and no running thread.  *)
DeadInv == ~up => /\ latch = Fresh /\ ~released
                  /\ \A t \in Threads : pc[t] = "idle"

(* The causes of the checkers are names.                                   *)
LEMMA CausesNamed == \A c \in TickCauses : c # ""
<1>1. TickCauses = {"feedback_loss", "torque_spike", "torque_overload",
                    "tracking_error", "stall", "watchdog_critical",
                    "watchdog_observed"}
  BY DEF TickCauses, TickOrder
<1> QED BY <1>1

(* A thread that has read LOCKED goes on to read the severity and cause of *)
(* that lock: only an accepted unlock or the end of the process opens the  *)
(* latch.                                                                  *)
LEMMA SampleInvStep ==
  TypeOK /\ DeadInv /\ SampleInv /\ [Next]_vars => DeadInv' /\ SampleInv'
<1> SUFFICES ASSUME TypeOK, DeadInv, SampleInv, [Next]_vars
             PROVE  DeadInv' /\ SampleInv'
  OBVIOUS
<1> USE DEF DeadInv, SampleInv, LockedSampleIsWhole, Goto, TypeOK, lifeVars
<1>1. CASE ProcessEnds
  BY <1>1 DEF ProcessEnds, Fresh, NoSample
<1>2. ASSUME NEW E, Trigger(E)
      PROVE  \/ UNCHANGED latch
             \/ latch'.state = "LOCKED" /\ latch'.severity = "CRITICAL"
                /\ latch'.cause # ""
  <2>1. CASE UNCHANGED latch
    BY <2>1
  <2>2. CASE ~UNCHANGED latch
    <3> PICK c \in TickCauses : latch' = Locked(c)
      BY <1>2, <2>2, TriggerEffect
    <3> QED BY CausesNamed DEF Locked
  <2> QED BY <2>1, <2>2
<1>3. CASE Tick
  <2>1. CASE DumpFails(cond)
    BY <2>1, <1>1 DEF DumpFails
  <2>2. CASE ~DumpFails(cond)
    <3>1. Trigger(cond) /\ up /\ pc["cb"] = "idle"
          /\ pc' = [pc EXCEPT !["cb"] = AfterTick(cond)]
          /\ UNCHANGED <<up, msg, stateTopic, lifeVars>>
      BY <2>2, <1>3 DEF Tick
    <3>2. AfterTick(cond) \notin {"rdCause", "publish"}
      BY DEF AfterTick
    <3> QED BY <3>1, <3>2, <1>2
  <2> QED BY <2>1, <2>2
<1>4. CASE ScanStart
  BY <1>4 DEF ScanStart
<1>5. CASE ScanEnd
  <2> DEFINE E == IF NodeDown THEN {"watchdog_critical"} ELSE {}
  <2>1. CASE DumpFails(E)
    BY <2>1, <1>1 DEF DumpFails
  <2>2. CASE ~DumpFails(E)
    <3>1. Trigger(E) /\ up /\ pc["cb"] = "scan"
          /\ pc' = [pc EXCEPT !["cb"] = AfterScan(E)]
          /\ UNCHANGED <<up, msg, stateTopic, lifeVars>>
      BY <2>2, <1>5 DEF ScanEnd
    <3>2. AfterScan(E) \notin {"rdCause", "publish"}
      BY DEF AfterScan
    <3> QED BY <3>1, <3>2, <1>2
  <2> QED BY <2>1, <2>2
<1>6. CASE SvcUnlock
  <2>1. CASE latch.state = "LOCKED"
    <3>1. up' /\ released' /\ latch'.state = "NORMAL"
      <4>1. latch' = Fresh /\ released' = TRUE /\ UNCHANGED up
        BY <1>6, <2>1 DEF SvcUnlock
      <4>2. up
        BY <1>6 DEF SvcUnlock
      <4> QED BY <4>1, <4>2 DEF Fresh
    <3> QED BY <3>1
  <2>2. CASE latch.state # "LOCKED"
    BY <1>6, <2>2 DEF SvcUnlock
  <2> QED BY <2>1, <2>2
<1>7. CASE SvcSetLock
  <2>1. PICK c \in SetLockCauses : /\ latch' = Locked(c)
                                   /\ unnamed' = (unnamed \/ c = "")
    BY <1>7 DEF SvcSetLock
  <2>2. /\ up /\ UNCHANGED <<up, msg, stateTopic, released>>
        /\ pc' = [pc EXCEPT !["svc"] = "fire"]
    BY <1>7 DEF SvcSetLock
  <2>3. latch'.state = "LOCKED" /\ latch'.severity = "CRITICAL"
        /\ latch'.cause = c
    BY <2>1 DEF Locked
  <2> QED BY <2>1, <2>2, <2>3
<1>8. CASE Finish
  BY <1>8 DEF Finish, ClearFlag, LowerLock, Threads
<1>9. CASE \E t \in Threads : Continue(t)
  <2> PICK t \in Threads : Continue(t)
    BY <1>9
  <2>1. CASE TestFlag(t) \/ MarkFlag(t) \/ RaiseLock(t)
    BY <2>1 DEF TestFlag, MarkFlag, RaiseLock
  <2>2. CASE ReadState(t)
    BY <2>2 DEF ReadState, ReadField, LatchStates
  <2>3. CASE ReadSeverity(t)
    BY <2>3 DEF ReadSeverity, ReadField, LatchStates
  <2>4. CASE ReadCause(t)
    BY <2>4 DEF ReadCause, ReadField, LatchStates
  <2>5. CASE PublishState(t)
    BY <2>5 DEF PublishState, Fresh
  <2> QED BY <2>1, <2>2, <2>3, <2>4, <2>5 DEF Continue
<1>10. CASE Kill
  BY <1>10, <1>1 DEF Kill
<1>11. CASE Restart
  BY <1>11 DEF Restart
<1>12. CASE Robot
  BY <1>12 DEF Robot
<1>13. CASE UNCHANGED vars
  BY <1>13 DEF vars
<1> QED
  BY <1>3, <1>4, <1>5, <1>6, <1>7, <1>8, <1>9, <1>10, <1>11, <1>12, <1>13
  DEF Next

(* The same, of every state of the node.                                   *)
LEMMA SampleInvariant == Spec => [](DeadInv /\ SampleInv)
<1>1. Init => DeadInv /\ SampleInv
  <2> SUFFICES ASSUME Init PROVE DeadInv /\ SampleInv
    OBVIOUS
  <2>1. up = TRUE /\ latch.state = "NORMAL" /\ stateTopic.state = "none"
        /\ \A t \in Threads : msg[t].state = "NORMAL"
    BY DEF Init, Fresh, NoSample
  <2> QED BY <2>1 DEF DeadInv, SampleInv, LockedSampleIsWhole
<1> QED BY <1>1, SampleInvStep, TypeCorrect, PTL DEF Spec

(* Until an unlock is accepted a sample that says LOCKED is critical, and  *)
(* has no cause only when a set_lock gave none (safety_monitor,            *)
(* _publish_state).                                                        *)
THEOREM LockedSampleWhole == Spec => []LockedSampleIsWhole
<1>1. SampleInv => LockedSampleIsWhole
  BY DEF SampleInv
<1> QED BY <1>1, SampleInvariant, PTL

-----------------------------------------------------------------------------
(* While the process lives only an accepted unlock leaves LOCKED: not the  *)
(* end of the danger, not a later event, not a scan (safety_core.py,       *)
(* LatchState).                                                            *)
THEOREM OnlyUnlock == Spec => OnlyUnlockReleases
<1> DEFINE A == latch.state = "LOCKED" /\ latch'.state = "NORMAL" /\ up'
                  => released' /\ pc["svc"] = "idle" /\ calls' = calls + 1
<1>1. TypeOK /\ [Next]_vars => [A]_vars
  <2> SUFFICES ASSUME TypeOK, [Next]_vars, latch.state = "LOCKED",
                      latch'.state = "NORMAL", up'
               PROVE  SvcUnlock
    BY DEF SvcUnlock, Called, TypeOK
  <2>1. latch' # latch
    OBVIOUS
  <2>2. \A E : ~Trigger(E)
    <3> SUFFICES ASSUME NEW E, Trigger(E) PROVE FALSE
      OBVIOUS
    <3> QED BY <2>1, TriggerEffect DEF Locked
  <2>3. ~ProcessEnds
    BY DEF ProcessEnds
  <2>4. ~Tick /\ ~ScanEnd /\ ~Kill
    BY <2>2, <2>3 DEF Tick, ScanEnd, Kill, DumpFails
  <2>5. ~SvcSetLock
    <3> SUFFICES ASSUME SvcSetLock PROVE FALSE
      OBVIOUS
    <3>1. \E c \in SetLockCauses : latch' = Locked(c)
      BY DEF SvcSetLock
    <3> QED BY <3>1, <2>1 DEF Locked
  <2>6. ~Finish /\ ~ScanStart /\ ~Restart /\ ~Robot
    BY <2>1 DEF Finish, ClearFlag, LowerLock, ScanStart, Restart, Robot
  <2>7. ~\E t \in Threads : Continue(t)
    BY <2>1 DEF Continue, TestFlag, MarkFlag, RaiseLock, ReadState,
                ReadSeverity, ReadCause, ReadField, PublishState
  <2> QED BY <2>1, <2>4, <2>5, <2>6, <2>7 DEF Next, vars
<1> QED BY <1>1, TypeCorrect, PTL DEF Spec, OnlyUnlockReleases

-----------------------------------------------------------------------------
(* The steps of the node, seen through the state, shown and taken of       *)
(* SafetyLatch.                                                            *)
AbstractStep == [Promise!LatchNext]_(Promise!latchVars)

(* A latch that closes is the abstract Lock.                               *)
LEMMA LockIsAbstract ==
  ASSUME up, up', latch.state \in {"NORMAL", "LOCKED"},
         latch'.state = "LOCKED", UNCHANGED <<stateTopic, released>>
  PROVE  Promise!Lock
BY DEF Promise!Lock

(* The end of the process is the abstract Die.                             *)
LEMMA DieIsAbstract ==
  ASSUME TypeOK, up, ProcessEnds
  PROVE  Promise!Die
<1>1. MaxDeaths > 0
  BY BoundsAssumption DEF TypeOK, ProcessEnds
<1>2. ~up' /\ stateTopic'.state = "none" /\ ~released'
      /\ latch'.state = "NORMAL"
  BY DEF ProcessEnds, NoSample, Fresh
<1>3. latch.state \in {"NORMAL", "LOCKED"}
  BY DEF TypeOK, LatchStates
<1> QED BY <1>1, <1>2, <1>3 DEF Promise!Die

(* A locking event, a human lock or nothing at all.                        *)
LEMMA TriggerIsAbstract ==
  ASSUME TypeOK, up, NEW E, Trigger(E), UNCHANGED <<up, stateTopic, released>>
  PROVE  AbstractStep
<1>1. latch.state \in {"NORMAL", "LOCKED"}
  BY DEF TypeOK, LatchStates
<1>2. CASE UNCHANGED latch
  BY <1>2 DEF AbstractStep, Promise!latchVars
<1>3. CASE ~UNCHANGED latch
  <2> PICK c \in TickCauses : latch' = Locked(c)
    BY <1>3, TriggerEffect
  <2>1. latch'.state = "LOCKED"
    BY DEF Locked
  <2> QED BY <1>1, <2>1, LockIsAbstract DEF AbstractStep, Promise!LatchNext
<1> QED BY <1>2, <1>3

(* Every step of the node is a step of the latch it promises, or none.     *)
LEMMA StepIsAbstract ==
  TypeOK /\ DeadInv /\ SampleInv /\ [Next]_vars => AbstractStep
<1> SUFFICES ASSUME TypeOK, DeadInv, SampleInv, [Next]_vars
             PROVE  AbstractStep
  OBVIOUS
<1> USE DEF lifeVars
<1>1. ASSUME UNCHANGED <<up, latch, stateTopic, released>> PROVE AbstractStep
  BY <1>1 DEF AbstractStep, Promise!latchVars
<1>2. ASSUME up, ProcessEnds PROVE AbstractStep
  BY <1>2, DieIsAbstract DEF AbstractStep, Promise!LatchNext
<1>3. CASE Tick
  <2>1. CASE DumpFails(cond)
    BY <1>3, <2>1, <1>2 DEF DumpFails, Tick
  <2>2. CASE ~DumpFails(cond)
    BY <1>3, <2>2, TriggerIsAbstract DEF Tick
  <2> QED BY <2>1, <2>2
<1>4. CASE ScanEnd
  <2> DEFINE E == IF NodeDown THEN {"watchdog_critical"} ELSE {}
  <2>1. CASE DumpFails(E)
    BY <1>4, <2>1, <1>2 DEF DumpFails, ScanEnd
  <2>2. CASE ~DumpFails(E)
    <3>1. up /\ Trigger(E) /\ UNCHANGED <<up, stateTopic, released>>
      BY <1>4, <2>2 DEF ScanEnd
    <3> QED BY <3>1, TriggerIsAbstract
  <2> QED BY <2>1, <2>2
<1>5. CASE SvcUnlock
  <2>1. CASE latch.state = "LOCKED"
    <3>1. up /\ up' /\ released' /\ UNCHANGED stateTopic /\ latch' = Fresh
      BY <1>5, <2>1 DEF SvcUnlock
    <3>2. Promise!Release
      BY <2>1, <3>1 DEF Promise!Release, Fresh
    <3> QED BY <3>2 DEF AbstractStep, Promise!LatchNext
  <2>2. CASE latch.state # "LOCKED"
    BY <1>5, <2>2, <1>1 DEF SvcUnlock
  <2> QED BY <2>1, <2>2
<1>6. CASE SvcSetLock
  <2>1. up /\ up' /\ UNCHANGED <<stateTopic, released>>
        /\ \E c \in SetLockCauses : latch' = Locked(c)
    BY <1>6 DEF SvcSetLock
  <2>2. latch'.state = "LOCKED" /\ latch.state \in {"NORMAL", "LOCKED"}
    BY <2>1 DEF Locked, TypeOK, LatchStates
  <2> QED BY <2>1, <2>2, LockIsAbstract DEF AbstractStep, Promise!LatchNext
<1>7. CASE \E t \in Threads : Continue(t)
  <2> PICK t \in Threads : Continue(t)
    BY <1>7
  <2>1. CASE PublishState(t)
    <3>1. up
      BY <2>1 DEF PublishState, DeadInv
    <3>2. stateTopic'.state = msg[t].state /\ UNCHANGED <<up, latch, released>>
      BY <2>1 DEF PublishState
    <3>3. msg[t].state \in {"NORMAL", "LOCKED"}
      BY DEF TypeOK, LatchStates
    <3>4. msg[t].state = "LOCKED" => released \/ latch.state = "LOCKED"
      BY DEF SampleInv
    <3>5. latch.state # "DOWN"
      BY DEF TypeOK, LatchStates
    <3>6. Promise!Show(msg[t].state)
      BY <3>1, <3>2, <3>4, <3>5 DEF Promise!Show
    <3> QED BY <3>3, <3>6 DEF AbstractStep, Promise!LatchNext
  <2>2. CASE ~PublishState(t)
    BY <2>2, <1>1 DEF Continue, TestFlag, MarkFlag, RaiseLock, ReadState,
                      ReadSeverity, ReadCause, ReadField
  <2> QED BY <2>1, <2>2
<1>8. CASE Kill
  BY <1>8, <1>2 DEF Kill
<1>9. CASE Restart
  <2>1. ~up /\ up' /\ UNCHANGED <<latch, stateTopic, released>>
    BY <1>9 DEF Restart
  <2>2. latch = Fresh
    BY <2>1 DEF DeadInv
  <2>3. latch.state = "NORMAL"
    BY <2>2 DEF Fresh
  <2>4. Promise!Start
    BY <2>1, <2>3 DEF Promise!Start
  <2> QED BY <2>4 DEF AbstractStep, Promise!LatchNext
<1>10. CASE ScanStart \/ Finish \/ Robot \/ UNCHANGED vars
  BY <1>10, <1>1 DEF ScanStart, Finish, ClearFlag, LowerLock, Robot, vars
<1> QED
  BY <1>3, <1>4, <1>5, <1>6, <1>7, <1>8, <1>9, <1>10 DEF Next

(* The node implements the safety part of the latch it promises: TLC       *)
(* checks the whole of it, fairness included, as ImplementsLatch.          *)
THEOREM ImplementsLatchSafely ==
  Spec => Promise!LatchInit /\ [][Promise!LatchNext]_(Promise!latchVars)
<1>1. Init => Promise!LatchInit
  <2> SUFFICES ASSUME Init PROVE Promise!LatchInit
    OBVIOUS
  <2>1. up /\ ~released /\ latch.state = "NORMAL" /\ stateTopic.state = "none"
    BY DEF Init, Fresh, NoSample
  <2> QED BY <2>1 DEF Promise!LatchInit
<1>2. TypeOK /\ DeadInv /\ SampleInv /\ [Next]_vars
        => [Promise!LatchNext]_(Promise!latchVars)
  BY StepIsAbstract DEF AbstractStep
<1> QED BY <1>1, <1>2, TypeCorrect, SampleInvariant, PTL DEF Spec
=============================================================================
