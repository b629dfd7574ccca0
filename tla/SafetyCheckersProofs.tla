------------------------ MODULE SafetyCheckersProofs ------------------------
(***************************************************************************)
(* The checkers for every timeout, hysteresis, queue and scan: their types *)
(* and what each raised cause means, and how late a silence is reported.   *)
(***************************************************************************)
EXTENDS SafetyCheckers, SequenceTheorems, FiniteSetTheorems, TLAPS

BoundedSeq(S, n) == {s \in Seq(S) : Len(s) <= n}

(* The types, with sequences as sequences.                                 *)
FeedInv ==
  /\ queue \in BoundedSeq(JointSamples, QueueDepth)
  /\ joints \in JointSamples \cup {NoJoints}
  /\ age \in 0..(DetectionBound + 1) /\ silence \in 0..(DetectionBound + 1)
  /\ scanTime \in 0..ScanMax
  /\ scanning \in BOOLEAN /\ tickDue \in BOOLEAN
  /\ known \in BOOLEAN /\ reported \in BOOLEAN /\ fresh \in BOOLEAN

CheckInv ==
  /\ hits \in BoundedSeq(BOOLEAN, Window)
  /\ spikes \in BoundedSeq(BOOLEAN, 2)
  /\ prevTau \in 0..2
  /\ overload \in 0..NotOver /\ sinceUnder \in 0..NotOver
  /\ raised \subseteq {"feedback_loss", "torque_spike", "torque_overload",
                       "tracking_error"}
  /\ freshTicks \in 0..2

(* What the checkers remember is about the samples that were seen: an      *)
(* armed overload is younger than the last tick without one, the last hit  *)
(* of a spike had a new sample.                                            *)
MemoryInv ==
  /\ overload # NotOver => overload <= sinceUnder
  /\ ~fresh => prevTau = joints.tau
  /\ joints = NoJoints => prevTau = 2
  /\ prevTau = 2 => spikes = <<>>
  /\ spikes # <<>> /\ spikes[1] => freshTicks >= 1

(* Time a tick may be late by.                                             *)
Late == IF scanning THEN scanTime ELSE IF tickDue THEN ScanMax ELSE 0
Phase == FeedbackTimeout + ScanMax

(* A silence nobody reported has had one phase for each sample read, and   *)
(* the age of the last one; while samples wait, the age is that of a tick  *)
(* that was not late, and what the next one is late by.                    *)
SilenceInv ==
  /\ queue = <<>> => silence >= age
  /\ known => joints # NoJoints
  /\ scanning /\ scanTime > 0 => tickDue
  /\ known /\ ~reported =>
       /\ silence <= (QueueDepth - Len(queue)) * Phase + age
       /\ queue # <<>> => silence <= Late \/ age <= FeedbackTimeout + Late
       /\ queue = <<>> /\ ~tickDue => age <= FeedbackTimeout

IInv == FeedInv /\ CheckInv /\ MemoryInv /\ SilenceInv

(* The constants are numbers, and so is the bound.                         *)
LEMMA NumbersTyped ==
  /\ FeedbackTimeout \in Nat /\ OverloadTime \in Nat /\ ScanMax \in Nat
  /\ QueueDepth \in Nat \ {0} /\ MinHits \in Nat \ {0}
  /\ Window \in Nat \ {0}
  /\ Phase \in Nat /\ DetectionBound \in Nat
  /\ NotOver = OverloadTime + 1
BY CheckerAssumption DEF Phase, DetectionBound, NotOver

(* A sequence of bounded length is a function on one of its prefixes.      *)
LEMMA BoundedSeqIsFunction ==
  ASSUME NEW S, NEW n \in Nat, NEW s \in BoundedSeq(S, n)
  PROVE  s \in UNION {[1..m -> S] : m \in 0..n}
<1>1. /\ s \in [1..Len(s) -> S] /\ Len(s) \in 0..n
  BY DEF BoundedSeq
<1> QED BY <1>1

(* Record keeps a deque within its window, the new hit in front.           *)
LEMMA RecordBounded ==
  ASSUME NEW window \in Nat \ {0}, NEW deque \in BoundedSeq(BOOLEAN, window),
         NEW hit \in BOOLEAN
  PROVE  /\ Record(deque, hit, window) \in BoundedSeq(BOOLEAN, window)
         /\ Record(deque, hit, window) # <<>>
         /\ Record(deque, hit, window)[1] = hit
<1> DEFINE kept == IF Len(deque) < window THEN deque
                                       ELSE SubSeq(deque, 1, window - 1)
<1>1. kept \in Seq(BOOLEAN) /\ Len(kept) + 1 <= window
  <2>1. deque \in Seq(BOOLEAN) /\ Len(deque) \in Nat /\ Len(deque) <= window
    BY LenProperties DEF BoundedSeq
  <2>2. CASE Len(deque) < window
    BY <2>1, <2>2
  <2>3. CASE ~(Len(deque) < window)
    <3>1. \A i \in 1..(window - 1) : deque[i] \in BOOLEAN
      BY <2>1, <2>3, ElementOfSeq
    <3>2. /\ SubSeq(deque, 1, window - 1) \in Seq(BOOLEAN)
          /\ Len(SubSeq(deque, 1, window - 1)) =
               IF 1 <= window - 1 THEN window - 1 - 1 + 1 ELSE 0
      BY <3>1, SubSeqProperties
    <3> QED BY <2>3, <3>2
  <2> QED BY <2>2, <2>3
<1>2. Record(deque, hit, window) = <<hit>> \o kept
  BY DEF Record
<1>3. /\ <<hit>> \o kept \in Seq(BOOLEAN) /\ Len(<<hit>> \o kept) = 1 + Len(kept)
      /\ (<<hit>> \o kept)[1] = hit
  BY <1>1
<1> HIDE DEF kept
<1> QED BY <1>1, <1>2, <1>3 DEF BoundedSeq

(* Of a deque of two, two hits need the older one.                         *)
LEMMA TwoHitsNeedBoth ==
  ASSUME NEW deque \in BoundedSeq(BOOLEAN, 2), NEW hit \in BOOLEAN,
         Confirmed(Record(deque, hit, 2), 2)
  PROVE  deque # <<>> /\ deque[1]
<1> DEFINE d == Record(deque, hit, 2)
           on == {i \in DOMAIN d : d[i]}
<1> SUFFICES ASSUME ~(deque # <<>> /\ deque[1]) PROVE FALSE
  OBVIOUS
<1>1. d \in BoundedSeq(BOOLEAN, 2)
  BY RecordBounded
<1>2. deque = <<>> => Len(d) = 1
  BY DEF Record, BoundedSeq
<1>3. deque # <<>> => Len(d) = 2 /\ d[2] = deque[1]
  BY DEF Record, BoundedSeq
<1> HIDE DEF d
<1>4. DOMAIN d = 1..Len(d) /\ Len(d) \in 0..2
  <2>1. d \in Seq(BOOLEAN) /\ Len(d) <= 2
    BY <1>1 DEF BoundedSeq
  <2>2. DOMAIN d = 1..Len(d) /\ Len(d) \in Nat
    BY <2>1, LenProperties
  <2> QED BY <2>1, <2>2
<1>5. on \subseteq {1}
  BY <1>2, <1>3, <1>4
<1>6. Cardinality(on) <= 1
  <2>1. IsFiniteSet({1}) /\ Cardinality({1}) = 1
    BY FS_Singleton
  <2> QED BY <1>5, <2>1, FS_Subset
<1>7. Cardinality(on) >= 2
  BY DEF Confirmed, d
<1>8. Cardinality(on) \in Nat
  <2>1. IsFiniteSet(on)
    BY <1>5, FS_Singleton, FS_Subset
  <2> QED BY <2>1, FS_CardinalityType
<1> QED BY <1>6, <1>7, <1>8

(* The values a sample may have.                                           *)
LEMMA SampleTyped ==
  ASSUME NEW j \in JointSamples \cup {NoJoints}
  PROVE  /\ j.tau \in 0..2 /\ j.dev \in BOOLEAN
         /\ j # NoJoints <=> j.tau # 2
<1>1. CASE j \in JointSamples
  BY <1>1 DEF JointSamples, NoJoints
<1>2. CASE j = NoJoints
  BY <1>2 DEF NoJoints
<1> QED BY <1>1, <1>2

(* Nothing was seen and nothing is remembered at the start.                *)
LEMMA InitHolds == Init => IInv
<1> SUFFICES ASSUME Init PROVE IInv
  OBVIOUS
<1> USE NumbersTyped
<1>1. FeedInv
  <2>1. queue \in BoundedSeq(JointSamples, QueueDepth)
    BY DEF Init, BoundedSeq
  <2>2. joints \in JointSamples \cup {NoJoints}
    BY DEF Init
  <2>3. /\ age \in 0..(DetectionBound + 1)
        /\ silence \in 0..(DetectionBound + 1) /\ scanTime \in 0..ScanMax
    BY DEF Init
  <2> QED BY <2>1, <2>2, <2>3 DEF Init, FeedInv
<1>2. CheckInv
  BY DEF Init, CheckInv, BoundedSeq
<1>3. MemoryInv
  BY DEF Init, MemoryInv, NoJoints
<1>4. SilenceInv
  BY DEF Init, SilenceInv
<1> QED BY <1>1, <1>2, <1>3, <1>4 DEF IInv
-----------------------------------------------------------------------------
(* A sample read leaves one less, and the queue was not empty.             *)
LEMMA QueueRead ==
  ASSUME queue \in BoundedSeq(JointSamples, QueueDepth), queue # <<>>
  PROVE  /\ Head(queue) \in JointSamples
         /\ Tail(queue) \in BoundedSeq(JointSamples, QueueDepth)
         /\ Len(queue) \in 1..QueueDepth /\ Len(Tail(queue)) = Len(queue) - 1
<1>1. /\ queue \in Seq(JointSamples) /\ Len(queue) <= QueueDepth
      /\ Len(queue) \in Nat /\ Len(queue) # 0
  BY LenProperties, EmptySeq DEF BoundedSeq
<1>2. /\ Head(queue) \in JointSamples /\ Tail(queue) \in Seq(JointSamples)
      /\ Len(Tail(queue)) = Len(queue) - 1
  BY <1>1, HeadTailProperties
<1> QED BY <1>1, <1>2, NumbersTyped DEF BoundedSeq

(* A sample published is in the queue, within its depth.                   *)
LEMMA QueueTakes ==
  ASSUME queue \in BoundedSeq(JointSamples, QueueDepth), NEW s \in JointSamples
  PROVE  LET q == Append(IF Len(queue) < QueueDepth THEN queue
                                                   ELSE Tail(queue), s)
         IN  q \in BoundedSeq(JointSamples, QueueDepth) /\ q # <<>>
<1> DEFINE kept == IF Len(queue) < QueueDepth THEN queue ELSE Tail(queue)
<1>1. /\ queue \in Seq(JointSamples) /\ Len(queue) <= QueueDepth
      /\ Len(queue) \in Nat /\ QueueDepth \in Nat \ {0}
  BY LenProperties, NumbersTyped DEF BoundedSeq
<1>2. kept \in Seq(JointSamples) /\ Len(kept) + 1 <= QueueDepth
  <2>1. CASE Len(queue) < QueueDepth
    BY <1>1, <2>1
  <2>2. CASE Len(queue) = QueueDepth
    <3>1. queue # <<>>
      BY <1>1, <2>2
    <3> QED BY <1>1, <2>2, <3>1, QueueRead DEF BoundedSeq
  <2> QED BY <1>1, <2>1, <2>2
<1> HIDE DEF kept
<1>3. /\ Append(kept, s) \in Seq(JointSamples) /\ Append(kept, s) # <<>>
      /\ Len(Append(kept, s)) = Len(kept) + 1
  BY <1>2, AppendProperties
<1> QED BY <1>2, <1>3 DEF BoundedSeq, kept

(* The feed and the thread keep their types.                               *)
LEMMA FeedStep ==
  ASSUME IInv, [Next]_vars
  PROVE  FeedInv'
<1> USE NumbersTyped DEF IInv, FeedInv
<1>1. CASE Tick
  <2>1. reported' \in BOOLEAN
    BY <1>1, Zenon DEF Tick, FeedbackLost
  <2>2. /\ UNCHANGED <<queue, joints, age, scanning, scanTime, silence, known>>
        /\ tickDue' = FALSE /\ fresh' = FALSE
    BY <1>1 DEF Tick, feedVars
  <2> QED BY <2>1, <2>2
<1>2. CASE OnJoint
  <2>1. queue' \in BoundedSeq(JointSamples, QueueDepth) /\ joints' \in JointSamples
    BY <1>2, QueueRead DEF OnJoint
  <2>2. age' \in 0..(DetectionBound + 1)
    BY <1>2 DEF OnJoint
  <2>3. UNCHANGED <<silence, scanTime, scanning, tickDue, known, reported>>
    BY <1>2 DEF OnJoint, threadVars
  <2>4. fresh' \in BOOLEAN
    BY <1>2 DEF OnJoint
  <2> QED BY <2>1, <2>2, <2>3, <2>4
<1>3. CASE ScanStart \/ ScanEnd
  <2>1. /\ UNCHANGED <<queue, joints, age, silence, tickDue, known, reported>>
        /\ UNCHANGED fresh /\ scanTime' = 0 /\ scanning' \in BOOLEAN
    BY <1>3 DEF ScanStart, ScanEnd, feedVars, historyVars
  <2> QED BY <2>1
<1>4. CASE Publish
  <2>1. queue' \in BoundedSeq(JointSamples, QueueDepth)
    BY <1>4, QueueTakes DEF Publish
  <2>2. known' \in BOOLEAN
    BY <1>4, Zenon DEF Publish
  <2>3. silence' = 0 /\ reported' \in BOOLEAN
    BY <1>4 DEF Publish
  <2>4. UNCHANGED <<joints, age, scanning, scanTime, tickDue, fresh>>
    BY <1>4 DEF Publish, threadVars
  <2>5. silence' \in 0..(DetectionBound + 1)
    BY <2>3
  <2>6. /\ joints' \in JointSamples \cup {NoJoints}
        /\ age' \in 0..(DetectionBound + 1) /\ scanTime' \in 0..ScanMax
        /\ scanning' \in BOOLEAN /\ tickDue' \in BOOLEAN /\ fresh' \in BOOLEAN
    BY <2>4
  <2> QED BY <2>1, <2>2, <2>3, <2>5, <2>6, Zenon
<1>5. CASE Time
  BY <1>5 DEF Time, Count
<1>6. CASE UNCHANGED vars
  BY <1>6 DEF vars, feedVars, threadVars, historyVars
<1> QED BY <1>1, <1>2, <1>3, <1>4, <1>5, <1>6 DEF Next

(* The memories of the checkers keep their types.                          *)
LEMMA CheckStep ==
  ASSUME IInv, [Next]_vars
  PROVE  CheckInv'
<1> USE NumbersTyped DEF IInv, CheckInv
<1>1. CASE Tick
  <2>1. joints.tau \in 0..2 /\ joints.dev \in BOOLEAN
    BY SampleTyped DEF FeedInv
  <2>2. hits' \in BoundedSeq(BOOLEAN, Window)
    BY <1>1, <2>1, RecordBounded DEF Tick, NextHits
  <2>3. spikes' \in BoundedSeq(BOOLEAN, 2)
    <3>1. Spike \in BOOLEAN
      BY DEF Spike, TorqueSeen
    <3> QED BY <1>1, <3>1, RecordBounded DEF Tick, NextSpikes
  <2>4. overload' \in 0..NotOver
    BY <1>1 DEF Tick, NextOverload
  <2>5. prevTau' \in 0..2
    BY <1>1, <2>1 DEF Tick
  <2>6. freshTicks' \in 0..2 /\ sinceUnder' \in 0..NotOver
    BY <1>1 DEF Tick, Count
  <2>7. raised' \subseteq {"feedback_loss", "torque_spike", "torque_overload",
                           "tracking_error"}
    BY <1>1 DEF Tick, Events
  <2> QED BY <2>2, <2>3, <2>4, <2>5, <2>6, <2>7
<1>2. CASE Time
  BY <1>2 DEF Time, Count
<1>3. CASE OnJoint \/ ScanStart \/ ScanEnd \/ Publish
  BY <1>3 DEF OnJoint, ScanStart, ScanEnd, Publish, checkerVars, historyVars
<1>4. CASE UNCHANGED vars
  BY <1>4 DEF vars, checkerVars, historyVars
<1> QED BY <1>1, <1>2, <1>3, <1>4 DEF Next

(* A spike needs a sample the last tick has not seen.                      *)
LEMMA SpikeIsFresh == IInv /\ Spike => fresh
BY DEF IInv, MemoryInv, Spike

(* What the checkers remember stays about what was seen.                   *)
LEMMA MemoryStep ==
  ASSUME IInv, [Next]_vars
  PROVE  MemoryInv'
<1> USE NumbersTyped DEF IInv, MemoryInv
<1>1. CASE Tick
  <2>1. overload' # NotOver => overload' <= sinceUnder'
    BY <1>1 DEF Tick, NextOverload, CheckInv
  <2>2. ~fresh' => prevTau' = joints'.tau
    BY <1>1 DEF Tick, feedVars
  <2>3. joints' = NoJoints => prevTau' = 2
    BY <1>1 DEF Tick, feedVars, NoJoints
  <2>4. prevTau' = 2 => spikes' = <<>>
    <3> SUFFICES ASSUME prevTau' = 2 PROVE spikes' = <<>>
      OBVIOUS
    <3>1. joints = NoJoints
      BY <1>1, SampleTyped DEF Tick, FeedInv
    <3> QED BY <1>1, <3>1 DEF Tick, NextSpikes, TorqueSeen
  <2>5. spikes' # <<>> /\ spikes'[1] => freshTicks' >= 1
    <3>1. CASE TorqueSeen /\ prevTau # 2
      <4>1. spikes'[1] = Spike
        <5>1. Spike \in BOOLEAN /\ spikes \in BoundedSeq(BOOLEAN, 2)
          BY DEF Spike, TorqueSeen, CheckInv
        <5> QED BY <1>1, <3>1, <5>1, RecordBounded DEF Tick, NextSpikes
      <4>2. Spike => freshTicks' >= 1
        BY <1>1, SpikeIsFresh DEF Tick, Count, CheckInv
      <4> QED BY <4>1, <4>2
    <3>2. CASE ~(TorqueSeen /\ prevTau # 2)
      BY <1>1, <3>2 DEF Tick, NextSpikes, TorqueSeen
    <3> QED BY <3>1, <3>2
  <2> QED BY <2>1, <2>2, <2>3, <2>4, <2>5
<1>2. CASE OnJoint
  <2>1. joints' # NoJoints
    BY <1>2, QueueRead DEF OnJoint, FeedInv, JointSamples, NoJoints
  <2> QED BY <1>2, <2>1 DEF OnJoint, checkerVars
<1>3. CASE Time
  BY <1>3 DEF Time, Count, CheckInv
<1>4. CASE ScanStart \/ ScanEnd \/ Publish
  BY <1>4 DEF ScanStart, ScanEnd, Publish, feedVars, checkerVars, historyVars
<1>5. CASE UNCHANGED vars
  BY <1>5 DEF vars, feedVars, checkerVars, historyVars
<1> QED BY <1>1, <1>2, <1>3, <1>4, <1>5 DEF Next

(* Phases of a silence: what a read sample adds.                           *)
LEMMA PhaseAdded ==
  ASSUME NEW n \in Nat, n < QueueDepth
  PROVE  /\ (QueueDepth - n) * Phase = (QueueDepth - (n + 1)) * Phase + Phase
         /\ (QueueDepth - n) * Phase \in Nat
         /\ (QueueDepth - (n + 1)) * Phase \in Nat
<1> DEFINE m == QueueDepth - (n + 1)
<1>1. m \in Nat /\ QueueDepth - n = m + 1
  BY NumbersTyped
<1> HIDE DEF m
<1>2. (m + 1) * Phase = m * Phase + Phase /\ m * Phase \in Nat
  BY <1>1, NumbersTyped
<1>3. /\ (QueueDepth - n) * Phase = m * Phase + Phase
      /\ (QueueDepth - n) * Phase \in Nat
  BY <1>1, <1>2, NumbersTyped
<1> QED BY <1>2, <1>3 DEF m

(* The silence a queue of that length excuses is a number.                 *)
LEMMA ExcusedTyped ==
  ASSUME queue \in BoundedSeq(JointSamples, QueueDepth)
  PROVE  /\ Len(queue) \in Nat /\ Len(queue) <= QueueDepth
         /\ (QueueDepth - Len(queue)) * Phase \in Nat
<1>1. Len(queue) \in Nat /\ Len(queue) <= QueueDepth
  BY LenProperties DEF BoundedSeq
<1>2. QueueDepth - Len(queue) \in Nat
  BY <1>1, NumbersTyped
<1> HIDE DEF Phase
<1>3. \A m \in Nat : m * Phase \in Nat
  BY NumbersTyped
<1> QED BY <1>1, <1>2, <1>3

(* No step makes a silence longer than its phases without a report.        *)
LEMMA SilenceStep ==
  ASSUME IInv, [Next]_vars
  PROVE  SilenceInv'
<1> DEFINE Excused == (QueueDepth - Len(queue)) * Phase
<1>0. /\ Len(queue) \in Nat /\ Len(queue) <= QueueDepth /\ Excused \in Nat
      /\ queue = <<>> <=> Len(queue) = 0
  BY ExcusedTyped, EmptySeq DEF IInv, FeedInv, BoundedSeq
<1> USE <1>0, NumbersTyped DEF IInv, SilenceInv
<1>1. CASE Tick
  <2>1. UNCHANGED <<queue, joints, age, scanning, scanTime, silence, known>>
    BY <1>1 DEF Tick, feedVars
  <2>2. Excused' = Excused
    BY <2>1
  <2>3. known /\ ~reported' => ~reported /\ age <= FeedbackTimeout
    <3> SUFFICES ASSUME known, ~reported'
                 PROVE  ~reported /\ age <= FeedbackTimeout
      OBVIOUS
    <3>1. ~reported /\ ~FeedbackLost
      BY <1>1, Zenon DEF Tick
    <3>2. ~(age > FeedbackTimeout)
      BY <3>1 DEF FeedbackLost, Silent
    <3> QED BY <3>1, <3>2 DEF FeedInv
  <2>4. ~scanning /\ ~tickDue' /\ Late' = 0
    BY <1>1, <2>1 DEF Tick, Late
  <2> HIDE DEF Excused
  <2>5. known /\ ~reported => silence <= Excused + age
    BY DEF Excused
  <2>6. known' /\ ~reported' => silence' <= Excused' + age'
    BY <2>1, <2>2, <2>3, <2>5
  <2> QED BY <2>1, <2>3, <2>4, <2>6 DEF FeedInv, Excused
<1>2. CASE OnJoint
  <2>1. /\ Len(queue) \in 1..QueueDepth /\ Len(queue') = Len(queue) - 1
        /\ joints' # NoJoints
    BY <1>2, QueueRead DEF OnJoint, FeedInv, JointSamples, NoJoints
  <2>2. /\ age' = 0 /\ ~scanning
        /\ UNCHANGED <<scanning, scanTime, tickDue, silence, known, reported>>
    BY <1>2 DEF OnJoint, threadVars
  <2>3. Excused' = Excused + Phase /\ Excused' \in Nat
    <3>1. Len(queue) - 1 \in Nat /\ Len(queue) - 1 < QueueDepth
          /\ (Len(queue) - 1) + 1 = Len(queue)
      BY <2>1
    <3> QED BY <2>1, <3>1, PhaseAdded
  <2>4. Late <= ScanMax /\ Late \in Nat
    BY DEF Late, FeedInv
  <2> HIDE DEF Excused
  <2>5. known /\ ~reported => silence <= Excused + Phase
    <3> SUFFICES ASSUME known, ~reported PROVE silence <= Excused + Phase
      OBVIOUS
    <3>1. silence <= Excused + age
      BY DEF Excused
    <3>2. silence <= Late \/ age <= FeedbackTimeout + Late
      BY <2>1
    <3> QED BY <2>4, <3>1, <3>2 DEF Phase, FeedInv
  <2>6. known' /\ ~reported' => silence' <= Excused' + age'
    BY <2>2, <2>3, <2>5
  <2> QED BY <2>1, <2>2, <2>6 DEF FeedInv, Excused, Late
<1>3. CASE ScanStart
  BY <1>3 DEF ScanStart, feedVars, Late, FeedInv
<1>4. CASE ScanEnd
  BY <1>4 DEF ScanEnd, feedVars, historyVars, Late, FeedInv
<1>5. CASE Publish
  <2>1. queue' # <<>> /\ queue' \in BoundedSeq(JointSamples, QueueDepth)
    BY <1>5, QueueTakes DEF Publish, FeedInv
  <2>2. /\ silence' = 0 /\ known' = (joints # NoJoints)
        /\ UNCHANGED <<joints, age, scanning, scanTime, tickDue>>
    BY <1>5 DEF Publish, threadVars
  <2>3. Excused' \in Nat
    <3>1. Len(queue') \in Nat /\ QueueDepth - Len(queue') \in Nat
      BY <2>1, LenProperties DEF BoundedSeq
    <3>2. \A m \in Nat : m * Phase \in Nat
      OBVIOUS
    <3> QED BY <3>1, <3>2
  <2>4. Late' \in Nat
    BY <2>2 DEF Late, FeedInv
  <2> HIDE DEF Excused
  <2>5. silence' <= Excused' + age'
    <3>1. age' \in Nat
      BY <2>2 DEF FeedInv
    <3>2. \A m, n \in Nat : 0 <= m + n
      OBVIOUS
    <3> QED BY <2>2, <2>3, <3>1, <3>2
  <2>6. silence' <= Late'
    BY <2>2, <2>4
  <2> QED BY <2>1, <2>2, <2>5, <2>6 DEF Excused
<1>6. CASE Time
  <2>1. /\ UNCHANGED <<queue, joints, scanning, known, reported>> /\ tickDue'
        /\ age' = Count(age, DetectionBound + 1)
        /\ silence' = Count(silence, DetectionBound + 1)
        /\ scanTime' = IF scanning THEN scanTime + 1 ELSE 0
        /\ ~scanning => queue = <<>>
    BY <1>6 DEF Time
  <2>2. Excused' = Excused
    BY <2>1
  <2> HIDE DEF Excused
  <2>3. known /\ ~reported => silence <= Excused + age
    BY DEF Excused
  <2>4. known /\ ~reported => silence' <= Excused + age'
    BY <2>1, <2>3 DEF Count, FeedInv
  <2>5. queue = <<>> => silence' >= age'
    BY <2>1 DEF Count, FeedInv
  <2>6. known /\ ~reported /\ queue # <<>> =>
          silence' <= Late' \/ age' <= FeedbackTimeout + Late'
    BY <2>1 DEF Late, Count, FeedInv
  <2> QED BY <2>1, <2>2, <2>4, <2>5, <2>6 DEF Excused
<1>7. CASE UNCHANGED vars
  BY <1>7 DEF vars, feedVars, threadVars, historyVars, Late
<1> QED BY <1>1, <1>2, <1>3, <1>4, <1>5, <1>6, <1>7 DEF Next

(* All four parts hold always.                                             *)
LEMMA Invariance == Spec => []IInv
<1>1. IInv /\ [Next]_vars => IInv'
  BY FeedStep, CheckStep, MemoryStep, SilenceStep DEF IInv
<1> QED BY <1>1, InitHolds, PTL DEF Spec
-----------------------------------------------------------------------------
(* The types of the checkers and of what feeds them.                       *)
THEOREM TypeCorrect == Spec => []CheckersTypeOK
<1>1. IInv => CheckersTypeOK
  <2> SUFFICES ASSUME IInv PROVE CheckersTypeOK
    OBVIOUS
  <2>1. queue \in UNION {[1..n -> JointSamples] : n \in 0..QueueDepth}
    BY BoundedSeqIsFunction, NumbersTyped DEF IInv, FeedInv
  <2>2. /\ hits \in UNION {[1..n -> BOOLEAN] : n \in 0..Window}
        /\ spikes \in UNION {[1..n -> BOOLEAN] : n \in 0..2}
    BY BoundedSeqIsFunction, NumbersTyped DEF IInv, CheckInv
  <2> QED BY <2>1, <2>2 DEF IInv, FeedInv, CheckInv, CheckersTypeOK
<1> QED BY <1>1, Invariance, PTL

(* For any queue, timeout and scan, a silence is reported within its       *)
(* bound.                                                                  *)
THEOREM SilenceEndsReported == Spec => []SilenceIsReported
<1>1. IInv => SilenceIsReported
  <2> SUFFICES ASSUME IInv, known, ~reported, ~tickDue, queue = <<>>
               PROVE  ~(silence > DetectionBound)
    BY DEF SilenceIsReported
  <2>1. Len(queue) = 0
    BY EmptySeq
  <2>2. age <= FeedbackTimeout
    BY DEF IInv, SilenceInv
  <2>3. silence <= QueueDepth * Phase + age
    BY <2>1, NumbersTyped DEF IInv, SilenceInv
  <2>4. /\ QueueDepth * Phase \in Nat
        /\ DetectionBound = FeedbackTimeout + QueueDepth * Phase
    BY NumbersTyped DEF DetectionBound, Phase
  <2> QED BY <2>2, <2>3, <2>4, NumbersTyped DEF IInv, FeedInv
<1> QED BY <1>1, Invariance, PTL

(* A loss is raised for a silence or for samples that wait, never for a    *)
(* robot whose samples were read in time.                                  *)
THEOREM LossIsReal == Spec => LossIsSilenceOrWait
<1>1. IInv /\ [Next]_vars =>
        (TickRaises("feedback_loss") =>
           silence > FeedbackTimeout \/ queue # <<>>)
  <2> SUFFICES ASSUME IInv, Tick, "feedback_loss" \in raised', queue = <<>>
               PROVE  silence > FeedbackTimeout
    BY DEF TickRaises
  <2>1. age > FeedbackTimeout
    BY DEF Tick, Events, FeedbackLost, Silent
  <2>2. silence >= age
    BY DEF IInv, SilenceInv
  <2> QED BY <2>1, <2>2, NumbersTyped DEF IInv, FeedInv
<1> QED BY <1>1, Invariance, PTL DEF Spec, LossIsSilenceOrWait

(* One sample never makes a spike, however often the ticks look at it.     *)
THEOREM SpikesAreFresh == Spec => SpikeNeedsFreshSamples
<1>1. IInv /\ [Next]_vars =>
        (TickRaises("torque_spike") => fresh /\ freshTicks' = 2)
  <2> SUFFICES ASSUME IInv, Tick, "torque_spike" \in raised'
               PROVE  fresh /\ freshTicks' = 2
    BY DEF TickRaises
  <2>1. Spike /\ Confirmed(NextSpikes, 2)
    BY DEF Tick, Events
  <2>2. fresh
    BY <2>1, SpikeIsFresh
  <2>3. spikes # <<>> /\ spikes[1]
    <3>1. NextSpikes = Record(spikes, Spike, 2) /\ Spike \in BOOLEAN
      BY <2>1 DEF NextSpikes, Spike, TorqueSeen
    <3> QED BY <2>1, <3>1, TwoHitsNeedBoth DEF IInv, CheckInv
  <2>4. freshTicks >= 1 /\ freshTicks \in 0..2
    BY <2>3 DEF IInv, MemoryInv, CheckInv
  <2> QED BY <2>2, <2>4 DEF Tick, Count
<1> QED BY <1>1, Invariance, PTL DEF Spec, SpikeNeedsFreshSamples

(* An overload lasted as long as it must, whatever came between the ticks. *)
THEOREM OverloadsLast == Spec => OverloadIsSustained
<1>1. IInv /\ [Next]_vars =>
        (TickRaises("torque_overload") => sinceUnder >= OverloadTime)
  <2> SUFFICES ASSUME IInv, Tick, "torque_overload" \in raised'
               PROVE  sinceUnder >= OverloadTime
    BY DEF TickRaises
  <2>1. overload # NotOver /\ overload >= OverloadTime
    BY DEF Tick, Events, Overloaded
  <2> QED BY <2>1, NumbersTyped DEF IInv, MemoryInv, CheckInv
<1> QED BY <1>1, Invariance, PTL DEF Spec, OverloadIsSustained
=============================================================================
