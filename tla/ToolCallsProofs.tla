-------------------------- MODULE ToolCallsProofs --------------------------
(***************************************************************************)
(* No tool writes without its own approval and none logs into a directory  *)
(* others can enter, for any number of calls in flight, any setup chain    *)
(* and any number of changes from outside.                                 *)
(***************************************************************************)
EXTENDS ToolCalls, TLAPS

(* Every write of a handler comes after its question.                      *)
Asked(s) == \A i \in 1..Len(s) :
              s[i].effect = "write" => \E j \in 1..(i - 1) : s[j].kind = "ask"

Sound(s) == s \in Seq(Steps) /\ Asked(s)

LEMMA StepFacts ==
  /\ Refusable \in Steps /\ Refusable.effect = "none"
  /\ Ask \in Steps /\ Ask.kind = "ask" /\ Ask.effect = "none"
  /\ Report \in Steps /\ Report.effect = "none"
  /\ Use \in Steps /\ Reset \in Steps /\ Reset.effect = "none"
  /\ Job \in Steps /\ Act \in Steps
  /\ Peek \in Steps /\ Peek.effect = "none"
  /\ \A p \in Policies : /\ Read(p) \in Steps /\ Read(p).effect = "none"
                         /\ Write(p) \in Steps
BY DEF Steps, StepOf, Refusable, Ask, Report, Use, Reset, Job, Act, Peek,
       Read, Write

LEMMA PolicyFacts ==
  {"strict", "stdout", "finding", "bounded", "never"} \subseteq Policies
BY DEF Policies

Quiet(a) == a.effect = "none"
Asks(a) == a.kind = "ask"

(* How the soundness of a handler is read off its steps.                   *)
LEMMA Sound1 ==
  ASSUME NEW a \in Steps, Quiet(a)
  PROVE  Sound(<<a>>)
BY DEF Sound, Asked, Quiet

LEMMA Sound2 ==
  ASSUME NEW a \in Steps, NEW b \in Steps,
         Quiet(a), Quiet(b) \/ Asks(a)
  PROVE  Sound(<<a, b>>)
<1> DEFINE s == <<a, b>>
<1>1. s \in Seq(Steps) /\ Len(s) = 2 /\ s[1] = a /\ s[2] = b
  OBVIOUS
<1>2. ASSUME NEW i \in 1..2, s[i].effect = "write"
      PROVE  \E j \in 1..(i - 1) : s[j].kind = "ask"
  <2>1. i = 2
    BY <1>1, <1>2 DEF Quiet
  <2> QED
    BY <1>1, <1>2, <2>1 DEF Quiet, Asks
<1> HIDE DEF s
<1>3. Sound(s)
  BY <1>1, <1>2 DEF Sound, Asked
<1> QED
  BY <1>3 DEF s

LEMMA Sound3 ==
  ASSUME NEW a \in Steps, NEW b \in Steps, NEW c \in Steps,
         Quiet(a), Quiet(b), Quiet(c) \/ Asks(a) \/ Asks(b)
  PROVE  Sound(<<a, b, c>>)
<1> DEFINE s == <<a, b, c>>
<1>1. /\ s \in Seq(Steps) /\ Len(s) = 3
      /\ s[1] = a /\ s[2] = b /\ s[3] = c
  OBVIOUS
<1>2. ASSUME NEW i \in 1..3, s[i].effect = "write"
      PROVE  \E j \in 1..(i - 1) : s[j].kind = "ask"
  <2>1. i = 3
    BY <1>1, <1>2 DEF Quiet
  <2>2. 1 \in 1..(i - 1) /\ 2 \in 1..(i - 1)
    BY <2>1
  <2> QED
    BY <1>1, <1>2, <2>1, <2>2 DEF Quiet, Asks
<1> HIDE DEF s
<1>3. Sound(s)
  BY <1>1, <1>2 DEF Sound, Asked
<1> QED
  BY <1>3 DEF s

LEMMA Sound4 ==
  ASSUME NEW a \in Steps, NEW b \in Steps, NEW c \in Steps, NEW d \in
         Steps,
         Quiet(a), Quiet(b), Quiet(c) \/ Asks(b),
         Quiet(d) \/ Asks(b) \/ (Quiet(c) /\ Asks(c))
  PROVE  Sound(<<a, b, c, d>>)
<1> DEFINE s == <<a, b, c, d>>
<1>1. /\ s \in Seq(Steps) /\ Len(s) = 4
      /\ s[1] = a /\ s[2] = b /\ s[3] = c /\ s[4] = d
  OBVIOUS
<1>2. ASSUME NEW i \in 1..4, s[i].effect = "write"
      PROVE  \E j \in 1..(i - 1) : s[j].kind = "ask"
  <2>1. i \in {3, 4}
    BY <1>1, <1>2 DEF Quiet
  <2>2. 2 \in 1..(i - 1)
    BY <2>1
  <2>3. CASE i = 3
    BY <1>1, <1>2, <2>2, <2>3 DEF Quiet, Asks
  <2>4. CASE i = 4
    <3>1. 3 \in 1..(i - 1)
      BY <2>4
    <3> QED
      BY <1>1, <1>2, <2>2, <2>4, <3>1 DEF Quiet, Asks
  <2> QED
    BY <2>1, <2>3, <2>4
<1> HIDE DEF s
<1>3. Sound(s)
  BY <1>1, <1>2 DEF Sound, Asked
<1> QED
  BY <1>3 DEF s

LEMMA SoundLater ==
  ASSUME NEW a \in Steps, NEW b \in Steps, NEW c \in Steps, NEW d \in Steps,
         Quiet(a), Quiet(b), Quiet(c), Asks(c)
  PROVE  Sound(<<a, b, c, d>>)
BY Sound4

LEMMA Sound5 ==
  ASSUME NEW a \in Steps, NEW b \in Steps, NEW c \in Steps, NEW d \in
         Steps, NEW e \in Steps,
         Quiet(a), Quiet(b), Quiet(c), Quiet(d), Asks(d)
  PROVE  Sound(<<a, b, c, d, e>>)
<1> DEFINE s == <<a, b, c, d, e>>
<1>1. /\ s \in Seq(Steps) /\ Len(s) = 5
      /\ s[1] = a /\ s[2] = b /\ s[3] = c /\ s[4] = d
      /\ s[5] = e
  OBVIOUS
<1>2. ASSUME NEW i \in 1..5, s[i].effect = "write"
      PROVE  \E j \in 1..(i - 1) : s[j].kind = "ask"
  <2>1. i \in {5}
    BY <1>1, <1>2 DEF Quiet
  <2>2. 4 \in 1..(i - 1)
    BY <2>1
  <2> QED
    BY <1>1, <1>2, <2>1, <2>2 DEF Quiet, Asks
<1> HIDE DEF s
<1>3. Sound(s)
  BY <1>1, <1>2 DEF Sound, Asked
<1> QED
  BY <1>3 DEF s

LEMMA Sound7 ==
  ASSUME NEW a \in Steps, NEW b \in Steps, NEW c \in Steps, NEW d \in
         Steps, NEW e \in Steps, NEW f \in Steps, NEW g \in Steps,
         Quiet(a), Quiet(b), Quiet(c), Quiet(d), Asks(c)
  PROVE  Sound(<<a, b, c, d, e, f, g>>)
<1> DEFINE s == <<a, b, c, d, e, f, g>>
<1>1. /\ s \in Seq(Steps) /\ Len(s) = 7
      /\ s[1] = a /\ s[2] = b /\ s[3] = c /\ s[4] = d
      /\ s[5] = e /\ s[6] = f /\ s[7] = g
  OBVIOUS
<1>2. ASSUME NEW i \in 1..7, s[i].effect = "write"
      PROVE  \E j \in 1..(i - 1) : s[j].kind = "ask"
  <2>1. i \in {5, 6, 7}
    BY <1>1, <1>2 DEF Quiet
  <2>2. 3 \in 1..(i - 1)
    BY <2>1
  <2> QED
    BY <1>1, <1>2, <2>1, <2>2 DEF Quiet, Asks
<1> HIDE DEF s
<1>3. Sound(s)
  BY <1>1, <1>2 DEF Sound, Asked
<1> QED
  BY <1>3 DEF s
----------------------------------------------------------------------------
LEMMA ReadingIsSound == \A p \in ReadingPrograms : Sound(p)
BY StepFacts, PolicyFacts, Sound1, Sound2, Sound3
   DEF Quiet, ReadingPrograms, ListingTools, ShowingTools, SamplingTools,
       TransformTools, Graph, TopicBw, TopicDelay, TopicHz, JobsList,
       JobStatus, ProbeRos2, InstallSession, EnvCheck

LEMMA WritingIsSound == \A p \in WritingPrograms : Sound(p)
<1> USE StepFacts, PolicyFacts DEF Quiet, Asks
<1>1. \A p \in Build \cup Launch \cup InterfaceCreate \cup ParamSet :
        Sound(p)
  BY Sound2, Sound3 DEF Build, Launch, InterfaceCreate, ParamSet
<1>2. \A p \in ParamDelete \cup BagRecord \cup BagPlay \cup TopicPub
                 \cup ServiceCall \cup ActionSendGoal \cup ProcessCleanup :
        Sound(p)
  BY Sound3 DEF ParamDelete, BagRecord, BagPlay, TopicPub, ServiceCall,
                ActionSendGoal, ProcessCleanup
<1>3. \A p \in InstallStart : Sound(p)
  <2>1. /\ Read("never") \in Steps /\ Quiet(Read("never"))
        /\ Quiet(Refusable) /\ Quiet(Ask) /\ Asks(Ask)
    OBVIOUS
  <2>2. Sound(<<Read("never"), Read("never"), Ask,
                Refusable, Act, Refusable, Act>>)
    BY <2>1, Sound7
  <2>3. \A p \in ProbeRos2 : Sound(p)
    BY ReadingIsSound DEF ReadingPrograms
  <2> QED
    BY <2>2, <2>3 DEF InstallStart
<1> QED
  BY <1>1, <1>2, <1>3 DEF WritingPrograms

LEMMA ChoosingIsSound == \A p \in ChoosingPrograms : Sound(p)
<1> DEFINE Runs == UNION {RunTool(m) : m \in {"foreground", "background"}}
           Deps == UNION {RosdepInstall(m) : m \in {"install", "dry_run"}}
           Cycles == UNION {Lifecycle(a) : a \in {"get", "list", "set"}}
           Parts == UNION {Component(a) : a \in {"list", "load"}}
           Daemons == UNION {Daemon(a) : a \in {"status", "start", "stop"}}
           Spaces == UNION {Workspace(a) : a \in {"show", "use", "reset"}}
<1>1. \A p \in Runs : Sound(p)
  BY StepFacts, PolicyFacts, Sound3 DEF Quiet, Asks, RunTool
<1>2. \A p \in Deps : Sound(p)
  BY StepFacts, PolicyFacts, Sound2 DEF Quiet, Asks, RosdepInstall
<1>3. \A p \in Cycles : Sound(p)
  BY StepFacts, PolicyFacts, Sound2, Sound3 DEF Quiet, Asks, Lifecycle
<1>4. \A p \in Parts : Sound(p)
  BY StepFacts, PolicyFacts, Sound1, Sound3 DEF Quiet, Asks, Component
<1>5. \A p \in Daemons : Sound(p)
  BY StepFacts, PolicyFacts, Sound1, Sound2 DEF Quiet, Asks, Daemon
<1>6. \A p \in Spaces : Sound(p)
  BY StepFacts, PolicyFacts, Sound1, Sound3 DEF Quiet, Asks, Workspace
<1>7. ChoosingPrograms =
        Runs \cup Deps \cup Cycles \cup Parts \cup Daemons \cup Spaces
  BY Zenon DEF ChoosingPrograms
<1> HIDE DEF Runs, Deps, Cycles, Parts, Daemons, Spaces
<1> QED
  BY <1>1, <1>2, <1>3, <1>4, <1>5, <1>6, <1>7

LEMMA ProfileIsSound == \A p \in ProfilePrograms : Sound(p)
<1> USE StepFacts, PolicyFacts DEF Quiet, Asks
<1>1. \A p \in ZeroPoseSemantics \cup RobotRegister \cup RobotLoad : Sound(p)
  BY Sound2, Sound3, Sound4 DEF ZeroPoseSemantics, RobotRegister, RobotLoad
<1>2. \A a \in {"show", "diagnose", "search", "snapshot", "learn"} :
        \A p \in RobotTopology(a) : Sound(p)
  BY Sound2, Sound3, Sound4 DEF RobotTopology
<1> QED
  BY <1>1, <1>2 DEF ProfilePrograms

LEMMA SafetyIsSound == \A p \in SafetyPrograms : Sound(p)
<1> USE StepFacts, PolicyFacts DEF Quiet, Asks
<1>1. \A p \in RobotSafetyStart : Sound(p)
  <2>1. /\ Read("never") \in Steps /\ Quiet(Read("never"))
        /\ Quiet(Refusable) /\ Quiet(Ask) /\ Asks(Ask)
    OBVIOUS
  <2>2. Sound(<<Refusable, Refusable, Ask, Job>>)
    BY <2>1, SoundLater
  <2>3. Sound(<<Refusable, Read("never"), Refusable, Ask, Job>>)
    BY <2>1, Sound5
  <2> QED
    BY <2>2, <2>3 DEF RobotSafetyStart
<1>2. \A p \in RobotSafetyState \cup RobotSafetyArbitrate
               \cup RobotSafetyLock \cup RobotSafetyUnlock : Sound(p)
  BY Sound1, Sound2 DEF RobotSafetyState, RobotSafetyArbitrate,
                        RobotSafetyLock, RobotSafetyUnlock
<1> QED
  BY <1>1, <1>2 DEF SafetyPrograms

LEMMA MotionAndVisionAreSound ==
  \A p \in MoveitPrograms \cup VisionPrograms : Sound(p)
<1> USE StepFacts, PolicyFacts DEF Quiet, Asks
<1>1. \A p \in MoveitPrograms : Sound(p)
  BY Sound1, Sound3, Sound4
     DEF MoveitPrograms, MoveitDiscover, MoveitStatus, MotionValidate
<1>2. \A p \in VisionDescribe \cup VlmAnalyze \cup VisionTopics
               \cup VisionAnalyze \cup VisionSetKey \cup VisionDoctor :
        Sound(p)
  BY Sound1, Sound2, Sound3
     DEF VisionDescribe, VlmAnalyze, VisionTopics, VisionAnalyze,
         VisionSetKey, VisionDoctor
<1> DEFINE Shots == UNION {ImageSnapshot(p) : p \in {"inside", "outside"}}
<1>3. \A p \in Shots : Sound(p)
  BY Sound3, Sound4 DEF ImageSnapshot
<1>4. VisionPrograms =
        VisionDescribe \cup Shots \cup VlmAnalyze \cup VisionTopics
          \cup VisionAnalyze \cup VisionSetKey \cup VisionDoctor
  BY Zenon DEF VisionPrograms
<1> HIDE StepFacts, PolicyFacts DEF Shots
<1> QED
  BY <1>1, <1>2, <1>3, <1>4

(* Every handler asks before it writes.                                    *)
LEMMA AllAreSound == \A p \in AllPrograms : Sound(p)
BY ReadingIsSound, WritingIsSound, ChoosingIsSound, ProfileIsSound,
   SafetyIsSound, MotionAndVisionAreSound
   DEF AllPrograms, CorePrograms, RobotPrograms
----------------------------------------------------------------------------
(* What the memo says was found out about the object it names: it had the  *)
(* mode of a private directory, and none of another user took its number.  *)
MemoInv ==
  memo # None /\ memo.dir = "configured" /\ ~raced =>
    /\ memo.id.shape = "dir700" /\ memo.id.ino <= logDir.ino
    /\ memo.id.ino = logDir.ino /\ "theirs" \notin reused =>
         logDir.kind \notin Theirs

(* An accepted object is private as long as nobody else touches it.        *)
VerdictInv ==
  \A c \in Calls :
    /\ command[c].pc \in {"look", "mkdir", "check", "chmod", "verify"} =>
         place = "temp"
    /\ command[c].pc = "chmod" /\ ~raced => logDir.kind \in Ours
    /\ command[c].pc = "verify" /\ ~raced => logDir.kind = "private"
    /\ command[c].pc = "record" => command[c].verdict # "none"
    /\ /\ command[c].pc = "record" /\ command[c].verdict = "accepted"
       /\ place = "temp" /\ ~raced
       => logDir.kind = "private"

AskedInv ==
  \A c \in Calls :
    \/ call[c].granted
    \/ call[c].effect = "none" /\ Asked(call[c].todo)

IInv == ToolTypeOK /\ MemoInv /\ VerdictInv /\ AskedInv

CommandType ==
  [pc : {"idle", "look", "mkdir", "check", "chmod", "verify", "record",
         "running"},
   verdict : {"none", "accepted", "refused"}, given : Places,
   sourced : Chains]
CallType == [todo : Seq(Steps), granted : BOOLEAN, effect : {"none", "write"}]

LEMMA ResolveType == ASSUME ToolTypeOK PROVE Resolve \in Chains
<1>1. AutoDetect(onDisk) \in Chains
  BY DEF ToolTypeOK, AutoDetect, Chains
<1>2. Explicit(override) \in Chains
  BY SetupAssumption DEF ToolTypeOK, Explicit, Chains
<1> QED
  BY <1>1, <1>2 DEF Resolve, Resolved, Chains

LEMMA InitIInv == Init => IInv
<1> SUFFICES ASSUME Init PROVE IInv
  OBVIOUS
<1> USE DEF Init, RunnerInit
<1>1. ToolTypeOK
  <2>1. onDisk \subseteq Setups /\ override \in {None} \cup Chains
    OBVIOUS
  <2>2. /\ logDir \in Objects
        /\ memo \in [id : Identities, dir : Places] \cup {None}
    BY DEF Objects, Kinds, Ours, Theirs
  <2>3. command \in [Calls -> CommandType]
    BY DEF CommandType, Idle, Places, Chains
  <2>4. call \in [Calls -> CallType] /\ <<>> \in Seq(Steps)
    BY DEF CallType, Ended
  <2>5. moves \in 0..MaxMoves
    BY MovesAssumption
  <2> QED
    BY <2>1, <2>2, <2>3, <2>4, <2>5 DEF ToolTypeOK, Idle, CommandType, CallType
<1>2. MemoInv /\ VerdictInv /\ AskedInv
  BY DEF MemoInv, VerdictInv, AskedInv, Idle, Ended, Asked
<1> QED
  BY <1>1, <1>2 DEF IInv
----------------------------------------------------------------------------
(* A step of the handler leaves the rest of it sound.                      *)
LEMMA TailIsAsked ==
  ASSUME NEW s \in Seq(Steps), s # <<>>, Asked(s), Head(s).kind # "ask"
  PROVE  Head(s).effect # "write" /\ Asked(Tail(s))
<1>1. Head(s) = s[1] /\ 1 \in 1..Len(s)
  OBVIOUS
<1>2. Head(s).effect # "write"
  BY <1>1 DEF Asked
<1>3. ASSUME NEW i \in 1..Len(Tail(s)), Tail(s)[i].effect = "write"
      PROVE  \E j \in 1..(i - 1) : Tail(s)[j].kind = "ask"
  <2>1. Tail(s)[i] = s[i + 1] /\ i + 1 \in 1..Len(s)
    OBVIOUS
  <2>2. PICK k \in 1..i : s[k].kind = "ask"
    BY <1>3, <2>1 DEF Asked
  <2>3. k - 1 \in 1..(i - 1) /\ Tail(s)[k - 1] = s[k]
    BY <1>1, <2>2
  <2> QED
    BY <2>2, <2>3
<1> QED
  BY <1>2, <1>3 DEF Asked

(* The helpers stay within the types.                                      *)
LEMMA QuitsType ==
  ASSUME ToolTypeOK, NEW c \in Calls,
         Quits(c) \/ (call[c].todo # <<>> /\ MovesOn(c))
  PROVE  call' \in [Calls -> CallType]
<1> USE DEF ToolTypeOK
<1>1. <<>> \in Seq(Steps)
  OBVIOUS
<1>2. call \in [Calls -> CallType]
  BY DEF CallType
<1>3. CASE Quits(c)
  BY <1>1, <1>2, <1>3 DEF Quits, CallType
<1>4. CASE call[c].todo # <<>> /\ MovesOn(c)
  <2>1. Tail(call[c].todo) \in Seq(Steps)
    BY <1>2, <1>4 DEF CallType
  <2>2. Effect(c) \in {"none", "write"}
    BY <1>2 DEF Effect, CallType
  <2> QED
    BY <1>2, <1>4, <2>1, <2>2 DEF MovesOn, CallType
<1> QED
  BY <1>3, <1>4

(* A command moves on alone, within its type.                              *)
Alone(c) ==
  /\ command' \in [Calls -> CommandType]
  /\ \A d \in Calls \ {c} : command'[d] = command[d]

LEMMA CommandMoves ==
  ASSUME ToolTypeOK, NEW c \in Calls
  PROVE  /\ \A pc \in {"look", "mkdir", "check", "chmod", "verify"} :
              Goes(c, pc) => Alone(c) /\ command'[c].pc = pc
         /\ \A verdict \in {"accepted", "refused"} :
              Judges(c, verdict) =>
                /\ Alone(c) /\ command'[c].pc = "record"
                /\ command'[c].verdict = verdict
         /\ \A given \in Places :
              Spawn(c, given) =>
                /\ Alone(c) /\ command'[c].pc = "running"
                /\ command'[c].given = given
                /\ command'[c].sourced = Resolve
         /\ command' = [command EXCEPT ![c] = Idle] =>
              Alone(c) /\ command'[c].pc = "idle"
<1>1. command \in [Calls -> CommandType]
  BY DEF ToolTypeOK, CommandType
<1>2. ASSUME NEW pc \in {"look", "mkdir", "check", "chmod", "verify"},
             Goes(c, pc)
      PROVE  Alone(c) /\ command'[c].pc = pc
  BY <1>1, <1>2 DEF Goes, CommandType, Alone
<1>3. ASSUME NEW verdict \in {"accepted", "refused"}, Judges(c, verdict)
      PROVE  /\ Alone(c) /\ command'[c].pc = "record"
             /\ command'[c].verdict = verdict
  BY <1>1, <1>3 DEF Judges, CommandType, Alone
<1>4. ASSUME NEW given \in Places, Spawn(c, given)
      PROVE  /\ Alone(c) /\ command'[c].pc = "running"
             /\ command'[c].given = given
             /\ command'[c].sourced = Resolve
  BY <1>1, <1>4, ResolveType DEF Spawn, Idle, CommandType, Alone
<1>5. ASSUME command' = [command EXCEPT ![c] = Idle]
      PROVE  Alone(c) /\ command'[c].pc = "idle"
  BY <1>1, <1>5 DEF Idle, CommandType, Alone, Places, Chains
<1> QED
  BY <1>2, <1>3, <1>4, <1>5

(* What lies there has a number of its own or its predecessor's.           *)
LEMMA BecomesFacts ==
  ASSUME ToolTypeOK, NEW owner \in SUBSET {"ours", "theirs"},
         NEW kind \in Kinds, Becomes(owner, kind)
  PROVE  /\ logDir' \in Objects /\ logDir'.kind = kind
         /\ reused' \subseteq {"ours", "theirs"} /\ reused \subseteq reused'
         /\ \/ logDir'.ino = logDir.ino + 1 /\ reused' = reused
            \/ logDir'.ino = logDir.ino /\ reused' = reused \cup owner
<1>1. /\ logDir.ino \in Nat /\ reused \subseteq {"ours", "theirs"}
      /\ owner \subseteq {"ours", "theirs"}
  BY DEF ToolTypeOK, Objects
<1>2. CASE /\ logDir' = [ino |-> logDir.ino + 1, kind |-> kind]
           /\ UNCHANGED reused
  <2>1. logDir.ino + 1 \in Nat
    BY <1>1
  <2> QED
    BY <1>1, <1>2, <2>1 DEF Objects
<1>3. CASE /\ logDir' = [ino |-> logDir.ino, kind |-> kind]
           /\ reused' = reused \cup owner
  <2>1. reused' \subseteq {"ours", "theirs"} /\ reused \subseteq reused'
    BY <1>1, <1>3
  <2>2. /\ logDir' \in Objects /\ logDir'.kind = kind
        /\ logDir'.ino = logDir.ino
    BY <1>1, <1>3 DEF Objects
  <2> QED
    BY <1>3, <2>1, <2>2
<1> QED
  BY <1>2, <1>3 DEF Becomes

LEMMA RunnerTypeStep ==
  ASSUME ToolTypeOK, NEW c \in Calls, RunBegins(c) \/ RunnerSteps(c)
  PROVE  /\ Alone(c) /\ command'[c].pc # "idle"
         /\ memo' \in [id : Identities, dir : Places] \cup {None}
         /\ fallback' \in {"unprobed", "unset", "private"}
         /\ logDir' \in Objects /\ reused' \subseteq {"ours", "theirs"}
         /\ UNCHANGED <<override, onDisk, place, moves, raced>>
<1>0. /\ memo \in [id : Identities, dir : Places] \cup {None}
      /\ fallback \in {"unprobed", "unset", "private"} /\ logDir \in Objects
      /\ reused \subseteq {"ours", "theirs"}
      /\ FallenBack \in Places /\ "configured" \in Places
  BY DEF ToolTypeOK, FallenBack, Places
<1>2. Identity \in Identities
  <2>1. /\ logDir.ino \in Nat /\ logDir.kind \in Kinds /\ 0 \in Nat
        /\ Shape(logDir.kind) \in
             {"dir700", "dirwide", "link", "file", "absent"}
    BY <1>0 DEF Objects, Kinds, Ours, Theirs, Shape
  <2> QED
    BY <2>1 DEF Identity, Identities
<1>3. CASE RunBegins(c)
  <2>1. CASE place = "unset" /\ Probe /\ Spawn(c, FallenBack)
    BY <1>0, <1>3, <2>1, CommandMoves DEF RunBegins, Probe, hostVars
  <2>2. CASE place = "elsewhere" /\ Judges(c, "accepted") /\ UNCHANGED fallback
    BY <1>0, <1>3, <2>2, CommandMoves DEF RunBegins, hostVars
  <2>3. CASE Remembered /\ Spawn(c, memo.dir) /\ UNCHANGED fallback
    BY <1>0, <1>3, <2>3, CommandMoves DEF RunBegins, Remembered, hostVars
  <2>4. CASE Goes(c, "look") /\ UNCHANGED fallback
    BY <1>0, <1>3, <2>4, CommandMoves DEF RunBegins, hostVars
  <2> QED
    BY <1>3, <2>1, <2>2, <2>3, <2>4 DEF RunBegins
<1>4. CASE Look(c)
  BY <1>0, <1>4, CommandMoves DEF Look, hostVars
<1>5. CASE MakeDir(c)
  <2>1. CASE Becomes({"ours"}, "private") /\ Goes(c, "check")
    <3>1. /\ logDir' \in Objects
          /\ reused' \subseteq {"ours", "theirs"}
      BY <2>1, BecomesFacts DEF Kinds, Ours
    <3> QED
      BY <1>0, <1>5, <2>1, <3>1, CommandMoves DEF MakeDir
  <2>2. CASE Judges(c, "refused") /\ UNCHANGED <<logDir, reused>>
    BY <1>0, <1>5, <2>2, CommandMoves DEF MakeDir
  <2> QED
    BY <1>5, <2>1, <2>2 DEF MakeDir
<1>6. CASE Check(c)
  BY <1>0, <1>6, CommandMoves DEF Check, hostVars
<1>7. CASE Tighten(c)
  <2>1. logDir' \in Objects
    BY <1>0, <1>7 DEF Tighten, Objects, Kinds, Ours
  <2> QED
    BY <1>0, <1>7, <2>1, CommandMoves DEF Tighten
<1>9. CASE Verify(c)
  BY <1>0, <1>9, CommandMoves DEF Verify, hostVars
<1>8. CASE Record(c)
  <2>1. PICK dir \in Places :
          /\ memo' = IF place = "temp" THEN [id |-> Identity, dir |-> dir]
                     ELSE memo
          /\ Spawn(c, dir)
    BY <1>0, <1>8 DEF Record
  <2>2. memo' \in [id : Identities, dir : Places] \cup {None}
    BY <1>0, <1>2, <2>1
  <2>3. fallback' \in {"unprobed", "unset", "private"}
    BY <1>0, <1>8 DEF Record, Probe
  <2> QED
    BY <1>0, <1>8, <2>1, <2>2, <2>3, CommandMoves DEF Record, hostVars
<1> QED
  BY <1>3, <1>4, <1>5, <1>6, <1>7, <1>8, <1>9 DEF RunnerSteps

(* What others do to the directory.                                        *)
LEMMA LogDirFacts ==
  ASSUME ToolTypeOK, LogDirMoves
  PROVE  /\ logDir' \in Objects /\ reused' \subseteq {"ours", "theirs"}
         /\ reused \subseteq reused'
         /\ \/ logDir'.ino = logDir.ino + 1
            \/ /\ logDir'.ino = logDir.ino
               /\ logDir'.kind \in Ours =>
                    "ours" \in reused' \/ logDir.kind \in Ours
               /\ logDir'.kind \in Theirs =>
                    "theirs" \in reused' \/ logDir.kind \in Theirs
<1>1. ASSUME NEW kind \in Kinds,
             Becomes(IF kind \in Ours THEN {"ours"}
                     ELSE IF kind \in Theirs THEN {"theirs"} ELSE {}, kind)
      PROVE  /\ logDir' \in Objects /\ reused' \subseteq {"ours", "theirs"}
             /\ reused \subseteq reused'
             /\ \/ logDir'.ino = logDir.ino + 1
                \/ /\ logDir'.ino = logDir.ino
                   /\ logDir'.kind \in Ours => "ours" \in reused'
                   /\ logDir'.kind \in Theirs => "theirs" \in reused'
  <2>1. PICK owner \in SUBSET {"ours", "theirs"} :
          /\ owner = (IF kind \in Ours THEN {"ours"}
                      ELSE IF kind \in Theirs THEN {"theirs"} ELSE {})
          /\ Becomes(owner, kind)
    BY <1>1
  <2>2. /\ kind \in Ours => "ours" \in owner
        /\ kind \in Theirs => "theirs" \in owner
    BY <2>1 DEF Ours, Theirs
  <2> QED
    BY <2>1, <2>2, BecomesFacts
<1>2. ASSUME NEW owned \in {Ours, Theirs}, logDir.kind \in owned,
             NEW k \in owned, logDir' = [logDir EXCEPT !.kind = k],
             UNCHANGED reused
      PROVE  /\ logDir' \in Objects /\ reused' \subseteq {"ours", "theirs"}
             /\ reused \subseteq reused' /\ logDir'.ino = logDir.ino
             /\ logDir'.kind \in Ours => logDir.kind \in Ours
             /\ logDir'.kind \in Theirs => logDir.kind \in Theirs
  BY <1>2 DEF ToolTypeOK, Objects, Kinds, Ours, Theirs
<1> QED
  BY <1>1, <1>2, Zenon DEF LogDirMoves
----------------------------------------------------------------------------
(* A step of a handler leaves the command of another call alone.           *)
LEMMA TypeStep == ASSUME IInv, [Next]_vars PROVE ToolTypeOK'
<1>0. /\ ToolTypeOK /\ command \in [Calls -> CommandType]
      /\ call \in [Calls -> CallType]
  BY DEF IInv, ToolTypeOK, CommandType, CallType
(* What is left to show once the command and the call are typed.           *)
<1>e. ASSUME command' \in [Calls -> CommandType],
             call' \in [Calls -> CallType],
             override' \in {None} \cup Chains, onDisk' \subseteq Setups,
             place' = place, logDir' \in Objects,
             memo' \in [id : Identities, dir : Places] \cup {None},
             fallback' \in {"unprobed", "unset", "private"},
             moves' \in 0..MaxMoves, raced' \in BOOLEAN,
             reused' \subseteq {"ours", "theirs"},
             \A c \in Calls : command'[c].pc # "idle" =>
               call'[c].todo # <<>> /\ Head(call'[c].todo).kind = "run"
      PROVE  ToolTypeOK'
  BY <1>0, <1>e DEF ToolTypeOK, CommandType, CallType, Doing
<1>r. \A c \in Calls : command[c].pc # "idle" =>
        call[c].todo # <<>> /\ Head(call[c].todo).kind = "run"
  BY <1>0 DEF ToolTypeOK, Doing
<1>t. /\ override \in {None} \cup Chains
      /\ onDisk \subseteq Setups /\ logDir \in Objects
      /\ memo \in [id : Identities, dir : Places] \cup {None}
      /\ fallback \in {"unprobed", "unset", "private"}
      /\ moves \in 0..MaxMoves /\ raced \in BOOLEAN
      /\ reused \subseteq {"ours", "theirs"}
  BY <1>0 DEF ToolTypeOK
<1>1. ASSUME NEW c \in Calls, CallBegins(c) PROVE ToolTypeOK'
  <2>1. PICK p \in Programs[c] :
          call' = [call EXCEPT ![c] = [Ended EXCEPT !.todo = p]]
    BY <1>1 DEF CallBegins
  <2>2. p \in Seq(Steps)
    BY AllAreSound, ProgramsAssumption DEF Sound
  <2>3. call' \in [Calls -> CallType]
    BY <1>0, <2>1, <2>2 DEF Ended, CallType
  <2>4. command[c].pc = "idle"
    BY <1>1, <1>r DEF CallBegins
  <2> QED
    BY <1>0, <1>1, <1>e, <1>r, <1>t, <2>1, <2>3, <2>4
       DEF CallBegins, runnerVars, hostVars
(* Steps that leave the runner alone.                                      *)
<1>2. ASSUME NEW c \in Calls, command[c].pc = "idle",
             UNCHANGED runnerVars, call' \in [Calls -> CallType],
             \A d \in Calls \ {c} : call'[d] = call[d]
      PROVE  ToolTypeOK'
  BY <1>0, <1>2, <1>e, <1>r, <1>t DEF runnerVars, hostVars
<1>3. ASSUME NEW c \in Calls,
             Quits(c) \/ (call[c].todo # <<>> /\ MovesOn(c))
      PROVE  /\ call' \in [Calls -> CallType]
             /\ \A d \in Calls \ {c} : call'[d] = call[d]
  <2>1. call' \in [Calls -> CallType]
    BY <1>0, <1>3, QuitsType
  <2> QED
    BY <1>0, <1>3, <2>1 DEF Quits, MovesOn
<1>4. ASSUME NEW c \in Calls, Checks(c) \/ Works(c) PROVE ToolTypeOK'
  <2>1. command[c].pc = "idle" /\ call[c].todo # <<>>
    BY <1>4, <1>r DEF Checks, Works, Doing
  <2> QED
    BY <1>2, <1>3, <1>4, <1>t, <2>1 DEF Checks, Works
<1>5. ASSUME NEW c \in Calls, Answers(c) PROVE ToolTypeOK'
  <2>1. command[c].pc = "idle" /\ call[c].todo # <<>>
    BY <1>5, <1>r DEF Answers, Doing
  <2>2. CASE Quits(c)
    BY <1>2, <1>3, <1>5, <1>t, <2>1, <2>2 DEF Answers
  <2>3. CASE call' = [call EXCEPT ![c].todo = Tail(@), ![c].granted = TRUE]
    <3>1. Tail(call[c].todo) \in Seq(Steps)
      BY <1>0, <2>1 DEF CallType
    <3>2. call' \in [Calls -> CallType]
      BY <1>0, <2>3, <3>1 DEF CallType
    <3> QED
      BY <1>0, <1>2, <1>5, <1>t, <2>1, <2>3, <3>2 DEF Answers
  <2> QED
    BY <1>5, <2>2, <2>3 DEF Answers
<1>6. ASSUME NEW c \in Calls, Reports(c) PROVE ToolTypeOK'
  <2>1. command[c].pc = "idle" /\ call[c].todo # <<>>
    BY <1>6, <1>r DEF Reports, Doing
  <2> QED
    BY <1>2, <1>3, <1>6, <2>1 DEF Reports
<1>7. ASSUME NEW c \in Calls, Overrides(c) PROVE ToolTypeOK'
  <2>1. command[c].pc = "idle" /\ call[c].todo # <<>>
    BY <1>7, <1>r DEF Overrides, Doing
  <2>2. override' \in {None} \cup Chains
    BY <1>7, WorkspacesAssumption DEF Overrides, Chains
  <2>3. MovesOn(c)
    BY <1>7 DEF Overrides
  <2> QED
    BY <1>0, <1>3, <1>7, <1>e, <1>r, <1>t, <2>1, <2>2, <2>3
       DEF Overrides, hostVars
<1>8. ASSUME NEW c \in Calls, RunStarts(c) PROVE ToolTypeOK'
  <2>1. call[c].todo # <<>> /\ Head(call[c].todo).kind = "run"
    BY <1>8 DEF RunStarts, Doing
  <2>2. /\ call' \in [Calls -> CallType]
        /\ \A d \in Calls : call'[d].todo = call[d].todo
    BY <1>0, <1>8 DEF RunStarts, CallType, Effect
  <2>3. RunBegins(c)
    BY <1>8 DEF RunStarts
  <2> QED
    BY <1>0, <1>8, <1>e, <1>r, <1>t, <2>1, <2>2, <2>3, RunnerTypeStep
       DEF RunStarts, Alone
<1>9. ASSUME NEW c \in Calls, RunContinues(c) PROVE ToolTypeOK'
  <2>1. command[c].pc # "idle" /\ RunnerSteps(c)
    BY <1>9 DEF RunContinues, RunnerSteps, Look, MakeDir, Check, Tighten,
                  Verify, Record
  <2> QED
    BY <1>0, <1>9, <1>e, <1>r, <1>t, <2>1, RunnerTypeStep
       DEF RunContinues, Alone
<1>10. ASSUME NEW c \in Calls, RunEnds(c) \/ CallThrows(c) PROVE ToolTypeOK'
  <2>1. command[c].pc # "idle" /\ command' = [command EXCEPT ![c] = Idle]
    BY <1>10 DEF RunEnds, CallThrows, Throws
  <2>2. Quits(c) \/ MovesOn(c)
    BY <1>10 DEF RunEnds, CallThrows
  <2>3. Alone(c) /\ command'[c].pc = "idle"
    BY <1>0, <2>1, CommandMoves
  <2> QED
    BY <1>0, <1>3, <1>10, <1>e, <1>r, <1>t, <2>1, <2>2, <2>3
       DEF RunEnds, CallThrows, hostVars, Alone
<1>11. ASSUME SetupMoves \/ LogDirMoves, UNCHANGED call
       PROVE  ToolTypeOK'
  <2>1. moves' \in 0..MaxMoves
    BY <1>11, <1>t, MovesAssumption DEF SetupMoves, LogDirMoves
  <2>2. logDir' \in Objects /\ reused' \subseteq {"ours", "theirs"}
    <3>1. CASE SetupMoves
      BY <3>1, <1>t DEF SetupMoves
    <3>2. CASE LogDirMoves
      BY <1>0, <3>2, LogDirFacts
    <3> QED
      BY <1>11, <3>1, <3>2
  <2>4. raced' \in BOOLEAN
    <3>1. CASE SetupMoves
      BY <3>1, <1>t DEF SetupMoves
    <3>2. CASE LogDirMoves
      BY <3>2, Zenon DEF LogDirMoves
    <3> QED
      BY <1>11, <3>1, <3>2
  <2>3. onDisk' \subseteq Setups
    BY <1>11, <1>t DEF SetupMoves, LogDirMoves
  <2> QED
    BY <1>0, <1>11, <1>e, <1>r, <1>t, <2>1, <2>2, <2>3, <2>4
       DEF SetupMoves, LogDirMoves
<1>12. CASE UNCHANGED vars
  BY <1>0, <1>12, <1>e, <1>r, <1>t DEF vars, runnerVars, hostVars
<1> QED
  BY <1>1, <1>4, <1>5, <1>6, <1>7, <1>8, <1>9, <1>10, <1>11, <1>12
     DEF Next, CallContinues

(* Who moves the directory, the memo and the verdicts.                     *)
LEMMA LogDirStep == ASSUME IInv, [Next]_vars PROVE MemoInv' /\ VerdictInv'
<1>0. ToolTypeOK /\ MemoInv /\ VerdictInv
  BY DEF IInv
<1>1. ASSUME UNCHANGED <<memo, logDir, place, raced, reused>>,
             \A d \in Calls : \/ command'[d] = command[d]
                             \/ command'[d].pc \in {"idle", "running"}
      PROVE  MemoInv' /\ VerdictInv'
  BY <1>0, <1>1 DEF MemoInv, VerdictInv
<1>2. ASSUME NEW c \in Calls, RunBegins(c) PROVE MemoInv' /\ VerdictInv'
  <2>1. Alone(c) /\ UNCHANGED <<memo, logDir, place, raced, reused>>
    BY <1>0, <1>2, RunnerTypeStep DEF RunBegins, hostVars
  <2>2. \/ command'[c].pc = "running"
        \/ /\ command'[c].pc = "record" /\ place # "temp"
           /\ command'[c].verdict = "accepted"
        \/ command'[c].pc = "look" /\ place = "temp"
    <3>1. /\ FallenBack \in Places
          /\ memo # None => memo.dir \in Places
      BY <1>0, <1>2 DEF ToolTypeOK, FallenBack, Places
    <3> QED
      BY <1>0, <1>2, <3>1, CommandMoves DEF RunBegins, Remembered
  <2> QED
    BY <1>0, <2>1, <2>2 DEF MemoInv, VerdictInv, Alone
<1>3. ASSUME NEW c \in Calls, Look(c) PROVE MemoInv' /\ VerdictInv'
  <2>1. /\ Alone(c) /\ UNCHANGED <<memo, logDir, place, raced, reused>>
        /\ place = "temp"
    BY <1>0, <1>3, RunnerTypeStep DEF RunnerSteps, Look, hostVars, VerdictInv
  <2>2. \/ command'[c].pc = "record" /\ command'[c].verdict = "refused"
        \/ command'[c].pc \in {"mkdir", "check"}
    BY <1>0, <1>3, CommandMoves DEF Look
  <2> QED
    BY <1>0, <2>1, <2>2 DEF MemoInv, VerdictInv, Alone
<1>4. ASSUME NEW c \in Calls, MakeDir(c) PROVE MemoInv' /\ VerdictInv'
  <2>1. Alone(c) /\ UNCHANGED <<memo, place, raced>> /\ place = "temp"
    BY <1>0, <1>4, RunnerTypeStep DEF RunnerSteps, MakeDir, VerdictInv
  <2>2. CASE UNCHANGED <<logDir, reused>> /\ Judges(c, "refused")
    <3>1. command'[c].pc = "record" /\ command'[c].verdict = "refused"
      BY <1>0, <2>2, CommandMoves
    <3> QED
      BY <1>0, <2>1, <2>2, <3>1 DEF MemoInv, VerdictInv, Alone
  <2>3. CASE Becomes({"ours"}, "private") /\ Goes(c, "check")
    <3>1. /\ logDir'.kind = "private" /\ reused \subseteq reused'
          /\ logDir'.ino \in {logDir.ino, logDir.ino + 1}
          /\ logDir.ino \in Nat
      BY <1>0, <2>3, BecomesFacts DEF Kinds, Ours, ToolTypeOK, Objects
    <3>2. command'[c].pc = "check"
      BY <1>0, <2>3, CommandMoves
    <3>3. MemoInv'
      <4> SUFFICES ASSUME memo # None, memo.dir = "configured", ~raced
                   PROVE  memo.id.shape = "dir700" /\ memo.id.ino <= logDir'.ino
        BY <2>1, <3>1 DEF MemoInv, Theirs
      <4>1. memo.id.ino \in Nat
        BY <1>0 DEF ToolTypeOK, Identities
      <4> QED
        BY <1>0, <3>1, <4>1 DEF MemoInv
    <3> QED
      BY <1>0, <2>1, <3>1, <3>2, <3>3 DEF VerdictInv, Alone, Ours
  <2> QED
    BY <1>4, <2>2, <2>3 DEF MakeDir
<1>5. ASSUME NEW c \in Calls, Check(c) PROVE MemoInv' /\ VerdictInv'
  <2>1. /\ Alone(c) /\ UNCHANGED <<memo, logDir, place, raced, reused>>
        /\ place = "temp"
    BY <1>0, <1>5, RunnerTypeStep DEF RunnerSteps, Check, hostVars, VerdictInv
  <2>2. \/ command'[c].pc = "record" /\ command'[c].verdict = "refused"
        \/ /\ command'[c].pc = "record" /\ logDir.kind = "private"
           /\ command'[c].verdict = "accepted"
        \/ command'[c].pc = "chmod" /\ logDir.kind \in Ours
    BY <1>0, <1>5, CommandMoves DEF Check, Ours
  <2> QED
    BY <1>0, <2>1, <2>2 DEF MemoInv, VerdictInv, Alone
<1>6. ASSUME NEW c \in Calls, Tighten(c) PROVE MemoInv' /\ VerdictInv'
  <2>1. /\ Alone(c) /\ UNCHANGED <<memo, place, raced, reused>>
        /\ place = "temp"
    BY <1>0, <1>6, RunnerTypeStep DEF RunnerSteps, Tighten, VerdictInv
  <2>2. /\ command'[c].pc = "verify" /\ logDir'.ino = logDir.ino
        /\ \/ logDir'.kind = "private"
           \/ UNCHANGED logDir /\ logDir.kind \notin Ours
    BY <1>0, <1>6, CommandMoves DEF Tighten, ToolTypeOK, Objects
  <2>3. MemoInv'
    BY <1>0, <2>1, <2>2 DEF MemoInv, Theirs
  <2>4. logDir'.kind = "private" \/ raced'
    BY <1>0, <1>6, <2>1, <2>2 DEF Tighten, VerdictInv
  <2> QED
    BY <1>0, <2>1, <2>2, <2>3, <2>4 DEF VerdictInv, Alone, Ours
<1>11. ASSUME NEW c \in Calls, Verify(c) PROVE MemoInv' /\ VerdictInv'
  <2>1. /\ Alone(c) /\ UNCHANGED <<memo, logDir, place, raced, reused>>
        /\ place = "temp" /\ (raced \/ logDir.kind = "private")
    BY <1>0, <1>11, RunnerTypeStep
       DEF RunnerSteps, Verify, hostVars, VerdictInv
  <2>2. \/ command'[c].pc = "record" /\ command'[c].verdict = "refused"
        \/ command'[c].pc = "record" /\ command'[c].verdict = "accepted"
    BY <1>0, <1>11, CommandMoves DEF Verify
  <2> QED
    BY <1>0, <2>1, <2>2 DEF MemoInv, VerdictInv, Alone
<1>7. ASSUME NEW c \in Calls, Record(c) PROVE MemoInv' /\ VerdictInv'
  <2>1. Alone(c) /\ UNCHANGED <<logDir, place, raced, reused>>
    BY <1>0, <1>7, RunnerTypeStep DEF RunnerSteps, Record, hostVars
  <2>2. PICK dir \in Places :
          /\ memo' = IF place = "temp" THEN [id |-> Identity, dir |-> dir]
                     ELSE memo
          /\ Spawn(c, dir)
          /\ dir = "configured" => command[c].verdict # "refused"
    BY <1>7 DEF Record, FallenBack, Places
  <2>3. command'[c].pc = "running"
    BY <1>0, <2>2, CommandMoves
  <2>4. dir = "configured" /\ place = "temp" /\ ~raced =>
          logDir.kind = "private"
    BY <1>0, <1>7, <2>2 DEF Record, VerdictInv, ToolTypeOK
  <2>5. logDir.kind = "private" =>
          Identity.shape = "dir700" /\ Identity.ino = logDir.ino
    BY DEF Identity, Shape
  <2>6. MemoInv'
    <3>1. CASE place = "temp"
      <4>1. memo' = [id |-> Identity, dir |-> dir] /\ logDir.ino \in Nat
        BY <1>0, <2>2, <3>1 DEF ToolTypeOK, Objects
      <4> QED
        BY <2>1, <2>4, <2>5, <3>1, <4>1 DEF MemoInv, Theirs
    <3>2. CASE place # "temp"
      BY <1>0, <2>1, <2>2, <3>2 DEF MemoInv
    <3> QED
      BY <3>1, <3>2
  <2> QED
    BY <1>0, <2>1, <2>3, <2>6 DEF VerdictInv, Alone
<1>8. CASE LogDirMoves
  <2>1. UNCHANGED <<memo, place, command>> /\ (raced => raced')
    BY <1>8 DEF LogDirMoves
  <2>2. MemoInv'
    <3> SUFFICES ASSUME memo # None, memo.dir = "configured", ~raced
                 PROVE  /\ memo.id.shape = "dir700"
                        /\ memo.id.ino <= logDir'.ino
                        /\ memo.id.ino = logDir'.ino /\ "theirs" \notin reused'
                             => logDir'.kind \notin Theirs
      BY <2>1 DEF MemoInv
    <3>1. /\ memo.id.ino \in Nat /\ logDir.ino \in Nat
          /\ memo.id.shape = "dir700" /\ memo.id.ino <= logDir.ino
          /\ memo.id.ino = logDir.ino /\ "theirs" \notin reused =>
               logDir.kind \notin Theirs
      BY <1>0 DEF ToolTypeOK, Identities, Objects, MemoInv
    <3> QED
      BY <1>0, <1>8, <3>1, LogDirFacts
  <2>3. VerdictInv'
    <3>1. CASE \E c \in Calls : command[c].pc \in {"record", "chmod", "verify"}
      <4>1. Judging # {}
        BY <3>1 DEF Judging
      <4>2. raced'
        BY <1>8, <4>1 DEF LogDirMoves
      <4> QED
        BY <1>0, <2>1, <4>2 DEF VerdictInv
    <3>2. CASE ~\E c \in Calls : command[c].pc \in {"record", "chmod", "verify"}
      BY <1>0, <2>1, <3>2 DEF VerdictInv
    <3> QED
      BY <3>1, <3>2
  <2> QED
    BY <2>2, <2>3
<1>9. ASSUME NEW c \in Calls, RunEnds(c) \/ CallThrows(c)
      PROVE  MemoInv' /\ VerdictInv'
  <2>1. Alone(c) /\ command'[c].pc = "idle"
    BY <1>0, <1>9, CommandMoves DEF RunEnds, CallThrows
  <2> QED
    BY <1>1, <1>9, <2>1 DEF RunEnds, CallThrows, hostVars, Alone
<1>10. ASSUME UNCHANGED <<memo, command, logDir, place, raced, reused>>
       PROVE  MemoInv' /\ VerdictInv'
  BY <1>1, <1>10
<1> QED
  BY <1>2, <1>3, <1>4, <1>5, <1>6, <1>7, <1>8, <1>9, <1>10, <1>11
     DEF Next, vars, runnerVars, hostVars, CallContinues, RunStarts,
         RunContinues, RunnerSteps, SetupMoves, CallBegins, Checks, Answers,
         Reports, Overrides, Works

(* Approvals.                                                              *)
LEMMA AskedStep == ASSUME IInv, [Next]_vars PROVE AskedInv'
<1>0. ToolTypeOK /\ AskedInv /\ call \in [Calls -> CallType]
  BY DEF IInv, ToolTypeOK, CallType
<1>1. ASSUME NEW c \in Calls, \A d \in Calls \ {c} : call'[d] = call[d],
             \/ call'[c].granted
             \/ call'[c].effect = "none" /\ Asked(call'[c].todo)
      PROVE  AskedInv'
  BY <1>0, <1>1 DEF AskedInv
<1>2. Asked(<<>>)
  BY DEF Asked
<1>3. ASSUME NEW c \in Calls, CallBegins(c) PROVE AskedInv'
  <2>1. PICK p \in Programs[c] :
          call' = [call EXCEPT ![c] = [Ended EXCEPT !.todo = p]]
    BY <1>3 DEF CallBegins
  <2>2. Asked(p)
    BY AllAreSound, ProgramsAssumption DEF Sound
  <2> QED
    BY <1>0, <1>1, <2>1, <2>2 DEF Ended
<1>4. ASSUME NEW c \in Calls, Quits(c) PROVE AskedInv'
  BY <1>0, <1>1, <1>2, <1>4 DEF Quits, AskedInv, CallType
<1>5. ASSUME NEW c \in Calls, MovesOn(c), call[c].todo # <<>>,
             Head(call[c].todo).kind # "ask"
      PROVE  AskedInv'
  <2>1. call[c].todo \in Seq(Steps)
    BY <1>0 DEF CallType
  <2>2. CASE call[c].granted
    BY <1>0, <1>1, <1>5, <2>2 DEF MovesOn, CallType
  <2>3. CASE call[c].effect = "none" /\ Asked(call[c].todo)
    <3>1. Head(call[c].todo).effect # "write" /\ Asked(Tail(call[c].todo))
      BY <1>5, <2>1, <2>3, TailIsAsked
    <3> QED
      BY <1>0, <1>1, <1>5, <2>3, <3>1 DEF MovesOn, Effect, CallType
  <2> QED
    BY <1>0, <2>2, <2>3 DEF AskedInv
<1>6. ASSUME NEW c \in Calls, Answers(c) PROVE AskedInv'
  <2>1. CASE call' = [call EXCEPT ![c].todo = Tail(@), ![c].granted = TRUE]
    BY <1>0, <1>1, <2>1 DEF CallType
  <2> QED
    BY <1>4, <1>6, <2>1 DEF Answers
<1>7. ASSUME NEW c \in Calls, RunStarts(c) PROVE AskedInv'
  <2>1. call[c].todo \in Seq(Steps) /\ call[c].todo # <<>>
    BY <1>0, <1>7 DEF CallType, RunStarts, Doing
  <2>2. Head(call[c].todo).kind # "ask"
    BY <1>7 DEF RunStarts, Doing
  <2>3. CASE call[c].granted
    BY <1>0, <1>1, <1>7, <2>3 DEF RunStarts, CallType
  <2>4. CASE call[c].effect = "none" /\ Asked(call[c].todo)
    <3>1. Head(call[c].todo).effect # "write"
      BY <2>1, <2>2, <2>4, TailIsAsked
    <3> QED
      BY <1>0, <1>1, <1>7, <2>4, <3>1 DEF RunStarts, Effect, CallType
  <2> QED
    BY <1>0, <2>3, <2>4 DEF AskedInv
<1>8. ASSUME NEW c \in Calls, RunEnds(c) \/ CallThrows(c) PROVE AskedInv'
  <2>1. call[c].todo # <<>> /\ Head(call[c].todo).kind = "run"
    BY <1>0, <1>8 DEF RunEnds, CallThrows, Throws, ToolTypeOK, Doing
  <2> QED
    BY <1>4, <1>5, <1>8, <2>1 DEF RunEnds, CallThrows
<1>9. ASSUME NEW c \in Calls,
             Checks(c) \/ Works(c) \/ Reports(c) \/ Overrides(c)
      PROVE  AskedInv'
  BY <1>4, <1>5, <1>9 DEF Checks, Works, Reports, Overrides, Doing
<1>10. CASE UNCHANGED call
  BY <1>0, <1>10 DEF AskedInv
<1> QED
  BY <1>3, <1>6, <1>7, <1>8, <1>9, <1>10
     DEF Next, vars, CallContinues, RunContinues

LEMMA SpecIInv == Spec => []IInv
<1>1. IInv /\ [Next]_vars => IInv'
  BY TypeStep, LogDirStep, AskedStep DEF IInv
<1> QED
  BY <1>1, InitIInv, PTL DEF Spec
----------------------------------------------------------------------------
(* The types hold for every table of handlers.                             *)
THEOREM TypeCorrect == Spec => []ToolTypeOK
<1>1. IInv => ToolTypeOK
  BY DEF IInv
<1> QED
  BY <1>1, SpecIInv, PTL

(* No call writes what its own approval did not allow, whatever the others *)
(* were allowed.                                                           *)
THEOREM WritesAskFirst == Spec => []ChangesAreApproved
<1>1. IInv => ChangesAreApproved
  BY DEF IInv, AskedInv, ChangesAreApproved
<1> QED
  BY <1>1, SpecIInv, PTL

(* How a command comes to run, and with what.                              *)
Judged == \/ logDir.kind = "private"
          \/ logDir.kind = "theirs" /\ "theirs" \in reused

LEMMA SpawnStep ==
  ASSUME IInv, Next, NEW c \in Calls, Spawns(c)
  PROVE  /\ command'[c].sourced = Resolve
         /\ command'[c].given = "configured" /\ place = "temp" /\ ~raced =>
              Judged
<1>0. /\ ToolTypeOK /\ MemoInv /\ VerdictInv
      /\ command[c].pc # "running" /\ command'[c].pc = "running"
  BY DEF IInv, Spawns
<1>1. ASSUME UNCHANGED command PROVE FALSE
  BY <1>0, <1>1
<1>2. ASSUME NEW d \in Calls, RunEnds(d) \/ CallThrows(d) PROVE FALSE
  BY <1>0, <1>2, CommandMoves DEF RunEnds, CallThrows, Alone
<1>3. ASSUME NEW d \in Calls, RunBegins(d) \/ RunnerSteps(d)
      PROVE  /\ command'[c].sourced = Resolve
             /\ command'[c].given = "configured" /\ place = "temp" /\ ~raced =>
                  Judged
  <2>1. d = c
    BY <1>0, <1>3, RunnerTypeStep DEF Alone
  <2>2. ~(Look(c) \/ MakeDir(c) \/ Check(c) \/ Tighten(c) \/ Verify(c))
    BY <1>0, CommandMoves DEF Look, MakeDir, Check, Tighten, Verify
  <2>3. FallenBack \in Places /\ FallenBack # "configured"
    BY DEF FallenBack, Places
  <2>4. CASE RunBegins(c)
    <3>1. ASSUME place = "unset", Spawn(c, FallenBack)
          PROVE  /\ command'[c].sourced = Resolve
                 /\ command'[c].given # "configured"
      BY <1>0, <2>3, <3>1, CommandMoves
    <3>2. ASSUME Remembered, Spawn(c, memo.dir)
          PROVE  /\ command'[c].sourced = Resolve
                 /\ command'[c].given = "configured" /\ ~raced => Judged
      <4>1. memo # None /\ memo.dir \in Places /\ memo.id = Identity
        BY <1>0, <3>2 DEF Remembered, ToolTypeOK
      <4>2. Identity.shape = "dir700" =>
              /\ Identity.ino = logDir.ino
              /\ logDir.kind \in {"private", "theirs"}
        BY <1>0 DEF Identity, Shape, ToolTypeOK, Objects, Kinds, Ours, Theirs
      <4> QED
        BY <1>0, <3>2, <4>1, <4>2, CommandMoves DEF MemoInv, Theirs, Judged
    <3>3. ~Judges(c, "accepted") /\ ~Goes(c, "look")
      BY <1>0, CommandMoves
    <3> QED
      BY <2>4, <3>1, <3>2, <3>3 DEF RunBegins
  <2>5. CASE Record(c)
    <3>1. PICK dir \in Places :
            /\ Spawn(c, dir)
            /\ dir = "configured" => command[c].verdict # "refused"
      BY <2>3, <2>5 DEF Record, Places
    <3>2. command'[c].sourced = Resolve /\ command'[c].given = dir
      BY <1>0, <3>1, CommandMoves
    <3> QED
      BY <1>0, <2>5, <3>1, <3>2 DEF Record, VerdictInv, ToolTypeOK, Judged
  <2> QED
    BY <1>3, <2>1, <2>2, <2>4, <2>5 DEF RunnerSteps
<1> QED
  BY <1>1, <1>2, <1>3
     DEF Next, CallContinues, CallBegins, Checks, Answers, Reports, Overrides,
         Works, RunStarts, RunContinues, SetupMoves, LogDirMoves, runnerVars

(* No process logs into a directory below the temp root that others can    *)
(* enter, unless one was swapped while it was being judged, or one of      *)
(* another user got the inode number of the one that was judged.           *)
THEOREM LogDirsAreJudged == Spec => LogDirIsJudged
<1>1. ASSUME IInv, [Next]_vars, NEW c \in Calls, Spawns(c),
             command'[c].given = "configured", place = "temp", ~raced
      PROVE  Judged
  <2>1. Next
    BY <1>1 DEF Spawns, vars, runnerVars
  <2> QED
    BY <1>1, <2>1, SpawnStep
<1>2. IInv /\ [Next]_vars =>
        [\A c \in Calls :
           /\ Spawns(c) /\ command'[c].given = "configured"
           /\ place = "temp" /\ ~raced
           => \/ logDir.kind = "private"
              \/ logDir.kind = "theirs" /\ "theirs" \in reused]_vars
  BY <1>1 DEF Judged
<1> QED
  BY <1>2, SpecIInv, PTL DEF Spec, LogDirIsJudged

(* What resolveSetup gives: files that are there, or that only the shell   *)
(* can name; all that is left of an explicit chain; something else only    *)
(* when nothing is left of it.                                             *)
LEMMA ResolvedIsThere ==
  ASSUME NEW chain, NEW disk
  PROVE  LET there == Opaque \cup disk
         IN  /\ Resolved(chain, disk) \subseteq there
             /\ chain \cap there \subseteq Resolved(chain, disk)
             /\ chain \cap there # {} => Resolved(chain, disk) \subseteq chain
BY DEF Resolved, AutoDetect

(* No command sources a setup that has gone, for any chain, candidates,    *)
(* files and number of calls (runner.ts, resolveSetup).                    *)
THEOREM SetupsAreThere == Spec => SourcedIsThere
<1>1. ASSUME IInv, [Next]_vars, NEW c \in Calls, Spawns(c)
      PROVE  Sources(command'[c].sourced)
  <2>1. Next
    BY <1>1 DEF Spawns, vars, runnerVars
  <2>2. command'[c].sourced = Resolved(Explicit(override), onDisk)
    BY <1>1, <2>1, SpawnStep DEF Resolve
  <2> QED
    BY <2>2, ResolvedIsThere DEF Sources
<1>2. IInv /\ [Next]_vars =>
        [\A c \in Calls : Spawns(c) => Sources(command'[c].sourced)]_vars
  BY <1>1
<1> QED
  BY <1>2, SpecIInv, PTL DEF Spec, SourcedIsThere
----------------------------------------------------------------------------
(* How far PrivateDirIsUsed fails.  It needs two commands that judge the   *)
(* directory at once: the judgement of a single one refuses what is not    *)
(* ours only, and finds the directory absent until it makes it.            *)
RefusedMemo ==
  memo # None /\ memo.dir # "configured" =>
    /\ memo.id.ino <= logDir.ino
    /\ memo.id.ino = logDir.ino /\ "ours" \notin reused =>
         logDir.kind \notin Ours

RefusedInv ==
  ~raced =>
    /\ RefusedMemo
    /\ \A c \in Calls :
         /\ command[c].pc = "mkdir" => logDir.kind = "absent"
         /\ command[c].pc = "chmod" => logDir.kind \in Ours
         /\ command[c].pc = "record" /\ command[c].verdict = "refused" =>
              logDir.kind \notin Ours \cup {"absent"}

OneAtATime == \A c, d \in Judging : c = d

(* A step of the only judgement.                                           *)
LEMMA JudgeStep ==
  ASSUME IInv, RefusedInv, OneAtATime, NEW c \in Calls, RunnerSteps(c)
  PROVE  RefusedInv'
<1>0. /\ ToolTypeOK /\ VerdictInv /\ c \in Judging /\ Alone(c)
      /\ UNCHANGED <<place, raced>>
  BY RunnerTypeStep
     DEF IInv, RunnerSteps, Look, MakeDir, Check, Tighten, Verify, Record,
         Judging
<1>1. \A d \in Calls \ {c} : command'[d].pc \in {"idle", "running"}
  BY <1>0 DEF OneAtATime, Judging, Alone
<1> SUFFICES ASSUME ~raced PROVE RefusedInv'
  BY <1>0 DEF RefusedInv
<1>t. /\ logDir.ino \in Nat /\ logDir.kind \in Kinds
      /\ memo # None => memo.id.ino \in Nat
  BY <1>0 DEF ToolTypeOK, Objects, Identities
<1>2. CASE Look(c)
  <2>1. \/ command'[c].pc = "record" /\ logDir.kind \in {"link", "file"}
        \/ command'[c].pc = "mkdir" /\ logDir.kind = "absent"
        \/ command'[c].pc = "check"
    BY <1>0, <1>2, CommandMoves DEF Look
  <2> QED
    BY <1>1, <1>2, <2>1 DEF Look, hostVars, RefusedInv, RefusedMemo, Ours
<1>3. CASE MakeDir(c)
  <2>1. Becomes({"ours"}, "private") /\ Goes(c, "check")
    BY <1>3 DEF MakeDir, RefusedInv
  <2>2. command'[c].pc = "check"
    BY <1>0, <2>1, CommandMoves
  <2>3. \/ logDir'.ino = logDir.ino + 1
        \/ logDir'.ino = logDir.ino /\ "ours" \in reused'
    BY <1>0, <2>1, BecomesFacts DEF Kinds, Ours
  <2>4. RefusedMemo'
    <3> SUFFICES ASSUME memo # None, memo.dir # "configured"
                 PROVE  /\ memo.id.ino <= logDir'.ino
                        /\ memo.id.ino = logDir'.ino => "ours" \in reused'
      BY <1>3 DEF MakeDir, RefusedMemo
    <3> QED
      BY <1>t, <2>3 DEF RefusedInv, RefusedMemo
  <2> QED
    BY <1>1, <2>2, <2>4 DEF RefusedInv
<1>4. CASE Check(c)
  <2>1. \/ /\ command'[c].pc = "record"
           /\ logDir.kind \notin Ours \cup {"absent"}
        \/ command'[c].pc = "record" /\ command'[c].verdict = "accepted"
        \/ command'[c].pc = "chmod" /\ logDir.kind \in Ours
    BY <1>0, <1>4, CommandMoves DEF Check, Ours
  <2> QED
    BY <1>1, <1>4, <2>1 DEF Check, hostVars, RefusedInv, RefusedMemo
<1>5. CASE Tighten(c)
  <2>1. command'[c].pc = "verify"
    BY <1>0, <1>5, CommandMoves DEF Tighten
  <2>2. /\ logDir.kind \in Ours /\ logDir'.ino = logDir.ino
        /\ UNCHANGED <<memo, reused>>
    BY <1>0, <1>5 DEF Tighten, RefusedInv, ToolTypeOK, Objects
  <2>3. RefusedMemo'
    BY <2>2 DEF RefusedInv, RefusedMemo
  <2> QED
    BY <1>1, <2>1, <2>3 DEF RefusedInv
<1>6. CASE Verify(c)
  <2>1. logDir.kind = "private"
    BY <1>0, <1>6 DEF Verify, VerdictInv
  <2>2. command'[c].pc = "record" /\ command'[c].verdict = "accepted"
    BY <1>0, <1>6, <2>1, CommandMoves DEF Verify
  <2> QED
    BY <1>1, <1>6, <2>2 DEF Verify, hostVars, RefusedInv, RefusedMemo
<1>7. CASE Record(c)
  <2>1. PICK dir \in Places :
          /\ memo' = IF place = "temp" THEN [id |-> Identity, dir |-> dir]
                     ELSE memo
          /\ Spawn(c, dir)
          /\ command[c].verdict # "refused" => dir = "configured"
    BY <1>7 DEF Record, FallenBack, Places
  <2>2. command'[c].pc = "running"
    BY <1>0, <2>1, CommandMoves
  <2>3. UNCHANGED <<logDir, reused>>
    BY <1>7 DEF Record, hostVars
  <2>4. dir # "configured" => logDir.kind \notin Ours \cup {"absent"}
    BY <1>7, <2>1 DEF Record, RefusedInv
  <2>5. RefusedMemo'
    <3>1. CASE place = "temp"
      <4>1. memo' = [id |-> Identity, dir |-> dir]
        BY <2>1, <3>1
      <4>2. logDir.kind # "absent" => Identity.ino = logDir.ino
        BY DEF Identity
      <4> QED
        BY <1>t, <2>3, <2>4, <4>1, <4>2 DEF RefusedMemo
    <3>2. CASE place # "temp"
      BY <2>1, <2>3, <3>2 DEF RefusedInv, RefusedMemo
    <3> QED
      BY <3>1, <3>2
  <2> QED
    BY <1>1, <2>2, <2>5 DEF RefusedInv
<1> QED
  BY <1>2, <1>3, <1>4, <1>5, <1>6, <1>7 DEF RunnerSteps

(* The steps of calls outside a judgement, and of the others.              *)
LEMMA RefusedStep ==
  ASSUME IInv, RefusedInv, OneAtATime, [Next]_vars
  PROVE  RefusedInv'
<1>0. ToolTypeOK
  BY DEF IInv
<1>1. ASSUME UNCHANGED <<memo, logDir, raced, reused>>,
             \A d \in Calls : \/ command'[d] = command[d]
                              \/ command'[d].pc \in {"idle", "running", "look"}
                              \/ command'[d].verdict = "accepted"
                                 /\ command'[d].pc = "record"
      PROVE  RefusedInv'
  BY <1>1 DEF RefusedInv, RefusedMemo
<1>2. ASSUME NEW c \in Calls, RunBegins(c) PROVE RefusedInv'
  <2>1. Alone(c) /\ UNCHANGED <<memo, logDir, raced, reused>>
    BY <1>0, <1>2, RunnerTypeStep DEF RunBegins, hostVars
  <2>2. \/ command'[c].pc \in {"running", "look"}
        \/ command'[c].pc = "record" /\ command'[c].verdict = "accepted"
    <3>1. /\ FallenBack \in Places
          /\ memo # None => memo.dir \in Places
      BY <1>0 DEF ToolTypeOK, FallenBack, Places
    <3> QED
      BY <1>0, <1>2, <3>1, CommandMoves DEF RunBegins, Remembered
  <2> QED
    BY <1>1, <2>1, <2>2 DEF Alone
<1>3. ASSUME NEW c \in Calls, RunnerSteps(c) PROVE RefusedInv'
  BY <1>3, JudgeStep
<1>4. CASE LogDirMoves
  <2>1. CASE Judging # {}
    BY <1>4, <2>1 DEF LogDirMoves, RefusedInv
  <2>2. CASE Judging = {}
    <3>1. \A d \in Calls : command[d].pc \in {"idle", "running"}
      BY <2>2 DEF Judging
    <3>2. UNCHANGED <<memo, command>> /\ (raced => raced')
      BY <1>4 DEF LogDirMoves
    <3>3. RefusedMemo => RefusedMemo'
      <4> SUFFICES ASSUME RefusedMemo, memo # None, memo.dir # "configured"
                   PROVE  /\ memo.id.ino <= logDir'.ino
                          /\ memo.id.ino = logDir'.ino /\ "ours" \notin reused'
                               => logDir'.kind \notin Ours
        BY <3>2 DEF RefusedMemo
      <4>1. memo.id.ino \in Nat /\ logDir.ino \in Nat
        BY <1>0 DEF ToolTypeOK, Identities, Objects
      <4> QED
        BY <1>0, <1>4, <4>1, LogDirFacts DEF RefusedMemo
    <3> QED
      BY <3>1, <3>2, <3>3 DEF RefusedInv
  <2> QED
    BY <2>1, <2>2
<1>5. ASSUME NEW c \in Calls, RunEnds(c) \/ CallThrows(c) PROVE RefusedInv'
  <2>1. Alone(c) /\ command'[c].pc = "idle"
    BY <1>0, <1>5, CommandMoves DEF RunEnds, CallThrows
  <2> QED
    BY <1>1, <1>5, <2>1 DEF RunEnds, CallThrows, hostVars, Alone
<1>6. ASSUME UNCHANGED <<memo, command, logDir, raced, reused>>
      PROVE  RefusedInv'
  BY <1>1, <1>6
<1> QED
  BY <1>2, <1>3, <1>4, <1>5, <1>6
     DEF Next, vars, runnerVars, hostVars, CallContinues, RunStarts,
         RunContinues, SetupMoves, CallBegins, Checks, Answers, Reports,
         Overrides, Works

(* When no two commands judge the directory at once, any number of calls   *)
(* one after the other never remember a refusal of a private directory,    *)
(* unless one of ours got the inode number of what was refused.            *)
THEOREM OverlapIsTheOnlyRefusal ==
  Spec /\ []OneAtATime => []PrivateDirIsUsed
<1>1. Init => RefusedInv
  BY DEF Init, RunnerInit, RefusedInv, RefusedMemo, Idle
<1>2. IInv /\ RefusedInv /\ OneAtATime /\ [Next]_vars => RefusedInv'
  BY RefusedStep
<1>3. RefusedInv => PrivateDirIsUsed
  BY DEF RefusedInv, RefusedMemo, PrivateDirIsUsed, Remembered, Identity, Ours
<1> QED
  BY <1>1, <1>2, <1>3, SpecIInv, PTL DEF Spec
=============================================================================
