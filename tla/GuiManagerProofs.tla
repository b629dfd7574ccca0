-------------------------- MODULE GuiManagerProofs --------------------------
(***************************************************************************)
(* Sessions, input and screenshots stay what they promise, for any number  *)
(* of calls in flight, labels, windows and applications.                   *)
(***************************************************************************)
EXTENDS GuiManager, TLAPS

HostType ==
  /\ sessions \in [Labels -> Pids \cup {None}]
  /\ home \in [Pids -> Labels \cup {None}]
  /\ group \in [Pids -> {"unborn", "alive", "dead"}]
  /\ desk \in Seq(Windows) /\ focus \in Windows \cup {None}
  /\ dirMade \in BOOLEAN
  /\ dest \in [Paths -> Files] /\ parent \in [Paths -> Places]
  /\ moves \in 0..MaxMoves /\ raced \subseteq Labels

(* A session names an application started under its label.                 *)
SessionInv ==
  /\ \A p \in Started : home[p] \in Labels
  /\ \A l \in Labels : sessions[l] # None =>
       sessions[l] \in Started /\ home[sessions[l]] = l

(* A close on its way is alone with its session unless closes overlapped.  *)
ClosersInv ==
  \A l \in Labels \ raced : \A c, d \in Closing(l) :
    c = d /\ sessions[l] = call[c].pid

CloseOK(r) ==
  r.tool = "close" =>
    /\ r.pc \in {"done", "grace", "kill"}
    /\ r.pid \in r.known /\ r.known \subseteq Started
    /\ r.label \in Labels /\ home[r.pid] = r.label
    /\ r.pc = "done" => group[r.pid] = "dead"
    /\ r.killed # None => r.killed \in r.known

(* Input let through without a question and undisturbed: its target is     *)
(* allowlisted when it was classified, and still is when the title is      *)
(* looked up as it was classified.                                         *)
InputOK(r) ==
  r.tool = "interact" /\ ~r.granted /\ r.quiet =>
    /\ r.pc = "resolve" => Confined(r.pattern)
    /\ ~r.padded /\ (r.pc \in {"activate", "send"} \/ Sent(r)) =>
         r.window \in AllowedWindows
    /\ ~r.padded /\ r.pc = "send" => focus = r.window
    /\ ~r.padded /\ Sent(r) /\ r.action = "key" => r.landed = r.window

(* A capture past its gate: it was asked about or its directory is inside. *)
CaptureOK(r) ==
  r.tool \in {"observe", "screenshot"} =>
    /\ /\ r.pc \in {"start", "ensure", "mkdir", "assess", "shoot"}
       /\ ~r.granted /\ r.settled
       => parent[r.path] = "inside"
    /\ r.wrote # "nothing" /\ r.into = "outside" => r.granted \/ ~r.settled
    /\ r.pc = "shoot" /\ r.quiet => dest[r.path] # "odd"
    /\ r.wrote = "odd" => ~r.quiet

(* Which fields a call of each tool has touched.                           *)
ShapeOK(r) ==
  /\ r.wrote # "nothing" =>
       r.pc = "done" /\ r.tool \in {"observe", "screenshot"}
  /\ r.pc \in {"resolve", "activate", "send"} => r.tool = "interact"
  /\ r.pc \in {"ensure", "mkdir", "assess", "shoot"} =>
       r.tool \in {"observe", "screenshot"}
  /\ r.pc = "start" => r.tool = "observe"
  /\ r.pc = "ask" => r.tool \in {"interact", "observe", "screenshot"}
  /\ r.tool = "observe" => r.label \in Labels \/ r.pc = "done"
  /\ r.pc \in {"grace", "kill"} => r.tool = "close" /\ r.killed = None

CallOK(r) ==
  r \in CallType /\ CloseOK(r) /\ InputOK(r) /\ CaptureOK(r) /\ ShapeOK(r)

CallInv == \A c \in Calls : CallOK(call[c])

IInv ==
  /\ HostType /\ SessionInv /\ ClosersInv /\ LiveIsTracked
  /\ call \in [Calls -> CallType] /\ CallInv

(* What the runs check is part of it.                                      *)
LEMMA IInvImplies ==
  ASSUME IInv
  PROVE  GuiTypeOK /\ ClosesItsOwn /\ InputIsConfined /\ WritesAreGated
<1>1. GuiTypeOK
  BY DEF IInv, HostType, GuiTypeOK
<1>2. ClosesItsOwn
  BY DEF IInv, CallInv, CallOK, CloseOK, ClosesItsOwn
<1>3. InputIsConfined
  BY DEF IInv, CallInv, CallOK, InputOK, Sent, InputIsConfined
<1>4. WritesAreGated
  BY DEF IInv, CallInv, CallOK, CaptureOK, ShapeOK, WritesAreGated
<1> QED
  BY <1>1, <1>2, <1>3, <1>4

LEMMA IdleType == Idle \in CallType
BY BoundAssumption
   DEF Idle, CallType, Patterns, Actions, Paths, Places, Files, Pids

(* A flag or the place of a call changes: it is a call still.              *)
LEMMA FlagType ==
  ASSUME NEW r \in CallType, NEW b \in BOOLEAN
  PROVE  /\ [r EXCEPT !.full = b] \in CallType
         /\ [r EXCEPT !.granted = b] \in CallType
         /\ [r EXCEPT !.quiet = b] \in CallType
         /\ [r EXCEPT !.settled = b] \in CallType
<1>1. [r EXCEPT !.full = b] \in CallType
  BY DEF CallType
<1>2. [r EXCEPT !.granted = b] \in CallType
  BY DEF CallType
<1>3. [r EXCEPT !.quiet = b] \in CallType
  BY DEF CallType
<1>4. [r EXCEPT !.settled = b] \in CallType
  BY DEF CallType
<1> QED
  BY <1>1, <1>2, <1>3, <1>4

LEMMA PcType ==
  ASSUME NEW r \in CallType,
         NEW p \in {"ensure", "resolve", "start"}
  PROVE  [r EXCEPT !.pc = p] \in CallType
BY DEF CallType

(* A call that went well keeps what its history needs.                     *)
LEMMA DoneType ==
  ASSUME NEW r \in CallType, NEW d, d = Done(r, "ok")
  PROVE  /\ d \in CallType /\ d.tool = r.tool /\ d.pc = "done"
         /\ d.label = r.label /\ d.padded = r.padded
         /\ d.action = r.action /\ d.pid = r.pid /\ d.known = r.known
         /\ d.killed = r.killed /\ d.window = r.window
         /\ d.wrote = r.wrote /\ d.granted = r.granted
         /\ d.quiet = r.quiet /\ d.settled = r.settled
<1>1. PICK e : e = [r EXCEPT !.pc = "done", !.left = 0, !.pattern = "absent",
                             !.path = "inside"]
  OBVIOUS
<1>2. d = [e EXCEPT !.full = FALSE]
  BY <1>1 DEF Done
<1>3. e \in CallType
  <2>1. 0 \in 0..GracePolls /\ "inside" \in Paths /\ "absent" \in Patterns
    BY BoundAssumption DEF Paths, Patterns
  <2> QED
    BY <1>1, <2>1 DEF CallType
<1>4. d \in CallType
  BY <1>2, <1>3, FlagType
<1>5. /\ e.tool = r.tool /\ e.pc = "done" /\ e.label = r.label
      /\ e.padded = r.padded /\ e.action = r.action /\ e.pid = r.pid
      /\ e.known = r.known /\ e.killed = r.killed /\ e.window = r.window
      /\ e.wrote = r.wrote /\ e.granted = r.granted
      /\ e.quiet = r.quiet /\ e.settled = r.settled
  BY <1>1 DEF CallType
<1>6. /\ d.tool = e.tool /\ d.pc = e.pc /\ d.label = e.label
      /\ d.padded = e.padded /\ d.action = e.action /\ d.pid = e.pid
      /\ d.known = e.known /\ d.killed = e.killed /\ d.window = e.window
      /\ d.wrote = e.wrote /\ d.granted = e.granted
      /\ d.quiet = e.quiet /\ d.settled = e.settled
  BY <1>2, <1>3 DEF CallType
<1> QED
  BY <1>4, <1>5, <1>6

LEMMA InitIInv == Init => IInv
<1> SUFFICES ASSUME Init PROVE IInv
  OBVIOUS
<1>1. HostType
  <2>1. desk \in Seq(Windows)
    <3>1. \A w \in Foreign : <<w>> \in Seq(Windows)
      BY DEF Windows
    <3>2. <<>> \in Seq(Windows)
      OBVIOUS
    <3> QED
      BY <3>1, <3>2 DEF Init
  <2> QED
    BY <2>1, BoundAssumption DEF Init, HostType, Paths, Places, Files
<1>2. SessionInv /\ LiveIsTracked
  BY DEF Init, SessionInv, Started, LiveIsTracked, Live
<1>3. ClosersInv
  BY DEF Init, ClosersInv, Closing, Idle
<1>4. \A c \in Calls : call[c] = Idle
  BY DEF Init
<1>5. CallOK(Idle)
  BY IdleType
     DEF CallOK, CloseOK, InputOK, CaptureOK, ShapeOK, Idle, Sent
<1>6. call \in [Calls -> CallType]
  BY IdleType DEF Init
<1> QED
  BY <1>1, <1>2, <1>3, <1>4, <1>5, <1>6 DEF IInv, CallInv
----------------------------------------------------------------------------
(* Steps of one call that touch, at most, the capture directory.           *)
LEMMA CallStep ==
  ASSUME IInv, NEW c \in Calls, NEW r, CallOK(r), Step(c, r),
         UNCHANGED <<procVars, deskVars, dest, moves, raced>>,
         dirMade' \in BOOLEAN, parent' \in [Paths -> Places],
         \A p \in Paths : parent[p] = "inside" => parent'[p] = "inside",
         r.tool = "close" /\ r.pc \in {"grace", "kill"} =>
           /\ call[c].tool = "close" /\ call[c].pc \in {"grace", "kill"}
           /\ r.label = call[c].label /\ r.pid = call[c].pid
  PROVE  IInv'
<1> USE DEF procVars, deskVars
<1>1. /\ call' \in [Calls -> CallType] /\ call'[c] = r
      /\ \A d \in Calls \ {c} : call'[d] = call[d]
  BY DEF IInv, Step, CallOK
<1>2. HostType' /\ SessionInv' /\ LiveIsTracked'
  BY DEF IInv, HostType, SessionInv, LiveIsTracked, Started, Live
<1>3. ASSUME NEW x, CallOK(x) PROVE CallOK(x)'
  <2>1. x.path \in Paths
    BY <1>3 DEF CallOK, CallType
  <2>2. CaptureOK(x)'
    BY <1>3, <2>1 DEF CallOK, CaptureOK
  <2> QED
    BY <1>3, <2>2 DEF CallOK, CloseOK, InputOK, ShapeOK, Started, Confined,
                      FindWindow, FirstOf, Sent
<1>4. CallInv'
  BY <1>1, <1>3 DEF IInv, CallInv
<1>5. \A l \in Labels : \A d \in Closing(l)' :
        d \in Closing(l) /\ call'[d].pid = call[d].pid
  BY <1>1 DEF Closing
<1>6. ClosersInv'
  BY <1>5 DEF IInv, ClosersInv
<1> QED
  BY <1>1, <1>2, <1>4, <1>6 DEF IInv

LEMMA LocalStep ==
  ASSUME IInv, NEW c \in Calls, NEW r, CallOK(r), Step(c, r),
         UNCHANGED <<procVars, deskVars, fileVars, moves, raced>>,
         r.tool = "close" /\ r.pc \in {"grace", "kill"} =>
           /\ call[c].tool = "close" /\ call[c].pc \in {"grace", "kill"}
           /\ r.label = call[c].label /\ r.pid = call[c].pid
  PROVE  IInv'
<1>1. /\ dirMade' \in BOOLEAN /\ dest' = dest /\ parent' = parent
      /\ parent' \in [Paths -> Places]
  BY DEF IInv, HostType, fileVars
<1> QED
  BY <1>1, CallStep

Errors == {"INTERACT_FAILED", "INVALID_INPUT", "APPROVAL_DENIED",
           "START_FAILED", "CAPTURE_FAILED", "OUTPUT_PARENT_MISSING",
           "OUTPUT_REFUSED"}

(* A call that ends in an error keeps nothing to be held against it.       *)
LEMMA ErrorIsOK ==
  ASSUME NEW r, NEW e \in Errors
  PROVE  CallOK(Done(r, e)) /\ Done(r, e).pc = "done"
<1>1. Done(r, e) = [Idle EXCEPT !.result = e]
  BY DEF Done, Errors
<1>2. Done(r, e) \in CallType
  BY <1>1, IdleType DEF CallType, Errors
<1>3. /\ Done(r, e).tool = "none" /\ Done(r, e).pc = "done"
      /\ Done(r, e).wrote = "nothing"
  BY <1>1 DEF Idle
<1> QED
  BY <1>2, <1>3 DEF CallOK, CloseOK, InputOK, CaptureOK, ShapeOK

(* A slot the agent has read.                                              *)
LEMMA ReturnStep == ASSUME IInv, NEW c \in Calls, Return(c) PROVE IInv'
<1>1. CallOK(Idle) /\ Idle.tool = "none"
  BY IdleType DEF CallOK, CloseOK, InputOK, CaptureOK, ShapeOK, Idle
<1> QED
  BY <1>1, LocalStep DEF Return

LEMMA FailedIsOK ==
  ASSUME NEW r, CallOK(r), r.tool \in {"observe", "screenshot"},
         r.pc \in {"mkdir", "assess", "shoot"}
  PROVE  CallOK(Failed(r))
<1>1. CASE r.tool = "observe" /\ ~r.full
  <2>1. Failed(r) = [r EXCEPT !.pc = "ensure", !.full = TRUE]
    BY <1>1 DEF Failed
  <2>2. Failed(r) \in CallType
    <3>1. [r EXCEPT !.pc = "ensure"] \in CallType
      BY PcType DEF CallOK
    <3> QED
      BY <2>1, <3>1, FlagType
  <2>3. /\ Failed(r).tool = "observe" /\ Failed(r).pc = "ensure"
        /\ Failed(r).path = r.path /\ Failed(r).granted = r.granted
        /\ Failed(r).settled = r.settled /\ Failed(r).wrote = r.wrote
        /\ Failed(r).label = r.label
    BY <1>1, <2>1 DEF CallOK, CallType
  <2> QED
    BY <1>1, <2>2, <2>3 DEF CallOK, CloseOK, InputOK, CaptureOK, ShapeOK
<1>2. CASE ~(r.tool = "observe" /\ ~r.full)
  BY <1>2, ErrorIsOK DEF Failed, Errors, CallOK
<1> QED
  BY <1>1, <1>2

LEMMA ClosePollStep == ASSUME IInv, NEW c \in Calls, ClosePoll(c) PROVE IInv'
<1>1. CallOK(call[c]) /\ call[c].tool = "close" /\ call[c].pc = "grace"
  BY DEF IInv, CallInv, ClosePoll, At
<1>2. PICK r : /\ Step(c, r)
               /\ \/ r = [call[c] EXCEPT !.pc = "kill"]
                  \/ call[c].left # 0 /\ r = [call[c] EXCEPT !.left = @ - 1]
  BY DEF ClosePoll
<1>3. CallOK(r) /\ r.label = call[c].label /\ r.pid = call[c].pid
  BY <1>1, <1>2, BoundAssumption
     DEF CallOK, CallType, CloseOK, InputOK, CaptureOK, ShapeOK
<1> QED
  BY <1>1, <1>2, <1>3, LocalStep DEF ClosePoll

LEMMA InteractBeginStep ==
  ASSUME IInv, NEW c \in Calls, NEW pattern \in Patterns,
         InteractBegin(c, pattern)
  PROVE  IInv'
<1> DEFINE b == [Idle EXCEPT !.tool = "interact", !.pattern = pattern]
<1>1. /\ b \in CallType /\ b.tool = "interact" /\ b.pattern = pattern
      /\ b.wrote = "nothing" /\ b.killed = None
  BY IdleType DEF CallType, Idle
<1>2. PICK r : /\ Step(c, r)
               /\ \/ r = Done(b, "INTERACT_FAILED")
                  \/ Confined(pattern) /\ r = [b EXCEPT !.pc = "resolve"]
                  \/ r = [b EXCEPT !.pc = "ask"]
  BY DEF InteractBegin
<1> HIDE DEF b
<1>3. CASE r = Done(b, "INTERACT_FAILED")
  <2>1. CallOK(r) /\ r.pc = "done"
    BY <1>3, ErrorIsOK DEF Errors
  <2> QED
    BY <1>2, <2>1, LocalStep DEF InteractBegin
<1>4. CASE Confined(pattern) /\ r = [b EXCEPT !.pc = "resolve"]
  <2>1. /\ r \in CallType /\ r.tool = "interact" /\ r.pc = "resolve"
        /\ r.pattern = pattern /\ r.wrote = "nothing"
    BY <1>1, <1>4 DEF CallType
  <2>2. CallOK(r)
    BY <1>4, <2>1 DEF CallOK, CloseOK, InputOK, CaptureOK, ShapeOK, Sent
  <2> QED
    BY <1>2, <2>1, <2>2, LocalStep DEF InteractBegin
<1>5. CASE r = [b EXCEPT !.pc = "ask"]
  <2>1. /\ r \in CallType /\ r.tool = "interact" /\ r.pc = "ask"
        /\ r.wrote = "nothing"
    BY <1>1, <1>5 DEF CallType
  <2>2. CallOK(r)
    BY <2>1 DEF CallOK, CloseOK, InputOK, CaptureOK, ShapeOK, Sent
  <2> QED
    BY <1>2, <2>1, <2>2, LocalStep DEF InteractBegin
<1> QED
  BY <1>2, <1>3, <1>4, <1>5

LEMMA InteractResolveStep ==
  ASSUME IInv, NEW c \in Calls, InteractResolve(c)
  PROVE  IInv'
<1>1. /\ CallOK(call[c]) /\ call[c].tool = "interact"
      /\ call[c].pc = "resolve" /\ call[c] \in CallType
  BY DEF IInv, CallInv, CallOK, InteractResolve, At
<1>2. CASE \E e \in Errors : \E x : Step(c, Done(x, e))
  <2>1. PICK e \in Errors : \E x : Step(c, Done(x, e))
    BY <1>2
  <2>0. PICK x : Step(c, Done(x, e))
    BY <2>1
  <2>2. CallOK(Done(x, e)) /\ Done(x, e).pc = "done"
    BY ErrorIsOK
  <2> QED
    BY <2>0, <2>2, LocalStep DEF InteractResolve
<1>3. CASE ~\E e \in Errors : \E x : Step(c, Done(x, e))
  <2>1. PICK padded \in BOOLEAN, action \in Actions :
          LET r == [call[c] EXCEPT !.padded = padded, !.action = action]
              w == FindRaw(r.pattern, padded)
          IN  \/ /\ r.pattern = "absent" /\ ~padded
                 /\ Step(c, [r EXCEPT !.pc = "send"])
              \/ /\ ~(r.pattern = "absent" /\ ~padded) /\ w # None
                 /\ Step(c, [r EXCEPT !.pc = "activate", !.window = w])
    BY <1>3, Zenon DEF InteractResolve, Errors
  <2> DEFINE r == [call[c] EXCEPT !.padded = padded, !.action = action]
             w == FindRaw(r.pattern, padded)
  <2>2. /\ r \in CallType /\ r.tool = "interact" /\ r.pc = "resolve"
        /\ r.pattern = call[c].pattern /\ r.padded = padded
        /\ r.wrote = call[c].wrote /\ r.granted = call[c].granted
        /\ r.quiet = call[c].quiet
    BY <1>1 DEF CallType
  <2>3. w = None \/ w \in Windows
    BY DEF FindRaw, FirstOf, Matching, Windows
  <2>4. ~padded => w = FindWindow(call[c].pattern)
    BY <2>2 DEF FindRaw, FindWindow
  <2>5. ~r.granted /\ r.quiet => Confined(call[c].pattern)
    BY <1>1, <2>2 DEF CallOK, InputOK
  <2> HIDE DEF r, w
  <2>6. CASE /\ r.pattern = "absent" /\ ~padded
             /\ Step(c, [r EXCEPT !.pc = "send"])
    <3> DEFINE t == [r EXCEPT !.pc = "send"]
    <3>1. /\ t \in CallType /\ t.tool = "interact" /\ t.pc = "send"
          /\ t.wrote = call[c].wrote
          /\ t.granted = call[c].granted /\ t.quiet = call[c].quiet
      BY <2>2 DEF CallType
    <3>2. Step(c, t)
      BY <2>6
    <3>3. t.granted \/ ~t.quiet
      BY <2>2, <2>5, <2>6, <3>1 DEF Confined
    <3> HIDE DEF t
    <3>4. CallOK(t)
      BY <1>1, <3>1, <3>3 DEF CallOK, CloseOK, InputOK, CaptureOK, ShapeOK
    <3> QED
      BY <3>1, <3>2, <3>4, LocalStep DEF InteractResolve
  <2>7. CASE /\ w # None
             /\ Step(c, [r EXCEPT !.pc = "activate", !.window = w])
    <3> DEFINE t == [r EXCEPT !.pc = "activate", !.window = w]
    <3>1. /\ t \in CallType /\ t.tool = "interact" /\ t.pc = "activate"
          /\ t.wrote = call[c].wrote /\ t.window = w /\ t.padded = padded
          /\ t.granted = call[c].granted /\ t.quiet = call[c].quiet
      BY <2>2, <2>3 DEF CallType
    <3>2. Step(c, t)
      BY <2>7
    <3>3. ~t.granted /\ t.quiet /\ ~padded => w \in AllowedWindows
      BY <2>2, <2>4, <2>5, <3>1 DEF Confined
    <3> HIDE DEF t
    <3>4. CallOK(t)
      BY <1>1, <3>1, <3>3 DEF CallOK, CloseOK, InputOK, CaptureOK, ShapeOK, Sent
    <3> QED
      BY <3>1, <3>2, <3>4, LocalStep DEF InteractResolve
  <2> QED
    BY <2>1, <2>6, <2>7 DEF r, w
<1> QED
  BY <1>2, <1>3

LEMMA CaptureBeginStep ==
  ASSUME IInv, NEW c \in Calls, NEW tool, NEW l, NEW pattern \in Patterns,
         NEW path \in Paths, CaptureBegin(c, tool, l, pattern, path),
         \/ tool = "observe" /\ l \in Labels
         \/ tool = "screenshot" /\ l = None
  PROVE  IInv'
<1> DEFINE b == [Idle EXCEPT !.tool = tool, !.label = l, !.pattern = pattern,
                             !.path = path]
<1>1. /\ b \in CallType /\ b.tool = tool /\ b.label = l /\ b.path = path
      /\ b.wrote = "nothing" /\ b.killed = None
  BY IdleType DEF CallType, Idle
<1>2. PICK r : /\ Step(c, r)
               /\ \/ \E e \in Errors : r = Done(b, e)
                  \/ r = [b EXCEPT !.pc = "ask"]
                  \/ ~MustAsk(path) /\ r = [b EXCEPT !.pc = PastGate(tool)]
  BY DEF CaptureBegin, Assess, Errors
<1> HIDE DEF b
<1>3. CASE \E e \in Errors : r = Done(b, e)
  <2>1. CallOK(r) /\ r.pc = "done"
    BY <1>3, ErrorIsOK
  <2> QED
    BY <1>2, <2>1, LocalStep DEF CaptureBegin
<1>4. CASE r = [b EXCEPT !.pc = "ask"]
  <2>1. /\ r \in CallType /\ r.tool = tool /\ r.pc = "ask" /\ r.label = l
        /\ r.wrote = "nothing" /\ r.killed = None
    BY <1>1, <1>4 DEF CallType
  <2>2. CallOK(r)
    BY <2>1 DEF CallOK, CloseOK, InputOK, CaptureOK, ShapeOK
  <2> QED
    BY <1>2, <2>1, <2>2, LocalStep DEF CaptureBegin
<1>5. CASE ~MustAsk(path) /\ r = [b EXCEPT !.pc = PastGate(tool)]
  <2>1. /\ tool = "observe" => PastGate(tool) = "start"
        /\ tool = "screenshot" => PastGate(tool) = "ensure"
    BY DEF PastGate
  <2>2. /\ r \in CallType /\ r.tool = tool /\ r.pc = PastGate(tool)
        /\ r.path = path /\ r.label = l
        /\ r.wrote = "nothing" /\ r.killed = None
    BY <1>1, <1>5, <2>1 DEF CallType
  <2>3. parent[path] = "inside"
    BY <1>5 DEF MustAsk
  <2>4. CallOK(r)
    BY <2>1, <2>2, <2>3 DEF CallOK, CloseOK, InputOK, CaptureOK, ShapeOK
  <2> QED
    BY <1>2, <2>1, <2>2, <2>4, LocalStep DEF CaptureBegin
<1> QED
  BY <1>2, <1>3, <1>4, <1>5

LEMMA AnswerStep == ASSUME IInv, NEW c \in Calls, Answer(c) PROVE IInv'
<1>1. /\ CallOK(call[c]) /\ call[c] \in CallType /\ call[c].pc = "ask"
      /\ call[c].tool \in {"interact", "observe", "screenshot"}
  BY DEF IInv, CallInv, CallOK, ShapeOK, Answer
<1> DEFINE g == [call[c] EXCEPT !.granted = TRUE,
                                !.pc = PastGate(call[c].tool)]
<1>2. CASE Step(c, Done(call[c], "APPROVAL_DENIED"))
  <2>1. /\ CallOK(Done(call[c], "APPROVAL_DENIED"))
        /\ Done(call[c], "APPROVAL_DENIED").pc = "done"
    BY ErrorIsOK DEF Errors
  <2> QED
    BY <1>2, <2>1, LocalStep DEF Answer
<1>3. CASE Step(c, g)
  <2>1. /\ call[c].tool = "interact" => PastGate(call[c].tool) = "resolve"
        /\ call[c].tool = "observe" => PastGate(call[c].tool) = "start"
        /\ call[c].tool = "screenshot" => PastGate(call[c].tool) = "ensure"
    BY DEF PastGate
  <2>2. g \in CallType
    <3>1. [call[c] EXCEPT !.granted = TRUE] \in CallType
      BY <1>1, FlagType
    <3> QED
      BY <1>1, <2>1, <3>1, PcType
  <2>3. /\ g.tool = call[c].tool /\ g.granted
        /\ g.pc = PastGate(call[c].tool)
        /\ g.wrote = call[c].wrote /\ g.label = call[c].label
    BY <1>1, <2>1 DEF CallType
  <2> HIDE DEF g
  <2>4. CallOK(g)
    BY <1>1, <2>1, <2>2, <2>3
       DEF CallOK, CloseOK, InputOK, CaptureOK, ShapeOK
  <2> QED
    BY <1>1, <1>3, <2>1, <2>3, <2>4, LocalStep DEF Answer
<1> QED
  BY <1>2, <1>3 DEF Answer

(* The parts of a capture before the image is taken.                       *)
LEMMA CaptureMoves ==
  ASSUME NEW r, CallOK(r), r.tool \in {"observe", "screenshot"},
         r.pc \in {"start", "ensure", "mkdir", "assess"},
         NEW s, s.pc \in {"ensure", "mkdir", "assess"},
         s = [r EXCEPT !.pc = s.pc]
  PROVE  CallOK(s) /\ s.tool # "close"
<1>1. /\ s \in CallType /\ s.tool = r.tool /\ s.granted = r.granted
      /\ s.path = r.path /\ s.wrote = r.wrote /\ s.settled = r.settled
      /\ s.label = r.label
  BY DEF CallOK, CallType
<1> QED
  BY <1>1 DEF CallOK, CloseOK, InputOK, CaptureOK, ShapeOK

LEMMA EnsureDirStep == ASSUME IInv, NEW c \in Calls, EnsureDir(c) PROVE IInv'
<1>1. /\ CallOK(call[c]) /\ call[c].tool \in {"observe", "screenshot"}
      /\ call[c].pc = "ensure" /\ call[c] \in CallType
  BY DEF IInv, CallInv, CallOK, EnsureDir, At
<1>2. PICK r : /\ Step(c, r) /\ r.pc \in {"mkdir", "assess"}
               /\ r = [call[c] EXCEPT !.pc = r.pc]
  BY <1>1 DEF EnsureDir, CallType
<1> QED
  BY <1>1, <1>2, CaptureMoves, LocalStep DEF EnsureDir

LEMMA MakeDirStep == ASSUME IInv, NEW c \in Calls, MakeDir(c) PROVE IInv'
<1>1. /\ CallOK(call[c]) /\ call[c].tool \in {"observe", "screenshot"}
      /\ call[c].pc = "mkdir" /\ call[c] \in CallType
  BY DEF IInv, CallInv, CallOK, MakeDir, At
<1>2. PICK r : /\ Step(c, r)
               /\ \/ r = Failed(call[c])
                  \/ r.pc = "assess" /\ r = [call[c] EXCEPT !.pc = r.pc]
  BY <1>1 DEF MakeDir, CallType
<1>3. CallOK(r)
  BY <1>1, <1>2, FailedIsOK, CaptureMoves
<1>4. r.tool # "close"
  BY <1>1, <1>2, CaptureMoves DEF Failed, Done, CallType, Idle
<1>5. /\ parent' \in [Paths -> Places] /\ dirMade' \in BOOLEAN
      /\ \A p \in Paths : parent[p] = "inside" => parent'[p] = "inside"
  BY DEF MakeDir, IInv, HostType, Places
<1> QED
  BY <1>2, <1>3, <1>4, <1>5, CallStep DEF MakeDir

LEMMA CaptureAssessStep ==
  ASSUME IInv, NEW c \in Calls, CaptureAssess(c)
  PROVE  IInv'
<1>1. /\ CallOK(call[c]) /\ call[c].tool \in {"observe", "screenshot"}
      /\ call[c].pc = "assess" /\ call[c] \in CallType
  BY DEF IInv, CallInv, CallOK, CaptureAssess, At
<1>2. PICK r : /\ Step(c, r)
               /\ \/ r = Failed(call[c])
                  \/ /\ Assess(call[c].path) = "ok"
                     /\ r = [call[c] EXCEPT !.pc = "shoot", !.quiet = TRUE]
  BY DEF CaptureAssess, Reassessed
<1>3. CASE r = Failed(call[c])
  <2>1. CallOK(r) /\ r.tool # "close"
    BY <1>1, <1>3, FailedIsOK DEF Failed, Done, CallType, Idle
  <2> QED
    BY <1>2, <2>1, LocalStep DEF CaptureAssess
<1>4. CASE /\ Assess(call[c].path) = "ok"
           /\ r = [call[c] EXCEPT !.pc = "shoot", !.quiet = TRUE]
  <2>1. /\ r \in CallType /\ r.tool = call[c].tool /\ r.pc = "shoot"
        /\ r.path = call[c].path /\ r.granted = call[c].granted
        /\ r.wrote = call[c].wrote /\ r.settled = call[c].settled
        /\ r.label = call[c].label
    BY <1>1, <1>4 DEF CallType
  <2>2. dest[r.path] # "odd"
    BY <1>4, <2>1 DEF Assess
  <2>3. CallOK(r)
    BY <1>1, <2>1, <2>2 DEF CallOK, CloseOK, InputOK, CaptureOK, ShapeOK
  <2> QED
    BY <1>1, <1>2, <2>1, <2>3, LocalStep DEF CaptureAssess
<1> QED
  BY <1>2, <1>3, <1>4
----------------------------------------------------------------------------
(* Applications start.                                                     *)
LEMMA NoneIsNoPid == None \notin Pids /\ None \notin Labels
BY NoneAssumption DEF Pids

(* No close that is alone with its label is on its way to a free label.    *)
LEMMA FreeIsUnclosed ==
  ASSUME IInv, NEW l \in Labels \ raced, sessions[l] = None
  PROVE  Closing(l) = {}
<1> SUFFICES ASSUME NEW c \in Closing(l) PROVE FALSE
  OBVIOUS
<1>1. c \in Calls /\ CallOK(call[c]) /\ call[c].tool = "close"
  BY DEF Closing, IInv, CallInv
<1>2. sessions[l] = call[c].pid
  BY DEF IInv, ClosersInv
<1>3. call[c].pid \in Pids
  BY <1>1 DEF CallOK, CloseOK, Started
<1> QED
  BY <1>2, <1>3, NoneIsNoPid

(* What Spawn keeps, whatever the call that spawns does.                   *)
LEMMA SpawnKeeps ==
  ASSUME IInv, NEW l \in Labels, NEW p \in Pids, CanStart(l), Spawn(l, p),
         UNCHANGED <<deskVars, fileVars, moves, raced>>
  PROVE  /\ HostType' /\ SessionInv' /\ LiveIsTracked'
         /\ \A x : CallOK(x) => CallOK(x)'
<1> USE DEF deskVars, fileVars
<1>1. /\ p \notin Started /\ group[p] = "unborn"
      /\ \A q \in Pids : group'[q] = IF q = p THEN "alive" ELSE group[q]
      /\ \A q \in Pids : home'[q] = IF q = p THEN l ELSE home[q]
      /\ \A m \in Labels : sessions'[m] = IF m = l THEN p ELSE sessions[m]
  BY DEF Spawn, Started, IInv, HostType
<1>2. Started' = Started \cup {p} /\ Live' = Live \cup {p}
  BY <1>1 DEF Started, Live
<1>3. HostType'
  BY DEF IInv, HostType, Spawn
<1>4. SessionInv'
  BY <1>1, <1>2 DEF IInv, SessionInv, Started
<1>5. LiveIsTracked'
  <2> SUFFICES ASSUME NEW q \in Live'
               PROVE  sessions'[home'[q]] = q \/ home'[q] \in raced
    BY DEF LiveIsTracked
  <2>1. CASE q = p
    BY <1>1, <2>1
  <2>2. CASE q # p
    <3>1. q \in Live /\ q \in Pids /\ q \in Started /\ home'[q] = home[q]
      BY <1>1, <1>2, <2>2 DEF Live, Started
    <3>2. home[q] \in Labels /\ (sessions[home[q]] = q \/ home[q] \in raced)
      BY <3>1 DEF IInv, SessionInv, LiveIsTracked
    <3>3. home[q] = l => home[q] \in raced
      BY <3>1, <3>2, NoneIsNoPid DEF CanStart
    <3> QED
      BY <1>1, <3>1, <3>2, <3>3
  <2> QED
    BY <2>1, <2>2
<1>6. ASSUME NEW x, CallOK(x) PROVE CallOK(x)'
  <2>1. CloseOK(x)'
    BY <1>1, <1>2, <1>6 DEF CallOK, CloseOK, Started
  <2> QED
    BY <1>6, <2>1
       DEF CallOK, InputOK, CaptureOK, ShapeOK, Confined, FindWindow, FirstOf,
           Sent
<1> QED
  BY <1>3, <1>4, <1>5, <1>6

(* Spawning under a free label leaves the closes of the others alone.      *)
LEMMA SpawnClosers ==
  ASSUME IInv, NEW l \in Labels, NEW p \in Pids, CanStart(l), Spawn(l, p),
         UNCHANGED raced,
         \A m \in Labels : \A d \in Closing(m)' :
           d \in Closing(m) /\ call'[d].pid = call[d].pid
  PROVE  ClosersInv'
<1>1. \A m \in Labels \ {l} : sessions'[m] = sessions[m]
  BY DEF Spawn, IInv, HostType
<1>2. l \notin raced => Closing(l) = {}
  BY FreeIsUnclosed DEF CanStart
<1> QED
  BY <1>1, <1>2 DEF IInv, ClosersInv

LEMMA GuiStartStep ==
  ASSUME IInv, NEW l \in Labels, GuiStart(l)
  PROVE  IInv'
<1>1. PICK p \in Pids : Spawn(l, p)
  BY DEF GuiStart
<1>2. CanStart(l) /\ UNCHANGED <<deskVars, fileVars, moves, raced, call>>
  BY DEF GuiStart
<1>3. /\ HostType' /\ SessionInv' /\ LiveIsTracked'
      /\ \A x : CallOK(x) => CallOK(x)'
  BY <1>1, <1>2, SpawnKeeps
<1>4. ClosersInv'
  BY <1>1, <1>2, SpawnClosers DEF Closing
<1>5. CallInv'
  BY <1>2, <1>3 DEF IInv, CallInv
<1> QED
  BY <1>2, <1>3, <1>4, <1>5 DEF IInv

LEMMA ObserveStartStep ==
  ASSUME IInv, NEW c \in Calls, ObserveStart(c)
  PROVE  IInv'
<1>1. /\ CallOK(call[c]) /\ call[c].tool = "observe"
      /\ call[c].pc = "start" /\ call[c] \in CallType
  BY DEF IInv, CallInv, CallOK, ObserveStart, At
<1> DEFINE r == [call[c] EXCEPT !.pc = "ensure"]
<1>2. /\ CallOK(r) /\ r.tool = call[c].tool /\ r.tool # "close"
      /\ r.label = call[c].label /\ r.pc = "ensure"
  <2>1. r.pc = "ensure" /\ r.tool = call[c].tool /\ r.label = call[c].label
    BY <1>1 DEF CallType
  <2>2. r = [call[c] EXCEPT !.pc = r.pc]
    BY <2>1
  <2> HIDE DEF r
  <2>3. CallOK(r) /\ r.tool # "close"
    BY <1>1, <2>1, <2>2, CaptureMoves
  <2> QED
    BY <2>1, <2>3
<1>3. CASE UNCHANGED procVars /\ Step(c, r)
  BY <1>2, <1>3, LocalStep DEF ObserveStart
<1>4. CASE UNCHANGED procVars /\ Step(c, Done(r, "START_FAILED"))
  <2>1. /\ CallOK(Done(r, "START_FAILED"))
        /\ Done(r, "START_FAILED").pc = "done"
    BY ErrorIsOK DEF Errors
  <2> QED
    BY <1>4, <2>1, LocalStep DEF ObserveStart
<1>5. CASE /\ CanStart(r.label)
           /\ \E p \in Pids : Spawn(r.label, p)
           /\ Step(c, r)
  <2>1. r.label \in Labels
    BY <1>1, <1>2 DEF CallOK, ShapeOK
  <2>2. PICK p \in Pids : Spawn(r.label, p)
    BY <1>5
  <2>3. UNCHANGED <<deskVars, fileVars, moves, raced>>
    BY DEF ObserveStart
  <2>4. /\ HostType' /\ SessionInv' /\ LiveIsTracked'
        /\ \A x : CallOK(x) => CallOK(x)'
    BY <1>5, <2>1, <2>2, <2>3, SpawnKeeps
  <2> HIDE DEF r
  <2>5. /\ call' \in [Calls -> CallType] /\ call'[c] = r
        /\ \A d \in Calls \ {c} : call'[d] = call[d]
    BY <1>2, <1>5 DEF IInv, Step, CallOK
  <2>6. CallInv'
    BY <1>2, <2>4, <2>5 DEF IInv, CallInv
  <2>7. \A m \in Labels : \A d \in Closing(m)' :
          d \in Closing(m) /\ call'[d].pid = call[d].pid
    BY <1>2, <2>5 DEF Closing
  <2>8. ClosersInv'
    BY <1>5, <2>1, <2>2, <2>3, <2>7, SpawnClosers
  <2> QED
    BY <2>4, <2>5, <2>6, <2>8 DEF IInv
<1> QED
  BY <1>3, <1>4, <1>5 DEF ObserveStart
----------------------------------------------------------------------------
(* Closing.                                                                *)
LEMMA CloseBeginStep ==
  ASSUME IInv, NEW c \in Calls, NEW l \in Labels, CloseBegin(c, l)
  PROVE  IInv'
<1> DEFINE r == [Idle EXCEPT !.tool = "close", !.label = l, !.pc = "grace",
                             !.pid = sessions[l], !.left = GracePolls,
                             !.known = Started]
<1>1. /\ sessions[l] \in Started /\ home[sessions[l]] = l
      /\ Started \subseteq Pids /\ call[c].pc = "done"
  BY DEF CloseBegin, IInv, SessionInv, Started, Idle
<1>2. /\ r \in CallType /\ r.tool = "close" /\ r.label = l
      /\ r.pc = "grace" /\ r.pid = sessions[l] /\ r.known = Started
      /\ r.killed = None /\ r.wrote = "nothing"
  <2>1. /\ GracePolls \in 0..GracePolls /\ Started \in SUBSET Pids
        /\ sessions[l] \in Pids \cup {None} /\ l \in Labels \cup {None}
    BY <1>1, BoundAssumption
  <2>2. r \in CallType
    BY <2>1, IdleType DEF CallType, Idle
  <2> QED
    BY <2>2 DEF Idle
<1>3. Step(c, r) /\ UNCHANGED <<procVars, deskVars, fileVars, moves>>
  BY DEF CloseBegin
<1>4. raced' = IF Closing(l) = {} THEN raced ELSE raced \cup {l}
  BY DEF CloseBegin
<1> HIDE DEF r
<1> USE DEF procVars, deskVars, fileVars
<1>5. /\ call' \in [Calls -> CallType] /\ call'[c] = r
      /\ \A d \in Calls \ {c} : call'[d] = call[d]
  BY <1>2, <1>3 DEF IInv, Step
<1>6. HostType' /\ SessionInv' /\ LiveIsTracked'
  BY <1>3, <1>4 DEF IInv, HostType, SessionInv, LiveIsTracked, Started, Live
<1>7. CallOK(r)
  BY <1>1, <1>2 DEF CallOK, CloseOK, InputOK, CaptureOK, ShapeOK
<1>8. \A x : CallOK(x) <=> CallOK(x)'
  BY <1>3 DEF CallOK, CloseOK, InputOK, CaptureOK, ShapeOK, Started,
              Confined, FindWindow, FirstOf, Sent
<1>9. CallInv'
  BY <1>5, <1>7, <1>8 DEF IInv, CallInv
<1>10. ClosersInv'
  <2> SUFFICES ASSUME NEW m \in Labels, m \notin raced',
                      NEW d \in Closing(m)', NEW e \in Closing(m)'
               PROVE  d = e /\ sessions'[m] = call'[d].pid
    BY DEF ClosersInv
  <2>1. CASE m = l
    <3>1. Closing(l) = {} /\ d = c /\ e = c
      BY <1>4, <1>5, <2>1 DEF Closing
    <3> QED
      BY <1>2, <1>3, <1>5, <2>1, <3>1
  <2>2. CASE m # l
    <3>1. d # c /\ e # c
      BY <1>2, <1>5, <2>2 DEF Closing
    <3>2. d \in Closing(m) /\ e \in Closing(m) /\ call'[d] = call[d]
      BY <1>5, <3>1 DEF Closing
    <3> QED
      BY <1>3, <1>4, <3>2 DEF IInv, ClosersInv
  <2> QED
    BY <2>1, <2>2
<1> QED
  BY <1>5, <1>6, <1>9, <1>10 DEF IInv

(* A window taken from the desk leaves a desk.                             *)
LEMMA ClosesType ==
  ASSUME desk \in Seq(Windows), focus \in Windows \cup {None},
         NEW w \in Windows, Closes(w)
  PROVE  desk' \in Seq(Windows) /\ focus' \in Windows \cup {None}
<1>1. CASE w \notin ToSet(desk)
  BY <1>1 DEF Closes, Without
<1>2. CASE w \in ToSet(desk)
  <2>1. \E i \in 1..Len(desk) : desk[i] = w
    BY <1>2 DEF ToSet
  <2>2. PICK i \in 1..Len(desk) : desk' = RemoveAt(desk, i)
    BY <1>2, <2>1 DEF Closes, Without
  <2>3. /\ SubSeq(desk, 1, i - 1) \in Seq(Windows)
        /\ SubSeq(desk, i + 1, Len(desk)) \in Seq(Windows)
    OBVIOUS
  <2> QED
    BY <2>2, <2>3 DEF RemoveAt, Closes
<1> QED
  BY <1>1, <1>2

LEMMA VanishFacts ==
  ASSUME HostType, NEW p \in Live, Vanish(p)
  PROVE  /\ group' \in [Pids -> {"unborn", "alive", "dead"}]
         /\ desk' \in Seq(Windows) /\ focus' \in Windows \cup {None}
         /\ Started' = Started /\ Live' = Live \ {p}
         /\ group'[p] = "dead"
         /\ \A q \in Pids : group[q] = "dead" => group'[q] = "dead"
<1>1. p \in Pids /\ p \in Windows
  BY DEF Live, Windows
<1>2. desk' \in Seq(Windows) /\ focus' \in Windows \cup {None}
  BY <1>1, ClosesType DEF Vanish, HostType
<1>3. \A q \in Pids : group'[q] = IF q = p THEN "dead" ELSE group[q]
  BY DEF Vanish, HostType
<1>4. Started' = Started /\ Live' = Live \ {p}
  BY <1>1, <1>3 DEF Started, Live
<1> QED
  BY <1>1, <1>2, <1>3, <1>4 DEF Vanish, HostType

(* A call in flight outlives a change of the desk or of the applications.  *)
LEMMA StirredIsOK ==
  ASSUME IInv, NEW d \in Calls, NEW r, r = Stirred[d],
         UNCHANGED <<home, dest, parent>>, Started' = Started,
         \A q \in Pids : group[q] = "dead" => group'[q] = "dead"
  PROVE  /\ CallOK(r)' /\ r \in CallType
         /\ r.tool = call[d].tool /\ r.pc = call[d].pc
         /\ r.label = call[d].label /\ r.pid = call[d].pid
<1>1. CallOK(call[d]) /\ call[d] \in CallType
  BY DEF IInv, CallInv, CallOK
<1>2. CASE Unasked(d, {"interact"})
  <2>1. r = [call[d] EXCEPT !.quiet = FALSE]
    BY <1>2 DEF Stirred
  <2>2. /\ r \in CallType /\ ~r.quiet /\ r.tool = "interact"
        /\ r.tool = call[d].tool /\ r.pc = call[d].pc
        /\ r.label = call[d].label /\ r.pid = call[d].pid
        /\ r.wrote = call[d].wrote /\ r.killed = call[d].killed
    BY <1>1, <1>2, <2>1 DEF CallType, Unasked
  <2> QED
    BY <1>1, <2>2 DEF CallOK, CloseOK, InputOK, CaptureOK, ShapeOK
<1>3. CASE ~Unasked(d, {"interact"})
  <2>1. r = call[d]
    BY <1>3 DEF Stirred
  <2>2. CloseOK(r)'
    BY <1>1, <2>1 DEF CallOK, CloseOK, Started
  <2>3. InputOK(r)'
    BY <1>1, <1>3, <2>1 DEF CallOK, InputOK, Unasked, Sent
  <2> QED
    BY <1>1, <2>1, <2>2, <2>3 DEF CallOK, CaptureOK, ShapeOK
<1> QED
  BY <1>2, <1>3

LEMMA StirStep ==
  ASSUME IInv, call' = Stirred, UNCHANGED <<sessions, home, fileVars, raced>>,
         moves' \in 0..MaxMoves, desk' \in Seq(Windows),
         focus' \in Windows \cup {None},
         group' \in [Pids -> {"unborn", "alive", "dead"}],
         Started' = Started, Live' \subseteq Live,
         \A q \in Pids : group[q] = "dead" => group'[q] = "dead"
  PROVE  IInv'
<1> USE DEF fileVars
<1>1. ASSUME NEW d \in Calls
      PROVE  /\ CallOK(call[d])' /\ call'[d] \in CallType
             /\ call'[d].tool = call[d].tool /\ call'[d].pc = call[d].pc
             /\ call'[d].label = call[d].label /\ call'[d].pid = call[d].pid
  <2>1. PICK r : r = Stirred[d]
    OBVIOUS
  <2>2. /\ CallOK(r)' /\ r \in CallType
        /\ r.tool = call[d].tool /\ r.pc = call[d].pc
        /\ r.label = call[d].label /\ r.pid = call[d].pid
    BY <2>1, StirredIsOK
  <2>3. call'[d] = r
    BY <2>1
  <2> QED
    BY <2>2, <2>3
<1>2. call' \in [Calls -> CallType]
  BY <1>1 DEF Stirred
<1>3. HostType' /\ SessionInv' /\ LiveIsTracked'
  BY DEF IInv, HostType, SessionInv, LiveIsTracked
<1>4. ClosersInv'
  BY <1>1 DEF IInv, ClosersInv, Closing
<1>5. CallInv'
  BY <1>1 DEF CallInv
<1> QED
  BY <1>2, <1>3, <1>4, <1>5 DEF IInv

LEMMA WindowMapsStep ==
  ASSUME IInv, NEW p \in Pids, WindowMaps(p)
  PROVE  IInv'
<1>1. p \in Windows
  BY DEF Windows
<1>2. desk' \in Seq(Windows) /\ focus' \in Windows \cup {None}
  BY <1>1 DEF WindowMaps, IInv, HostType
<1>3. /\ group' \in [Pids -> {"unborn", "alive", "dead"}]
      /\ moves' \in 0..MaxMoves /\ Started' = Started /\ Live' = Live
      /\ \A q \in Pids : group[q] = "dead" => group'[q] = "dead"
  BY DEF WindowMaps, procVars, IInv, HostType, Started, Live
<1> QED
  BY <1>2, <1>3, StirStep DEF WindowMaps, procVars

LEMMA ExitStep == ASSUME IInv, NEW p \in Pids, Exit(p) PROVE IInv'
<1>1. p \in Live /\ HostType /\ Vanish(p)
  BY DEF Exit, Live, IInv
<1>2. moves' \in 0..MaxMoves
  BY DEF Exit, IInv, HostType
<1> QED
  BY <1>1, <1>2, VanishFacts, StirStep DEF Exit

LEMMA DeskMovesStep == ASSUME IInv, DeskMoves PROVE IInv'
<1>1. moves' \in 0..MaxMoves
  BY BoundAssumption DEF DeskMoves, IInv, HostType
<1>2. /\ group' \in [Pids -> {"unborn", "alive", "dead"}]
      /\ Started' = Started /\ Live' = Live
      /\ \A q \in Pids : group[q] = "dead" => group'[q] = "dead"
  BY DEF DeskMoves, procVars, IInv, HostType, Started, Live
<1>3. desk \in Seq(Windows) /\ focus \in Windows \cup {None}
  BY DEF IInv, HostType
<1>4. desk' \in Seq(Windows) /\ focus' \in Windows \cup {None}
  <2>1. CASE \E w \in Foreign \ ToSet(desk) :
               desk' = Append(desk, w) /\ focus' = w
    BY <1>3, <2>1 DEF Windows
  <2>2. CASE \E w \in Foreign \cap ToSet(desk) : Closes(w)
    BY <1>3, <2>2, ClosesType DEF Windows
  <2>3. CASE \E w \in ToSet(desk) \ {focus} : focus' = w /\ UNCHANGED desk
    BY <1>3, <2>3 DEF ToSet
  <2> QED
    BY <2>1, <2>2, <2>3 DEF DeskMoves
<1> QED
  BY <1>1, <1>2, <1>4, StirStep DEF DeskMoves, procVars

(* A step of an input that takes the focus disturbs the other inputs.      *)
LEMMA FocusStep ==
  ASSUME IInv, NEW c \in Calls, NEW r, CallOK(r)', r \in CallType,
         call[c].tool = "interact", r.tool = "interact",
         call' = [Stirred EXCEPT ![c] = r], focus' \in Windows \cup {None},
         UNCHANGED <<procVars, desk, fileVars, moves, raced>>
  PROVE  IInv'
<1> USE DEF procVars, fileVars
<1>1. HostType' /\ SessionInv' /\ LiveIsTracked' /\ Started' = Started
  BY DEF IInv, HostType, SessionInv, LiveIsTracked, Started, Live
<1>2. \A q \in Pids : group[q] = "dead" => group'[q] = "dead"
  OBVIOUS
<1>3. call'[c] = r
  BY DEF Stirred
<1>4. ASSUME NEW d \in Calls, d # c
      PROVE  /\ CallOK(call[d])' /\ call'[d] \in CallType
             /\ call'[d].tool = call[d].tool /\ call'[d].pc = call[d].pc
             /\ call'[d].label = call[d].label /\ call'[d].pid = call[d].pid
  <2>1. PICK t : t = Stirred[d]
    OBVIOUS
  <2>2. /\ CallOK(t)' /\ t \in CallType
        /\ t.tool = call[d].tool /\ t.pc = call[d].pc
        /\ t.label = call[d].label /\ t.pid = call[d].pid
    BY <1>1, <1>2, <2>1, StirredIsOK
  <2>3. call'[d] = t
    BY <1>4, <2>1 DEF Stirred
  <2> QED
    BY <2>2, <2>3
<1>5. CallInv' /\ call' \in [Calls -> CallType]
  <2>1. call' = [d \in Calls |-> call'[d]]
    BY DEF Stirred
  <2> QED
    BY <1>3, <1>4, <2>1 DEF CallInv
<1>6. ClosersInv'
  BY <1>3, <1>4 DEF IInv, ClosersInv, Closing
<1> QED
  BY <1>1, <1>5, <1>6 DEF IInv

LEMMA InteractActivateStep ==
  ASSUME IInv, NEW c \in Calls, InteractActivate(c)
  PROVE  IInv'
<1>1. /\ CallOK(call[c]) /\ call[c].tool = "interact"
      /\ call[c].pc = "activate" /\ call[c] \in CallType
  BY DEF IInv, CallInv, CallOK, InteractActivate, At
<1>2. CASE UNCHANGED focus /\ Step(c, Done(call[c], "INTERACT_FAILED"))
  <2>1. /\ CallOK(Done(call[c], "INTERACT_FAILED"))
        /\ Done(call[c], "INTERACT_FAILED").pc = "done"
    BY ErrorIsOK DEF Errors
  <2> QED
    BY <1>2, <2>1, LocalStep DEF InteractActivate, deskVars
<1>3. CASE /\ call[c].window \in ToSet(desk) /\ focus' = call[c].window
           /\ call' = [Stirred EXCEPT ![c] = [call[c] EXCEPT !.pc = "send"]]
  <2>1. focus' \in Windows
    BY <1>3 DEF IInv, HostType, ToSet
  <2> PICK r : r = [call[c] EXCEPT !.pc = "send"]
    OBVIOUS
  <2>2. /\ r \in CallType /\ r.tool = "interact" /\ r.pc = "send"
        /\ r.granted = call[c].granted /\ r.quiet = call[c].quiet
        /\ r.padded = call[c].padded /\ r.window = call[c].window
        /\ r.wrote = call[c].wrote
    BY <1>1 DEF CallType
  <2>3. InputOK(r)'
    BY <1>1, <1>3, <2>2 DEF CallOK, InputOK, Sent, AllowedWindows
  <2>4. CallOK(r)'
    BY <1>1, <2>2, <2>3 DEF CallOK, CloseOK, CaptureOK, ShapeOK
  <2> QED
    BY <1>1, <1>3, <2>1, <2>2, <2>4, FocusStep DEF InteractActivate
<1> QED
  BY <1>2, <1>3 DEF InteractActivate

LEMMA InteractSendStep ==
  ASSUME IInv, NEW c \in Calls, InteractSend(c)
  PROVE  IInv'
<1>1. /\ CallOK(call[c]) /\ call[c].tool = "interact"
      /\ call[c].pc = "send" /\ call[c] \in CallType
  BY DEF IInv, CallInv, CallOK, InteractSend, At
<1>2. CASE Step(c, Done(call[c], "INTERACT_FAILED")) /\ UNCHANGED focus
  <2>1. /\ CallOK(Done(call[c], "INTERACT_FAILED"))
        /\ Done(call[c], "INTERACT_FAILED").pc = "done"
    BY ErrorIsOK DEF Errors
  <2> QED
    BY <1>2, <2>1, LocalStep DEF InteractSend, deskVars
(* What is sent, wherever it lands.                                        *)
<1> DEFINE t(w) == [Done(call[c], "ok") EXCEPT !.landed = w]
<1>3. ASSUME NEW w \in Windows \cup {None}
      PROVE  /\ t(w) \in CallType /\ t(w).tool = "interact"
             /\ t(w).pc = "done" /\ t(w).landed = w
             /\ t(w).granted = call[c].granted /\ t(w).quiet = call[c].quiet
             /\ t(w).padded = call[c].padded
             /\ t(w).action = call[c].action
             /\ t(w).window = call[c].window /\ t(w).wrote = call[c].wrote
  <2>1. PICK d : d = Done(call[c], "ok")
    OBVIOUS
  <2>2. /\ d \in CallType /\ d.tool = "interact" /\ d.pc = "done"
        /\ d.granted = call[c].granted /\ d.quiet = call[c].quiet
        /\ d.padded = call[c].padded /\ d.action = call[c].action
        /\ d.window = call[c].window /\ d.wrote = call[c].wrote
    BY <1>1, <2>1, DoneType
  <2>3. t(w) = [d EXCEPT !.landed = w]
    BY <2>1
  <2> HIDE DEF t
  <2>4. t(w) \in CallType
    BY <1>3, <2>2, <2>3 DEF CallType
  <2> QED
    BY <2>2, <2>3, <2>4 DEF CallType
<1>4. ASSUME NEW w \in Windows \cup {None}, call[c].action = "key" => w = focus
      PROVE  InputOK(t(w)) /\ CallOK(t(w))
  <2>1. PICK r : r = t(w)
    OBVIOUS
  <2> HIDE DEF t
  <2>2. InputOK(r)
    BY <1>1, <1>3, <1>4, <2>1 DEF CallOK, InputOK, Sent
  <2>3. CallOK(r)
    BY <1>1, <1>3, <2>1, <2>2 DEF CallOK, CloseOK, CaptureOK, ShapeOK
  <2> QED
    BY <2>1, <2>2, <2>3
<1>5. CASE Step(c, t(focus)) /\ UNCHANGED focus
  <2>1. focus \in Windows \cup {None}
    BY DEF IInv, HostType
  <2>2. PICK r : r = t(focus) /\ CallOK(r) /\ r.tool = "interact"
                 /\ r.pc = "done"
    BY <1>3, <1>4, <2>1
  <2> HIDE DEF t
  <2> QED
    BY <1>5, <2>2, LocalStep DEF InteractSend, deskVars
<1>6. CASE /\ call[c].action = "pointer"
           /\ \E w \in ToSet(desk) \cup {None} :
                /\ focus' \in {focus, w}
                /\ call' = [Stirred EXCEPT ![c] = t(w)]
  <2>1. PICK w \in ToSet(desk) \cup {None} :
               /\ focus' \in {focus, w}
               /\ call' = [Stirred EXCEPT ![c] = t(w)]
    BY <1>6
  <2>2. w \in Windows \cup {None} /\ focus' \in Windows \cup {None}
    BY <2>1 DEF IInv, HostType, ToSet
  <2> HIDE DEF t
  <2>3. PICK r : /\ r = t(w) /\ CallOK(r) /\ r \in CallType
                 /\ r.tool = "interact" /\ r.pc = "done"
    BY <1>3, <1>4, <1>6, <2>2
  <2>4. UNCHANGED <<procVars, desk, fileVars, moves, raced>>
    BY DEF InteractSend
  <2>5. CallOK(r)'
    BY <2>3, <2>4 DEF CallOK, CloseOK, InputOK, CaptureOK, ShapeOK, Sent
  <2> QED
    BY <1>1, <2>1, <2>2, <2>3, <2>4, <2>5, FocusStep
<1> QED
  BY <1>2, <1>5, <1>6 DEF InteractSend

LEMMA CloseKillStep == ASSUME IInv, NEW c \in Calls, CloseKill(c) PROVE IInv'
<1> DEFINE l == call[c].label
           p == call[c].pid
           k == Done(call[c], "ok")
<1>1. /\ CallOK(call[c]) /\ call[c].tool = "close" /\ call[c].pc = "kill"
      /\ call[c] \in CallType /\ l \in Labels /\ p \in Started
      /\ home[p] = l /\ c \in Closing(l)
  BY DEF IInv, CallInv, CallOK, CloseOK, CloseKill, At, Closing
<1>2. /\ k \in CallType /\ k.tool = "close" /\ k.pc = "done"
      /\ k.pid = p /\ k.label = l /\ k.known = call[c].known
      /\ k.killed = call[c].killed /\ k.wrote = call[c].wrote
  BY <1>1, DoneType
<1>3. /\ UNCHANGED <<home, fileVars, moves, raced>>
      /\ sessions' = [sessions EXCEPT ![l] = None]
  BY DEF CloseKill
<1>4. \A m \in Labels : sessions'[m] = IF m = l THEN None ELSE sessions[m]
  BY <1>3 DEF IInv, HostType
<1> HIDE DEF l, p, k
<1> USE DEF fileVars
<1>5. /\ group' \in [Pids -> {"unborn", "alive", "dead"}]
      /\ desk' \in Seq(Windows) /\ focus' \in Windows \cup {None}
      /\ Started' = Started /\ Live' = Live \ {p}
      /\ group'[p] = "dead"
      /\ \A q \in Pids : group[q] = "dead" => group'[q] = "dead"
  <2>1. CASE Doomed(c) = {} /\ UNCHANGED <<group, deskVars>>
    <3>1. group[p] = "dead" /\ p \notin Live
      BY <1>1, <2>1 DEF p, Doomed, Live, Started, IInv, HostType
    <3> QED
      BY <2>1, <3>1 DEF deskVars, IInv, HostType, Started, Live
  <2>2. CASE \E q \in Doomed(c) : Vanish(q)
    BY <2>2, VanishFacts DEF Doomed, p, IInv
  <2> QED
    BY <2>1, <2>2 DEF CloseKill
<1>6. HostType' /\ SessionInv'
  <2>1. sessions' \in [Labels -> Pids \cup {None}]
    BY <1>3 DEF IInv, HostType
  <2> QED
    BY <1>3, <1>4, <1>5, <2>1 DEF IInv, HostType, SessionInv
<1>7. LiveIsTracked'
  <2> SUFFICES ASSUME NEW q \in Live'
               PROVE  sessions'[home'[q]] = q \/ home'[q] \in raced'
    BY DEF LiveIsTracked
  <2>1. q \in Live /\ q # p /\ q \in Started /\ home'[q] = home[q]
    BY <1>3, <1>5 DEF Live, Started
  <2>2. home[q] \in Labels /\ (sessions[home[q]] = q \/ home[q] \in raced)
    BY <2>1 DEF IInv, SessionInv, LiveIsTracked
  <2>3. l \notin raced => sessions[l] = p
    BY <1>1 DEF IInv, ClosersInv, p
  <2> QED
    BY <1>1, <1>3, <1>4, <2>1, <2>2, <2>3
<1>8. PICK r : /\ call'[c] = r /\ CallOK(r)' /\ r \in CallType
               /\ r.tool = "close" /\ r.pc = "done"
  <2>1. PICK r : /\ call'[c] = r
                 /\ \/ r = k
                    \/ r = [k EXCEPT !.killed = p]
    BY DEF CloseKill, Step, Stirred, Doomed, k, p, IInv
  <2>2. p \in Pids
    BY <1>1 DEF Started
  <2>3. /\ r \in CallType /\ r.tool = "close" /\ r.pc = "done"
        /\ r.pid = p /\ r.label = l /\ r.known = call[c].known
        /\ r.killed \in {call[c].killed, p} /\ r.wrote = call[c].wrote
    BY <1>2, <2>1, <2>2 DEF CallType
  <2>4. CloseOK(r)'
    BY <1>1, <1>3, <1>5, <2>3 DEF CallOK, CloseOK, p, l
  <2>5. CallOK(r)'
    BY <1>1, <2>3, <2>4 DEF CallOK, InputOK, CaptureOK, ShapeOK
  <2> QED
    BY <2>1, <2>3, <2>5
<1>9. ASSUME NEW d \in Calls, d # c
      PROVE  /\ CallOK(call[d])' /\ call'[d] \in CallType
             /\ call'[d].tool = call[d].tool /\ call'[d].pc = call[d].pc
             /\ call'[d].label = call[d].label /\ call'[d].pid = call[d].pid
  <2>1. CASE Doomed(c) = {} /\ Step(c, k) /\ UNCHANGED <<group, deskVars>>
    <3>1. call'[d] = call[d] /\ CallOK(call[d]) /\ call[d] \in CallType
      BY <1>9, <2>1 DEF Step, IInv, CallInv, CallOK
    <3>2. CloseOK(call[d])'
      BY <1>3, <1>5, <3>1 DEF CallOK, CloseOK, Started
    <3>3. /\ InputOK(call[d])' /\ CaptureOK(call[d])' /\ ShapeOK(call[d])'
      BY <1>3, <2>1, <3>1 DEF CallOK, InputOK, CaptureOK, ShapeOK, Confined,
                              FindWindow, FirstOf, Sent, deskVars
    <3> QED
      BY <3>1, <3>2, <3>3 DEF CallOK
  <2>2. CASE \E s : call' = [Stirred EXCEPT ![c] = s]
    <3>1. PICK t : t = Stirred[d]
      OBVIOUS
    <3>2. /\ CallOK(t)' /\ t \in CallType
          /\ t.tool = call[d].tool /\ t.pc = call[d].pc
          /\ t.label = call[d].label /\ t.pid = call[d].pid
      BY <1>3, <1>5, <3>1, StirredIsOK
    <3>3. call'[d] = t
      BY <1>9, <2>2, <3>1 DEF Stirred
    <3> QED
      BY <3>2, <3>3
  <2> QED
    BY <2>1, <2>2 DEF CloseKill, k
<1>10. CallInv' /\ call' \in [Calls -> CallType]
  <2>1. call' = [d \in Calls |-> call'[d]]
    BY DEF CloseKill, Step, Stirred, IInv
  <2> QED
    BY <1>8, <1>9, <2>1 DEF CallInv
<1>11. ClosersInv'
  <2> SUFFICES ASSUME NEW m \in Labels, m \notin raced',
                      NEW d \in Closing(m)', NEW e \in Closing(m)'
               PROVE  d = e /\ sessions'[m] = call'[d].pid
    BY DEF ClosersInv
  <2>1. /\ d # c /\ e # c /\ d \in Closing(m) /\ e \in Closing(m)
        /\ call'[d].pid = call[d].pid
    BY <1>8, <1>9 DEF Closing
  <2>2. m # l
    BY <1>1, <1>3, <2>1 DEF IInv, ClosersInv
  <2> QED
    BY <1>3, <1>4, <2>1, <2>2 DEF IInv, ClosersInv
<1> QED
  BY <1>6, <1>7, <1>10, <1>11 DEF IInv
----------------------------------------------------------------------------
(* Files.  What others do to the paths is remembered by the captures it    *)
(* can lead astray.                                                        *)
LEMMA FilesStep ==
  ASSUME IInv, UNCHANGED <<procVars, deskVars, dirMade, raced>>,
         moves' \in 0..MaxMoves, dest' \in [Paths -> Files],
         parent' \in [Paths -> Places],
         \A d \in Calls :
           /\ CallOK(call[d])' /\ call'[d].tool = call[d].tool
           /\ call'[d].pc = call[d].pc
           /\ call'[d].label = call[d].label /\ call'[d].pid = call[d].pid,
         call' = [d \in Calls |-> call'[d]]
  PROVE  IInv'
<1> USE DEF procVars, deskVars
<1>1. HostType' /\ SessionInv' /\ LiveIsTracked'
  BY DEF IInv, HostType, SessionInv, LiveIsTracked, Started, Live
<1>2. ClosersInv'
  BY DEF IInv, ClosersInv, Closing
<1>3. CallInv'
  BY DEF CallInv
<1>4. call' \in [Calls -> CallType]
  BY DEF CallOK
<1> QED
  BY <1>1, <1>2, <1>3, <1>4 DEF IInv

LEMMA TouchedIsOK ==
  ASSUME NEW r, CallOK(r), UNCHANGED <<procVars, deskVars>>,
         \/ UNCHANGED parent
         \/ /\ r.tool \in {"observe", "screenshot"}
            /\ r.pc \in {"start", "ensure", "mkdir", "assess", "shoot"}
            => r.granted \/ ~r.settled
  PROVE  /\ CallOK(Touched(r))' /\ Touched(r).tool = r.tool
         /\ Touched(r).pc = r.pc
         /\ Touched(r).label = r.label /\ Touched(r).pid = r.pid
<1> DEFINE t == Touched(r)
<1>1. /\ t \in CallType /\ t.tool = r.tool /\ t.pc = r.pc
      /\ t.label = r.label /\ t.pid = r.pid /\ t.known = r.known
      /\ t.killed = r.killed /\ t.path = r.path /\ t.granted = r.granted
      /\ t.settled = r.settled /\ t.wrote = r.wrote /\ t.into = r.into
      /\ t.pattern = r.pattern /\ t.padded = r.padded
      /\ t.action = r.action /\ t.window = r.window
      /\ t.landed = r.landed /\ t.result = r.result
      /\ r.tool \in {"observe", "screenshot"} /\ r.pc = "shoot" => ~t.quiet
      /\ ~(r.tool \in {"observe", "screenshot"} /\ r.pc = "shoot") =>
           t.quiet = r.quiet
  <2>1. r \in CallType
    BY DEF CallOK
  <2>2. CASE /\ ~(r.tool \in {"observe", "screenshot"} /\ r.pc = "shoot")
             /\ t = r
    BY <2>1, <2>2
  <2>3. CASE /\ r.tool \in {"observe", "screenshot"} /\ r.pc = "shoot"
             /\ t = [r EXCEPT !.quiet = FALSE]
    <3>1. t \in CallType
      BY <2>1, <2>3, FlagType
    <3>2. ~t.quiet
      BY <2>1, <2>3 DEF CallType
    <3> HIDE DEF t
    <3>3. /\ t.tool = r.tool /\ t.pc = r.pc
          /\ t.label = r.label /\ t.pid = r.pid /\ t.known = r.known
          /\ t.killed = r.killed /\ t.path = r.path
          /\ t.granted = r.granted /\ t.settled = r.settled
          /\ t.wrote = r.wrote /\ t.into = r.into
          /\ t.pattern = r.pattern /\ t.padded = r.padded
          /\ t.action = r.action /\ t.window = r.window
          /\ t.landed = r.landed /\ t.result = r.result
      BY <2>1, <2>3 DEF CallType
    <3> QED
      BY <2>3, <3>1, <3>2, <3>3
  <2> QED
    BY <2>2, <2>3 DEF Touched
<1> HIDE DEF t
<1>2. CloseOK(t)' /\ ShapeOK(t)'
  BY <1>1 DEF CallOK, CloseOK, ShapeOK, Started, procVars
<1>3. InputOK(t)'
  BY <1>1 DEF CallOK, InputOK, Confined, FindWindow, FirstOf, Sent, deskVars
<1>4. CaptureOK(t)'
  BY <1>1 DEF CallOK, CaptureOK, ShapeOK
<1>5. CallOK(t)'
  BY <1>1, <1>2, <1>3, <1>4 DEF CallOK
<1> QED
  BY <1>1, <1>5 DEF t

LEMMA FilesMoveStep ==
  ASSUME IInv, NEW path \in Paths, FilesMove(path)
  PROVE  IInv'
<1>1. PICK f \in Files : dest' = [dest EXCEPT ![path] = f]
  BY DEF FilesMove
<1>2. /\ moves' \in 0..MaxMoves /\ dest' \in [Paths -> Files]
      /\ parent' \in [Paths -> Places] /\ parent' = parent
      /\ UNCHANGED <<procVars, deskVars, dirMade, raced>>
  BY <1>1, BoundAssumption DEF FilesMove, IInv, HostType
<1>3. call' = [d \in Calls |-> Touched(call[d])]
  BY DEF FilesMove
<1>4. ASSUME NEW d \in Calls
      PROVE  /\ CallOK(call[d])' /\ call'[d].tool = call[d].tool
             /\ call'[d].pc = call[d].pc /\ call'[d].label = call[d].label
             /\ call'[d].pid = call[d].pid
  <2>1. CallOK(call[d]) /\ call'[d] = Touched(call[d])
    BY <1>3 DEF IInv, CallInv
  <2>2. PICK u : u = call[d]
    OBVIOUS
  <2>3. PICK t : t = Touched(u)
    OBVIOUS
  <2>4. /\ CallOK(t)' /\ t.tool = u.tool /\ t.pc = u.pc
        /\ t.label = u.label /\ t.pid = u.pid
    BY <1>2, <2>1, <2>2, <2>3, TouchedIsOK
  <2> QED
    BY <2>1, <2>2, <2>3, <2>4
<1> QED
  BY <1>2, <1>3, <1>4, FilesStep

LEMMA DirsMoveStep ==
  ASSUME IInv, NEW path \in Paths, DirsMove(path)
  PROVE  IInv'
<1>1. PICK place \in Places, f \in Files :
        /\ dest' = [dest EXCEPT ![path] = f]
        /\ parent' = [parent EXCEPT ![path] = place]
  BY DEF DirsMove
<1>2. /\ moves' \in 0..MaxMoves /\ dest' \in [Paths -> Files]
      /\ parent' \in [Paths -> Places]
      /\ UNCHANGED <<procVars, deskVars, dirMade, raced>>
  BY <1>1, BoundAssumption DEF DirsMove, IInv, HostType
<1>3. call' = [d \in Calls |-> Touched(Unsettled(d))]
  BY DEF DirsMove
<1>4. ASSUME NEW d \in Calls
      PROVE  /\ CallOK(call[d])' /\ call'[d].tool = call[d].tool
             /\ call'[d].pc = call[d].pc /\ call'[d].label = call[d].label
             /\ call'[d].pid = call[d].pid
  <2>1. CallOK(call[d])
    BY DEF IInv, CallInv
  <2>2. PICK u : u = Unsettled(d)
    OBVIOUS
  <2>3. /\ CallOK(u) /\ u.tool = call[d].tool /\ u.pc = call[d].pc
        /\ u.label = call[d].label /\ u.pid = call[d].pid
        /\ /\ u.tool \in {"observe", "screenshot"}
           /\ u.pc \in {"start", "ensure", "mkdir", "assess", "shoot"}
           => u.granted \/ ~u.settled
    <3>1. CASE Unasked(d, {"observe", "screenshot"})
      <4>1. u = [call[d] EXCEPT !.settled = FALSE]
        BY <2>2, <3>1 DEF Unsettled
      <4>2. /\ u \in CallType /\ ~u.settled
            /\ u.tool = call[d].tool /\ u.tool \in {"observe", "screenshot"}
            /\ u.pc = call[d].pc /\ u.pc # "done"
            /\ u.label = call[d].label /\ u.pid = call[d].pid
            /\ u.path = call[d].path /\ u.wrote = call[d].wrote
            /\ u.quiet = call[d].quiet
        BY <2>1, <3>1, <4>1 DEF CallOK, CallType, Unasked
      <4>3. CallOK(u)
        BY <2>1, <4>2 DEF CallOK, CloseOK, InputOK, CaptureOK, ShapeOK
      <4> QED
        BY <4>2, <4>3
    <3>2. CASE ~Unasked(d, {"observe", "screenshot"})
      <4>1. u = call[d]
        BY <2>2, <3>2 DEF Unsettled
      <4> QED
        BY <2>1, <3>2, <4>1 DEF Unasked
    <3> QED
      BY <3>1, <3>2
  <2>4. PICK t : t = Touched(u)
    OBVIOUS
  <2>5. /\ CallOK(t)' /\ t.tool = u.tool /\ t.pc = u.pc
        /\ t.label = u.label /\ t.pid = u.pid
    BY <1>2, <2>3, <2>4, TouchedIsOK
  <2>6. call'[d] = t
    BY <1>3, <2>2, <2>4
  <2> QED
    BY <2>3, <2>5, <2>6
<1> QED
  BY <1>2, <1>3, <1>4, FilesStep

LEMMA CaptureShootStep ==
  ASSUME IInv, NEW c \in Calls, CaptureShoot(c)
  PROVE  IInv'
<1>1. /\ CallOK(call[c]) /\ call[c].tool \in {"observe", "screenshot"}
      /\ call[c].pc = "shoot" /\ call[c] \in CallType
  BY DEF IInv, CallInv, CallOK, CaptureShoot, At
<1>2. CASE Step(c, Failed(call[c]))
  <2>1. CallOK(Failed(call[c])) /\ Failed(call[c]).tool # "close"
    BY <1>1, FailedIsOK DEF Failed, Done, CallType, Idle
  <2> QED
    BY <1>2, <2>1, LocalStep DEF CaptureShoot
<1> DEFINE path == call[c].path
           r == [Done(call[c], "ok") EXCEPT !.wrote = dest[path],
                                            !.into = parent[path]]
<1>3. CASE Step(c, r)
  <2>1. path \in Paths /\ dest[path] \in Files /\ parent[path] \in Places
    BY <1>1 DEF CallType, IInv, HostType
  <2>2. PICK d : d = Done(call[c], "ok")
    OBVIOUS
  <2>3. PICK w \in Files, i \in Places :
          /\ w = dest[path] /\ i = parent[path]
          /\ r = [d EXCEPT !.wrote = w, !.into = i]
    BY <2>1, <2>2
  <2> HIDE DEF r
  <2>4. /\ r \in CallType /\ r.tool = call[c].tool /\ r.pc = "done"
        /\ r.wrote = w /\ r.into = i /\ r.quiet = call[c].quiet
        /\ r.granted = call[c].granted /\ r.settled = call[c].settled
    <3>1. /\ d \in CallType /\ d.tool = call[c].tool /\ d.pc = "done"
          /\ d.quiet = call[c].quiet /\ d.granted = call[c].granted
          /\ d.settled = call[c].settled
      BY <1>1, <2>2, DoneType
    <3>2. w \in Files \cup {"nothing"}
      OBVIOUS
    <3>3. r \in CallType
      BY <2>3, <3>1, <3>2 DEF CallType
    <3>4. /\ r.tool = d.tool /\ r.pc = d.pc /\ r.wrote = w /\ r.into = i
          /\ r.quiet = d.quiet /\ r.granted = d.granted
          /\ r.settled = d.settled
      BY <2>3, <3>1 DEF CallType
    <3> QED
      BY <3>1, <3>3, <3>4
  <2>5. CaptureOK(r)
    BY <1>1, <2>3, <2>4 DEF CallOK, CaptureOK
  <2>6. CallOK(r)
    BY <1>1, <2>4, <2>5 DEF CallOK, CloseOK, InputOK, ShapeOK
  <2> QED
    BY <1>1, <1>3, <2>4, <2>6, LocalStep DEF CaptureShoot
<1> QED
  BY <1>2, <1>3 DEF CaptureShoot
----------------------------------------------------------------------------
(* Every step.                                                             *)
LEMMA CallBeginsStep ==
  ASSUME IInv, NEW c \in Calls, CallBegins(c)
  PROVE  IInv'
<1>1. {"absent", "app"} \subseteq Patterns
  BY DEF Patterns
<1> QED
  BY <1>1, CloseBeginStep, InteractBeginStep, CaptureBeginStep DEF CallBegins

LEMMA CallContinuesStep ==
  ASSUME IInv, NEW c \in Calls, CallContinues(c)
  PROVE  IInv'
BY ClosePollStep, CloseKillStep, InteractResolveStep, InteractActivateStep,
   InteractSendStep, ObserveStartStep, EnsureDirStep, MakeDirStep,
   CaptureAssessStep, CaptureShootStep, ReturnStep DEF CallContinues

LEMMA OthersStep == ASSUME IInv, Others PROVE IInv'
BY GuiStartStep, WindowMapsStep, ExitStep, DeskMovesStep, FilesMoveStep,
   DirsMoveStep
   DEF Others

LEMMA StutterStep == ASSUME IInv, UNCHANGED vars PROVE IInv'
<1> USE DEF vars, procVars, deskVars, fileVars
<1>1. HostType' /\ SessionInv' /\ LiveIsTracked' /\ ClosersInv'
  BY DEF IInv, HostType, SessionInv, LiveIsTracked, ClosersInv, Started,
         Live, Closing
<1>2. \A x : CallOK(x) <=> CallOK(x)'
  BY DEF CallOK, CloseOK, InputOK, CaptureOK, ShapeOK, Started, Confined,
         FindWindow, FirstOf, Sent
<1> QED
  BY <1>1, <1>2 DEF IInv, CallInv

LEMMA NextIInv == ASSUME IInv, [Next]_vars PROVE IInv'
BY CallBeginsStep, AnswerStep, CallContinuesStep, OthersStep, StutterStep
   DEF Next

LEMMA SpecIInv == Spec => []IInv
BY InitIInv, NextIInv, PTL DEF Spec
----------------------------------------------------------------------------
(* GuiTypeOK holds in every reachable state.                               *)
THEOREM TypeCorrect == Spec => []GuiTypeOK
BY SpecIInv, IInvImplies, PTL

(* An application that runs can be closed by its label, unless two closes  *)
(* of that label overlapped (GuiManager.start and close).                  *)
THEOREM ApplicationsStayTracked == Spec => []LiveIsTracked
<1>1. IInv => LiveIsTracked
  BY DEF IInv
<1> QED
  BY <1>1, SpecIInv, PTL

(* close ends the application it was called for and no later one.          *)
THEOREM ClosesEndTheirOwn == Spec => []ClosesItsOwn
BY SpecIInv, IInvImplies, PTL

(* Input let through without a question is sent to allowlisted windows,    *)
(* and keys reach no other, while nothing moves the focus and the title is *)
(* written as it is classified.                                            *)
THEOREM InputStaysConfined == Spec => []InputIsConfined
BY SpecIInv, IInvImplies, PTL

(* Images that really end up outside the capture directory were approved,  *)
(* unless their directory was moved after the gate, and no odd file the    *)
(* second look could see is overwritten.                                   *)
THEOREM CapturesAreGated == Spec => []WritesAreGated
BY SpecIInv, IInvImplies, PTL
----------------------------------------------------------------------------
(* How far "sessions are tracked" reaches: no two closes of a label are in *)
(* flight at once.                                                         *)
ClosesAlone == \A l \in Labels : \A c, d \in Closing(l) : c = d
Tracked == \A p \in Live : sessions[home[p]] = p
OnePerLabel == \A p, q \in Live : home[p] = home[q] => p = q
NoneRaced == raced = {}

LEMMA AloneStep ==
  ASSUME IInv, NoneRaced, ClosesAlone', [Next]_vars
  PROVE  NoneRaced'
<1> USE DEF NoneRaced
<1>1. CASE UNCHANGED raced
  BY <1>1
<1>2. ASSUME NEW c \in Calls, NEW l \in Labels, CloseBegin(c, l)
      PROVE  NoneRaced'
  <2> SUFFICES ASSUME NEW d \in Closing(l) PROVE FALSE
    BY <1>2 DEF CloseBegin
  <2> DEFINE r == [Idle EXCEPT !.tool = "close", !.label = l, !.pc = "grace",
                               !.pid = sessions[l], !.left = GracePolls,
                               !.known = Started]
  <2>1. /\ Step(c, r) /\ call[c].pc = "done"
        /\ r.tool = "close" /\ r.label = l /\ r.pc = "grace"
    BY <1>2 DEF CloseBegin, Idle
  <2> HIDE DEF r
  <2>2. d \in Calls /\ d # c
    BY <2>1 DEF Closing
  <2>3. call'[c] = r /\ call'[d] = call[d]
    BY <2>1, <2>2 DEF Step, IInv
  <2>4. c \in Closing(l)' /\ d \in Closing(l)'
    BY <2>1, <2>2, <2>3 DEF Closing
  <2> QED
    BY <2>2, <2>4 DEF ClosesAlone
<1>3. CASE \E c \in Calls : CallContinues(c) \/ Answer(c)
  BY <1>1, <1>3
     DEF CallContinues, Answer, ClosePoll, CloseKill, InteractResolve,
         InteractActivate, InteractSend, ObserveStart, EnsureDir, MakeDir,
         CaptureAssess, CaptureShoot, Return
<1>4. CASE Others \/ UNCHANGED vars
  BY <1>1, <1>4 DEF Others, GuiStart, WindowMaps, Exit, DeskMoves, FilesMove,
                    DirsMove, vars
<1>5. CASE \E c \in Calls : CallBegins(c)
  BY <1>1, <1>2, <1>5 DEF CallBegins, InteractBegin, CaptureBegin
<1> QED
  BY <1>3, <1>4, <1>5 DEF Next

(* As long as no two closes of a label overlap, whatever runs can be       *)
(* closed by its label, and no label ever has two applications running:    *)
(* overlapping closes are all that GuiManager.close can lose one by.       *)
THEOREM OverlapsLoseSessions ==
  Spec /\ []ClosesAlone => [](Tracked /\ OnePerLabel)
<1>1. Init => NoneRaced
  BY DEF Init, NoneRaced
<1>2. IInv /\ NoneRaced /\ ClosesAlone' /\ [Next]_vars => NoneRaced'
  BY AloneStep
<1>3. IInv /\ NoneRaced => Tracked /\ OnePerLabel
  BY DEF IInv, LiveIsTracked, Tracked, OnePerLabel, NoneRaced
<1> QED
  BY <1>1, <1>2, <1>3, SpecIInv, PTL DEF Spec
=============================================================================
