-------------------------- MODULE PtySessionProofs --------------------------
(***************************************************************************)
(* The session of PtySession, for any number of status commands at once,   *)
(* any output and any buffers that DrainAssumption allows.  The inductive  *)
(* invariant has four parts: the control of the daemon and of stop, the    *)
(* output, the input, and the offsets of the statuses.                     *)
(***************************************************************************)
EXTENDS PtySession, TLAPS

(* What the daemon is about, and what it has promised by then.             *)
Jobs == [state : MetaStates, exit : Exits, next : DaemonPcs]
Metas == [state : MetaStates \cup {"unknown"}, exit : Exits, child : BOOLEAN]
JobsWritten == {<<"starting", "none", "pty">>, <<"running", "none", "child">>,
                <<"failed", "none", "note">>, <<"exited", "code", "drain">>,
                <<"exited", "-1", "drain">>, <<"exited", "-1", "end">>}
ControlTyped ==
  /\ daemon \in DaemonPcs
  /\ job \in Jobs /\ <<job.state, job.exit, job.next>> \in JobsWritten
  /\ meta \in Metas
  /\ child \in {"none", "alive", "dead"}
  /\ stop \in StopPcs /\ stops \in 0..MaxStops
StageOfJob ==
  /\ daemon \in {"probe", "create", "pty"} => job.state = "starting"
  /\ daemon \in {"child", "read", "forward", "wait", "check", "term", "kill"}
       => job.state = "running"
  /\ daemon = "note" => job.state = "failed"
  /\ daemon = "drain" => job.next = "drain"
ChildOfJob ==
  /\ job.state \in {"starting", "failed"} => child = "none"
  /\ job.state = "running" => child # "none"
  /\ job.state = "exited" => child = "dead"
ExitOfMeta ==
  meta.state = "exited" => job.state = "exited" /\ meta.exit = job.exit
KilledOnDemand == job.state = "exited" /\ job.next = "end"
StopAsked ==
  \/ stops > 0
  \/ /\ stop = "idle" /\ meta.state # "stopping"
     /\ ~KilledOnDemand /\ daemon \notin {"term", "kill"}
ControlInv ==
  ControlTyped /\ StageOfJob /\ ChildOfJob /\ ExitOfMeta /\ StopAsked

ControlVars == <<daemon, job, meta, child, stop, stops>>

(* The control part holds at the start.                                    *)
LEMMA ControlInit == Init => ControlInv
BY BoundsAssumption
DEF Init, ControlInv, ControlTyped, StageOfJob, ChildOfJob, ExitOfMeta,
    StopAsked, KilledOnDemand, DaemonPcs, StopPcs, Jobs, Metas, JobsWritten,
    MetaStates, Exits, NoMeta

(* Every step keeps it.                                                    *)
LEMMA ControlStep == ControlInv /\ [Next]_vars => ControlInv'
<1> SUFFICES ASSUME ControlInv, [Next]_vars PROVE ControlInv'
  OBVIOUS
<1> USE BoundsAssumption
    DEF ControlInv, ControlTyped, StageOfJob, ChildOfJob, ExitOfMeta,
        StopAsked, KilledOnDemand, DaemonPcs, StopPcs, Jobs, Metas,
        JobsWritten, MetaStates, Exits, NoMeta, stopVars
<1>1. CASE MetaOpen
  BY <1>1 DEF MetaOpen, At, childVars
<1>2. CASE MetaPut
  BY <1>2 DEF MetaPut, At, childVars, Overwritten
<1>3. CASE Probe
  BY <1>3 DEF Probe, At, childVars
<1>4. CASE CreateFiles
  BY <1>4 DEF CreateFiles, At, WriteMeta, childVars
<1>5. CASE Spawn
  BY <1>5 DEF Spawn, At, WriteMeta
<1>6. CASE FailNote
  BY <1>6 DEF FailNote, At, childVars
<1>7. CASE AppendChild
  BY <1>7 DEF AppendChild, At, childVars
<1>8. CASE ReadOut
  BY <1>8 DEF ReadOut, At, childVars
<1>9. CASE Forward
  BY <1>9 DEF Forward, At, childVars
<1>10. CASE Wait
  BY <1>10 DEF Wait, Reaped, At, WriteMeta, childVars
<1>11. CASE Drain
  BY <1>11 DEF Drain, At, childVars
<1>12. CASE Check
  BY <1>12 DEF Check, At, childVars
<1>13. CASE Terminate
  BY <1>13 DEF Terminate, At
<1>14. CASE KillChild
  BY <1>14 DEF KillChild, Sigkill, At, WriteMeta
<1>15. CASE Write
  BY <1>15 DEF Write, daemonVars
<1>16. CASE Exit
  BY <1>16 DEF Exit, daemonVars
<1>17. CASE \E m \in 1..MaxSends : Send(m)
  BY <1>17 DEF Send, daemonVars, childVars
<1>18. CASE StopStart
  BY <1>18 DEF StopStart, daemonVars, childVars
<1>19. CASE StopOpen
  BY <1>19 DEF StopOpen, StopStep, daemonVars
<1>20. CASE StopPut
  BY <1>20 DEF StopPut, StopStep, daemonVars, Overwritten
<1>21. CASE StopPoll
  BY <1>21 DEF StopPoll, StopStep, daemonVars
<1>22. CASE StopChild
  BY <1>22 DEF StopChild, StopStep, daemonVars
<1>23. CASE \E r \in Readers : Status(r)
  <2>1. UNCHANGED ControlVars
    BY <1>23 DEF Status, StatusOpen, StatusMark, SeekOpen, SeekPut, StatusRead,
                 MarkOpen, MarkPut, Goto, daemonVars, childVars, ControlVars
  <2> QED BY <2>1 DEF ControlVars
<1>24. CASE UNCHANGED vars
  BY <1>24 DEF vars, daemonVars, childVars
<1> QED
  BY <1>1, <1>2, <1>3, <1>4, <1>5, <1>6, <1>7, <1>8, <1>9, <1>10, <1>11,
     <1>12, <1>13, <1>14, <1>15, <1>16, <1>17, <1>18, <1>19, <1>20, <1>21,
     <1>22, <1>23, <1>24
  DEF Next, Daemon, Stopping

(* .meta says exited only of a dead child, with the exit that the daemon   *)
(* recorded, for every interleaving of the daemon's and stop's writes.     *)
THEOREM ExitTrue == Spec => []ExitIsTrue
<1>1. ControlInv => ExitIsTrue
  BY BoundsAssumption
  DEF ControlInv, ControlTyped, ChildOfJob, ExitOfMeta, ExitIsTrue
<1> QED BY <1>1, ControlInit, ControlStep, PTL DEF Spec

-----------------------------------------------------------------------------
(* The output: .out never holds more than the child wrote, the rest fits   *)
(* the pty, and the reads that are left suffice for it.                    *)
OutTyped ==
  outFile \in Int /\ wrote \in 0..MaxOut /\ drains \in 0..DrainReads
OutLength ==
  /\ daemon \in {"probe", "create"} => outFile = NoFile
  /\ job.state = "starting" /\ daemon \in {"open", "put", "pty"} => outFile = 0
  /\ job.state = "failed" /\ daemon # "end" => outFile = 0
  /\ job.state \in {"starting", "failed"} =>
       wrote = 0 /\ (daemon = "end" => outFile = 1)
  /\ job.state \in {"running", "exited"} =>
       outFile \in 0..wrote /\ wrote - outFile <= PtyBuffer
OutDrained ==
  job.state = "exited" /\ job.next = "drain" =>
    /\ daemon \in {"open", "put", "drain"} => wrote - outFile <= drains * Chunk
    /\ daemon = "end" => outFile = wrote
OutInv == OutTyped /\ OutLength /\ OutDrained

(* One more read of the drain leaves no more than the others can read.     *)
LEMMA OneReadLess ==
  ASSUME NEW gap \in Int, NEW n \in Nat, NEW c \in Nat,
         gap <= n * c, n > 0
  PROVE  gap - Smaller(c, gap) <= (n - 1) * c
<1>1. (n - 1) * c = n * c - c /\ (n - 1) * c >= 0
  OBVIOUS
<1> QED BY <1>1 DEF Smaller

(* The output part holds at the start.                                     *)
LEMMA OutInit == Init => OutInv
BY BoundsAssumption, PtyAssumption
DEF Init, OutInv, OutTyped, OutLength, OutDrained, NoFile

(* Every step keeps it.                                                    *)
LEMMA OutStep == ControlInv /\ OutInv /\ [Next]_vars => OutInv'
<1> SUFFICES ASSUME ControlInv, OutInv, [Next]_vars PROVE OutInv'
  OBVIOUS
<1> USE BoundsAssumption, PtyAssumption
    DEF ControlInv, ControlTyped, StageOfJob, ChildOfJob, JobsWritten, Jobs,
        OutInv, OutTyped, OutLength, OutDrained, NoFile
<1>1. CASE MetaOpen \/ MetaPut
  BY <1>1 DEF MetaOpen, MetaPut, At, childVars
<1>2. CASE Probe \/ CreateFiles \/ Spawn \/ FailNote
  BY <1>2 DEF Probe, CreateFiles, Spawn, FailNote, At, WriteMeta, childVars
<1>3. CASE AppendChild \/ Forward \/ Check \/ Terminate \/ KillChild
  BY <1>3 DEF AppendChild, Forward, Check, Terminate, KillChild, At, WriteMeta,
              childVars
<1>4. CASE ReadOut
  BY <1>4 DEF ReadOut, CopyOut, Smaller, At, childVars
<1>5. CASE Wait
  BY <1>5, DrainAssumption DEF Wait, Reaped, At, WriteMeta, childVars
<1>6. CASE Drain
  <2>1. CASE drains > 0 /\ wrote > outFile
    <3>1. wrote - outFile - Smaller(Chunk, wrote - outFile)
            <= (drains - 1) * Chunk
      BY <1>6, <2>1, OneReadLess DEF Drain, At
    <3> QED BY <1>6, <2>1, <3>1 DEF Drain, At, CopyOut, Smaller, childVars
  <2>2. CASE ~(drains > 0 /\ wrote > outFile)
    <3>1. drains = 0 => drains * Chunk = 0
      OBVIOUS
    <3> QED BY <1>6, <2>2, <3>1 DEF Drain, At, childVars
  <2> QED BY <2>1, <2>2
<1>7. CASE Write
  BY <1>7 DEF Write, daemonVars
<1>8. CASE UNCHANGED <<daemonVars, outFile, wrote>>
  BY <1>8 DEF daemonVars
<1>9. CASE Exit \/ StopStart \/ Stopping
  BY <1>8, <1>9 DEF Exit, StopStart, Stopping, StopOpen, StopPut, StopPoll,
                    StopChild, StopStep, childVars
<1>10. CASE \E m \in 1..MaxSends : Send(m)
  BY <1>8, <1>10 DEF Send, childVars
<1>11. CASE \E r \in Readers : Status(r)
  BY <1>8, <1>11 DEF Status, StatusOpen, StatusMark, SeekOpen, SeekPut,
                     StatusRead, MarkOpen, MarkPut, Goto, childVars
<1>12. CASE UNCHANGED vars
  BY <1>8, <1>12 DEF vars, childVars
<1> QED
  BY <1>1, <1>2, <1>3, <1>4, <1>5, <1>6, <1>7, <1>9, <1>10, <1>11, <1>12
  DEF Next, Daemon

(* After a child that ended by itself, .out holds all it wrote, for every  *)
(* buffer that the drain's reads can empty.                                *)
THEOREM OutputKept == Spec => []OutputComplete
<1>1. ControlInv /\ OutInv => OutputComplete
  BY BoundsAssumption
  DEF ControlInv, ControlTyped, JobsWritten, Jobs, StopAsked, KilledOnDemand,
      OutInv, OutDrained, OutputComplete
<1> QED BY <1>1, ControlInit, ControlStep, OutInit, OutStep, PTL DEF Spec

-----------------------------------------------------------------------------
(* The input: what was sent to a file of the daemon lies in front of its   *)
(* offset.                                                                 *)
InputTyped ==
  /\ inFile \in Seq(1..MaxSends) /\ inPos \in 0..Len(inFile)
  /\ fate \in [1..MaxSends -> {"unsent", "early", "sent", "typed", "dropped"}]
InputBefore ==
  daemon \in {"probe", "create"} =>
    inPos = 0 /\ \A m \in 1..MaxSends : fate[m] # "sent"
InputAhead ==
  \A m \in 1..MaxSends :
    fate[m] = "sent" => \E i \in inPos + 1..Len(inFile) : inFile[i] = m
InputInv == InputTyped /\ InputBefore /\ InputAhead

(* The input part holds at the start.                                      *)
LEMMA InputInit == Init => InputInv
BY BoundsAssumption DEF Init, InputInv, InputTyped, InputBefore, InputAhead

(* Every step keeps it.                                                    *)
LEMMA InputStep == ControlInv /\ InputInv /\ [Next]_vars => InputInv'
<1> SUFFICES ASSUME ControlInv, InputInv, [Next]_vars PROVE InputInv'
  OBVIOUS
<1> USE BoundsAssumption DEF InputInv, InputTyped, InputBefore, InputAhead
<1>1. CASE CreateFiles
  BY <1>1 DEF CreateFiles, WriteMeta, At
<1>2. CASE Forward
  <2>1. daemon' \notin {"probe", "create"} /\ inFile' = inFile
    BY <1>2 DEF Forward
  <2>2. inPos' = Len(inFile) /\ inPos' \in 0..Len(inFile')
    BY <1>2, <2>1 DEF Forward
  <2>3. PICK room \in inPos..Len(inFile) :
          fate' = [m \in DOMAIN fate |->
                     IF m \notin Unread THEN fate[m]
                     ELSE IF m \in Inputs(inPos, room) THEN "typed"
                     ELSE "dropped"]
    BY <1>2 DEF Forward
  <2>4. \A m \in 1..MaxSends : fate'[m] # "sent"
    BY <2>3 DEF Unread, Inputs
  <2>5. fate' \in [1..MaxSends ->
                    {"unsent", "early", "sent", "typed", "dropped"}]
    BY <2>3
  <2> QED BY <2>1, <2>2, <2>4, <2>5
<1>3. CASE \E m \in 1..MaxSends : Send(m)
  <2>1. PICK m \in 1..MaxSends : Send(m)
    BY <1>3
  <2>2. /\ inFile' = Append(inFile, m) /\ inPos' = inPos
        /\ fate' = [fate EXCEPT ![m] = IF daemon = "create" THEN "early"
                                       ELSE "sent"]
        /\ daemon' = daemon /\ daemon # "probe"
    BY <2>1 DEF Send, Appended, daemonVars, Known
  <2>3. /\ inFile' \in Seq(1..MaxSends) /\ Len(inFile') = Len(inFile) + 1
        /\ inFile'[Len(inFile')] = m
        /\ \A i \in 1..Len(inFile) : inFile'[i] = inFile[i]
    BY <2>2
  <2>4. ASSUME NEW k \in 1..MaxSends, fate'[k] = "sent"
        PROVE  \E i \in inPos' + 1..Len(inFile') : inFile'[i] = k
    <3>1. CASE k = m
      BY <2>2, <2>3, <3>1
    <3>2. CASE k # m
      <4>1. PICK i \in inPos + 1..Len(inFile) : inFile[i] = k
        BY <2>2, <2>4, <3>2
      <4> QED BY <2>2, <2>3, <4>1
    <3> QED BY <3>1, <3>2
  <2> QED BY <2>2, <2>3, <2>4
<1>4. CASE /\ UNCHANGED inputVars
           /\ daemon' \in {"probe", "create"} => daemon \in {"probe", "create"}
  BY <1>4 DEF inputVars
<1>5. CASE Daemon /\ ~Forward /\ ~CreateFiles
  <2>1. job.next \notin {"probe", "create"}
    BY DEF ControlInv, ControlTyped, JobsWritten
  <2> QED
    BY <1>4, <1>5, <2>1
    DEF Daemon, MetaOpen, MetaPut, Spawn, FailNote, AppendChild, ReadOut, Wait,
        Reaped, Drain, Check, Terminate, KillChild, At, WriteMeta
<1>6. CASE Probe
  BY <1>4, <1>6 DEF Probe, At
<1>7. CASE Write \/ Exit \/ StopStart \/ Stopping
  BY <1>4, <1>7 DEF Write, Exit, StopStart, Stopping, StopOpen, StopPut,
                    StopPoll, StopChild, StopStep, daemonVars
<1>8. CASE \E r \in Readers : Status(r)
  BY <1>4, <1>8 DEF Status, StatusOpen, StatusMark, SeekOpen, SeekPut,
                    StatusRead, MarkOpen, MarkPut, Goto, daemonVars
<1>9. CASE UNCHANGED vars
  BY <1>4, <1>9 DEF vars, daemonVars
<1> QED BY <1>1, <1>2, <1>3, <1>5, <1>6, <1>7, <1>8, <1>9 DEF Next

(* For any number of inputs, none that was sent to the daemon's own file   *)
(* ends behind its offset: it is typed, refused by the pty, or to come.    *)
THEOREM NoInputBehind == Spec => []InputAccounted
<1>1. InputInv => InputAccounted
  BY DEF InputInv, InputTyped, InputAhead, InputAccounted, Unread, Inputs
<1> QED BY <1>1, ControlInit, ControlStep, InputInit, InputStep, PTL DEF Spec

-----------------------------------------------------------------------------
(* The offsets: whatever a status carries or has left in .out.mark has     *)
(* been read, or some status is about to read from a place that has.       *)
MarkTyped ==
  /\ mark \in Nat \cup {NoMark} /\ seen \in Nat /\ torn \in BOOLEAN
  /\ reader \in [Readers -> [pc : ReaderPcs, pos : Nat]]
MarkStart ==
  outFile = NoFile =>
    mark = NoMark /\ seen = 0 /\ \A r \in Readers : reader[r].pc = "idle"
MarkInside ==
  /\ outFile # NoFile => seen <= outFile /\ 0 <= outFile
  /\ ~torn => /\ outFile # NoFile => mark <= outFile
              /\ \A r \in Readers : reader[r].pc # "idle" =>
                                      reader[r].pos <= outFile
Pending == \E r \in Readers : reader[r].pc = "read" /\ reader[r].pos <= seen
Covered(p) == p <= seen \/ Pending
Carrying == {"read", "markOpen", "markPut"}
MarkCovered ==
  ~torn => /\ Covered(mark)
           /\ \A r \in Readers : reader[r].pc \in Carrying =>
                                   Covered(reader[r].pos)
MarkInv == MarkTyped /\ MarkStart /\ MarkInside /\ MarkCovered

(* The offsets are fine at the start.                                      *)
LEMMA MarkInit == Init => MarkInv
<1> SUFFICES ASSUME Init PROVE MarkInv
  OBVIOUS
<1>1. \A r \in Readers : reader[r].pc = "idle"
  BY DEF Init
<1>2. MarkTyped
  BY DEF Init, MarkTyped, ReaderPcs
<1>3. MarkStart /\ MarkInside
  BY <1>1 DEF Init, MarkStart, MarkInside, NoMark, NoFile
<1>4. MarkCovered
  BY <1>1 DEF Init, MarkCovered, Covered, Carrying, NoMark
<1> QED BY <1>2, <1>3, <1>4 DEF MarkInv

(* .out only grows.                                                        *)
LEMMA OutGrows ==
  ControlInv /\ OutInv /\ [Next]_vars => outFile' \in Int /\ outFile' >= outFile
<1> SUFFICES ASSUME ControlInv, OutInv, [Next]_vars
             PROVE  outFile' >= outFile /\ outFile' \in Int
  OBVIOUS
<1> USE PtyAssumption DEF ControlInv, ControlTyped, StageOfJob, JobsWritten,
                          OutInv, OutTyped, OutLength, NoFile
<1>1. CASE Probe \/ CreateFiles
  BY <1>1 DEF Probe, CreateFiles, At
<1>2. CASE FailNote
  BY <1>2 DEF FailNote, At
<1>3. CASE ReadOut \/ Drain
  BY <1>3 DEF ReadOut, Drain, CopyOut, Smaller, At
<1>4. CASE UNCHANGED outFile
  BY <1>4
<1>5. CASE Daemon /\ ~CreateFiles /\ ~FailNote /\ ~ReadOut /\ ~Drain
  BY <1>4, <1>5 DEF Daemon, MetaOpen, MetaPut, Spawn, AppendChild, Forward,
                    Wait, Check, Terminate, KillChild
<1>6. CASE Write \/ Exit \/ StopStart \/ Stopping
  BY <1>4, <1>6 DEF Write, Exit, StopStart, Stopping, StopOpen, StopPut,
                    StopPoll, StopChild, StopStep
<1>7. CASE \E m \in 1..MaxSends : Send(m)
  BY <1>4, <1>7 DEF Send
<1>8. CASE \E r \in Readers : Status(r)
  BY <1>4, <1>8 DEF Status, StatusOpen, StatusMark, SeekOpen, SeekPut,
                    StatusRead, MarkOpen, MarkPut, Goto
<1>9. CASE UNCHANGED vars
  BY <1>4, <1>9 DEF vars
<1> QED BY <1>1, <1>2, <1>3, <1>5, <1>6, <1>7, <1>8, <1>9 DEF Next, Daemon

(* What the others do keeps the offsets fine.                              *)
LEMMA MarkGrows ==
  ASSUME MarkInv, UNCHANGED readVars, outFile \in Int, outFile' \in Int,
         outFile' >= outFile, outFile >= NoFile
  PROVE  MarkInv'
BY DEF MarkInv, MarkTyped, MarkStart, MarkInside, MarkCovered, Covered,
       Pending, Carrying, readVars, NoMark, NoFile

(* An offset written is a number.                                          *)
LEMMA MarkWritten ==
  ASSUME NEW p \in Nat, mark \in Nat \cup {NoMark}, torn \in BOOLEAN,
         WriteMark(p)
  PROVE  /\ mark' \in Nat /\ torn' \in BOOLEAN
         /\ ~torn' => ~torn /\ mark' = p
<1>1. CASE Torn(p)
  <2>1. p * Radix \in Nat
    BY RadixAssumption
  <2>2. mark \in Nat
    BY <1>1, RadixAssumption DEF Torn, NoMark
  <2>3. mark % Radix \in 0..Radix - 1
    BY <2>2, RadixAssumption
  <2>4. mark' = (p * Radix) + (mark % Radix)
    BY <1>1, Zenon DEF WriteMark
  <2>5. mark' \in Nat
    BY <2>1, <2>3, <2>4, RadixAssumption
  <2>6. torn'
    BY <1>1, Zenon DEF WriteMark
  <2> QED BY <2>5, <2>6
<1>2. CASE ~Torn(p)
  <2>1. mark' = p /\ torn' = torn
    BY <1>2, Zenon DEF WriteMark
  <2> QED BY <2>1
<1> QED BY <1>1, <1>2

(* A step of a status moves that status alone, inside a file that exists.  *)
LEMMA StatusMoves ==
  ASSUME MarkInv, outFile \in Int, NEW r \in Readers, NEW at, NEW next,
         NEW pos \in Nat, at \in ReaderPcs, next \in ReaderPcs,
         at = "idle" => outFile # NoFile, Goto(r, at, next, pos)
  PROVE  /\ outFile # NoFile /\ UNCHANGED outFile
         /\ reader' \in [Readers -> [pc : ReaderPcs, pos : Nat]]
         /\ reader[r].pc = at
         /\ reader'[r].pc = next /\ reader'[r].pos = pos
         /\ \A q \in Readers \ {r} : reader'[q] = reader[q]
BY DEF MarkInv, MarkTyped, MarkStart, Goto

(* The steps of a status that do not read keep the offsets fine, provided  *)
(* what it carries on and what it leaves in the file are.                  *)
LEMMA MarkCarried ==
  ASSUME MarkInv, outFile \in Int, NEW r \in Readers, NEW at, NEW next,
         NEW pos \in Nat, at \in ReaderPcs \ {"read"}, next \in ReaderPcs,
         at = "idle" => outFile # NoFile, Goto(r, at, next, pos),
         UNCHANGED seen, mark' \in Nat \cup {NoMark}, torn' \in BOOLEAN,
         ~torn' => /\ ~torn /\ pos <= outFile /\ mark' <= outFile
                   /\ (next = "read" /\ pos <= seen) \/ Covered(mark')
                   /\ next \in Carrying => Covered(pos)
  PROVE  MarkInv'
<1>1. /\ outFile # NoFile /\ outFile' = outFile
      /\ reader' \in [Readers -> [pc : ReaderPcs, pos : Nat]]
      /\ reader[r].pc = at
      /\ reader'[r].pc = next /\ reader'[r].pos = pos
      /\ \A q \in Readers \ {r} : reader'[q] = reader[q]
  BY StatusMoves
<1>2. MarkTyped' /\ MarkStart'
  BY <1>1 DEF MarkInv, MarkTyped, MarkStart
<1>3. MarkInside'
  BY <1>1 DEF MarkInv, MarkInside
<1>4. Pending => Pending'
  BY <1>1 DEF Pending
<1>5. next = "read" /\ pos <= seen => Pending'
  BY <1>1 DEF Pending
<1>6. ~torn' => MarkCovered
  BY DEF MarkInv, MarkCovered
<1>7. MarkCovered'
  <2> SUFFICES ASSUME ~torn' PROVE MarkCovered'
    BY DEF MarkCovered
  <2>1. Covered(mark)'
    BY <1>4, <1>5 DEF Covered
  <2>2. ASSUME NEW q \in Readers, reader'[q].pc \in Carrying
        PROVE  Covered(reader[q].pos)'
    <3>1. CASE q = r
      BY <1>1, <1>4, <2>2, <3>1 DEF Covered
    <3>2. CASE q # r
      BY <1>1, <1>4, <1>6, <2>2, <3>2 DEF Covered, MarkCovered
    <3> QED BY <3>1, <3>2
  <2> QED BY <2>1, <2>2 DEF MarkCovered
<1> QED BY <1>2, <1>3, <1>7 DEF MarkInv

(* Every step of a status keeps the offsets fine.                          *)
LEMMA StatusStep ==
  ASSUME MarkInv, outFile \in Int, NEW r \in Readers, Status(r)
  PROVE  MarkInv'
<1> DEFINE pos == reader[r].pos
<1>t. /\ mark \in Nat \cup {NoMark} /\ seen \in Nat /\ torn \in BOOLEAN
      /\ reader[r] \in [pc : ReaderPcs, pos : Nat] /\ pos \in Nat
  BY DEF MarkInv, MarkTyped
<1>n. ~torn => Covered(mark)
               /\ (reader[r].pc \in Carrying => Covered(pos))
  BY DEF MarkInv, MarkCovered
<1>i. reader[r].pc # "idle" => outFile # NoFile
  BY DEF MarkInv, MarkStart
<1>l. /\ outFile # NoFile => seen <= outFile /\ 0 <= outFile
      /\ ~torn /\ outFile # NoFile =>
           mark <= outFile /\ (reader[r].pc # "idle" => pos <= outFile)
  BY DEF MarkInv, MarkInside
<1>c. Covered(NoMark)
  BY <1>t DEF Covered, NoMark
<1>1. CASE StatusOpen(r)
  BY <1>1, <1>t, <1>n, <1>l, MarkCarried
  DEF StatusOpen, ReaderPcs, Carrying
<1>2. CASE StatusMark(r)
  <2>1. outFile # NoFile /\ outFile \in Nat /\ UNCHANGED <<mark, seen, torn>>
    BY <1>2, <1>i, <1>l DEF StatusMark, Goto
  <2>2. CASE mark = NoMark
    <3>1. Goto(r, "mark", "seekOpen", outFile)
      BY <1>2, <2>2 DEF StatusMark
    <3>2. ~torn' => /\ ~torn /\ outFile <= outFile /\ mark' <= outFile
                    /\ Covered(mark')
      BY <1>n, <1>l, <2>1
    <3> QED BY <1>t, <2>1, <3>1, <3>2, MarkCarried DEF ReaderPcs, Carrying
  <2>3. CASE mark # NoMark
    <3>1. Goto(r, "mark", "read", mark) /\ mark \in Nat
      BY <1>2, <1>t, <2>3 DEF StatusMark
    <3>2. ~torn' => /\ ~torn /\ mark <= outFile /\ mark' <= outFile
                    /\ Covered(mark') /\ Covered(mark)
      BY <1>n, <1>l, <2>1
    <3> QED BY <1>t, <2>1, <3>1, <3>2, MarkCarried DEF ReaderPcs, Carrying
  <2> QED BY <2>2, <2>3
<1>3. CASE SeekOpen(r)
  <2>1. /\ Goto(r, "seekOpen", "seekPut", pos) /\ mark' = NoMark
        /\ UNCHANGED <<seen, torn>>
    BY <1>3 DEF SeekOpen
  <2>2. outFile \in Nat /\ outFile # NoFile
    BY <1>i, <1>l, <2>1 DEF Goto
  <2>3. ~torn' => /\ ~torn /\ pos <= outFile /\ mark' <= outFile
                  /\ Covered(mark')
    BY <1>l, <1>c, <2>1, <2>2 DEF Goto, NoMark
  <2> QED BY <1>t, <2>1, <2>3, MarkCarried DEF ReaderPcs, Carrying
<1>4. CASE SeekPut(r)
  <2>1. /\ mark' \in Nat /\ torn' \in BOOLEAN
        /\ ~torn' => ~torn /\ mark' = pos
    BY <1>4, <1>t, MarkWritten DEF SeekPut
  <2>2. Goto(r, "seekPut", "read", 0) /\ UNCHANGED seen
    BY <1>4 DEF SeekPut
  <2>3. outFile \in Nat /\ outFile # NoFile
    BY <1>i, <1>l, <2>2 DEF Goto
  <2>4. ~torn' => /\ ~torn /\ 0 <= outFile /\ mark' <= outFile
                  /\ 0 <= seen /\ Covered(0)
    BY <1>t, <1>l, <2>1, <2>2, <2>3 DEF Goto, Covered
  <2> QED BY <1>t, <2>1, <2>2, <2>4, MarkCarried DEF ReaderPcs
<1>6. CASE MarkOpen(r)
  <2>1. /\ Goto(r, "markOpen", "markPut", pos) /\ mark' = NoMark
        /\ UNCHANGED <<seen, torn>>
    BY <1>6 DEF MarkOpen
  <2>2. outFile \in Nat /\ outFile # NoFile
    BY <1>i, <1>l, <2>1 DEF Goto
  <2>3. ~torn' => /\ ~torn /\ pos <= outFile /\ mark' <= outFile
                  /\ Covered(mark') /\ Covered(pos)
    BY <1>l, <1>n, <1>c, <2>1, <2>2 DEF Goto, NoMark, Carrying
  <2> QED BY <1>t, <2>1, <2>3, MarkCarried DEF ReaderPcs
<1>7. CASE MarkPut(r)
  <2>1. /\ mark' \in Nat /\ torn' \in BOOLEAN
        /\ ~torn' => ~torn /\ mark' = pos
    BY <1>7, <1>t, MarkWritten DEF MarkPut, Reached
  <2>2. Goto(r, "markPut", "idle", 0) /\ UNCHANGED seen
    BY <1>7 DEF MarkPut
  <2>3. outFile \in Nat /\ outFile # NoFile
    BY <1>i, <1>l, <2>2 DEF Goto
  <2>4. ~torn' => /\ ~torn /\ 0 <= outFile /\ mark' <= outFile
                  /\ Covered(mark')
    BY <1>l, <1>n, <2>1, <2>2, <2>3 DEF Goto, Carrying
  <2> QED BY <1>t, <2>1, <2>2, <2>4, MarkCarried DEF ReaderPcs, Carrying
<1>5. CASE StatusRead(r)
  <2> DEFINE reached == IF pos < outFile THEN outFile ELSE pos
  <2>1. outFile # NoFile /\ outFile \in Nat
    BY <1>5, <1>i, <1>l DEF StatusRead, Goto
  <2>2. reached \in Nat /\ Goto(r, "read", "markOpen", reached)
    BY <1>5, <1>t, <2>1 DEF StatusRead
  <2>3. /\ outFile' = outFile
        /\ reader' \in [Readers -> [pc : ReaderPcs, pos : Nat]]
        /\ reader[r].pc = "read"
        /\ reader'[r].pc = "markOpen" /\ reader'[r].pos = reached
        /\ \A q \in Readers \ {r} : reader'[q] = reader[q]
    BY <2>1, <2>2, StatusMoves DEF ReaderPcs
  <2>4. /\ mark' = mark /\ torn' = torn
        /\ seen' = IF pos <= seen /\ outFile > seen THEN outFile ELSE seen
    BY <1>5 DEF StatusRead
  <2>5. seen' \in Nat /\ seen <= seen' /\ seen' <= outFile
    BY <1>t, <1>l, <2>1, <2>4
  <2>6. MarkTyped' /\ MarkStart'
    BY <1>t, <2>1, <2>3, <2>4, <2>5 DEF MarkTyped, MarkStart
  <2>7. ~torn => reached = outFile
    BY <1>l, <1>t, <2>1, <2>3
  <2>8. MarkInside'
    BY <2>1, <2>3, <2>4, <2>5, <2>7 DEF MarkInv, MarkInside
  <2>9. MarkCovered'
    <3> SUFFICES ASSUME ~torn PROVE MarkCovered'
      BY <2>4 DEF MarkCovered
    <3>1. CASE pos <= seen
      <4>1. seen' = outFile
        BY <1>t, <1>l, <2>1, <2>4, <3>1
      <4>2. mark' <= outFile /\ \A q \in Readers :
              reader'[q].pc # "idle" => reader'[q].pos <= outFile
        BY <2>1, <2>3, <2>4, <2>8 DEF MarkInside
      <4> QED BY <4>1, <4>2 DEF MarkCovered, Covered, Carrying
    <3>2. CASE ~(pos <= seen)
      <4>1. seen' = seen
        BY <2>4, <3>2
      <4>2. Pending
        BY <1>n, <2>3, <3>2 DEF Covered, Carrying
      <4>3. Pending'
        BY <2>3, <3>2, <4>1, <4>2 DEF Pending
      <4> QED BY <4>3 DEF MarkCovered, Covered
    <3> QED BY <3>1, <3>2
  <2> QED BY <2>6, <2>8, <2>9 DEF MarkInv
<1> QED BY <1>1, <1>2, <1>3, <1>4, <1>5, <1>6, <1>7 DEF Status

(* Every step keeps the offsets fine: the others leave them alone while    *)
(* .out grows.                                                             *)
LEMMA MarkStep == ControlInv /\ OutInv /\ MarkInv /\ [Next]_vars => MarkInv'
<1> SUFFICES ASSUME ControlInv, OutInv, MarkInv, [Next]_vars PROVE MarkInv'
  OBVIOUS
<1>1. /\ outFile \in Int /\ outFile >= NoFile
      /\ outFile' \in Int /\ outFile' >= outFile
  BY OutGrows DEF ControlInv, ControlTyped, Jobs, JobsWritten, OutInv,
                  OutTyped, OutLength, NoFile, StageOfJob, DaemonPcs
<1>2. CASE UNCHANGED readVars
  BY <1>1, <1>2, MarkGrows
<1>3. CASE Probe \/ Daemon
  BY <1>2, <1>3
  DEF Probe, Daemon, MetaOpen, MetaPut, CreateFiles, Spawn, FailNote,
      AppendChild, ReadOut, Forward, Wait, Drain, Check, Terminate, KillChild,
      At
<1>4. CASE Write \/ Exit \/ StopStart \/ Stopping
  BY <1>2, <1>4 DEF Write, Exit, StopStart, Stopping, StopOpen, StopPut,
                    StopPoll, StopChild, StopStep
<1>5. CASE \E m \in 1..MaxSends : Send(m)
  BY <1>2, <1>5 DEF Send
<1>6. CASE \E r \in Readers : Status(r)
  BY <1>1, <1>6, StatusStep
<1>7. CASE UNCHANGED vars
  BY <1>2, <1>7 DEF vars
<1> QED BY <1>3, <1>4, <1>5, <1>6, <1>7 DEF Next

(* For any number of status commands at once, and as long as no two of     *)
(* them mix their offsets in .out.mark, no output is skipped.              *)
THEOREM NoOutputSkipped == Spec => []NothingSkipped
<1>1. MarkInv => NothingSkipped
  BY DEF MarkInv, MarkCovered, Covered, Pending, NothingSkipped
<1>2. ControlInv /\ OutInv /\ MarkInv /\ [Next]_vars
        => ControlInv' /\ OutInv' /\ MarkInv'
  BY ControlStep, OutStep, MarkStep
<1> QED BY <1>1, <1>2, ControlInit, OutInit, MarkInit, PTL DEF Spec

(* Every variable keeps its type.                                          *)
THEOREM TypeCorrect == Spec => []PtyTypeOK
<1>1. ControlInv /\ OutInv /\ InputInv /\ MarkInv => PtyTypeOK
  <2> SUFFICES ASSUME ControlInv, OutInv, InputInv, MarkInv PROVE PtyTypeOK
    OBVIOUS
  <2>1. outFile \in NoFile..MaxOut + 1
    BY BoundsAssumption
    DEF ControlInv, ControlTyped, StageOfJob, JobsWritten, Jobs, DaemonPcs,
        OutInv, OutTyped, OutLength, NoFile
  <2>2. seen \in 0..MaxOut + 1
    BY <2>1, BoundsAssumption
    DEF MarkInv, MarkTyped, MarkStart, MarkInside, NoFile
  <2> QED BY <2>1, <2>2
          DEF ControlInv, ControlTyped, Jobs, Metas, OutInv, OutTyped,
              InputInv, InputTyped, MarkInv, MarkTyped, PtyTypeOK
<1>2. ControlInv /\ OutInv /\ InputInv /\ MarkInv /\ [Next]_vars
        => ControlInv' /\ OutInv' /\ InputInv' /\ MarkInv'
  BY ControlStep, OutStep, InputStep, MarkStep
<1> QED BY <1>1, <1>2, ControlInit, OutInit, InputInit, MarkInit, PTL DEF Spec

-----------------------------------------------------------------------------
(* What a record in .meta outlives.                                        *)

(* The daemon's last word is the exit: nothing of it follows.              *)
ExitPlaced == meta.state = "exited" => daemon \in {"drain", "end"}

(* An exit in .meta is lost by the two writes of a stop alone.             *)
OnlyStopForgets ==
  meta.state = "exited" /\ meta'.state # "exited" =>
    stop \in {"open", "put"} /\ stop' # stop

(* A stop request to a launched session gives way to the next stop, or to  *)
(* a daemon whose child no longer lives.                                   *)
LateStopStands ==
  meta.state = "stopping" /\ Launched /\ meta'.state # "stopping" =>
    stop = "open" \/ child # "alive"

LEMMA PlacedStep ==
  ControlInv /\ ExitPlaced /\ [Next]_vars
    => ExitPlaced' /\ OnlyStopForgets /\ LateStopStands
<1> SUFFICES ASSUME ControlInv, ExitPlaced, [Next]_vars
             PROVE  ExitPlaced' /\ OnlyStopForgets /\ LateStopStands
  OBVIOUS
<1> USE DEF ControlInv, ControlTyped, StageOfJob, ChildOfJob, JobsWritten,
            Jobs, Metas, MetaStates, DaemonPcs, StopPcs, ExitPlaced,
            OnlyStopForgets, LateStopStands, Launched, NoMeta
<1>1. CASE UNCHANGED <<daemon, meta>>
  BY <1>1
<1>2. CASE MetaOpen \/ MetaPut
  BY <1>2 DEF MetaOpen, MetaPut, At, Overwritten
<1>3. CASE Probe \/ CreateFiles \/ Spawn \/ FailNote
  BY <1>3 DEF Probe, CreateFiles, Spawn, FailNote, At, WriteMeta
<1>4. CASE AppendChild
  BY <1>4 DEF AppendChild, At
<1>5. CASE ReadOut \/ Forward \/ Wait \/ Drain \/ Check
  BY <1>5 DEF ReadOut, Forward, Wait, Reaped, Drain, Check, At, WriteMeta
<1>6. CASE Terminate \/ KillChild
  BY <1>6 DEF Terminate, KillChild, At, WriteMeta
<1>7. CASE StopOpen
  BY <1>7 DEF StopOpen, StopStep, daemonVars
<1>8. CASE StopPut
  BY <1>8 DEF StopPut, StopStep, daemonVars, Overwritten
<1>9. CASE Write \/ Exit \/ StopStart \/ StopPoll \/ StopChild
  BY <1>1, <1>9 DEF Write, Exit, StopStart, StopPoll, StopChild, StopStep,
                    daemonVars
<1>10. CASE \E m \in 1..MaxSends : Send(m)
  BY <1>1, <1>10 DEF Send, daemonVars
<1>11. CASE \E r \in Readers : Status(r)
  BY <1>1, <1>11 DEF Status, StatusOpen, StatusMark, SeekOpen, SeekPut,
                     StatusRead, MarkOpen, MarkPut, Goto, daemonVars
<1>12. CASE UNCHANGED vars
  BY <1>1, <1>12 DEF vars, daemonVars
<1> QED
  BY <1>2, <1>3, <1>4, <1>5, <1>6, <1>7, <1>8, <1>9, <1>10, <1>11, <1>12
  DEF Next, Daemon, Stopping

LEMMA PlacedInit == Init => ExitPlaced
BY DEF Init, ExitPlaced, NoMeta

(* The exit code a child left is in .meta for every later status, unless a *)
(* stop is asked of the session that has ended: that one overwrites it.    *)
THEOREM ExitsAreKept == Spec => [][OnlyStopForgets]_vars
BY ControlInit, ControlStep, PlacedInit, PlacedStep, PTL DEF Spec

(* The safety half of LateStopEnds: the daemon of a launched session never *)
(* writes over a stop request while there is a child to end.               *)
THEOREM LateStopsStand == Spec => [][LateStopStands]_vars
BY ControlInit, ControlStep, PlacedInit, PlacedStep, PTL DEF Spec
=============================================================================
