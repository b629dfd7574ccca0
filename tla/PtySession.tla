----------------------------- MODULE PtySession -----------------------------
(***************************************************************************)
(* One interactive session of pty_session.py: a daemon that drives the     *)
(* child over a pty, and the short-lived commands send, status and stop,   *)
(* which share nothing with it but four files: .out, .in, .meta and        *)
(* .out.mark.  No file is locked.  A rewrite truncates the file when it is *)
(* opened and fills it when it is closed: two steps, and another process   *)
(* may write in between.                                                   *)
(***************************************************************************)
EXTENDS Integers, Sequences, FiniteSets

CONSTANTS
  Readers,     \* the status commands that may run at once
  MaxOut,      \* bound: units of output the child writes
  MaxSends,    \* bound: send commands
  MaxStops,    \* bound: stop commands, one after the other
  MaxCommands, \* bound: send and stop commands together
  MaxBusy,     \* bound: status and stop commands at work at once
  PtyBuffer,   \* units of output the pty holds
  Chunk,       \* units of output of one os.read
  DrainReads,  \* reads of the drain after the child's exit
  Radix        \* of the offset written in .out.mark

ASSUME BoundsAssumption ==
  /\ MaxOut \in Nat /\ MaxSends \in Nat
  /\ MaxStops \in Nat /\ MaxCommands \in Nat /\ MaxBusy \in Nat
ASSUME PtyAssumption ==
  /\ PtyBuffer \in Nat /\ Chunk \in Nat \ {0}
  /\ DrainReads \in Nat
(* What the pty can hold, the drain can read.                              *)
ASSUME DrainAssumption == PtyBuffer <= DrainReads * Chunk
ASSUME RadixAssumption == Radix \in Nat \ {0, 1}

VARIABLES
  daemon,   \* where the daemon is
  job,      \* the meta_write it is in, and where it goes next
  drains,   \* reads left in its drain
  meta,     \* .meta: state, exit code, and whether it has a child= line
  outFile,  \* length of .out, or NoFile
  inFile,   \* .in: the inputs sent
  inPos,    \* the daemon's offset in .in
  mark,     \* .out.mark: an offset, or NoMark when absent or empty
  child,    \* "none", "alive" or "dead"
  wrote,    \* output the child wrote
  stop,     \* where the stop command is
  stops,    \* history, for the bound
  reader,   \* where each status is, and its offset in .out
  fate,     \* history: what became of each input
  seen,     \* history: the statuses have read .out[0..seen-1]
  torn      \* history: .out.mark got a mixture of two offsets

daemonVars == <<daemon, job, drains>>
childVars == <<child, wrote>>
inputVars == <<inFile, inPos, fate>>
stopVars == <<stop, stops>>
readVars == <<mark, reader, seen, torn>>
vars == <<daemonVars, meta, outFile, childVars, inputVars, stopVars, readVars>>

NoFile == -1
NoMark == -1
NoMeta == [state |-> "unknown", exit |-> "none", child |-> FALSE]
MetaStates == {"starting", "running", "failed", "exited", "stopping"}
Exits == {"none", "code", "-1"}
DaemonPcs == {"probe", "create", "open", "put", "pty", "note", "child", "read",
              "forward", "wait", "drain", "check", "term", "kill", "end"}
StopPcs == {"idle", "open", "put", "poll", "child", "stopped"}
ReaderPcs == {"idle", "mark", "seekOpen", "seekPut", "read", "markOpen",
              "markPut"}

(* The type of every variable of PtySession.                             *)
PtyTypeOK ==
  /\ daemon \in DaemonPcs
  /\ job \in [state : MetaStates, exit : Exits, next : DaemonPcs]
  /\ drains \in 0..DrainReads
  /\ meta \in [state : MetaStates \cup {"unknown"}, exit : Exits,
               child : BOOLEAN]
  /\ outFile \in NoFile..MaxOut + 1
  /\ inFile \in Seq(1..MaxSends) /\ inPos \in 0..Len(inFile)
  /\ mark \in Nat \cup {NoMark}
  /\ child \in {"none", "alive", "dead"}
  /\ wrote \in 0..MaxOut
  /\ stop \in StopPcs /\ stops \in 0..MaxStops
  /\ reader \in [Readers -> [pc : ReaderPcs, pos : Nat]]
  /\ fate \in [1..MaxSends -> {"unsent", "early", "sent", "typed", "dropped"}]
  /\ seen \in 0..MaxOut + 1
  /\ torn \in BOOLEAN

Init ==
  /\ daemon = "probe" /\ drains = 0
  /\ job = [state |-> "starting", exit |-> "none", next |-> "pty"]
  /\ meta = NoMeta
  /\ outFile = NoFile /\ inFile = <<>> /\ inPos = 0 /\ mark = NoMark
  /\ child = "none" /\ wrote = 0
  /\ stop = "idle" /\ stops = 0
  /\ reader = [r \in Readers |-> [pc |-> "idle", pos |-> 0]]
  /\ fate = [m \in 1..MaxSends |-> "unsent"]
  /\ seen = 0 /\ torn = FALSE

-----------------------------------------------------------------------------
(* The files.                                                              *)

Smaller(a, b) == IF a <= b THEN a ELSE b

(* The text of a new state, written from offset 0 over what another        *)
(* process put in the file since this one truncated it.  It covers the old *)
(* state, exit and pid lines; a child= line after them stays.              *)
Overwritten(s, e) ==
  [state |-> s, exit |-> e, child |-> meta.child /\ meta.state # "unknown"]

(* An offset written over another one: the last digit of a longer number   *)
(* stays behind the shorter one.                                           *)
Torn(p) == mark # NoMark /\ p < Radix /\ mark >= Radix
WriteMark(p) ==
  /\ mark' = IF Torn(p) THEN (p * Radix) + (mark % Radix) ELSE p
  /\ torn' = (torn \/ Torn(p))

(* A step of the daemon, which stop and status do not share.               *)
At(pc) == daemon = pc /\ UNCHANGED <<stopVars, readVars>>

(* meta_write, in two steps.                                               *)
WriteMeta(s, e, next) ==
  /\ daemon' = "open"
  /\ job' = [state |-> s, exit |-> e, next |-> next]

MetaOpen ==
  /\ At("open") /\ daemon' = "put"
  /\ meta' = NoMeta
  /\ UNCHANGED <<job, drains, outFile, childVars, inputVars>>

MetaPut ==
  /\ At("put") /\ daemon' = job.next
  /\ meta' = Overwritten(job.state, job.exit)
  /\ UNCHANGED <<job, drains, outFile, childVars, inputVars>>

(* Bound: the commands at work, which a status or a stop may still join.   *)
Working ==
  Cardinality({r \in Readers : reader[r].pc # "idle"})
    + (IF stop \in {"idle", "stopped"} THEN 0 ELSE 1)

-----------------------------------------------------------------------------
(* start.                                                                  *)

(* The parent probes the pty, and forks the daemon when there is one: the  *)
(* session is known from then on.                                          *)
Probe ==
  /\ At("probe")
  /\ \/ daemon' = "create" /\ UNCHANGED <<meta, outFile>>
     \/ /\ daemon' = "end"
        /\ meta' = [NoMeta EXCEPT !.state = "failed"]
        /\ outFile' = 1
  /\ UNCHANGED <<job, drains, childVars, inputVars>>

Known == daemon # "probe"

CreateFiles ==
  /\ At("create")
  /\ outFile' = 0 /\ inFile' = <<>>
  /\ WriteMeta("starting", "none", "pty")
  /\ UNCHANGED <<drains, meta, childVars, inPos, fate>>

(* openpty and the fork of the child; the pty may be gone since the probe. *)
Spawn ==
  /\ At("pty")
  /\ \/ child' = "alive" /\ WriteMeta("running", "none", "child")
     \/ child' = "none" /\ WriteMeta("failed", "none", "note")
  /\ UNCHANGED <<drains, meta, outFile, wrote, inputVars>>

FailNote ==
  /\ At("note") /\ daemon' = "end"
  /\ outFile' = outFile + 1
  /\ UNCHANGED <<job, drains, meta, childVars, inputVars>>

(* Mutant: the file opened to append is truncated.                         *)
AppendChildTruncates ==
  /\ At("child") /\ daemon' = "read"
  /\ meta' = [NoMeta EXCEPT !.child = TRUE]
  /\ UNCHANGED <<job, drains, outFile, childVars, inputVars>>

AppendChild ==
  /\ At("child") /\ daemon' = "read"
  /\ meta' = [meta EXCEPT !.child = TRUE]
  /\ UNCHANGED <<job, drains, outFile, childVars, inputVars>>

-----------------------------------------------------------------------------
(* The daemon's loop.                                                      *)

(* Mutant: a full buffer is copied whatever was read.                      *)
CopyOutFull == outFile' = outFile + Chunk

CopyOut == outFile' = outFile + Smaller(Chunk, wrote - outFile)

ReadOut ==
  /\ At("read") /\ daemon' = "forward"
  /\ CopyOut
  /\ UNCHANGED <<job, drains, meta, childVars, inputVars>>

Inputs(from, to) == {inFile[i] : i \in from + 1..to}
Unread == Inputs(inPos, Len(inFile))

(* A non-blocking write: the inputs the pty has no room for are gone.      *)
Forward ==
  /\ At("forward") /\ daemon' = "wait"
  /\ \E room \in inPos..Len(inFile) :
       fate' = [m \in DOMAIN fate |->
                  IF m \notin Unread THEN fate[m]
                  ELSE IF m \in Inputs(inPos, room) THEN "typed"
                  ELSE "dropped"]
  /\ inPos' = Len(inFile)
  /\ UNCHANGED <<job, drains, meta, outFile, childVars, inFile>>

(* Mutant: the daemon leaves without draining the pty.                     *)
ReapedNoDrain ==
  /\ \E e \in Exits \ {"none"} : WriteMeta("exited", e, "end")
  /\ drains' = DrainReads

(* Its code is "-1" when it died of a SIGHUP, like that of a stop.         *)
Reaped ==
  /\ \E e \in Exits \ {"none"} : WriteMeta("exited", e, "drain")
  /\ drains' = DrainReads

(* waitpid(WNOHANG).                                                       *)
Wait ==
  /\ At("wait")
  /\ IF child = "dead" THEN Reaped
     ELSE daemon' = "check" /\ UNCHANGED <<job, drains>>
  /\ UNCHANGED <<meta, outFile, childVars, inputVars>>

(* At most DrainReads reads; the first that finds nothing is the last.     *)
Drain ==
  /\ At("drain")
  /\ IF drains > 0 /\ wrote > outFile
       THEN CopyOut /\ drains' = drains - 1 /\ UNCHANGED daemon
       ELSE daemon' = "end" /\ UNCHANGED <<outFile, drains>>
  /\ UNCHANGED <<job, meta, childVars, inputVars>>

Check ==
  /\ At("check")
  /\ daemon' = IF meta.state = "stopping" THEN "term" ELSE "read"
  /\ UNCHANGED <<job, drains, meta, outFile, childVars, inputVars>>

(* SIGTERM, which the child may or may not follow, then SIGKILL.           *)
Terminate ==
  /\ At("term") /\ daemon' = "kill"
  /\ child' \in {child, "dead"}
  /\ UNCHANGED <<job, drains, meta, outFile, wrote, inputVars>>

(* Mutant: no SIGKILL follows the SIGTERM.                                 *)
SigkillNot == UNCHANGED child

Sigkill == child' = "dead"

KillChild ==
  /\ At("kill")
  /\ Sigkill
  /\ WriteMeta("exited", "-1", "end")
  /\ UNCHANGED <<drains, meta, outFile, wrote, inputVars>>

Daemon ==
  \/ MetaOpen \/ MetaPut \/ CreateFiles \/ Spawn \/ FailNote \/ AppendChild
  \/ ReadOut \/ Forward \/ Wait \/ Drain \/ Check \/ Terminate \/ KillChild

-----------------------------------------------------------------------------
(* The child: a write waits for room in the pty.                           *)

Write ==
  /\ child = "alive" /\ wrote < MaxOut
  /\ wrote - outFile < PtyBuffer
  /\ wrote' = wrote + 1
  /\ UNCHANGED <<daemonVars, meta, outFile, child, inputVars, stopVars,
                 readVars>>

Exit ==
  /\ child = "alive" /\ child' = "dead"
  /\ UNCHANGED <<daemonVars, meta, outFile, wrote, inputVars, stopVars,
                 readVars>>

-----------------------------------------------------------------------------
(* send.                                                                   *)

(* Mutant: the file opened to append is truncated.                         *)
AppendedAlone(m) == <<m>>

Appended(m) == Append(inFile, m)

(* The inputs are numbered in the order they are sent.  What is sent       *)
(* before the daemon has created the file goes with the old content.       *)
Send(m) ==
  /\ Known
  /\ m - 1 + stops < MaxCommands
  /\ fate[m] = "unsent" /\ \A k \in 1..m - 1 : fate[k] # "unsent"
  /\ inFile' = Appended(m)
  /\ fate' = [fate EXCEPT ![m] = IF daemon = "create" THEN "early" ELSE "sent"]
  /\ UNCHANGED <<daemonVars, meta, outFile, childVars, inPos, stopVars,
                 readVars>>

-----------------------------------------------------------------------------
(* stop.                                                                   *)

StopStep(from, to) ==
  /\ stop = from /\ stop' = to
  /\ UNCHANGED <<daemonVars, outFile, wrote, inputVars, stops, readVars>>

StopStart ==
  /\ Known /\ stop \in {"idle", "stopped"}
  /\ stops < MaxStops /\ Working < MaxBusy
  /\ \A m \in DOMAIN fate : fate[m] # "unsent" => m + stops < MaxCommands
  /\ stops' = stops + 1
  /\ stop' = IF meta.state = "failed" THEN "stopped" ELSE "open"
  /\ UNCHANGED <<daemonVars, meta, outFile, childVars, inputVars, readVars>>

StopOpen ==
  StopStep("open", "put") /\ meta' = NoMeta /\ UNCHANGED child

StopPut ==
  /\ StopStep("put", "poll")
  /\ meta' = Overwritten("stopping", "none")
  /\ UNCHANGED child

(* Ten looks in three seconds: the daemon may be slower than that.         *)
StopPoll ==
  /\ StopStep("poll", IF meta.state = "exited" THEN "stopped" ELSE "child")
  /\ UNCHANGED <<meta, child>>

(* The hard kill, of the child= the file has now.                          *)
StopChild ==
  /\ StopStep("child", "stopped")
  /\ child' = IF meta.child /\ child = "alive" THEN "dead" ELSE child
  /\ UNCHANGED meta

Stopping == StopOpen \/ StopPut \/ StopPoll \/ StopChild

-----------------------------------------------------------------------------
(* status, from the opening of .out to the last write of .out.mark; what   *)
(* it then reads in .meta changes nothing.                                 *)

Goto(r, at, next, pos) ==
  /\ reader[r].pc = at
  /\ reader' = [reader EXCEPT ![r] = [pc |-> next, pos |-> pos]]
  /\ UNCHANGED <<daemonVars, meta, outFile, childVars, inputVars, stopVars>>

StatusOpen(r) ==
  /\ Known /\ outFile # NoFile /\ Working < MaxBusy
  /\ Goto(r, "idle", "mark", 0)
  /\ UNCHANGED <<mark, seen, torn>>

(* Without a readable mark this is a first status.                         *)
StatusMark(r) ==
  /\ IF mark = NoMark THEN Goto(r, "mark", "seekOpen", outFile)
                      ELSE Goto(r, "mark", "read", mark)
  /\ UNCHANGED <<mark, seen, torn>>

(* Truncate the mark, and write the offset of the end.                     *)
SeekOpen(r) ==
  /\ Goto(r, "seekOpen", "seekPut", reader[r].pos)
  /\ mark' = NoMark
  /\ UNCHANGED <<seen, torn>>

(* A first status then reads from the start.                               *)
SeekPut(r) ==
  /\ Goto(r, "seekPut", "read", 0)
  /\ WriteMark(reader[r].pos)
  /\ UNCHANGED seen

StatusRead(r) ==
  LET pos == reader[r].pos IN
  /\ Goto(r, "read", "markOpen", IF pos < outFile THEN outFile ELSE pos)
  /\ seen' = IF pos <= seen /\ outFile > seen THEN outFile ELSE seen
  /\ UNCHANGED <<mark, torn>>

MarkOpen(r) ==
  /\ Goto(r, "markOpen", "markPut", reader[r].pos)
  /\ mark' = NoMark
  /\ UNCHANGED <<seen, torn>>

(* Mutant: the end of .out, not where the reading ended.                   *)
ReachedEnd(r) == outFile

Reached(r) == reader[r].pos

MarkPut(r) ==
  /\ Goto(r, "markPut", "idle", 0)
  /\ WriteMark(Reached(r))
  /\ UNCHANGED seen

Status(r) ==
  \/ StatusOpen(r) \/ StatusMark(r) \/ SeekOpen(r) \/ SeekPut(r)
  \/ StatusRead(r) \/ MarkOpen(r) \/ MarkPut(r)

-----------------------------------------------------------------------------
Next ==
  \/ Probe \/ Daemon
  \/ Write \/ Exit
  \/ \E m \in 1..MaxSends : Send(m)
  \/ StopStart \/ Stopping
  \/ \E r \in Readers : Status(r)

Spec == Init /\ [][Next]_vars
(* The daemon and a started stop run on; nobody owes a command, and the    *)
(* child may wait for input for ever.                                      *)
FairSpec == Spec /\ WF_vars(Daemon) /\ WF_vars(Stopping)

-----------------------------------------------------------------------------
(* Properties.                                                             *)

(* .meta says exited only of a child that is dead, with the exit that the  *)
(* daemon recorded, through every race of the daemon's writes with those   *)
(* of stop, which truncates and rewrites the same file.                    *)
ExitIsTrue ==
  meta.state = "exited" =>
    child = "dead" /\ job.state = "exited" /\ meta.exit = job.exit

(* When the daemon has left a child that ended by itself, .out holds all   *)
(* the child wrote, what the pty still held at its exit included.  With no *)
(* stop it ended by itself, and so with another code than the one a stop   *)
(* is given.                                                               *)
OutputComplete ==
  (daemon = "end" /\ job.state = "exited" /\ (job.exit = "code" \/ stops = 0))
    => outFile = wrote

(* The mark never goes past what the statuses have read: no output is      *)
(* skipped by statuses one after the other, nor by statuses that overlap,  *)
(* as long as no two of them mix their offsets in one file.                *)
NothingSkipped ==
  (~torn /\ \A r \in Readers : reader[r].pc = "idle") => mark <= seen

(* An input sent once the daemon has made its files is in front of its     *)
(* offset until it is typed or the pty refuses it: never behind it.        *)
InputAccounted == \A m \in DOMAIN fate : fate[m] = "sent" => m \in Unread

(* The daemon has written "running", and writes no live state any more.    *)
Launched ==
  /\ daemon \notin {"probe", "create", "pty"}
  /\ daemon \in {"open", "put"} => job.state \notin {"starting", "running"}

(* A stop request in .meta of a launched session ends it and its child,    *)
(* the child= line appended after it notwithstanding.                      *)
LateStopEnds ==
  (meta.state = "stopping" /\ Launched) ~> (daemon = "end" /\ child # "alive")

(* Whenever it is asked, a stop gives the daemon a moment, then kills the  *)
(* child if needed.                                                        *)
StopKills == (stop = "poll") ~> (child # "alive")
=============================================================================
