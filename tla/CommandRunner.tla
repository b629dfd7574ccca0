--------------------------- MODULE CommandRunner ---------------------------
(***************************************************************************)
(* runner.ts of dsh-ros2-common: every command a tool runs goes through    *)
(* runCommand, which judges the configured ROS_LOG_DIR, then chooses the   *)
(* setup files to source, then starts the process.  Commands of several    *)
(* tool calls run at once; the workspace override, the memo of the log     *)
(* directory and the fallback directory belong to the whole process.       *)
(***************************************************************************)
EXTENDS Integers, Sequences

CONSTANTS
  Calls,    \* slots of tool calls in flight; each runs one command at most
  Setups,   \* the setup files that can be named
  Opaque,   \* those whose word only the shell can expand
  Config,   \* those of the configured chain (rosSetup), whose order is kept
  Searched, \* the candidates of the auto-detection, in order
  MaxMoves, \* bound: changes made to the file system by others
  None

ASSUME SetupAssumption ==
  /\ Opaque \subseteq Setups
  /\ Config \subseteq Setups /\ Searched \in Seq(Setups)
ASSUME MovesAssumption == MaxMoves \in Nat

VARIABLES
  override, \* None, or the chain set by ros2_workspace
  onDisk,   \* the setup files that exist
  place,    \* where ROS_LOG_DIR points: nowhere, the temp root, elsewhere
  logDir,   \* what lies there: an inode and what it is
  memo,     \* None, or the last judgement and what it was made of
  fallback, \* the private directory, probed for once
  command,  \* the commands
  moves,    \* history, for the bound
  raced,    \* history: the directory moved while it was being judged
  reused    \* history: owners a directory of whom got the inode number of
            \* what lay there before

hostVars == <<onDisk, place, logDir, moves, raced, reused>>
runnerVars == <<override, memo, fallback, command, hostVars>>

(* A directory of this user, or of another, that only its owner can use or *)
(* that others can; a link; anything else.                                 *)
Ours == {"private", "wide"}
Theirs == {"theirs", "open"}
Kinds == Ours \cup Theirs \cup {"link", "file", "absent"}
Idle == [pc |-> "idle", verdict |-> "none", given |-> "default",
         sourced |-> {}]
Goes(c, pc) == command' = [command EXCEPT ![c].pc = pc]
Judges(c, verdict) ==
  command' = [command EXCEPT ![c].pc = "record", ![c].verdict = verdict]
Judging == {c \in Calls : command[c].pc \notin {"idle", "running"}}

RunnerInit ==
  /\ override = None /\ onDisk \in SUBSET (Setups \ Opaque)
  /\ place \in {"unset", "temp", "elsewhere"}
  /\ logDir \in [ino : {0}, kind : IF place = "temp" THEN Kinds
                                   ELSE {"absent"}]
  /\ memo = None /\ fallback = "unprobed"
  /\ command = [c \in Calls |-> Idle]
  /\ moves = 0 /\ raced = FALSE /\ reused = {}
----------------------------------------------------------------------------
(* The setup files.                                                        *)

(* autoDetectSetup: the first candidate that exists.                       *)
AutoDetect(disk) ==
  {s \in disk : \E i \in 1..Len(Searched) :
      s = Searched[i] /\ \A j \in 1..(i - 1) : Searched[j] \notin disk}

Explicit(over) == IF over = None THEN Config ELSE over

(* Mutant of Resolved: the chain counts while any of it is there, all of   *)
(* it.                                                                     *)
ResolvedWhole(chain, disk) ==
  IF chain \cap (Opaque \cup disk) = {} THEN AutoDetect(disk) ELSE chain

(* resolveSetup: missing segments of an explicit chain are dropped; the    *)
(* auto-detection replaces it only when nothing is left.                   *)
Resolved(chain, disk) ==
  LET kept == {s \in chain : s \in Opaque \cup disk}
  IN  IF kept = {} THEN AutoDetect(disk) ELSE kept

Resolve == Resolved(Explicit(override), onDisk)
----------------------------------------------------------------------------
(* The log directory.                                                      *)

(* identityOf: one lstat, dev:ino:mode:kind.  The owner is not part of it, *)
(* and every absent object is the same.                                    *)
Shape(kind) == CASE kind \in {"private", "theirs"} -> "dir700"
                 [] kind \in {"wide", "open"} -> "dirwide"
                 [] OTHER -> kind
Identity == [ino |-> IF logDir.kind = "absent" THEN 0 ELSE logDir.ino,
             shape |-> Shape(logDir.kind)]

(* probeRosLogFallback: once per process; no fallback where ~/.ros/log is  *)
(* writable.                                                               *)
Probe == fallback' \in IF fallback = "unprobed" THEN {"unset", "private"}
                       ELSE {fallback}

(* The end of ensureWritableRosLogDir and the rest of runCommand, which    *)
(* takes the setup only now: what the process is given.                    *)
Spawn(c, given) ==
  command' = [command EXCEPT ![c] = [Idle EXCEPT !.pc = "running",
                                        !.given = given, !.sourced = Resolve]]

(* The variable is removed when there is nothing to fall back to.          *)
FallenBack == IF fallback' = "private" THEN "private" ELSE "default"

(* Mutant of Remembered: a path judged once is not looked at again.        *)
RememberedByPath == memo # None

(* The memo counts only for the object it was made of.                     *)
Remembered == memo # None /\ memo.id = Identity

(* runCommand up to the first await that leaves the event loop.            *)
RunBegins(c) ==
  /\ command[c].pc = "idle"
  /\ \/ /\ place = "unset" /\ Probe /\ Spawn(c, FallenBack)
     \/ /\ place = "elsewhere" /\ Judges(c, "accepted") /\ UNCHANGED fallback
     \/ /\ place = "temp" /\ Remembered /\ Spawn(c, memo.dir)
        /\ UNCHANGED fallback
     \/ /\ place = "temp" /\ ~Remembered /\ Goes(c, "look")
        /\ UNCHANGED fallback
  /\ UNCHANGED <<override, memo, hostVars>>

(* ensurePrivateRuntimeDir: lstat, mkdir when absent, lstat, chmod when    *)
(* wide, lstat.  Each is awaited.                                          *)
Look(c) ==
  /\ command[c].pc = "look"
  /\ IF logDir.kind \in {"link", "file"} THEN Judges(c, "refused")
     ELSE Goes(c, IF logDir.kind = "absent" THEN "mkdir" ELSE "check")
  /\ UNCHANGED <<override, memo, fallback, hostVars>>

(* Something comes to lie there, with a new inode number or the old one.   *)
Becomes(owner, kind) ==
  \/ logDir' = [ino |-> logDir.ino + 1, kind |-> kind] /\ UNCHANGED reused
  \/ /\ logDir' = [ino |-> logDir.ino, kind |-> kind]
     /\ reused' = reused \cup owner

(* mkdir fails when somebody made the directory in between.                *)
MakeDir(c) ==
  /\ command[c].pc = "mkdir"
  /\ \/ /\ logDir.kind = "absent"
        /\ Goes(c, "check") /\ Becomes({"ours"}, "private")
     \/ /\ logDir.kind # "absent"
        /\ Judges(c, "refused") /\ UNCHANGED <<logDir, reused>>
  /\ UNCHANGED <<override, memo, fallback, onDisk, place, moves, raced>>

(* The second lstat, of which the owner counts.                            *)
Check(c) ==
  /\ command[c].pc = "check" /\ logDir.kind # "absent"
  /\ CASE logDir.kind = "private" -> Judges(c, "accepted")
       [] logDir.kind = "wide" -> Goes(c, "chmod")
       [] OTHER -> Judges(c, "refused")
  /\ UNCHANGED <<override, memo, fallback, hostVars>>

(* chmod 0700, of whatever lies there by now; of a link it is the target.  *)
Tighten(c) ==
  /\ command[c].pc = "chmod" /\ logDir.kind \in Ours \cup {"link", "file"}
  /\ Goes(c, "verify")
  /\ logDir' = IF logDir.kind \in Ours THEN [logDir EXCEPT !.kind = "private"]
               ELSE logDir
  /\ UNCHANGED <<override, memo, fallback, onDisk, place, moves, raced, reused>>

(* The lstat that verifies it looks at the mode alone, and that of a file  *)
(* may do.                                                                 *)
Verify(c) ==
  /\ command[c].pc = "verify" /\ logDir.kind # "absent"
  /\ \/ /\ logDir.kind \in {"private", "theirs", "file"}
        /\ Judges(c, "accepted")
     \/ /\ logDir.kind \in {"wide", "open", "link", "file"}
        /\ Judges(c, "refused")
  /\ UNCHANGED <<override, memo, fallback, hostVars>>

(* chmod of what is not ours, and an lstat of nothing after the first one, *)
(* are outside any try: the whole call throws (CallThrows).                *)
Throws(c) ==
  \/ command[c].pc \in {"check", "verify"} /\ logDir.kind = "absent"
  \/ command[c].pc = "chmod" /\ logDir.kind \notin Ours

(* The rest of the call, once judged: the identity recorded is the one the *)
(* path has by now.                                                        *)
Record(c) ==
  /\ command[c].pc = "record"
  /\ IF command[c].verdict = "refused" THEN Probe ELSE UNCHANGED fallback
  /\ LET dir == IF command[c].verdict = "refused" THEN FallenBack
                ELSE "configured"
     IN  /\ memo' = IF place = "temp" THEN [id |-> Identity, dir |-> dir]
                    ELSE memo
         /\ Spawn(c, dir)
  /\ UNCHANGED <<override, hostVars>>

RunnerSteps(c) ==
  \/ Look(c) \/ MakeDir(c) \/ Check(c) \/ Tighten(c) \/ Verify(c)
  \/ Record(c)
----------------------------------------------------------------------------
(* The others: a workspace is built or deleted; the directory is removed,  *)
(* replaced, or its mode is changed.                                       *)
SetupMoves ==
  /\ moves < MaxMoves /\ moves' = moves + 1
  /\ \E s \in Setups \ Opaque :
       onDisk' = IF s \in onDisk THEN onDisk \ {s} ELSE onDisk \cup {s}
  /\ UNCHANGED <<override, memo, fallback, command>>
  /\ UNCHANGED <<place, logDir, raced, reused>>

LogDirMoves ==
  /\ place = "temp" /\ moves < MaxMoves /\ moves' = moves + 1
  /\ \/ \E kind \in Kinds :
          Becomes(IF kind \in Ours THEN {"ours"}
                  ELSE IF kind \in Theirs THEN {"theirs"} ELSE {}, kind)
     \/ /\ \E owned \in {Ours, Theirs} :
             /\ logDir.kind \in owned
             /\ \E k \in owned : logDir' = [logDir EXCEPT !.kind = k]
        /\ UNCHANGED reused
  /\ raced' = (raced \/ Judging # {})
  /\ UNCHANGED <<override, onDisk, place, memo, fallback, command>>
============================================================================
