----------------------------- MODULE ToolCalls -----------------------------
(***************************************************************************)
(* Tool calls in flight at once: each carries out the steps of its handler *)
(* (CoreTools, RobotTools), its commands go through CommandRunner, and the *)
(* process-wide workspace and log directory are what they share.           *)
(***************************************************************************)
EXTENDS CommandRunner, CoreTools, RobotTools

CONSTANTS
  Programs,   \* what each slot may be called for
  Workspaces  \* the setup files ros2_workspace is pointed at

AllPrograms == CorePrograms \cup RobotPrograms

ASSUME ProgramsAssumption ==
  Programs \in [Calls -> SUBSET (AllPrograms \ {<<>>})]
ASSUME WorkspacesAssumption == Workspaces \subseteq Setups
ASSUME NoneAssumption == \A chain \in SUBSET Setups : None # chain

VARIABLES
  call \* the steps left of each call, and what became of it

vars == <<runnerVars, call>>

Ended == [todo |-> <<>>, granted |-> FALSE, effect |-> "none"]
Doing(c, kind) == call[c].todo # <<>> /\ Head(call[c].todo).kind = kind
Quits(c) == call' = [call EXCEPT ![c].todo = <<>>]

(* The step is over, and it wrote something when it is one that does.      *)
Effect(c) == IF Head(call[c].todo).effect = "write" THEN "write"
             ELSE call[c].effect
MovesOn(c) ==
  call' = [call EXCEPT ![c].todo = Tail(@), ![c].effect = Effect(c)]

Init ==
  /\ RunnerInit
  /\ call = [c \in Calls |-> Ended]
----------------------------------------------------------------------------
(* A handler is entered.                                                   *)
CallBegins(c) ==
  /\ call[c].todo = <<>>
  /\ \E p \in Programs[c] :
       call' = [call EXCEPT ![c] = [Ended EXCEPT !.todo = p]]
  /\ UNCHANGED runnerVars

(* A parameter or a precondition is refused, or not.                       *)
Checks(c) ==
  /\ Doing(c, "check") /\ (Quits(c) \/ MovesOn(c))
  /\ UNCHANGED runnerVars

(* Mutant of Answers: a denial is not looked at.                           *)
AnswersAnyway(c) ==
  /\ Doing(c, "ask")
  /\ \E g \in BOOLEAN :
       call' = [call EXCEPT ![c].todo = Tail(@), ![c].granted = g]
  /\ UNCHANGED runnerVars

(* requestApproval: anything but "allowed-once" ends the call.             *)
Answers(c) ==
  /\ Doing(c, "ask")
  /\ \/ Quits(c)
     \/ call' = [call EXCEPT ![c].todo = Tail(@), ![c].granted = TRUE]
  /\ UNCHANGED runnerVars

(* The setup ros2_env_check, ros2_workspace and the vision doctor show is  *)
(* resolved for the answer alone; their commands resolve it again.         *)
Reports(c) == Doing(c, "report") /\ MovesOn(c) /\ UNCHANGED runnerVars

(* setSessionRosSetup.                                                     *)
Overrides(c) ==
  /\ \/ Doing(c, "use") /\ \E w \in Workspaces : override' = {w}
     \/ Doing(c, "reset") /\ override' = None
  /\ MovesOn(c)
  /\ UNCHANGED <<memo, fallback, command, hostVars>>

(* deps.run: the command begins, and what it writes may change from here.  *)
RunStarts(c) ==
  /\ Doing(c, "run") /\ RunBegins(c)
  /\ call' = [call EXCEPT ![c].effect = Effect(c)]

RunContinues(c) == RunnerSteps(c) /\ UNCHANGED call

(* The process ends, by itself or killed at its timeout; the policy of the *)
(* tool says whether that is an error.                                     *)
RunEnds(c) ==
  /\ command[c].pc = "running"
  /\ command' = [command EXCEPT ![c] = Idle]
  /\ \E outcome \in Outcomes, printed \in BOOLEAN :
       IF Fails(Head(call[c].todo).policy, outcome, printed)
         THEN Quits(c) ELSE MovesOn(c)
  /\ UNCHANGED <<override, memo, fallback, hostVars>>

(* Mutant of CallThrows: the command is left behind.                       *)
CallThrowsAlone(c) ==
  /\ Throws(c) /\ Quits(c)
  /\ UNCHANGED runnerVars

(* An exception of the judgement of the log directory ends the call.       *)
CallThrows(c) ==
  /\ Throws(c) /\ Quits(c)
  /\ command' = [command EXCEPT ![c] = Idle]
  /\ UNCHANGED <<override, memo, fallback, hostVars>>

(* A job is started unless there is no registry; other work may fail.      *)
Works(c) ==
  /\ Doing(c, "job") \/ Doing(c, "exec")
  /\ Quits(c) \/ MovesOn(c)
  /\ UNCHANGED runnerVars

CallContinues(c) ==
  \/ Checks(c) \/ Answers(c) \/ Reports(c) \/ Overrides(c)
  \/ RunStarts(c) \/ RunContinues(c) \/ RunEnds(c) \/ CallThrows(c)
  \/ Works(c)

Next ==
  \/ \E c \in Calls : CallBegins(c) \/ CallContinues(c)
  \/ (SetupMoves \/ LogDirMoves) /\ UNCHANGED call

Spec == Init /\ [][Next]_vars
----------------------------------------------------------------------------
Chains == SUBSET Setups
Objects == [ino : Nat, kind : Kinds]
Identities == [ino : Nat,
               shape : {"dir700", "dirwide", "link", "file", "absent"}]
Places == {"default", "configured", "private"}

(* The type of every variable of ToolCalls; a call runs a command only in  *)
(* a step that says so.                                                    *)
ToolTypeOK ==
  /\ override \in {None} \cup Chains /\ onDisk \subseteq Setups
  /\ place \in {"unset", "temp", "elsewhere"} /\ logDir \in Objects
  /\ memo \in [id : Identities, dir : Places] \cup {None}
  /\ fallback \in {"unprobed", "unset", "private"}
  /\ command \in [Calls ->
       [pc : {"idle", "look", "mkdir", "check", "chmod", "verify", "record",
             "running"},
        verdict : {"none", "accepted", "refused"}, given : Places,
        sourced : Chains]]
  /\ moves \in 0..MaxMoves /\ raced \in BOOLEAN
  /\ reused \subseteq {"ours", "theirs"}
  /\ call \in [Calls -> [todo : Seq(Steps), granted : BOOLEAN,
                         effect : {"none", "write"}]]
  /\ \A c \in Calls : command[c].pc # "idle" => Doing(c, "run")

(* "Writes always ask first": whatever a call changes, it changes after    *)
(* its own approval (README.md:26, :190).                                  *)
ChangesAreApproved ==
  \A c \in Calls : call[c].effect = "write" => call[c].granted

Spawns(c) == command[c].pc # "running" /\ command'[c].pc = "running"

(* No command sources a setup file that has gone, drops one of the chain   *)
(* that is there, or mixes the chain with a detected one, however the      *)
(* files and the workspace changed while its log directory was judged      *)
(* (runner.ts, resolveSetup).                                              *)
Sources(setups) ==
  LET there == Opaque \cup onDisk
      chain == Explicit(override)
  IN  /\ setups \subseteq there
      /\ chain \cap there \subseteq setups
      /\ chain \cap there # {} => setups \subseteq chain
SourcedIsThere ==
  [][\A c \in Calls : Spawns(c) => Sources(command'[c].sourced)]_vars

(* A process writes its logs below the temp root only into a directory of  *)
(* this user that nobody else can enter (runner.ts:449, README.md:462),    *)
(* unless the directory was replaced while it was being judged, or by one  *)
(* of another user that only its owner can use and that got the same inode *)
(* number: the memo does not know owners.                                  *)
LogDirIsJudged ==
  [][\A c \in Calls :
       /\ Spawns(c) /\ command'[c].given = "configured"
       /\ place = "temp" /\ ~raced
       => \/ logDir.kind = "private"
          \/ logDir.kind = "theirs" /\ "theirs" \in reused]_vars

(* README.md:465 says a configured directory is refused when it is a link  *)
(* or no directory, and tightened otherwise: no refusal is remembered for  *)
(* a directory that is ours and private.  (One that got the inode number   *)
(* of what was refused is another matter.)                                 *)
PrivateDirIsUsed ==
  Remembered /\ logDir.kind = "private" /\ ~raced /\ "ours" \notin reused =>
    memo.dir = "configured"
=============================================================================
