----------------------------- MODULE ToolSteps -----------------------------
(***************************************************************************)
(* The vocabulary of the tool handlers.  A handler is the sequence of the  *)
(* steps it takes between two awaits; the arguments are abstracted to the  *)
(* branch they choose, so a tool is the set of the sequences it can take.  *)
(* Its effect is what the documentation calls a write: to the robot, the   *)
(* ROS graph or the host, outside the private directories of the plugin.   *)
(***************************************************************************)
EXTENDS Sequences

(* When a command that did not succeed makes the tool answer with an       *)
(* error: always, when it printed nothing, when it timed out, unless it    *)
(* timed out, never.                                                       *)
Policies == {"strict", "stdout", "finding", "bounded", "never"}
Outcomes == {"ok", "failed", "timeout"}

Fails(policy, outcome, printed) ==
  /\ outcome # "ok"
  /\ \/ policy = "strict"
     \/ policy = "stdout" /\ ~printed
     \/ policy = "finding" /\ outcome = "timeout"
     \/ policy = "bounded" /\ outcome = "failed"

StepOf(kind, effect, policy) ==
  [kind |-> kind, effect |-> effect, policy |-> policy]

Refusable == StepOf("check", "none", "never")   \* an argument may be refused
Ask == StepOf("ask", "none", "never")           \* requestApproval
Report == StepOf("report", "none", "never")     \* resolveSetup, to be shown
Use == StepOf("use", "write", "never")            \* setSessionRosSetup(path)
Reset == StepOf("reset", "none", "never")       \* setSessionRosSetup(null)
Read(policy) == StepOf("run", "none", policy)   \* deps.run
Write(policy) == StepOf("run", "write", policy)
Job == StepOf("job", "write", "strict")           \* jobs.start with spawnJob
Peek == StepOf("exec", "none", "strict")        \* anything else awaited
Act == StepOf("exec", "write", "strict")

Steps == {Refusable, Ask, Report, Use, Reset, Job, Peek, Act}
           \cup {Read(p) : p \in Policies} \cup {Write(p) : p \in Policies}
=============================================================================
