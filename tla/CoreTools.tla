----------------------------- MODULE CoreTools -----------------------------
(***************************************************************************)
(* The handlers of dsh-ros2-core: which arguments they refuse, when they   *)
(* ask, what they run and how they judge the outcome, in that order.  The  *)
(* GUI tools are in GuiManager, the PTY behind ros2_install in PtySession. *)
(***************************************************************************)
EXTENDS ToolSteps

(* ros2Tool: one command, nothing asked.  Most make every failure an       *)
(* error; the ones with onNonZero report an exit code as a finding.        *)
ListingTools == {<<Read("strict")>>}                     \* node_list, ...
ShowingTools == {<<Read("strict")>>}                     \* node_info, ...
SamplingTools == {<<Read("finding")>>, <<Read("strict")>>} \* doctor, ...
TransformTools == {<<Read("finding")>>}                  \* tf_list, tf_echo

(* ros2_graph: the list must succeed, a node that does not answer is       *)
(* reported; one node stands for all that are sampled.                     *)
Graph == {<<Read("strict")>>, <<Read("strict"), Read("never")>>}

(* The measuring tools end by their timeout: that is no failure.           *)
TopicBw == {<<Refusable, Read("never")>>}
TopicDelay == {<<Refusable, Read("never")>>}
TopicHz == {<<Refusable, Read("never")>>}

JobsList == {<<Peek>>}
JobStatus == {<<Peek>>}

(* Long commands become jobs, after the approval.                          *)
Build == {<<Ask, Job>>}
Launch == {<<Refusable, Ask, Job>>}
RunTool(mode) ==
  {<<Refusable, Ask, IF mode = "background" THEN Job ELSE Write("stdout")>>}

(* A dry run asks too.                                                     *)
RosdepInstall(mode) ==
  {<<Ask, IF mode = "dry_run" THEN Read("finding") ELSE Write("finding")>>}

InterfaceCreate == {<<Refusable, Ask, Act>>}

ParamSet == {<<Ask, Write("finding")>>}
ParamDelete == {<<Refusable, Ask, Write("stdout")>>}

(* The timeout is what ends a recording; a replay may be cut off by it.    *)
BagRecord == {<<Refusable, Ask, Write("never")>>}
BagPlay == {<<Refusable, Ask, Write("bounded")>>}

TopicPub == {<<Refusable, Ask, Write("stdout")>>}
ServiceCall == {<<Refusable, Ask, Write("stdout")>>}
ActionSendGoal == {<<Refusable, Ask, Write("stdout")>>}

(* Mutant of Lifecycle: it asks when it only looks.                        *)
LifecycleAsksToLook(action) ==
  {IF action = "set" THEN <<Refusable, Write("stdout")>>
   ELSE <<Refusable, Ask, Read("stdout")>>}

(* Tools that write in some of their actions ask in those only.            *)
Lifecycle(action) ==
  {IF action = "set" THEN <<Refusable, Ask, Write("stdout")>>
   ELSE <<Refusable, Read("stdout")>>}
Component(action) ==
  {IF action = "load" THEN <<Refusable, Ask, Write("stdout")>>
   ELSE <<Read("stdout")>>}
Daemon(action) ==
  {IF action = "status" THEN <<Read("stdout")>>
   ELSE <<Ask, Write("stdout")>>}

ProcessCleanup == {<<Refusable, Ask, Write("strict")>>}

(* Is ROS there?  A second look only when `ros2 --help` fails.             *)
ProbeRos2 == {<<Read("never")>>, <<Read("never"), Read("never")>>}

(* ros2_install: start stops at the probe when ROS is there, asks,         *)
(* prepares a directory, downloads, prepares another, starts the session.  *)
InstallStart ==
  ProbeRos2 \cup {<<Read("never"), Read("never"), Ask,
                    Refusable, Act, Refusable, Act>>}

(* send and stop drive a session somebody approved; they write to it only. *)
InstallSession == {<<Refusable, Refusable, Peek>>}

(* What is visible under which setup; the catalogue of skills comes last.  *)
EnvCheck == {<<Report, Read("never"), Peek>>}

Workspace(action) ==
  {IF action = "use" THEN <<Refusable, Ask, Use>>
   ELSE IF action = "reset" THEN <<Reset>>
   ELSE <<Report>>}

(* createRos2Tools.                                                        *)
ReadingPrograms ==
  ListingTools \cup ShowingTools \cup SamplingTools \cup TransformTools
    \cup Graph \cup TopicBw \cup TopicDelay \cup TopicHz
    \cup JobsList \cup JobStatus \cup ProbeRos2 \cup InstallSession
    \cup EnvCheck
WritingPrograms ==
  Build \cup Launch \cup InterfaceCreate \cup ParamSet \cup ParamDelete
    \cup BagRecord \cup BagPlay \cup TopicPub \cup ServiceCall
    \cup ActionSendGoal \cup ProcessCleanup \cup InstallStart
ChoosingPrograms ==
  (UNION {RunTool(m) : m \in {"foreground", "background"}})
    \cup (UNION {RosdepInstall(m) : m \in {"install", "dry_run"}})
    \cup (UNION {Lifecycle(a) : a \in {"get", "list", "set"}})
    \cup (UNION {Component(a) : a \in {"list", "load"}})
    \cup (UNION {Daemon(a) : a \in {"status", "start", "stop"}})
    \cup (UNION {Workspace(a) : a \in {"show", "use", "reset"}})

CorePrograms == ReadingPrograms \cup WritingPrograms \cup ChoosingPrograms
=============================================================================
