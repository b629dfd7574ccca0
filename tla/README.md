# TLA+ models of dsh-ros2

dsh-ros2 gives an agent host typed tools over ROS 2: inspection, build and
launch, interactive sessions, robot profiles, MoveIt motion, a safety monitor, a
vision bridge.  Most tools build a command line, ask a human, run it and shape
its output.  What is hard lies where they meet something that goes on by
itself: a monitor with two threads, a robot that moves while its caller waits,
files shared by helper processes, timers in two processes, windows that a user
moves, and other tool calls at each await.  The modules here model those parts;
TLC checks them on small instances; TLAPS proves every safety property and three
refinements for every instance, and, for the promises the code does not keep, when
exactly they fail.

## The system

| component | state it keeps | operations | meets the others through |
|---|---|---|---|
| `LatchState`, `SafetyCore` (`safety_core.py`) | latch (state, severity, cause), checkers' memories | tick, joint/command/torque/scan inputs, unlock, set_lock | a lock; the node calls it |
| `SafetyMonitorNode` (`safety_monitor`) | `_locked_published`, the latched samples of `/safety/state` and `/safety/lock_active` | tick and scan timers, three services | topics, services |
| checkers (`safety_core.py`) | last sample, hysteresis deques, arming times | one judgement per tick | the node's default callback group |
| `moveit_move` (`moveit/src/tools.ts`) | plan file, frozen validation config | gate, plan, sample, validate, ready, approve, recheck, execute, verify | `/safety/state`, files, helper processes, the human |
| helper (`moveit_move.py`, `moveit_common.py`) | goal handle | wait, send, await, cancel | actions of move_group |
| `runCommand` (`common/src/runner.ts`) | one child, one timer | start, kill, collect; ROS log directory memo | child processes |
| PTY sessions (`pty_session.py`) | `.meta`, `.in`, `.out`, `.out.mark` per session | start, send, status, stop; a daemon | files, signals |
| state client and sidecar (`dsh-ros2-state`) | pending requests, one socket; the reducers' cache | get, snapshot, subscribe, close | newline JSON over a Unix socket |
| GUI manager (`core/src/gui.ts`, the GUI tools of `core/src/tools.ts`) | one process group per label | start, close, interact, screenshot, observe | process groups, the X desktop, image files |
| tools of core, profile, safety, moveit, vision (`*/src/tools.ts`) | none of their own | check, ask, run, start a job, report | the runner; the workspace override |
| runner (`common/src/runner.ts`) around each command | workspace override, memo of `ROS_LOG_DIR`, fallback directory | resolve the setup, judge the directory, spawn | the file system |
| robot profiles (`robot_profile.py`) | one YAML file per robot | register, topo_learn, safety_set | files |
| vision bridge | provider, bridge processes | bringup, VLM calls | topics, HTTP |

What makes them correct, component by component, is the list of properties
below; what can go wrong in them, at its line, is `hazards` in PROJECT.json.

## Modules

**SafetyLatch** is what the monitor promises to the outside: a latch that danger
or a human sets, that only an unlock releases, shown on a latched topic, lost
with the process.  It is implemented by SafetyMonitor and is the environment of
MotionPipeline.

**SafetyMonitor** is the node.  `pc["cb"]` is the thread of the default callback
group (tick, scan), `pc["svc"]` that of the services.  A call of SafetyCore holds
its lock and is one step (`Tick`, `ScanEnd`, the first step of `SvcUnlock`,
`SvcSetLock`); everything the node does around it is unprotected and is one step
per access: `TestFlag`, `MarkFlag`, `RaiseLock` are `_fire_lock`; `ReadState`,
`ReadSeverity`, `ReadCause`, `PublishState` are `_publish_state`; `ClearFlag` and
`LowerLock` the rest of `_svc_unlock`.  The checkers are the set `cond` of causes
raised at each tick, which the environment changes; the node watchdog with its
two misses is modelled (`ScanResult`).  A forensics dump that raises inside the
core ends the process (`DumpFails`).  The cause of `SvcSetLock` is the tool's
default, which stands for any word of the caller's own, or empty: the `??` of
`safety/src/tools.ts:206` lets an empty string through.  `unnamed` remembers that.

**SafetyCheckers** looks into `cond`: the subscription's queue, the tick timer,
the scan on the same thread, and four checkers with their memories.  One unit of
time is one tick period.  The command stream holds still, torque has a value
below and one above its limit, far enough apart for the slope limit.

**MotionPipeline** is `moveit_move`, any number of calls at once.  A step ends at
an await or at an access of a helper to a file.  A trajectory is who planned it
and whether the deterministic checks pass; a file may also be absent or torn.
Plan files are named by the millisecond (`PlanName`); one more path is the
caller's.  The clock of the first validation is frozen into `vcfg`, as the code
does.  The monitor is SafetyLatch (`Monitor`).  A `planOnly` call skips the gate;
with mode trajectory its helper executes.

**MotionPermit** is what `moveit_move` promises of a motion, without its files: the
gate clears it, the checks judge a trajectory safe, the human grants it, it moves;
each after the one before, and what moves is what was judged unless somebody wrote
it over after it was granted (`swapped`).  A planOnly call is exempt.
`ImplementsPermit` is the pipeline under the mapping that reads a call's stage off
its `pc` and the verdict in hand.

**ExecWatchdog** is the execution phase: the helper's stages with their timeouts
and its cancel, runCommand's SIGKILL, which may reach only the shell in front of
the helper, and a move_group that may reject, lose, end or never end a goal.
`requested` is the caller's `timeoutMs`, from which the code computes both timers
(`Timeout`, `Outer`).

**PtySession** is one interactive session: `daemon` follows `run_start` from the
parent's probe to the daemon's return, `stop` and `reader[r]` follow the commands
`stop` and `status`, `Send` is one `send`.  They share four files and no lock.
`open_private(.., "w")` truncates at once and the text arrives when the file is
closed, so each rewrite is two steps (`MetaOpen`/`MetaPut`, `StopOpen`/`StopPut`,
`MarkOpen`/`MarkPut`) and an append or another rewrite may fall between
(`Overwritten`, `WriteMark`).  Output is counted in units of one read, offsets
have digits in `Radix` because a longer number leaves its tail behind a shorter
one; `torn` remembers that this happened.  `fate` says what became of each input.
The exit of a child is `"code"` or `"-1"`: `os.waitstatus_to_exitcode` gives -1 for a
child that died of SIGHUP by itself, the value that a stop writes.
One session has one start, since `ros2_install` makes a fresh id for each.
`DrainAssumption` says that what the pty holds the five reads of the drain can
take: the kernel's pty buffer is smaller than 5 x 4096 bytes.  `status --all`
changes nothing and is left out.

**StateClient** is the client's one connection in its life and the sidecar at
its other end.  A request is a record that goes from `pending` to what it was
told; `sent` and `frames` are the two directions of the socket, `sock` is the
client's view of it ("broken": the peer is gone and 'close' has not been
handled; "dead": it has, and the socket stays, which is what `ensure` does).  `Request`
is timer, connection and write, which no await separates; `Closes`, `Deliver`
and `Timeout` are the callbacks.  `SidecarDies` may happen at any time and leaves
its socket on disk, so a restart meets `prepare_socket_path` with a stale inode;
`MayBind` and `Proven` are the two halves of the ownership criterion, each
translated from its own language.

**StateReads** is what the callers of the client see, without socket and sidecar: per
request one reading of the cache in one instant between question and answer, in
the order of the requests; one answer, as it was read; an end by the deadline.
`ImplementsReads` maps a request whose frame the sidecar wrote, and which nobody
has handled, to one that was read.

**GuiManager** has one step per stretch between two awaits of a handler, for any
number of calls in flight; `WindowMaps`, `Exit`, `DeskMoves` and `FilesMove` are
what applications, the user and other processes do in between, `DirsMove` among
them, which removes the directory of an output path or puts a link to another in
its place.  `findWindow` takes the first title that matches, so the desk is a
sequence.  `classifyInteraction` looks a trimmed title up and `activateWindow` the
title as it was written, so a title with spaces (`padded`) may find another window
the second time (`Spaced`).  Keys go to the focus, a click or drag to whatever lies
under the caller's coordinates, in the window or not.  A path is called inside or
outside as it is spelt; where it is, is `parent`, which `Assess` and `MustAsk` read
each time, as the code reads `realpath`.  `quiet`, `settled` and `raced` are
histories: nothing moved since the target was chosen; no directory moved since an
image was let through without a question; two closes of a label overlapped.

**ToolSteps**, **CoreTools**, **RobotTools** describe every tool handler as the set of
sequences of steps it can take: checks that may refuse, questions, commands with
the policy by which a failing one becomes an error, jobs, other awaited work,
reports.  The arguments are abstracted to the branch they choose; a write is what
the documentation calls one.  **CommandRunner** is what the runner does around a
command: `Resolve` chooses the setup files; `RunBegins` to `Record` judge
`ROS_LOG_DIR` with a step per awaited system call.  The identity that is memoised is
read after the judgement, and the memo is looked up before it, as in the code.  It
is an inode number and a mode (`Shape`), without the owner; what others put in the
directory's place has a new number or takes its predecessor's over (`Becomes`,
`reused`).  The chmod of what is no longer ours throws, and the look that verifies
it reads the mode alone (`Tighten`, `Throws`, `Verify`).  The user is not root.
**ToolCalls** puts them together: slots of calls that walk through their programs
while the workspace, the files and the directory change under them.

## Runs

| run | asks | bounds, and why they are enough |
|---|---|---|
| `monitor` | is the latch left by an unlock alone, is the first lock signalled, does the first danger reach lock_active, is a LOCKED sample complete, does the node implement SafetyLatch | two service calls (one to release, one to race), one death, a dump that may fail, a locking cause and the watched node: every pair of the two threads' steps meets.  A warning that locks nothing is left to the proofs, which hold for any causes |
| `monitor_signal` | is every danger that lasts signalled | **violated**: see below |
| `pipeline` | does every motion pass gate, checks and human in this order and move what they passed (MotionPermit), the call's own, not under a standing lock | two calls, two milliseconds: both names equal and both different; all modes |
| `exec` | which trajectories are left without a watchdog; is any other overrun cancelled | requests of 0, 10, 20, 30, 45 and 90 s (the default), in units of 5 s: below, at and above both floors of the code's formulas and both sides of the margin; 10 s to start, 10 s for the server, 5 s for an answer |
| `exec_default` | is the robot never left moving, at the default timeout | **violated** |
| `checkers` | what each raised cause means, how late a silence is reported | all times 2: below, at and above each limit; a queue and windows of 2 |
| `pty` | is `.meta` true, is no output lost or skipped, is no input passed over, does a stop end a launched session | two readers whose statuses overlap; two commands, each a send or a stop, and two statuses or stops at work at once; two units of output; offsets in base 2, of one and two digits |
| `pty_stop` | does every stop end the child | **violated** |
| `state` | do client and sidecar behave as one atomic read per request (StateReads); is what is read fresh and in order, does a promise settle at last, is a refused path tried again, do the two ownership checks agree | two requests of any kind, one reducer; timeouts 1 and 2 and a lifetime of 1 by a clock of 3: an answer before, at and after the timer, an entry fresh, at its limit and stale; two starts of the sidecar; four inodes, one for each reason to refuse or accept |
| `gui` | can what runs be closed, does a close spare what was started meanwhile, does unapproved input stay in allowed windows, are images that lie outside approved | two calls at once, interchangeable (symmetry); one label, two applications one after the other, one window that is not allowed and whose title holds the spaces of a padded pattern; one move of the desk, of a file or of a directory, enough for one step of another process between any two awaits |
| `tools` | does each write follow its own approval, is the setup sourced there and whole, is a log directory below the temp root judged | one slot for any tool, one that lists or resets the workspace; a configured chain of two files, of which one may be missing; one move of a file or of the directory, which is ours or another's, private or wide, a link, a file or absent, on a new inode number or the old one |
| `tools_logdir` | is a directory that is already private used | **violated** |

Each violated run states what the repository says of itself; `findings` quotes
the line.  In words:

- `monitor_signal`: a tick that has latched LOCKED and tested the flag sets it after
  the unlock cleared it, and publishes TRUE before the unlock publishes FALSE.  The
  flag stays set over a lowered lock_active, so no later CRITICAL event is signalled.
- `exec_default`: with 90 s the helper may watch its trajectory for 90 s from the
  acceptance of the goal, and is killed 100 s after its start: one whose goal was
  accepted ten seconds or more after its start can be killed before it cancels.
- `pty_stop`: a stop that comes while the daemon writes its first "running" is
  overwritten by it.  The hard kill after ten looks would make that good, but finds
  no child= line as long as the daemon, stalled for over three seconds, has not
  appended it: stop says "stopped" and the child runs on.
- `tools_logdir`: of two first commands the second finds the log directory just
  made, refuses it, and the refusal is remembered for a good directory.

The passing properties say where the code's promise ends, and these limits are
worth knowing:

- `moveit/src/tools.ts:364`, `:463`: the safety gate is asked once and the second validation uses the clock and
  the state of the first.  A lock, or a state that grew old, during the approval
  does not stop the execution; `StandingLockBlocks` is about a lock that stands
  from the call's begin.
- `moveit/scripts/moveit_move.py:117`: mode trajectory does not look at `--plan-only`,
  and `planOnly` skips the gate and the checks: such a call, which `tools.ts:338`
  describes as "Plan only, do not execute.", moves the robot.  The pipeline models it;
  `PlanOnlyPlans` proves that no other planOnly call does.
- From requests of thirty seconds on the outer timer can kill the helper before it
  cancels (`DefaultHasNoMargin`; `bash -lc` in front of it may even leave it
  running).  `NoRunawayTrajectory` says for which helpers, and
  `ShortTimeoutSuffices` for which requests never.
- The hysteresis of the tracking check counts ticks, so one noisy sample counts
  once per tick until the next arrives.  The torque checks do not share this: a tick
  that sees the same sample again takes a spike's hit back, and
  `SpikeNeedsFreshSamples` and `OverloadIsSustained` say what they raise.
- A warning that finds the latch set replaces its cause (`safety_core.py:161`), and
  `set_lock` may give an empty one: `LockedSampleIsWhole` promises a severity always,
  a cause only where no lock came without.
- Statuses that overlap may leave a mixed offset in `.out.mark`, beyond both of
  theirs, and skip output: `torn` takes these out of `NothingSkipped`.
- Two calls of moveit_move within one millisecond share a plan file and execute each
  other's plans: `NoTwin` takes them out of `OwnPlanMoves`.
- A stop asked of a session that has ended rewrites `.meta` (`pty_session.py:370`;
  only `failed` returns early): the exit code is lost and status prints `STATE
  stopping` from then on, which is none of the states line 19 names.
  `ExitsAreKept` proves that nothing else loses an exit.
- The client does not reconnect after the sidecar died, although
  `docs/sidecar-design.md:113` says that reconnection is handled in the framework
  layer (断线重连在框架层处理): every later request ends by its timer.
  `RequestsSettle` holds of them, `RefusalIsNotSticky` only of a connection that
  was never made.
- `LiveIsTracked` excludes labels two closes of which overlapped.
- `InputIsConfined` excludes input under which the desk or the focus moved, and
  titles with spaces around them, which `gui.ts:258` trims for the allowlist and
  `gui.ts:322` does not for the activation: such input can reach another window
  unasked.  Of clicks and drags it says which window is activated, not where they
  land: the coordinates are not bounded by the window (`gui.ts:347-351`, `:381-413`).
- `WritesAreGated` excludes a directory that was moved after the gate, by which an
  image lands outside unasked, since the second look ignores `confined`
  (`gui.ts:308-309`), and a link that appeared after the second look.
- `LogDirIsJudged` excludes a directory replaced while it was judged, and another
  user's 0700 directory that got the inode number of a judged one, since the memo
  does not know owners (`runner.ts:472-476`).  `PrivateDirIsUsed`, the refuted one,
  leaves out a directory of ours on the number of what was refused.
- The setup ros2_env_check reports is the one resolved before its command starts
  (`core/src/tools.ts:1674`); a workspace switched in between is sourced unreported.

## Fairness

Only what the code schedules.  Monitor: a started callback ends (weak), the
executor serves a ready timer among others (strong on `Tick`, since scans disable
it again and again).  Nobody owes a service call, a change of the robot, a death
or a restart.  Execution: the helper's steps and timers go on, except its
shutdown, which may hang; move_group owes an answer only when `AnswerDue`.
PTY session: the daemon and a started `stop` go on (weak); nobody owes a command
and the child may wait for input for ever.  State client: time passes and the
event loop serves a timer that is due (weak on `Tick` and on each `Timeout`);
nobody owes an answer, a restart, or that the sidecar reads.  MotionPipeline,
SafetyCheckers, GuiManager and ToolCalls state safety only: what their calls wait
for is a human, an application or another process.

## Proofs

`SafetyMonitorProofs`: an inductive invariant says where each thread may be and
what it has in hand.  The point is `_fire_lock`: the flag alone does not imply
lock_active, so the invariant keeps "the flag is set, or somebody is before
setting it; if set, lock_active is, or somebody is about to raise it", as long as
no unlock was accepted; and for the samples that a message half filled has read
LOCKED only from a latch that stays LOCKED.  Types, FirstLockIsSignalled,
LockedSampleIsWhole, OnlyUnlockReleases and the safety part of ImplementsLatch
follow.  `OnlyUnlockLowers` is what subscribers rely on: the signal falls after an
accepted unlock only, also across deaths of the node.

`MotionPipelineProofs`: `PlaceInv` says what is true of a call at each place of
its pipeline (a file, a verdict equal to the file, a copy equal to the verdict);
`OwnInv` says whose content each plan file holds, and that only a call of the
same name can rewrite it.  They give PipelineTypeOK, OnlyValidatedMoves,
StandingLockBlocks and OwnPlanMoves for any set of calls, modes and times.
MotionsArePermitted is the refinement of MotionPermit.  `HandInv` adds to
`PlaceInv` that nothing is known of an answer before the gate and that a helper about
to send has read a trajectory; then each step is one lemma: most stutter, and the
write of a plan file is the step of *all* calls whose granted plan it replaces.
Assumed: the calls are not the three reserved names, modes are the tool's.

`ExecWatchdogProofs`: `StageInv` bounds how late each stage starts and ends;
under `Margin` the outer timer comes after the last of them, and without it a helper
killed while it watches began to ten seconds or more after its start
(OnlyLateHelpersRunAway).  `ShortTimeoutSuffices` gives requests for which the
code's own formulas leave that margin, `DefaultHasNoMargin` says that thirty seconds
and more never do.  `LastingInv` bounds the stages without the margin, where the
helper may outlive its call, and gives the types.  OverrunIsCancelled says "at
last"; `OverrunsEndInTime` proves by when: under `Margin` no trajectory that has
not ended is uncancelled past the last deadline the helper can have set.

`PtySessionProofs`: `ControlInv` ties the daemon's place to the child and to what
`.meta` says, `OutInv` to what `.out` holds and how many reads the drain has
left, `InputInv` keeps the sent inputs in front of the daemon's offset.  `MarkInv`
is the one for statuses: an offset a status carries to `.out.mark` has been read,
or is past what has been read only while some status is about to read from a
covered place.  With it NothingSkipped holds for any set of statuses at once, as
long as no two mix their digits (`torn`).  `ExitPlaced` (an exit
in `.meta` is the daemon's last word) gives two action properties: `OnlyStopForgets`,
and `LateStopStands`, which is why LateStopEnds is true: the daemon of a launched
session overwrites a stop request only when its child no longer lives.

`SafetyCheckersProofs`: `SilenceInv` is the measure behind the bound on a silence.
Each sample still in the queue can delay the report by one timeout and one scan,
so what is left of the bound never grows while the topic is silent.  `MemoryInv`
says what a checker's memory proves about the past (an arming time means a
torque above its limit since then; a recorded sample was new when it was
recorded), from which the three action properties follow.

`StateClientProofs`: `FrameInv` is the heart: an entry on its way to the client
answers its own request and was fresh when read, which was after the request was
made; so was what a request got, however late.  `SockInv` ties a kept socket to a
request that was not refused.  For ReadsInOrder, `HasRead` treats a frame on its
way and the request it is delivered to as one reading, so that only `Serve` adds
one: `SentInv` puts it behind all others, `PastInv` keeps them below the cache.
ClientIsAtomic is the refinement of StateReads: `TurnInv` says that whoever has
an answer, told or on its way, comes before all who wait to be served, and that the
frames are in order, one for a request; so the step in which the sidecar serves a
request is the reading of it, and a frame that nobody waits for any more a stutter.

`GuiManagerProofs`: `SessionInv` says that a label names an application started
under it; `ClosersInv` that a close in flight is alone and holds the application
its label names, unless two of them overlapped; `CallInv` what
a call knows at each place: an answer, a window that was allowed when it was
found and is still the first that matches, a destination that was inside at the gate
or approved and is where it was then, or not `settled`.  `OverlapsLoseSessions` says what the
exclusion in LiveIsTracked costs: while no two closes of a label are in flight at
once, every application that runs has its label, and no label has two.

`ToolCallsProofs`: first, every handler is `Sound`, a fact about each program of
CoreTools and RobotTools: no step that writes comes before a question.  `AskedInv`
keeps that of what is left of a call, which gives ChangesAreApproved for any number of
calls.  `MemoInv` and `VerdictInv` say what a remembered and a pending judgement of
the log directory are worth: while nobody replaced it under a judgement, what was
accepted is private, and a remembered number is never above the present one, so that
only a number taken over can be mistaken for it.  SetupsAreThere follows a command
to its spawn: it sources files that exist, all that exist of an explicit chain, and
none besides them.

How far the refuted promises hold.  A counterexample says that a promise fails; the
theorems say when it does not, so that a fix has a target:

| refuted | holds | theorem |
|---|---|---|
| every lasting danger is signalled (`monitor_signal`) | in every behaviour in which no thread is inside `_fire_lock` while another is between the core's unlock and the lowering of the signal (`Racing`); one lock around both, the unlock of the core included, suffices | `RaceIsTheOnlyLoss` |
| the robot is not left moving (`exec_default`) | for goals accepted less than ten seconds after the helper's start, and for requests that leave the outer timer room | `OnlyLateHelpersRunAway`, `ShortTimeoutSuffices` |
| a private log directory is used (`tools_logdir`) | in every behaviour in which no two commands judge it at once and no inode number of a refused object returns | `OverlapIsTheOnlyRefusal` |
| a stop ends the child (`pty_stop`) | for launched sessions: by `LateStopsStand` the request stands, by LateStopEnds (TLC) it is served | `LateStopsStand` |

The hypotheses `[]~Racing`, `[]OneAtATime` and `[]ClosesAlone` are about the behaviour,
not the constants: the first is met by every behaviour in which no danger is being
signalled while an unlock ends, the others by every behaviour with one call at a
time, and by many with more.

Only model-checked: liveness (FirstDangerIsSignalled, OverrunIsCancelled,
LateStopEnds, RequestsSettle, the fair half of ImplementsLatch), which is beyond
the prover.  The assumptions are those the modules name: the
constants' types, that `None` and the reserved names are not calls, and
`DrainAssumption`.

## Not modelled, and why

See `components`.  Image capture, HTTP and rendering are I/O; URDF and kinematics
are numerics; command lines, parsing and result shaping are conversions of data
no property needs.  The startup report of bundle versions has no state.

Some hazards were read in the code and are beyond these modules; no property
speaks of them:

- `safety/src/tools.ts:238`: an unlock is not bound to the lock the human saw.
- `safety_monitor:207`: a topic's activity is stamped with the start of the scan;
  the scan shares the default callback group with the tick although the comment
  at line 185 says it never blocks it (`SilenceIsReported` counts that delay).
- `safety_core.py:349`: `_cmd` never expires after the command stream ended.
- `moveit/src/tools.ts:474`: two concurrent calls may execute on one robot.
- `moveit/src/index.ts:42`: the configured safetyStrict is not passed on.
- `core/src/tools.ts:848`: jobs start by `spawnJob` without the setup files that
  `runCommand` sources for every other command; the note of the log fallback is
  shown once.
- `core/src/gui.ts:511`: a drag may last longer than the timeout of its command.
- two safety monitors may run for one robot, and a killed recording reports
  that it recorded.

## Plan

What is above is done.  Next, in this order:

1. An abstract life of a PTY session as its caller sees it (started, running, ended
   once, output read in order), with PtySession shown to implement it where no stop
   is early and no mark is torn.
2. The same for the tools: a call that asks, is answered and acts, implemented by
   ToolCalls and by GuiManager's gates.
3. SafetyCheckers: the topic watchdog and the stall check.
4. Robot profiles: the read, change and write of one YAML file by several
   helpers without a lock (`robot_profile.py:537`).
5. spawnJob's output cap, the vision bringup manager's restart of its
   processes.
6. Pure operators against reference definitions: byte caps, shell words, the
   report of bundle versions.
