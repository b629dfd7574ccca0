----------------------------- MODULE GuiManager -----------------------------
(***************************************************************************)
(* The GUI tools of dsh-ros2-core: applications started and closed by      *)
(* label, input sent to windows, screenshots.  Every await of a handler    *)
(* ends a step: other tool calls, the applications, the user at the desk   *)
(* and the file system move in between.  Calls is the set of calls in      *)
(* flight at once; a slot whose call is done takes the next one.           *)
(***************************************************************************)
EXTENDS Integers, Sequences, FiniteSets, SequencesExt

CONSTANTS
  Calls,      \* slots of tool calls in flight
  Labels,     \* session labels
  Foreign,    \* windows that no session opened
  Allowed,    \* those of them whose title is on the allowlist
  Spaced,     \* windows whose title holds the pattern with its spaces
  MaxStarts,  \* bound: applications started
  MaxMoves,   \* bound: changes of the desk or of the files by others
  GracePolls, \* graceMs / 200: looks at the group before SIGKILL
  None

ASSUME AllowedAssumption ==
  Allowed \subseteq Foreign /\ Foreign \cap (1..MaxStarts) = {}
ASSUME BoundAssumption ==
  MaxStarts \in Nat /\ MaxMoves \in Nat /\ GracePolls \in Nat
ASSUME NoneAssumption ==
  None \notin Labels \cup Foreign \cup (1..MaxStarts)

VARIABLES
  sessions, \* label -> pid, the Map of GuiManager
  home,     \* pid -> the label it was started under, a history
  group,    \* pid -> its process group
  desk,     \* the windows, in the order wmctrl lists them
  focus,    \* the window that receives input
  dirMade,  \* the capture directory exists
  dest,     \* what lies at each output path
  parent,   \* where the directory of each output path really lies
  moves,    \* history, for the bound
  raced,    \* history: labels two closes of which were in flight at once
  call      \* the tool calls

procVars == <<sessions, home, group>>
deskVars == <<desk, focus>>
fileVars == <<dirMade, dest, parent>>
vars == <<procVars, deskVars, fileVars, moves, raced, call>>

Pids == 1..MaxStarts
Windows == Pids \cup Foreign
Paths == {"inside", "outside"}   \* the capture directory, as they are spelt
Places == {"inside", "outside", "gone"}
Files == {"plain", "odd"}        \* nothing or a file of one name; a link...
Patterns == {"absent", "app", "any"}
Actions == {"pointer", "key"}    \* click and drag, and key

(* Histories of a call: quiet, nobody moved the focus since an unasked     *)
(* input was classified, or touched the files since an image's second look *)
(* at them; settled, nobody moved a directory since an image was let       *)
(* through without a question.                                             *)
Idle == [tool |-> "none", pc |-> "done", label |-> None, pattern |-> "absent",
         padded |-> FALSE, action |-> "key", pid |-> None, left |-> 0,
         known |-> {}, killed |-> None, window |-> None, landed |-> None,
         path |-> "inside", full |-> FALSE, wrote |-> "nothing",
         into |-> "gone", granted |-> FALSE, quiet |-> TRUE,
         settled |-> TRUE, result |-> "ok"]

Done(r, result) ==
  IF result = "ok"
    THEN [r EXCEPT !.pc = "done", !.left = 0, !.pattern = "absent",
                   !.path = "inside", !.full = FALSE]
  ELSE [Idle EXCEPT !.result = result]
At(c, tool, pc) == call[c].tool \in tool /\ call[c].pc = pc
Step(c, r) == call' = [call EXCEPT ![c] = r]
Started == {p \in Pids : group[p] # "unborn"}
Live == {p \in Pids : group[p] = "alive"}
Closing(l) == {c \in Calls : /\ call[c].tool = "close" /\ call[c].label = l
                             /\ call[c].pc \in {"grace", "kill"}}

(* A call that was let through without a question and is on its way.       *)
Unasked(c, tools) ==
  /\ call[c].tool \in tools /\ ~call[c].granted
  /\ call[c].pc \notin {"done", "ask"}

(* The desk changes under every such input.                                *)
Stirred ==
  [c \in Calls |-> IF Unasked(c, {"interact"})
                     THEN [call[c] EXCEPT !.quiet = FALSE] ELSE call[c]]

(* isAllowedWindowTitle: a session's own window carries its application.   *)
AllowedWindows == Pids \cup Allowed

(* findWindow: the first window listed whose title contains the pattern.   *)
Matching(pattern) == IF pattern = "app" THEN Pids ELSE Windows
FirstOf(set) ==
  LET first == {w \in set : \E i \in 1..Len(desk) :
                   /\ w = desk[i] /\ \A j \in 1..(i - 1) : desk[j] \notin set}
  IN  IF first = {} THEN None ELSE CHOOSE w \in first : TRUE
FindWindow(pattern) == FirstOf(Matching(pattern))

(* activateWindow looks for the title as the caller wrote it, spaces and   *)
(* all; a title of spaces only was none to classifyInteraction.            *)
FindRaw(pattern, padded) ==
  FirstOf(IF padded THEN Matching(pattern) \cap Spaced ELSE Matching(pattern))

Init ==
  /\ sessions = [l \in Labels |-> None]
  /\ home = [p \in Pids |-> None] /\ group = [p \in Pids |-> "unborn"]
  /\ desk \in {<<>>} \cup {<<w>> : w \in Foreign} /\ focus = None
  /\ dirMade \in BOOLEAN /\ dest = [p \in Paths |-> "plain"]
  /\ parent = [p \in Paths |-> IF p = "outside" THEN "outside"
                             ELSE IF dirMade THEN "inside" ELSE "gone"]
  /\ moves = 0 /\ raced = {}
  /\ call = [c \in Calls |-> Idle]
----------------------------------------------------------------------------
(* Sessions.                                                               *)

(* Mutant of CanStart: a label in use is taken over.                       *)
CanStartOver(l) == Started # Pids

(* start: a label in use is refused, whatever became of its application.   *)
CanStart(l) == sessions[l] = None /\ Started # Pids

(* The rest of start, one turn of the event loop: without a pid (the       *)
(* binary is missing) nothing is tracked.                                  *)
Spawn(l, p) ==
  /\ p \notin Started /\ \A q \in Pids : q < p => q \in Started
  /\ group' = [group EXCEPT ![p] = "alive"]
  /\ home' = [home EXCEPT ![p] = l]
  /\ sessions' = [sessions EXCEPT ![l] = p]

GuiStart(l) ==
  /\ CanStart(l) /\ \E p \in Pids : Spawn(l, p)
  /\ UNCHANGED <<deskVars, fileVars, moves, raced, call>>

(* close: SIGTERM to the group, then up to GracePolls looks.               *)
CloseBegin(c, l) ==
  /\ call[c] = Idle /\ sessions[l] # None
  /\ Step(c, [Idle EXCEPT !.tool = "close", !.label = l, !.pc = "grace",
                          !.pid = sessions[l], !.left = GracePolls,
                          !.known = Started])
  /\ raced' = IF Closing(l) = {} THEN raced ELSE raced \cup {l}
  /\ UNCHANGED <<procVars, deskVars, fileVars, moves>>

(* Mutant of ClosePoll: the deadline is not looked at.                     *)
ClosePollForever(c) ==
  /\ At(c, {"close"}, "grace")
  /\ Step(c, IF call[c].pid \notin Live THEN [call[c] EXCEPT !.pc = "kill"]
             ELSE [call[c] EXCEPT !.left = @ - 1])
  /\ UNCHANGED <<procVars, deskVars, fileVars, moves, raced>>

(* The wait ends with the group or at the deadline.                        *)
ClosePoll(c) ==
  /\ At(c, {"close"}, "grace")
  /\ LET r == call[c]
     IN  Step(c, IF r.left = 0 \/ r.pid \notin Live
                   THEN [r EXCEPT !.pc = "kill"]
                   ELSE [r EXCEPT !.left = @ - 1])
  /\ UNCHANGED <<procVars, deskVars, fileVars, moves, raced>>

(* Mutant of Doomed: the session is looked up again after the wait.        *)
DoomedByLabel(c) == {sessions[call[c].label]} \cap Live

(* Whom SIGKILL reaches: the group read from the session at the start.     *)
Doomed(c) == {call[c].pid} \cap Live

(* A window goes with the application that drew it.                        *)
Without(w) ==
  IF w \notin ToSet(desk) THEN desk
  ELSE RemoveAt(desk, CHOOSE i \in 1..Len(desk) : desk[i] = w)
Closes(w) ==
  /\ desk' = Without(w)
  /\ focus' = IF focus = w THEN None ELSE focus
Vanish(p) == group' = [group EXCEPT ![p] = "dead"] /\ Closes(p)

(* The end of close: the label is forgotten whatever it now stands for.    *)
CloseKill(c) ==
  /\ At(c, {"close"}, "kill")
  /\ \/ /\ Doomed(c) = {} /\ Step(c, Done(call[c], "ok"))
        /\ UNCHANGED <<group, deskVars>>
     \/ \E p \in Doomed(c) :
          /\ Vanish(p)
          /\ call' = [Stirred EXCEPT
                        ![c] = [Done(call[c], "ok") EXCEPT !.killed = p]]
  /\ sessions' = [sessions EXCEPT ![call[c].label] = None]
  /\ UNCHANGED <<home, fileVars, moves, raced>>
----------------------------------------------------------------------------
(* Input.                                                                  *)

(* Mutant of Confined: the title the caller asked for vouches.             *)
ConfinedByCaller(pattern) == pattern = "app" \/ FindWindow(pattern) # None

(* classifyInteraction: the window found decides, not the caller's words.  *)
Confined(pattern) ==
  pattern # "absent" /\ FindWindow(pattern) \in AllowedWindows

(* ros2_gui_interact: no window is an error, an allowed one goes ahead,    *)
(* anything else asks.  The title is trimmed to be classified.             *)
InteractBegin(c, pattern) ==
  /\ call[c] = Idle
  /\ LET r == [Idle EXCEPT !.tool = "interact", !.pattern = pattern]
     IN  Step(c,
           IF pattern # "absent" /\ FindWindow(pattern) = None
             THEN Done(r, "INTERACT_FAILED")
           ELSE IF Confined(pattern) THEN [r EXCEPT !.pc = "resolve"]
           ELSE [r EXCEPT !.pc = "ask"])
  /\ UNCHANGED <<procVars, deskVars, fileVars, moves, raced>>

(* click, drag, key: the action and the spaces around the title count from *)
(* here on.  Incomplete arguments are refused here, after the approval;    *)
(* activateWindow looks for the window again, untrimmed; a drag without a  *)
(* window reads the pointer first, and may fail to.                        *)
InteractResolve(c) ==
  /\ At(c, {"interact"}, "resolve")
  /\ \/ Step(c, Done(call[c], "INVALID_INPUT"))
     \/ \E padded \in BOOLEAN, action \in Actions :
          LET r == [call[c] EXCEPT !.padded = padded, !.action = action]
              w == FindRaw(r.pattern, padded)
          IN  Step(c, IF r.pattern = "absent" /\ ~padded
                        THEN [r EXCEPT !.pc = "send"]
                      ELSE IF w = None THEN Done(r, "INTERACT_FAILED")
                      ELSE [r EXCEPT !.pc = "activate", !.window = w])
  /\ UNCHANGED <<procVars, deskVars, fileVars, moves, raced>>

(* windowactivate, or windowfocus where the window manager rejects it.     *)
InteractActivate(c) ==
  /\ At(c, {"interact"}, "activate")
  /\ \/ /\ call[c].window \in ToSet(desk) /\ focus' = call[c].window
        /\ call' = [Stirred EXCEPT ![c] = [call[c] EXCEPT !.pc = "send"]]
     \/ /\ UNCHANGED focus
        /\ Step(c, Done(call[c], "INTERACT_FAILED"))
  /\ UNCHANGED <<procVars, desk, fileVars, moves, raced>>

(* One xdotool command.  Keys go to whatever has the focus; a click or a   *)
(* drag to whatever lies where the caller's coordinates point, inside the  *)
(* window that was activated or not, and that may take the focus.          *)
InteractSend(c) ==
  /\ At(c, {"interact"}, "send")
  /\ LET sent == Done(call[c], "ok")
     IN  \/ /\ Step(c, Done(call[c], "INTERACT_FAILED")) /\ UNCHANGED focus
         \/ /\ call[c].action = "key"
            /\ Step(c, [sent EXCEPT !.landed = focus]) /\ UNCHANGED focus
         \/ /\ call[c].action = "pointer"
            /\ \E w \in ToSet(desk) \cup {None} :
                 /\ focus' \in {focus, w}
                 /\ call' = [Stirred EXCEPT ![c] = [sent EXCEPT !.landed = w]]
  /\ UNCHANGED <<procVars, desk, fileVars, moves, raced>>
----------------------------------------------------------------------------
(* Screenshots.                                                            *)

(* assessCaptureOutput: "odd" is what no approval makes safe, a link, a    *)
(* directory, a file with other names.                                     *)
Assess(path) ==
  IF parent[path] = "gone" THEN "OUTPUT_PARENT_MISSING"
  ELSE IF dest[path] = "odd" THEN "OUTPUT_REFUSED" ELSE "ok"

(* Mutant of MustAsk: the path as it is spelt decides.                     *)
MustAskByName(path) == path = "outside"

(* gateCaptureOutput: a path outside the capture directory asks.  Where it *)
(* is, is where its directory really lies by now.                          *)
MustAsk(path) == parent[path] # "inside"

(* Where a call goes on that was let through.                              *)
PastGate(tool) == CASE tool = "interact" -> "resolve"
                    [] tool = "observe" -> "start"
                    [] OTHER -> "ensure"

(* ros2_screenshot and ros2_gui_observe decide the destination first; a    *)
(* bad name or extension is refused with the other arguments.              *)
CaptureBegin(c, tool, l, pattern, path) ==
  /\ call[c] = Idle
  /\ LET r == [Idle EXCEPT !.tool = tool, !.label = l, !.pattern = pattern,
                           !.path = path]
     IN  Step(c, IF Assess(path) # "ok" THEN Done(r, Assess(path))
                 ELSE [r EXCEPT !.pc = IF MustAsk(path) THEN "ask"
                                       ELSE PastGate(tool)])
  /\ UNCHANGED <<procVars, deskVars, fileVars, moves, raced>>

(* requestApproval: only "allowed-once" lets the call go on.               *)
Answer(c) ==
  /\ call[c].pc = "ask"
  /\ \/ Step(c, [call[c] EXCEPT
                   !.granted = TRUE, !.pc = PastGate(call[c].tool)])
     \/ Step(c, Done(call[c], "APPROVAL_DENIED"))
  /\ UNCHANGED <<procVars, deskVars, fileVars, moves, raced>>

(* ros2_gui_observe starts the application unless its label is tracked.    *)
ObserveStart(c) ==
  /\ At(c, {"observe"}, "start")
  /\ LET r == [call[c] EXCEPT !.pc = "ensure"]
     IN  \/ /\ CanStart(r.label) /\ \E p \in Pids : Spawn(r.label, p)
            /\ Step(c, r)
         \/ /\ sessions[r.label] = None
            /\ Step(c, Done(r, "START_FAILED")) /\ UNCHANGED procVars
         \/ /\ sessions[r.label] # None
            /\ Step(c, r) /\ UNCHANGED procVars
  /\ UNCHANGED <<deskVars, fileVars, moves, raced>>

(* A failed capture: ros2_gui_observe tries once more, the whole screen.   *)
Failed(r) == IF r.tool = "observe" /\ ~r.full
               THEN [r EXCEPT !.pc = "ensure", !.full = TRUE]
               ELSE Done(r, "CAPTURE_FAILED")

(* ensurePrivateRuntimeDir: a look, and a mkdir that fails when somebody   *)
(* else made the directory in between.                                     *)
EnsureDir(c) ==
  /\ At(c, {"observe", "screenshot"}, "ensure")
  /\ Step(c, [call[c] EXCEPT !.pc = IF dirMade THEN "assess" ELSE "mkdir"])
  /\ UNCHANGED <<procVars, deskVars, fileVars, moves, raced>>

MakeDir(c) ==
  /\ At(c, {"observe", "screenshot"}, "mkdir")
  /\ Step(c, IF dirMade THEN Failed(call[c])
             ELSE [call[c] EXCEPT !.pc = "assess"])
  /\ dirMade' = TRUE
  /\ parent' = [parent EXCEPT !["inside"] = IF dirMade THEN @ ELSE "inside"]
  /\ UNCHANGED <<procVars, deskVars, dest, moves, raced>>

(* capture looks at the destination again, and no longer cares whether it  *)
(* is inside.                                                              *)
Reassessed(path) == Assess(path) = "ok"

CaptureAssess(c) ==
  /\ At(c, {"observe", "screenshot"}, "assess")
  /\ Step(c, IF Reassessed(call[c].path)
               THEN [call[c] EXCEPT !.pc = "shoot", !.quiet = TRUE]
               ELSE Failed(call[c]))
  /\ UNCHANGED <<procVars, deskVars, fileVars, moves, raced>>

(* defaultScreenshot: the window, when one is asked for, must be there;    *)
(* the image is saved over whatever the path names by now.                 *)
CaptureShoot(c) ==
  /\ At(c, {"observe", "screenshot"}, "shoot")
  /\ LET r == call[c]
     IN  \/ /\ r.full \/ r.pattern = "absent" \/ FindWindow(r.pattern) # None
            /\ parent[r.path] # "gone"
            /\ Step(c, [Done(r, "ok") EXCEPT !.wrote = dest[r.path],
                                             !.into = parent[r.path]])
         \/ Step(c, Failed(r))
  /\ UNCHANGED <<procVars, deskVars, fileVars, moves, raced>>
----------------------------------------------------------------------------
(* The others.                                                             *)

(* An application maps its window, and exits: on its own, closed by the    *)
(* user, or on SIGTERM.  Its session stays.                                *)
WindowMaps(p) ==
  /\ group[p] = "alive" /\ p \notin ToSet(desk)
  /\ desk' = Append(desk, p) /\ focus' \in {focus, p}
  /\ call' = Stirred
  /\ UNCHANGED <<procVars, fileVars, moves, raced>>

Exit(p) ==
  /\ group[p] = "alive" /\ Vanish(p)
  /\ call' = Stirred
  /\ UNCHANGED <<sessions, home, fileVars, moves, raced>>

(* The user opens, closes or chooses another window.                       *)
DeskMoves ==
  /\ moves < MaxMoves /\ moves' = moves + 1
  /\ \/ \E w \in Foreign \ ToSet(desk) :
          desk' = Append(desk, w) /\ focus' = w
     \/ \E w \in Foreign \cap ToSet(desk) : Closes(w)
     \/ \E w \in ToSet(desk) \ {focus} : focus' = w /\ UNCHANGED desk
  /\ call' = Stirred
  /\ UNCHANGED <<procVars, fileVars, raced>>

(* Images on their way meet what others do to the files: quiet and settled *)
(* remember it.                                                            *)
Touched(r) ==
  IF r.tool \in {"observe", "screenshot"} /\ r.pc = "shoot"
    THEN [r EXCEPT !.quiet = FALSE] ELSE r
Unsettled(c) ==
  IF Unasked(c, {"observe", "screenshot"})
    THEN [call[c] EXCEPT !.settled = FALSE] ELSE call[c]

(* Another process touches an output path.                                 *)
FilesMove(path) ==
  /\ moves < MaxMoves /\ moves' = moves + 1
  /\ parent[path] # "gone"
  /\ \E f \in Files \ {dest[path]} : dest' = [dest EXCEPT ![path] = f]
  /\ call' = [c \in Calls |-> Touched(call[c])]
  /\ UNCHANGED <<procVars, deskVars, dirMade, parent, raced>>

(* Another process removes the directory of an output path, makes it, or   *)
(* puts a link to another one in its place.                                *)
DirsMove(path) ==
  /\ moves < MaxMoves /\ moves' = moves + 1
  /\ \E place \in Places \ {parent[path]}, f \in Files :
       /\ place = "inside" \/ path = "inside" => dirMade
       /\ place = "gone" => f = "plain"
       /\ parent' = [parent EXCEPT ![path] = place]
       /\ dest' = [dest EXCEPT ![path] = f]
  /\ call' = [c \in Calls |-> Touched(Unsettled(c))]
  /\ UNCHANGED <<procVars, deskVars, dirMade, raced>>
----------------------------------------------------------------------------
(* The agent has read a result; the slot is free again.                    *)
Return(c) ==
  /\ call[c].pc = "done" /\ call[c] # Idle
  /\ Step(c, Idle)
  /\ UNCHANGED <<procVars, deskVars, fileVars, moves, raced>>

CallBegins(c) ==
  \/ \E l \in Labels : CloseBegin(c, l)
  \/ \E pattern \in Patterns : InteractBegin(c, pattern)
  \/ \E pattern \in {"absent", "app"}, path \in Paths :
       CaptureBegin(c, "screenshot", None, pattern, path)
  \/ \E l \in Labels, path \in Paths :
       CaptureBegin(c, "observe", l, "app", path)

CallContinues(c) ==
  \/ ClosePoll(c) \/ CloseKill(c)
  \/ InteractResolve(c) \/ InteractActivate(c) \/ InteractSend(c)
  \/ ObserveStart(c) \/ EnsureDir(c) \/ MakeDir(c)
  \/ CaptureAssess(c) \/ CaptureShoot(c) \/ Return(c)

Others ==
  \/ \E l \in Labels : GuiStart(l)
  \/ \E p \in Pids : WindowMaps(p) \/ Exit(p)
  \/ DeskMoves
  \/ \E path \in Paths : FilesMove(path) \/ DirsMove(path)

Next ==
  \/ \E c \in Calls : CallBegins(c) \/ Answer(c) \/ CallContinues(c)
  \/ Others

Spec == Init /\ [][Next]_vars
----------------------------------------------------------------------------
CallType ==
  [tool : {"none", "close", "interact", "screenshot", "observe"},
   pc : {"done", "grace", "kill", "ask", "resolve", "activate", "send",
         "start", "ensure", "mkdir", "assess", "shoot"},
   label : Labels \cup {None}, pattern : Patterns, padded : BOOLEAN,
   action : Actions, pid : Pids \cup {None}, left : 0..GracePolls,
   known : SUBSET Pids, killed : Pids \cup {None}, window : Windows \cup {None},
   landed : Windows \cup {None}, path : Paths, full : BOOLEAN,
   wrote : Files \cup {"nothing"}, into : Places,
   granted : BOOLEAN, quiet : BOOLEAN, settled : BOOLEAN,
   result : {"ok", "INTERACT_FAILED", "INVALID_INPUT", "APPROVAL_DENIED",
             "START_FAILED", "CAPTURE_FAILED", "OUTPUT_PARENT_MISSING",
             "OUTPUT_REFUSED"}]

(* The type of every variable of GuiManager.                               *)
GuiTypeOK ==
  /\ sessions \in [Labels -> Pids \cup {None}]
  /\ home \in [Pids -> Labels \cup {None}]
  /\ group \in [Pids -> {"unborn", "alive", "dead"}]
  /\ desk \in Seq(Windows) /\ focus \in Windows \cup {None}
  /\ dirMade \in BOOLEAN
  /\ dest \in [Paths -> Files]
  /\ parent \in [Paths -> Places]
  /\ moves \in 0..MaxMoves /\ raced \subseteq Labels
  /\ call \in [Calls -> CallType]

(* "Sessions are tracked": an application that runs can be closed by the   *)
(* label it was started under, unless two closes of that label overlapped  *)
(* (the later one forgets whatever was started in between).                *)
LiveIsTracked ==
  \A p \in Live : sessions[home[p]] = p \/ home[p] \in raced

(* When close returns, the application it was called for is gone, and it   *)
(* killed none that was started after it was called.                       *)
ClosesItsOwn ==
  \A c \in Calls : call[c].tool = "close" /\ call[c].pc = "done" =>
    /\ group[call[c].pid] = "dead"
    /\ call[c].killed # None => call[c].killed \in call[c].known

(* Input nobody approved is sent to an allowlisted window, and keys reach  *)
(* no other, as long as neither the desk nor another input moves the focus *)
(* after the target was classified, and the title was written without      *)
(* spaces around it.                                                       *)
Sent(r) == r.tool = "interact" /\ r.pc = "done" /\ r.result = "ok"
InputIsConfined ==
  \A c \in Calls : LET r == call[c] IN
    Sent(r) /\ ~r.granted /\ r.quiet /\ ~r.padded =>
      /\ r.window \in AllowedWindows
      /\ r.action = "key" => r.landed = r.window

(* Where an image ends up decides whether it was asked about, however its  *)
(* path is spelt: an image that really lies outside the capture directory  *)
(* was approved, unless its directory was moved after the gate; and it is  *)
(* written over a link or another odd file only if that appeared after the *)
(* second look.                                                            *)
WritesAreGated ==
  \A c \in Calls : call[c].wrote # "nothing" =>
    /\ call[c].into = "outside" => call[c].granted \/ ~call[c].settled
    /\ call[c].wrote = "odd" => ~call[c].quiet
=============================================================================
