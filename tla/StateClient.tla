---------------------------- MODULE StateClient ----------------------------
(***************************************************************************)
(* The state client of dsh-ros2-state and the sidecar it reads from: one   *)
(* Unix socket, requests told apart by an id, a timer each, and a cache    *)
(* the sidecar keeps fresh.  The client opens one connection in its life   *)
(* (ensure keeps the socket once made); the sidecar may die and come back. *)
(* One unit of time is a fraction of the request timeout, far longer than  *)
(* a turn of the event loop: a due timer fires before time passes.         *)
(***************************************************************************)
EXTENDS Integers, Sequences, FiniteSets

CONSTANTS
  Names,        \* the reducers registered in the sidecar
  Ttl,          \* of every reducer, 0 when its entries do not expire
  Timeouts,     \* the timeoutMs of a request
  Inodes,       \* what may lie at the socket path before the sidecar starts
  MaxRequests,  \* bound: requests
  MaxTime,      \* bound: the clock
  MaxStarts     \* bound: starts of the sidecar

ASSUME TimeAssumption ==
  Ttl \in Nat /\ MaxTime \in Nat /\ Timeouts \subseteq Nat \ {0}
ASSUME RequestAssumption == MaxRequests \in Nat /\ MaxStarts \in Nat

VARIABLES
  now,      \* the host's clock, shared by both processes
  sidecar,  \* "down" or "up"
  starts,   \* history, for the bound
  inode,    \* what lies at the socket path
  cache,    \* the stamp of each reducer's entry, or NoEntry
  sock,     \* the client's socket
  sent,     \* requests on their way to the sidecar
  frames,   \* answers on their way to the client
  made,     \* nextId - 1
  req,      \* each request, by id
  closed    \* the plugin was disposed

peerVars == <<sidecar, starts, inode, cache>>
clientVars == <<made, req, closed>>
vars == <<now, peerVars, sock, sent, frames, clientVars>>

NoEntry == -1
Ids == 1..MaxRequests
Kinds == {"get", "snapshot", "subscribe"}
Replies == {"ok", "STALE", "UNKNOWN", "NO_EVENTS"}
Failures == {"refused", "DOWN", "TIMEOUT"}
Dirs == {"private", "sticky", "shared", "symlink"}
InodeKinds == {"none", "socket", "symlink", "file", "directory"}
InodeType == [kind : InodeKinds, own : BOOLEAN, open : BOOLEAN, dir : Dirs]
ASSUME InodeAssumption == Inodes \subseteq InodeType

Stamps == (0..MaxTime) \cup {NoEntry}
Entries == UNION {[S -> 0..MaxTime] : S \in SUBSET Names}
Frames == [id : Ids, code : Replies, data : Entries]
Nothing == [n \in {} |-> 0]
Unmade == [st |-> "unmade", kind |-> "get", name |-> {}, at |-> 0,
           timeout |-> 0, data |-> Nothing, done |-> 0]
----------------------------------------------------------------------------
(* checkLocalSocketPeer: the client connects only to a socket of its own.  *)
Proven(i) ==
  i.kind = "socket" /\ i.own /\ ~i.open /\ i.dir \in {"private", "sticky"}

(* Mutant of MayBind: any directory will do.                               *)
MayBindAnywhere(i) ==
  i.kind \in {"none", "symlink"} \/ (i.kind \in {"socket", "file"} /\ i.own)

(* judge_bind_dir and prepare_socket_path: where the sidecar may bind, and *)
(* what it may remove to do so.                                            *)
MayBind(i) ==
  /\ i.dir \in {"private", "sticky"}
  /\ \/ i.kind \in {"none", "symlink"}
     \/ i.kind \in {"socket", "file"} /\ i.own

(* serve, after bind and chmod 0600.                                       *)
Bound(i) == [kind |-> "socket", own |-> TRUE, open |-> FALSE, dir |-> i.dir]

Init ==
  /\ now = 0
  /\ sidecar = "down" /\ starts = 0
  /\ inode \in Inodes
  /\ cache = [n \in Names |-> NoEntry]
  /\ sock = "null"
  /\ sent = <<>> /\ frames = <<>>
  /\ made = 0 /\ req = [r \in Ids |-> Unmade]
  /\ closed = FALSE

Pending == {r \in Ids : req[r].st = "pending"}
Due(r) == req[r].at + req[r].timeout

(* rejectAll: every pending request ends.                                  *)
RejectAll ==
  [r \in Ids |-> IF r \in Pending THEN [req[r] EXCEPT !.st = "DOWN"]
                             ELSE req[r]]
----------------------------------------------------------------------------
(* The sidecar.                                                            *)

(* serve: the cache of a new process is empty.                             *)
SidecarStart ==
  /\ sidecar = "down" /\ starts < MaxStarts /\ MayBind(inode)
  /\ sidecar' = "up" /\ starts' = starts + 1
  /\ inode' = Bound(inode)
  /\ cache' = [n \in Names |-> NoEntry]
  /\ UNCHANGED <<now, sock, sent, frames, clientVars>>

(* It leaves its socket behind; what it has not read is lost, what it has  *)
(* answered may still be in the client's buffer.                           *)
SidecarDies ==
  /\ sidecar = "up" /\ sidecar' = "down"
  /\ sock' = IF sock = "live" THEN "broken" ELSE sock
  /\ sent' = IF sock = "live" THEN <<>> ELSE sent
  /\ UNCHANGED <<now, starts, inode, cache, frames, clientVars>>

(* Reducer.update: a message of the topic was reduced.                     *)
Update(n) ==
  /\ sidecar = "up" /\ cache[n] # now
  /\ cache' = [cache EXCEPT ![n] = now]
  /\ UNCHANGED <<now, sidecar, starts, inode, sock, sent, frames,
                 clientVars>>

IsFresh(stamp) == Ttl = 0 \/ now - stamp <= Ttl

(* Mutant of Known: reducers without an entry are summed up too.           *)
KnownAll == Names

Known == {n \in Names : cache[n] # NoEntry}

Answer(r, code, S) ==
  [id |-> r, code |-> code, data |-> [n \in S |-> cache[n]]]

(* Mutant of Dispatch: whatever is cached is answered.                     *)
DispatchAny(r) ==
  IF req[r].kind = "get" /\ req[r].name \subseteq Known
  THEN Answer(r, "ok", req[r].name)
  ELSE Answer(r, "UNKNOWN", {})

(* UdsServer._dispatch.  Nothing pushes events in this sidecar.            *)
Dispatch(r) ==
  CASE req[r].kind = "snapshot" -> Answer(r, "ok", Known)
    [] req[r].kind = "subscribe" -> Answer(r, "NO_EVENTS", {})
    [] req[r].kind = "get" /\ ~(req[r].name \subseteq Known) ->
         Answer(r, "UNKNOWN", {})
    [] req[r].kind = "get" /\ req[r].name \subseteq Known ->
         IF \A n \in req[r].name : IsFresh(cache[n])
         THEN Answer(r, "ok", req[r].name)
         ELSE Answer(r, "STALE", {})

(* Mutant of Serve: a thread per request.                                  *)
ServeInAnyOrder ==
  /\ sock = "live"
  /\ \E i \in 1..Len(sent) :
       /\ sent' = [j \in 1..Len(sent) - 1 |-> sent[IF j < i THEN j ELSE j + 1]]
       /\ frames' = Append(frames, Dispatch(sent[i]))
  /\ UNCHANGED <<now, peerVars, sock, clientVars>>

(* UdsServer._handle: one thread per connection answers in order.          *)
Serve ==
  /\ sock = "live" /\ sent # <<>>
  /\ sent' = Tail(sent)
  /\ frames' = Append(frames, Dispatch(Head(sent)))
  /\ UNCHANGED <<now, peerVars, sock, clientVars>>
----------------------------------------------------------------------------
(* The client.                                                             *)

(* ensure: a socket once made is used for ever, and one that is closed     *)
(* takes the write and sends nothing.  connect() succeeds or fails at      *)
(* once; the client hears of a failure later, as a 'close'.                *)
Refuses == sock = "null" /\ ~Proven(inode)

(* Mutant of Connect: the socket is kept before it is judged.              *)
ConnectKeepsRefused == IF ~Refuses /\ sidecar = "up" THEN "live" ELSE "broken"

Connect == IF Refuses THEN "null"
           ELSE IF sidecar = "up" THEN "live" ELSE "broken"
Reaches == (IF sock = "null" THEN Connect ELSE sock) = "live"

(* request: the timer, then the connection, then the write.                *)
Request(kind, S, timeout) ==
  LET r == made + 1 IN
  /\ r \in Ids /\ ~closed /\ now + timeout <= MaxTime
  /\ made' = r
  /\ req' = [req EXCEPT ![r] =
               [st |-> IF Refuses THEN "refused" ELSE "pending",
                kind |-> kind, name |-> S, at |-> now, timeout |-> timeout,
                data |-> Nothing, done |-> 0]]
  /\ sock' = IF sock = "null" THEN Connect ELSE sock
  /\ sent' = IF Reaches THEN Append(sent, r) ELSE sent

Get(n, timeout) ==
  /\ Request("get", {n}, timeout)
  /\ UNCHANGED <<now, peerVars, frames, closed>>

Snapshot(timeout) ==
  /\ Request("snapshot", {}, timeout)
  /\ UNCHANGED <<now, peerVars, frames, closed>>

(* subscribe: this sidecar has nothing to push and says so; the callback   *)
(* that subscribe registers all the same is never called, so left out.     *)
Subscribe(n, timeout) ==
  /\ Request("subscribe", {n}, timeout)
  /\ UNCHANGED <<now, peerVars, frames, closed>>

(* 'error' and 'close': connection refused, or the sidecar is gone.  The   *)
(* socket stays in the client.                                             *)
Closes ==
  /\ sock = "broken" /\ frames = <<>>
  /\ sock' = "dead"
  /\ req' = RejectAll
  /\ UNCHANGED <<now, peerVars, sent, frames, made, closed>>

(* Mutant of Deliver: an answer is taken whether or not one is awaited.    *)
DeliverLate ==
  /\ frames # <<>> /\ sock \in {"live", "broken"}
  /\ frames' = Tail(frames)
  /\ req' = [req EXCEPT ![Head(frames).id].st = Head(frames).code,
                        ![Head(frames).id].data = Head(frames).data,
                        ![Head(frames).id].done = now]
  /\ UNCHANGED <<now, peerVars, sock, sent, made, closed>>

(* onData and handleFrame: an answer nobody waits for is dropped.          *)
Deliver ==
  LET f == Head(frames) IN
  /\ frames # <<>> /\ sock \in {"live", "broken"}
  /\ frames' = Tail(frames)
  /\ req' = IF f.id \in Pending
            THEN [req EXCEPT ![f.id].st = f.code, ![f.id].data = f.data,
                             ![f.id].done = now]
            ELSE req
  /\ UNCHANGED <<now, peerVars, sock, sent, made, closed>>

(* Mutant of Timeout: the timer belongs to the connection.                 *)
TimeoutIfLive(r) ==
  /\ r \in Pending /\ now = Due(r) /\ sock = "live"
  /\ req' = [req EXCEPT ![r].st = "TIMEOUT"]
  /\ UNCHANGED <<now, peerVars, sock, sent, frames, made, closed>>

Timeout(r) ==
  /\ r \in Pending /\ now = Due(r)
  /\ req' = [req EXCEPT ![r].st = "TIMEOUT"]
  /\ UNCHANGED <<now, peerVars, sock, sent, frames, made, closed>>

(* close, when the plugin is disposed.                                     *)
Close ==
  /\ ~closed /\ closed' = TRUE
  /\ req' = RejectAll
  /\ sock' = "destroyed" /\ sent' = <<>> /\ frames' = <<>>
  /\ UNCHANGED <<now, peerVars, made>>

Tick ==
  /\ now < MaxTime /\ \A r \in Pending : now < Due(r)
  /\ now' = now + 1
  /\ UNCHANGED <<peerVars, sock, sent, frames, clientVars>>

Next ==
  \/ SidecarStart \/ SidecarDies \/ Serve
  \/ \E n \in Names : Update(n)
  \/ \E n \in Names, t \in Timeouts : Get(n, t) \/ Subscribe(n, t)
  \/ \E t \in Timeouts : Snapshot(t)
  \/ \E r \in Ids : Timeout(r)
  \/ Closes \/ Deliver \/ Close \/ Tick

Spec == Init /\ [][Next]_vars

(* A timer set is served by the event loop, and time passes.               *)
Fairness == WF_vars(Tick) /\ \A r \in Ids : WF_vars(Timeout(r))
FairSpec == Spec /\ Fairness
----------------------------------------------------------------------------
RequestType ==
  [st : {"unmade", "pending"} \cup Failures \cup Replies, kind : Kinds,
   name : SUBSET Names, at : Nat, timeout : Nat, data : Entries, done : Nat]

(* The type of every variable of StateClient.                              *)
StateTypeOK ==
  /\ now \in 0..MaxTime
  /\ sidecar \in {"down", "up"} /\ starts \in 0..MaxStarts
  /\ inode \in InodeType /\ cache \in [Names -> Stamps]
  /\ sock \in {"null", "live", "broken", "dead", "destroyed"}
  /\ sent \in Seq(Ids) /\ frames \in Seq(Frames)
  /\ made \in 0..MaxRequests /\ req \in [Ids -> RequestType]
  /\ closed \in BOOLEAN

(* state_get: what it returns is the entry asked for, fresh at some        *)
(* instant of the call, and no older than its lifetime and the timeout     *)
(* together when it is handed to the model, although answers are late,     *)
(* requests time out and the sidecar restarts.                             *)
FreshAnswers ==
  \A r \in Ids :
    LET q == req[r] IN
    q.kind = "get" /\ q.st = "ok" =>
      /\ DOMAIN q.data = q.name
      /\ Ttl # 0 => \A n \in q.name : /\ q.data[n] >= q.at - Ttl
                                      /\ q.done - q.data[n] <= Ttl + q.timeout

(* What the model reads never goes back in time: a later request, get or   *)
(* snapshot, has no older entry of a reducer than an earlier one.          *)
ReadsInOrder ==
  \A r, q \in Ids :
    r < q /\ req[r].st = "ok" /\ req[q].st = "ok" =>
      \A n \in DOMAIN req[r].data \cap DOMAIN req[q].data :
        req[r].data[n] <= req[q].data[n]

(* The two halves of the ownership criterion agree: where the sidecar      *)
(* listens, the client connects (checkLocalSocketPeer, judge_bind_dir).    *)
HalvesAgree == sidecar = "up" => Proven(inode)

(* A promise settles once: neither an answer after the timeout nor the end *)
(* of the connection changes what a request was told.                      *)
SettlesOnce ==
  [][\A r \in Ids : req[r].st \notin {"unmade", "pending"} =>
                      req'[r] = req[r]]_vars

(* A request q as its caller sees it: once a frame of F answers it, it has *)
(* read.                                                                   *)
FramesOf(r) ==
  {frames[i] : i \in {j \in 1..Len(frames) : frames[j].id = r}}

Stage(q, F) ==
  CASE q.st = "unmade" -> "unasked"
    [] q.st = "pending" -> IF F = {} THEN "asked" ELSE "read"
    [] q.st \in Replies -> "told"
    [] q.st \in Failures -> "failed"

Found(q, F) ==
  IF Stage(q, F) = "read" THEN CHOOSE f \in F : TRUE
  ELSE [code |-> q.st,
        data |-> IF q.st \in Replies THEN q.data ELSE Nothing]

AsSeen(q, F) ==
  [stage |-> Stage(q, F), kind |-> q.kind, name |-> q.name,
   due |-> q.at + q.timeout, ok |-> Found(q, F).code = "ok",
   data |-> Found(q, F).data]

Calls == [r \in Ids |-> AsSeen(req[r], FramesOf(r))]

Reads == INSTANCE StateReads
  WITH Requests <- Ids, Horizon <- MaxTime, clock <- now, entry <- cache,
       call <- Calls

(* A caller may take the client for a cache read in one instant of its     *)
(* call, in the order of the calls: neither an answer after the timeout,   *)
(* nor a lost connection, nor a restart changes what a request was told,   *)
(* when it ends, or what it read.                                          *)
ImplementsReads == Reads!ReadsSpec

(* A refused path is no verdict for ever: the first request made when the  *)
(* sidecar listens reaches it, however many were refused before.           *)
RefusalIsNotSticky ==
  [][/\ made' > made /\ sidecar = "up"
     /\ \A r \in Ids : req[r].st \in {"unmade", "refused"}
     => sent' = Append(sent, made')]_vars

(* No tool call waits for ever, whatever becomes of the sidecar.           *)
RequestsSettle == \A r \in Ids : req[r].st = "pending" ~> req[r].st # "pending"
============================================================================
