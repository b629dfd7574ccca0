------------------------- MODULE StateClientProofs -------------------------
(***************************************************************************)
(* What the state client hands out is fresh, whatever is late or lost: for *)
(* any reducers, lifetimes, timeouts and inodes.                           *)
(***************************************************************************)
EXTENDS StateClient, TLAPS

Made(r) == r <= made

(* A request made is never made again, and its timer has not passed.       *)
RequestInv ==
  /\ \A r \in Ids : /\ Made(r) <=> req[r].st # "unmade"
                    /\ req[r].at <= now
                    /\ req[r].st = "pending" => now <= Due(r)
  /\ \A n \in Names : cache[n] <= now

(* An entry on its way answers its own request and was fresh when it was   *)
(* read, which was after the request was made.                             *)
Honest(f, rs) ==
  f.code = "ok" /\ rs[f.id].kind = "get" =>
    /\ DOMAIN f.data = rs[f.id].name
    /\ Ttl # 0 => \A n \in rs[f.id].name : f.data[n] >= rs[f.id].at - Ttl

FrameInv ==
  /\ \A i \in 1..Len(sent) : Made(sent[i])
  /\ \A i \in 1..Len(frames) : Made(frames[i].id) /\ Honest(frames[i], req)

(* The client has a socket only once a request was not refused.            *)
SockInv ==
  /\ sock \in {"live", "broken", "dead"} =>
       \E r \in Ids : req[r].st \notin {"unmade", "refused"}
  /\ sock = "destroyed" => closed

IInv ==
  StateTypeOK /\ RequestInv /\ FrameInv /\ SockInv /\ HalvesAgree
  /\ FreshAnswers

LEMMA NothingIsEntries == Nothing \in Entries
<1>1. Nothing \in [{} -> 0..MaxTime]
  BY DEF Nothing
<1> QED
  BY <1>1 DEF Entries

LEMMA InitIInv == Init => IInv
<1> SUFFICES ASSUME Init PROVE IInv
  OBVIOUS
<1> USE DEF Init
<1>e. Nothing \in Entries
  BY NothingIsEntries
<1>u. Unmade \in RequestType
  BY <1>e DEF Unmade, RequestType, Kinds
<1>1. StateTypeOK
  <2>1. sent \in Seq(Ids) /\ frames \in Seq(Frames)
    OBVIOUS
  <2>2. inode \in InodeType
    BY InodeAssumption
  <2>3. cache \in [Names -> Stamps]
    BY DEF Stamps
  <2>4. req \in [Ids -> RequestType]
    BY <1>u
  <2>5. now \in 0..MaxTime /\ starts \in 0..MaxStarts /\ made \in 0..MaxRequests
    BY TimeAssumption, RequestAssumption
  <2> QED
    BY <2>1, <2>2, <2>3, <2>4, <2>5 DEF StateTypeOK
<1>2. RequestInv
  BY TimeAssumption, RequestAssumption
     DEF RequestInv, Unmade, NoEntry, Made, Ids, Due
<1>3. FrameInv /\ SockInv /\ HalvesAgree /\ FreshAnswers
  BY DEF FrameInv, SockInv, HalvesAgree, FreshAnswers, Unmade
<1> QED
  BY <1>1, <1>2, <1>3 DEF IInv
----------------------------------------------------------------------------
LEMMA TypeStep == ASSUME IInv, [Next]_vars PROVE StateTypeOK'
<1> USE TimeAssumption, RequestAssumption, InodeAssumption
        DEF IInv, StateTypeOK
<1>a. ASSUME NEW r \in Ids, NEW code \in Replies,
             NEW S \in SUBSET Known
      PROVE  Answer(r, code, S) \in Frames
  <2>1. [n \in S |-> cache[n]] \in [S -> 0..MaxTime]
    BY DEF Known, Stamps, NoEntry
  <2>2. S \in SUBSET Names
    BY DEF Known
  <2> QED
    BY <2>1, <2>2 DEF Answer, Frames, Entries
<1>b. Nothing \in Entries
  BY NothingIsEntries
<1>r. RejectAll \in [Ids -> RequestType]
  BY DEF RejectAll, RequestType, Failures, Replies
<1>m. ASSUME NEW kind \in Kinds, NEW S \in SUBSET Names,
             NEW t \in Timeouts, Request(kind, S, t)
      PROVE  made' \in 0..MaxRequests /\ req' \in [Ids -> RequestType]
             /\ sock' \in {"null", "live", "broken", "dead", "destroyed"}
             /\ sent' \in Seq(Ids)
  <2>1. made' \in 0..MaxRequests /\ made + 1 \in Ids
    BY <1>m DEF Request, Ids
  <2>2. req' \in [Ids -> RequestType]
    BY <1>m, <1>b, <2>1 DEF Request, RequestType, Failures, Replies
  <2>3. sock' \in {"null", "live", "broken", "dead", "destroyed"}
    BY <1>m DEF Request, Connect
  <2>4. sent' \in Seq(Ids)
    BY <1>m, <2>1 DEF Request
  <2> QED
    BY <2>1, <2>2, <2>3, <2>4
<1>1. CASE SidecarStart
  BY <1>1 DEF SidecarStart, clientVars, Bound, InodeType, InodeKinds, Stamps
<1>2. CASE SidecarDies
  BY <1>2 DEF SidecarDies, clientVars
<1>3. CASE Serve
  <2>1. Head(sent) \in Ids /\ Tail(sent) \in Seq(Ids)
    BY <1>3 DEF Serve
  <2>2. Dispatch(Head(sent)) \in Frames
    <3> DEFINE q == req[Head(sent)]
    <3>1. q.kind \in Kinds
      BY <2>1 DEF RequestType
    <3>2. CASE q.kind = "snapshot"
      BY <3>2, <2>1, <1>a DEF Dispatch, Replies
    <3>3. CASE q.kind = "subscribe"
      BY <3>3, <2>1, <1>a DEF Dispatch, Replies
    <3>4. CASE q.kind = "get"
      BY <3>4, <2>1, <1>a DEF Dispatch, Replies
    <3> QED
      BY <3>1, <3>2, <3>3, <3>4 DEF Kinds
  <2> QED
    BY <1>3, <2>1, <2>2 DEF Serve, peerVars, clientVars
<1>4. ASSUME NEW n \in Names, Update(n) PROVE StateTypeOK'
  BY <1>4 DEF Update, clientVars, Stamps
<1>5. ASSUME NEW n \in Names, NEW t \in Timeouts, Get(n, t) \/ Subscribe(n, t)
      PROVE  StateTypeOK'
  <2>1. Request("get", {n}, t) \/ Request("subscribe", {n}, t)
    BY <1>5 DEF Get, Subscribe
  <2> QED
    BY <1>5, <1>m, <2>1 DEF Get, Subscribe, peerVars, Kinds
<1>6. ASSUME NEW t \in Timeouts, Snapshot(t) PROVE StateTypeOK'
  <2>1. Request("snapshot", {}, t)
    BY <1>6 DEF Snapshot
  <2> QED
    BY <1>6, <1>m, <2>1 DEF Snapshot, peerVars, Kinds
<1>7. ASSUME NEW r \in Ids, Timeout(r) PROVE StateTypeOK'
  BY <1>7 DEF Timeout, peerVars, RequestType, Failures, Replies
<1>8. CASE Closes
  BY <1>8, <1>r DEF Closes, peerVars
<1>9. CASE Deliver
  <2>1. Head(frames) \in Frames /\ Tail(frames) \in Seq(Frames)
    BY <1>9 DEF Deliver
  <2>2. req' \in [Ids -> RequestType]
    <3> DEFINE f == Head(frames)
               q == [req[f.id] EXCEPT !.st = f.code, !.data = f.data,
                                      !.done = now]
    <3>1. /\ f.id \in Ids /\ f.code \in Replies
          /\ f.data \in Entries /\ now \in Nat
      BY <2>1 DEF Frames
    <3>2. req[f.id] \in RequestType
      BY <3>1
    <3>3. q \in RequestType
      BY <3>1, <3>2 DEF RequestType
    <3>4. req' = req \/ req' = [req EXCEPT ![f.id] = q]
      BY <1>9, <3>1 DEF Deliver, RequestType
    <3> HIDE DEF f, q
    <3> QED
      BY <3>1, <3>3, <3>4
  <2> QED
    BY <1>9, <2>1, <2>2 DEF Deliver, peerVars
<1>10. CASE Close
  BY <1>10, <1>r DEF Close, peerVars
<1>11. CASE Tick
  BY <1>11 DEF Tick, peerVars, clientVars
<1>12. CASE UNCHANGED vars
  BY <1>12 DEF vars, peerVars, clientVars
<1> QED
  BY <1>1, <1>2, <1>3, <1>4, <1>5, <1>6, <1>7, <1>8, <1>9, <1>10, <1>11,
     <1>12 DEF Next
----------------------------------------------------------------------------
(* The requests of the next state, seen one at a time.                     *)
LEMMA MakeRequest ==
  ASSUME IInv, NEW kind \in Kinds, NEW S \in SUBSET Names, NEW t \in Timeouts,
         Request(kind, S, t)
  PROVE  /\ made' = made + 1 /\ made + 1 \in Ids /\ ~closed
         /\ req'[made + 1].st = IF Refuses THEN "refused" ELSE "pending"
         /\ req'[made + 1].at = now /\ req'[made + 1].timeout = t
         /\ \A r \in Ids \ {made + 1} : req'[r] = req[r]
<1> USE DEF IInv, StateTypeOK
<1>1. made + 1 \in Ids /\ made' = made + 1 /\ ~closed
  BY DEF Request
<1>2. req' = [req EXCEPT ![made + 1] =
                [st |-> IF Refuses THEN "refused" ELSE "pending",
                 kind |-> kind, name |-> S, at |-> now, timeout |-> t,
                 data |-> Nothing, done |-> 0]]
  BY DEF Request
<1> QED
  BY <1>1, <1>2

(* How a request changes in a step that makes none.                        *)
Ended(r) ==
  \/ req'[r] = req[r]
  \/ /\ req[r].st = "pending"
     /\ \/ req'[r] = [req[r] EXCEPT !.st = "DOWN"]
        \/ req'[r] = [req[r] EXCEPT !.st = "TIMEOUT"]
        \/ \E f \in Frames :
             /\ frames # <<>> /\ f = Head(frames) /\ f.id = r
             /\ req'[r] = [req[r] EXCEPT !.st = f.code, !.data = f.data,
                                         !.done = now]

MakesRequest ==
  \E kind \in Kinds, S \in SUBSET Names, t \in Timeouts : Request(kind, S, t)

LEMMA StepKinds ==
  ASSUME IInv, [Next]_vars
  PROVE  \/ MakesRequest /\ UNCHANGED <<now, peerVars, frames, closed>>
         \/ made' = made /\ \A r \in Ids : Ended(r)
<1> USE DEF IInv, StateTypeOK
<1>1. ASSUME NEW n \in Names, NEW t \in Timeouts, Get(n, t) \/ Subscribe(n, t)
      PROVE  MakesRequest /\ UNCHANGED <<now, peerVars, frames, closed>>
  BY <1>1 DEF Get, Subscribe, MakesRequest, Kinds
<1>2. ASSUME NEW t \in Timeouts, Snapshot(t)
      PROVE  MakesRequest /\ UNCHANGED <<now, peerVars, frames, closed>>
  BY <1>2 DEF Snapshot, MakesRequest, Kinds
<1>3. ASSUME made' = made, req' = RejectAll PROVE \A r \in Ids : Ended(r)
  BY <1>3 DEF RejectAll, Ended, Pending
<1>4. CASE Closes \/ Close
  BY <1>3, <1>4 DEF Closes, Close
<1>5. ASSUME NEW r \in Ids, Timeout(r)
      PROVE  made' = made /\ \A q \in Ids : Ended(q)
  BY <1>5 DEF Timeout, Ended, Pending
<1>6. CASE Deliver
  <2> DEFINE f == Head(frames)
  <2>0. frames # <<>> /\ made' = made
    BY <1>6 DEF Deliver
  <2>a. f \in Frames
    BY <2>0
  <2>b. f.id \in Ids
    BY <2>a DEF Frames
  <2>1. frames # <<>> /\ f \in Frames /\ f.id \in Ids /\ made' = made
    BY <2>0, <2>a, <2>b
  <2>2. CASE f.id \in Pending
    <3>1. /\ req'[f.id] = [req[f.id] EXCEPT !.st = f.code, !.data = f.data,
                                            !.done = now]
          /\ \A r \in Ids \ {f.id} : req'[r] = req[r]
      BY <1>6, <2>1, <2>2 DEF Deliver, RequestType
    <3> HIDE DEF f
    <3> QED
      BY <2>1, <2>2, <3>1 DEF Ended, Pending, f
  <2>3. CASE f.id \notin Pending
    BY <1>6, <2>1, <2>3 DEF Deliver, Ended
  <2> QED
    BY <2>2, <2>3, <2>1
<1>7. CASE SidecarStart \/ SidecarDies \/ Serve \/ Tick \/ UNCHANGED vars
           \/ \E n \in Names : Update(n)
  BY <1>7 DEF SidecarStart, SidecarDies, Serve, Tick, Update, vars, clientVars,
              Ended
<1> QED
  BY <1>1, <1>2, <1>4, <1>5, <1>6, <1>7 DEF Next
----------------------------------------------------------------------------
LEMMA KeptRequest ==
  ASSUME IInv, NEW r \in Ids, Ended(r)
  PROVE  /\ req'[r].kind = req[r].kind /\ req'[r].name = req[r].name
         /\ req'[r].at = req[r].at /\ req'[r].timeout = req[r].timeout
         /\ req[r].st # "pending" => req'[r] = req[r]
         /\ req[r].st = "pending" => req'[r].st \notin {"unmade", "refused"}
<1>1. req[r] \in RequestType
  BY DEF IInv, StateTypeOK
<1> QED
  BY <1>1 DEF Ended, RequestType, Frames, Replies

(* The clock moves past no timer, and stamps are never ahead of it.        *)
LEMMA ClockStep ==
  ASSUME IInv, [Next]_vars
  PROVE  /\ now \in Nat /\ now' \in Nat /\ now' >= now
         /\ \A r \in Ids : req[r].st = "pending" => now' <= Due(r)
         /\ \A n \in Names : cache'[n] <= now'
<1> USE TimeAssumption
<1>1. /\ now \in Nat /\ cache \in [Names -> Stamps]
      /\ \A r \in Ids : req[r].st = "pending" => now <= Due(r)
      /\ \A n \in Names : cache[n] <= now
  BY DEF IInv, StateTypeOK, RequestInv
<1>2. \A r \in Ids : Due(r) \in Nat
  BY DEF IInv, StateTypeOK, RequestType, Due
<1>3. CASE Tick
  <2>1. now' = now + 1 /\ cache' = cache /\ \A r \in Pending : now < Due(r)
    BY <1>3 DEF Tick, peerVars
  <2> QED
    BY <1>1, <1>2, <2>1 DEF Pending, Stamps, NoEntry
<1>4. CASE ~Tick
  <2>1. now' = now
    BY <1>4 DEF Next, vars, SidecarStart, SidecarDies, Serve, Update, Get,
       Subscribe, Snapshot, Timeout, Closes, Deliver, Close
  <2>2. \/ cache' = cache
        \/ cache' = [n \in Names |-> NoEntry]
        \/ \E n \in Names : cache' = [cache EXCEPT ![n] = now]
    BY <1>4 DEF Next, vars, peerVars, SidecarStart, SidecarDies, Serve,
       Update, Get, Subscribe, Snapshot, Timeout, Closes, Deliver, Close
  <2>3. \A n \in Names : cache'[n] <= now
    BY <1>1, <2>2 DEF NoEntry
  <2> QED
    BY <1>1, <2>1, <2>3
<1> QED
  BY <1>3, <1>4

LEMMA RequestStep == ASSUME IInv, [Next]_vars PROVE RequestInv'
<1>r. \A r \in Ids : /\ req[r] \in RequestType /\ r \in Nat
                     /\ r <= made <=> req[r].st # "unmade"
                     /\ req[r].at <= now
  BY DEF IInv, StateTypeOK, RequestInv, Ids, Made
<1>m. made \in Nat
  BY RequestAssumption DEF IInv, StateTypeOK
<1>t. /\ now \in Nat /\ now' \in Nat /\ now' >= now
      /\ \A r \in Ids : req[r].st = "pending" => now' <= Due(r)
      /\ \A n \in Names : cache'[n] <= now'
  BY ClockStep
<1>1. ASSUME NEW kind \in Kinds, NEW S \in SUBSET Names, NEW t \in Timeouts,
             Request(kind, S, t), now' = now
      PROVE  RequestInv'
  <2>1. /\ made' = made + 1 /\ made + 1 \in Ids
        /\ req'[made + 1].at = now /\ req'[made + 1].timeout = t
        /\ req'[made + 1].st \in {"refused", "pending"}
        /\ \A r \in Ids \ {made + 1} : req'[r] = req[r]
    BY <1>1, MakeRequest
  <2>2. t \in Nat
    BY TimeAssumption
  <2>3. ASSUME NEW r \in Ids
        PROVE  /\ r <= made' <=> req'[r].st # "unmade"
               /\ req'[r].at <= now'
               /\ req'[r].st = "pending" => now' <= req'[r].at + req'[r].timeout
    <3>1. CASE r = made + 1
      BY <3>1, <2>1, <2>2, <1>1, <1>m, <1>t
    <3>2. CASE r # made + 1
      BY <3>2, <2>1, <1>1, <1>m, <1>t, <1>r DEF Due
    <3> QED
      BY <3>1, <3>2
  <2> QED
    BY <2>3, <1>t DEF RequestInv, Made, Due
<1>2. CASE made' = made /\ \A r \in Ids : Ended(r)
  <2>1. ASSUME NEW r \in Ids
        PROVE  /\ req'[r].at = req[r].at /\ req'[r].timeout = req[r].timeout
               /\ req'[r].st = "pending" => req[r].st = "pending"
               /\ req'[r].st = "unmade" <=> req[r].st = "unmade"
    <3>1. Ended(r)
      BY <1>2
    <3> QED
      BY <3>1, KeptRequest
  <2> QED
    BY <1>2, <1>t, <1>r, <2>1 DEF RequestType, RequestInv, Made, Due
<1> QED
  BY <1>1, <1>2, StepKinds DEF MakesRequest

LEMMA SockStep == ASSUME IInv, [Next]_vars PROVE SockInv'
<1> USE DEF IInv, StateTypeOK, SockInv
<1>m. made \in Nat
  BY RequestAssumption
<1>1. ASSUME NEW kind \in Kinds, NEW S \in SUBSET Names, NEW t \in Timeouts,
             Request(kind, S, t), closed' = closed
      PROVE  SockInv'
  <2>1. /\ made + 1 \in Ids
        /\ req'[made + 1].st = IF Refuses THEN "refused" ELSE "pending"
        /\ \A r \in Ids \ {made + 1} : req'[r] = req[r]
    BY <1>1, MakeRequest
  <2>2. req[made + 1].st = "unmade"
    BY <2>1, <1>m DEF RequestInv, Made
  <2>3. sock' = IF sock = "null" THEN Connect ELSE sock
    BY <1>1 DEF Request
  <2> QED
    BY <1>1, <2>1, <2>2, <2>3 DEF Connect, Refuses
<1>2. CASE made' = made /\ \A r \in Ids : Ended(r)
  <2>1. \A r \in Ids : req[r].st \notin {"unmade", "refused"} =>
                         req'[r].st \notin {"unmade", "refused"}
    BY <1>2, KeptRequest
  <2>a. MakesRequest => made' = made + 1
    BY DEF MakesRequest, Request
  <2>2. ~MakesRequest
    BY <1>2, <1>m, <2>a
  <2>3. /\ sock' \in {"live", "broken", "dead"} =>
             sock \in {"live", "broken", "dead"}
        /\ sock' = "destroyed" => sock = "destroyed" \/ closed'
        /\ closed => closed'
    BY <2>2 DEF Next, vars, peerVars, clientVars, SidecarStart, SidecarDies,
       Serve, Update, Get, Subscribe, Snapshot, Timeout, Closes, Deliver,
       Close, Tick, MakesRequest, Kinds
  <2> QED
    BY <2>1, <2>3
<1> QED
  BY <1>1, <1>2, StepKinds DEF MakesRequest

LEMMA HalvesStep == ASSUME IInv, [Next]_vars PROVE HalvesAgree'
<1> USE DEF IInv, StateTypeOK, HalvesAgree
<1>1. CASE SidecarStart
  BY <1>1 DEF SidecarStart, Bound, MayBind, Proven
<1>2. CASE ~SidecarStart
  <2>1. inode' = inode /\ (sidecar' = "up" => sidecar = "up")
    BY <1>2 DEF Next, vars, peerVars, SidecarDies, Serve, Update, Get,
       Subscribe, Snapshot, Timeout, Closes, Deliver, Close, Tick
  <2> QED
    BY <2>1 DEF Proven
<1> QED
  BY <1>1, <1>2

(* What a get answers is fresh when it is read.                            *)
LEMMA DispatchHonest ==
  ASSUME IInv, NEW r \in Ids, r <= made
  PROVE  Dispatch(r).id = r /\ Honest(Dispatch(r), req)
<1> USE TimeAssumption DEF IInv, StateTypeOK, RequestInv
<1>1. req[r] \in RequestType /\ req[r].at <= now
  OBVIOUS
<1>2. CASE req[r].kind = "get" /\ req[r].name \subseteq Known
           /\ \A n \in req[r].name : IsFresh(cache[n])
  <2>1. Dispatch(r) = Answer(r, "ok", req[r].name)
    BY <1>2 DEF Dispatch
  <2>2. Ttl # 0 => \A n \in req[r].name : cache[n] >= req[r].at - Ttl
    BY <1>1, <1>2 DEF IsFresh, Known, Stamps, NoEntry, RequestType
  <2> QED
    BY <2>1, <2>2 DEF Answer, Honest
<1>3. CASE req[r].kind = "get" /\ ~(req[r].name \subseteq Known
           /\ \A n \in req[r].name : IsFresh(cache[n]))
  BY <1>3 DEF Dispatch, Answer, Honest
<1>4. CASE req[r].kind = "snapshot" \/ req[r].kind = "subscribe"
  BY <1>4 DEF Dispatch, Answer, Honest
<1> QED
  BY <1>1, <1>2, <1>3, <1>4 DEF RequestType, Kinds

(* A frame on its way stays honest.                                        *)
LEMMA HonestStep ==
  ASSUME IInv, [Next]_vars, NEW f \in Frames, Made(f.id), Honest(f, req)
  PROVE  f.id <= made' /\ Honest(f, req')
<1>1. f.id \in Ids /\ f.id \in Nat /\ made \in Nat /\ f.id <= made
  BY RequestAssumption DEF Frames, Ids, IInv, StateTypeOK, Made
<1>2. ASSUME NEW kind \in Kinds, NEW S \in SUBSET Names, NEW t \in Timeouts,
             Request(kind, S, t)
      PROVE  req'[f.id] = req[f.id] /\ f.id <= made'
  <2>1. made' = made + 1 /\ \A r \in Ids \ {made + 1} : req'[r] = req[r]
    BY <1>2, MakeRequest
  <2> QED
    BY <1>1, <2>1
<1>3. ASSUME Ended(f.id)
      PROVE  /\ req'[f.id].kind = req[f.id].kind
             /\ req'[f.id].name = req[f.id].name
             /\ req'[f.id].at = req[f.id].at
  BY <1>1, <1>3, KeptRequest
<1>4. f.id <= made' /\ req'[f.id].kind = req[f.id].kind
      /\ req'[f.id].name = req[f.id].name /\ req'[f.id].at = req[f.id].at
  BY <1>1, <1>2, <1>3, StepKinds DEF MakesRequest
<1> QED
  BY <1>4 DEF Honest

LEMMA TailElements ==
  ASSUME NEW S, NEW s \in Seq(S), s # <<>>
  PROVE  \A i \in 1..Len(Tail(s)) : i + 1 \in 1..Len(s) /\ Tail(s)[i] = s[i + 1]
OBVIOUS

LEMMA FrameStep == ASSUME IInv, [Next]_vars PROVE FrameInv'
<1>t. sent' \in Seq(Ids) /\ frames' \in Seq(Frames)
      /\ sent \in Seq(Ids) /\ frames \in Seq(Frames)
  BY TypeStep DEF StateTypeOK, IInv
<1>f. /\ \A i \in 1..Len(sent) : sent[i] <= made /\ sent[i] \in Ids
      /\ \A i \in 1..Len(frames) :
           /\ frames[i] \in Frames /\ Honest(frames[i], req)
           /\ frames[i].id <= made
  BY <1>t DEF IInv, FrameInv, Made
<1>m. made' >= made /\ made \in Nat /\ made' \in Nat
  <2>1. made \in Nat
    BY RequestAssumption DEF IInv, StateTypeOK
  <2>2. MakesRequest => made' = made + 1
    BY DEF MakesRequest, Request
  <2> QED
    BY <2>1, <2>2, StepKinds
<1>1. \A i \in 1..Len(sent') : sent'[i] <= made'
  <2>1. \A i \in 1..Len(sent) : sent[i] <= made'
    BY <1>f, <1>m DEF Ids
  <2>2. \/ sent' = sent \/ sent' = <<>>
        \/ (sent # <<>> /\ sent' = Tail(sent))
        \/ sent' = Append(sent, made')
    BY DEF Next, vars, peerVars, clientVars, SidecarStart, SidecarDies, Serve,
       Update, Get, Subscribe, Snapshot, Timeout, Closes, Deliver, Close, Tick,
       Request
  <2>3. CASE sent # <<>> /\ sent' = Tail(sent)
    BY <2>1, <2>3, <1>t, TailElements
  <2>4. CASE sent' = Append(sent, made')
    BY <2>1, <2>4, <1>m, <1>t
  <2> QED
    BY <2>1, <2>2, <2>3, <2>4
<1>2. \A i \in 1..Len(frames') :
        frames'[i].id <= made' /\ Honest(frames'[i], req')
  <2>1. ASSUME NEW i \in 1..Len(frames)
        PROVE  frames[i].id <= made' /\ Honest(frames[i], req')
    BY <1>f, HonestStep DEF Made
  <2>2. CASE Serve
    <3> DEFINE f == Dispatch(Head(sent))
    <3>1. Head(sent) \in Ids /\ Head(sent) <= made
      BY <2>2, <1>f, <1>t DEF Serve
    <3>2. frames' = Append(frames, f)
      BY <2>2 DEF Serve
    <3> HIDE DEF f
    <3>3. f \in Frames
      BY <3>2, <1>t
    <3>4. f.id = Head(sent) /\ Honest(f, req)
      BY <3>1, DispatchHonest DEF f
    <3>5. f.id <= made' /\ Honest(f, req')
      BY <3>1, <3>3, <3>4, HonestStep DEF Made
    <3> QED
      BY <2>1, <3>2, <3>5, <1>t
  <2>3. CASE ~Serve
    <3>1. frames' = frames \/ frames' = <<>>
          \/ (frames # <<>> /\ frames' = Tail(frames))
      BY <2>3 DEF Next, vars, peerVars, clientVars, SidecarStart, SidecarDies,
         Update, Get, Subscribe, Snapshot, Timeout, Closes, Deliver, Close,
         Tick
    <3>2. CASE frames # <<>> /\ frames' = Tail(frames)
      BY <2>1, <3>2, <1>t, TailElements
    <3> QED
      BY <2>1, <3>1, <3>2
  <2> QED
    BY <2>2, <2>3
<1> QED
  BY <1>1, <1>2 DEF FrameInv, Made
----------------------------------------------------------------------------
(* What is handed out is what an honest frame carried, in time.            *)
LEMMA FreshStep == ASSUME IInv, [Next]_vars PROVE FreshAnswers'
<1> USE TimeAssumption
<1>r. \A r \in Ids : req[r] \in RequestType
  BY DEF IInv, StateTypeOK
<1>1. ASSUME NEW kind \in Kinds, NEW S \in SUBSET Names, NEW t \in Timeouts,
             Request(kind, S, t)
      PROVE  FreshAnswers'
  <2>1. /\ req'[made + 1].st \in {"refused", "pending"}
        /\ \A r \in Ids \ {made + 1} : req'[r] = req[r]
    BY <1>1, MakeRequest
  <2> QED
    BY <2>1 DEF IInv, FreshAnswers
<1>2. CASE made' = made /\ \A r \in Ids : Ended(r)
  <2> SUFFICES ASSUME NEW r \in Ids, req'[r].kind = "get", req'[r].st = "ok",
                      req'[r] # req[r]
               PROVE  /\ DOMAIN req'[r].data = req'[r].name
                      /\ Ttl # 0 => \A n \in req'[r].name :
                           /\ req'[r].data[n] >= req'[r].at - Ttl
                           /\ req'[r].done - req'[r].data[n]
                                <= Ttl + req'[r].timeout
    BY DEF IInv, FreshAnswers
  <2>1. PICK f \in Frames :
             /\ frames # <<>> /\ f = Head(frames) /\ f.id = r
             /\ req[r].st = "pending"
             /\ req'[r] = [req[r] EXCEPT !.st = f.code, !.data = f.data,
                                         !.done = now]
    BY <1>2, <1>r DEF Ended, RequestType
  <2>2. /\ req'[r].data = f.data /\ req'[r].done = now /\ f.code = "ok"
        /\ req'[r].name = req[r].name /\ req'[r].at = req[r].at
        /\ req'[r].timeout = req[r].timeout /\ req[r].kind = "get"
    BY <1>r, <2>1 DEF RequestType
  <2>3. Honest(f, req)
    BY <2>1 DEF IInv, FrameInv, StateTypeOK
  <2>4. now <= req[r].at + req[r].timeout /\ now \in Nat
    BY <2>1 DEF IInv, RequestInv, Due, StateTypeOK
  <2>5. \A n \in req[r].name : f.data[n] \in Nat
    <3>1. PICK T \in SUBSET Names : f.data \in [T -> 0..MaxTime]
      BY DEF Frames, Entries
    <3>2. DOMAIN f.data = req[r].name
      BY <2>1, <2>2, <2>3 DEF Honest
    <3> QED
      BY <3>1, <3>2
  <2> QED
    BY <1>r, <2>1, <2>2, <2>3, <2>4, <2>5 DEF Honest, RequestType
<1> QED
  BY <1>1, <1>2, StepKinds DEF MakesRequest

LEMMA StepIInv == ASSUME IInv, [Next]_vars PROVE IInv'
BY TypeStep, RequestStep, FrameStep, SockStep, HalvesStep, FreshStep DEF IInv

LEMMA Invariance == Spec => []IInv
<1>1. IInv /\ [Next]_vars => IInv'
  BY StepIInv
<1> QED
  BY InitIInv, <1>1, PTL DEF Spec

(* The state keeps its types.                                              *)
THEOREM TypeCorrect == Spec => []StateTypeOK
<1>1. IInv => StateTypeOK
  BY DEF IInv
<1> QED
  BY Invariance, <1>1, PTL

(* Where the sidecar listens, the client connects, whatever was at the     *)
(* path before.                                                            *)
THEOREM HalvesAlwaysAgree == Spec => []HalvesAgree
<1>1. IInv => HalvesAgree
  BY DEF IInv
<1> QED
  BY Invariance, <1>1, PTL

(* state_get returns the entry asked for, fresh at an instant of the call. *)
THEOREM AnswersAreFresh == Spec => []FreshAnswers
<1>1. IInv => FreshAnswers
  BY DEF IInv
<1> QED
  BY Invariance, <1>1, PTL

(* What a request was told never changes.                                  *)
THEOREM PromisesSettleOnce == Spec => SettlesOnce
<1>1. IInv /\ [Next]_vars =>
        [\A r \in Ids : req[r].st \notin {"unmade", "pending"} =>
                          req'[r] = req[r]]_vars
  <2> SUFFICES ASSUME IInv, [Next]_vars, NEW r \in Ids,
                      req[r].st \notin {"unmade", "pending"}
               PROVE  req'[r] = req[r]
    OBVIOUS
  <2>1. made \in Nat /\ r \in Nat /\ r <= made
    BY RequestAssumption DEF IInv, StateTypeOK, RequestInv, Made, Ids
  <2>2. ASSUME NEW kind \in Kinds, NEW S \in SUBSET Names, NEW t \in Timeouts,
               Request(kind, S, t)
        PROVE  req'[r] = req[r]
    <3>1. \A q \in Ids \ {made + 1} : req'[q] = req[q]
      BY <2>2, MakeRequest
    <3> QED
      BY <2>1, <3>1
  <2> QED
    <3>1. Ended(r) => req'[r] = req[r]
      BY KeptRequest
    <3> QED
      BY <3>1, <2>2, StepKinds DEF MakesRequest
<1> QED
  BY Invariance, <1>1, PTL DEF Spec, SettlesOnce

(* A client that was only refused so far reaches a sidecar that listens.   *)
THEOREM RefusalsAreForgotten == Spec => RefusalIsNotSticky
<1>1. IInv /\ [Next]_vars =>
        [/\ made' > made /\ sidecar = "up"
         /\ \A r \in Ids : req[r].st \in {"unmade", "refused"}
         => sent' = Append(sent, made')]_vars
  <2> SUFFICES ASSUME IInv, [Next]_vars, made' > made, sidecar = "up",
                      \A r \in Ids : req[r].st \in {"unmade", "refused"}
               PROVE  sent' = Append(sent, made')
    OBVIOUS
  <2>0. made \in Nat
    BY RequestAssumption DEF IInv, StateTypeOK
  <2>1. PICK kind \in Kinds, S \in SUBSET Names, t \in Timeouts :
             Request(kind, S, t)
    BY <2>0, StepKinds DEF MakesRequest
  <2>2. sock = "null"
    BY <2>1 DEF IInv, StateTypeOK, SockInv, Request
  <2>3. Connect = "live"
    BY DEF IInv, HalvesAgree, Connect, Refuses
  <2> QED
    BY <2>1, <2>2, <2>3 DEF Request, Reaches
<1> QED
  BY Invariance, <1>1, PTL DEF Spec, RefusalIsNotSticky
----------------------------------------------------------------------------
(* The order of what is read.  An answer has been read once its frame is   *)
(* written; what was read is behind every request still to be served, and  *)
(* no newer than the cache, unless the sidecar was restarted since.        *)
HasRead(r, d) ==
  \/ req[r].st = "ok" /\ req[r].data = d
  \/ \E i \in 1..Len(frames) : frames[i].id = r /\ frames[i].data = d

Past(d) ==
  \A n \in DOMAIN d : d[n] <= now /\ (cache[n] = NoEntry \/ d[n] <= cache[n])

Before(d, e) == \A n \in DOMAIN d \cap DOMAIN e : d[n] <= e[n]

SentInv ==
  /\ \A i, j \in 1..Len(sent) : i < j => sent[i] < sent[j]
  /\ \A r \in Ids, d \in Entries : HasRead(r, d) =>
       r <= made /\ \A i \in 1..Len(sent) : r < sent[i]

PastInv ==
  /\ \A r \in Ids, d \in Entries : HasRead(r, d) => Past(d)
  /\ \A r, q \in Ids : \A d, e \in Entries :
       HasRead(r, d) /\ HasRead(q, e) /\ r < q => Before(d, e)

LEMMA EntriesAreStamps ==
  ASSUME NEW d \in Entries
  PROVE  DOMAIN d \subseteq Names /\ \A n \in DOMAIN d : d[n] \in 0..MaxTime
<1>1. PICK S \in SUBSET Names : d \in [S -> 0..MaxTime]
  BY DEF Entries
<1> QED
  BY <1>1

LEMMA PastStep ==
  ASSUME IInv, [Next]_vars, NEW d \in Entries, Past(d)
  PROVE  Past(d)'
<1> USE TimeAssumption
<1>d. DOMAIN d \subseteq Names /\ \A n \in DOMAIN d : d[n] \in 0..MaxTime
  BY EntriesAreStamps
<1>n. now \in Nat /\ now' \in Nat /\ now' >= now
  BY ClockStep
<1>c. cache \in [Names -> Stamps]
  BY DEF IInv, StateTypeOK
<1>1. \/ cache' = cache
      \/ cache' = [n \in Names |-> NoEntry]
      \/ \E n \in Names : cache' = [cache EXCEPT ![n] = now]
  BY DEF Next, vars, peerVars, SidecarStart, SidecarDies, Serve, Update, Get,
     Subscribe, Snapshot, Timeout, Closes, Deliver, Close, Tick
<1> SUFFICES ASSUME NEW n \in DOMAIN d
             PROVE  d[n] <= now' /\ (cache'[n] = NoEntry \/ d[n] <= cache'[n])
  BY DEF Past
<1>2. d[n] <= now /\ (cache[n] = NoEntry \/ d[n] <= cache[n])
  BY DEF Past
<1>3. d[n] <= now'
  BY <1>2, <1>n, <1>d
<1>4. cache'[n] = NoEntry \/ d[n] <= cache'[n]
  BY <1>1, <1>2, <1>c, <1>d
<1> QED
  BY <1>3, <1>4

(* Only the sidecar reads: a delivery moves what was read to its request.  *)
LEMMA ReadStep ==
  ASSUME IInv, [Next]_vars, ~Serve, NEW r \in Ids, NEW d \in Entries,
         HasRead(r, d)'
  PROVE  HasRead(r, d)
<1>t. /\ frames \in Seq(Frames)
      /\ req[r] \in RequestType
  BY DEF IInv, StateTypeOK
<1>1. CASE req'[r].st = "ok" /\ req'[r].data = d
  <2>1. ASSUME NEW kind \in Kinds, NEW S \in SUBSET Names, NEW t \in Timeouts,
               Request(kind, S, t)
        PROVE  req'[r] = req[r]
    <3>1. /\ req'[made + 1].st \in {"refused", "pending"}
          /\ \A q \in Ids \ {made + 1} : req'[q] = req[q]
      BY <2>1, MakeRequest
    <3> QED
      BY <1>1, <3>1
  <2>2. CASE req'[r] = req[r]
    BY <1>1, <2>2 DEF HasRead
  <2>3. CASE Ended(r) /\ req'[r] # req[r]
    <3>1. PICK f \in Frames :
               /\ frames # <<>> /\ f = Head(frames) /\ f.id = r
               /\ req'[r] = [req[r] EXCEPT !.st = f.code, !.data = f.data,
                                           !.done = now]
      BY <1>1, <1>t, <2>3 DEF Ended, RequestType
    <3>2. f.data = d
      BY <1>1, <1>t, <3>1 DEF RequestType
    <3>3. 1 \in 1..Len(frames) /\ frames[1] = f
      BY <1>t, <3>1
    <3> QED
      BY <3>1, <3>2, <3>3 DEF HasRead
  <2> QED
    BY <2>1, <2>2, <2>3, StepKinds DEF MakesRequest
<1>2. CASE \E i \in 1..Len(frames') : frames'[i].id = r /\ frames'[i].data = d
  <2>1. frames' = frames \/ frames' = <<>>
        \/ (frames # <<>> /\ frames' = Tail(frames))
    BY DEF Next, vars, peerVars, clientVars, SidecarStart, SidecarDies,
       Update, Get, Subscribe, Snapshot, Timeout, Closes, Deliver, Close, Tick
  <2>2. PICK i \in 1..Len(frames') : frames'[i].id = r /\ frames'[i].data = d
    BY <1>2
  <2>3. CASE frames # <<>> /\ frames' = Tail(frames)
    <3>1. i + 1 \in 1..Len(frames) /\ frames'[i] = frames[i + 1]
      BY <1>t, <2>3, TailElements
    <3> QED
      BY <2>2, <3>1 DEF HasRead
  <2> QED
    BY <2>1, <2>2, <2>3 DEF HasRead
<1> QED
  BY <1>1, <1>2 DEF HasRead

(* What a request is answered with is the cache, for what has an entry.    *)
LEMMA DispatchReads ==
  ASSUME IInv, NEW r \in Ids
  PROVE  /\ DOMAIN Dispatch(r).data \subseteq Known
         /\ \A n \in DOMAIN Dispatch(r).data : Dispatch(r).data[n] = cache[n]
         /\ Dispatch(r).id = r
<1>1. ASSUME NEW code, NEW S \in SUBSET Known, Dispatch(r) = Answer(r, code, S)
      PROVE  /\ DOMAIN Dispatch(r).data \subseteq Known
             /\ \A n \in DOMAIN Dispatch(r).data :
                  Dispatch(r).data[n] = cache[n]
             /\ Dispatch(r).id = r
  BY <1>1 DEF Answer
<1>2. req[r].kind \in Kinds
  BY DEF IInv, StateTypeOK, RequestType
<1>3. \E code \in Replies, S \in SUBSET Known :
        Dispatch(r) = Answer(r, code, S)
  <2>1. CASE req[r].kind = "snapshot"
    BY <2>1 DEF Dispatch, Replies
  <2>2. CASE req[r].kind = "subscribe"
    BY <2>2 DEF Dispatch, Replies
  <2>3. CASE req[r].kind = "get"
    BY <2>3 DEF Dispatch, Replies
  <2> QED
    BY <1>2, <2>1, <2>2, <2>3 DEF Kinds
<1> QED
  BY <1>1, <1>3

(* The same, for the step that reads.                                      *)
LEMMA ServeReads ==
  ASSUME IInv, Serve, NEW r \in Ids, NEW d \in Entries, HasRead(r, d)'
  PROVE  HasRead(r, d) \/ (r = Head(sent) /\ d = Dispatch(Head(sent)).data)
<1>1. /\ frames \in Seq(Frames) /\ frames' \in Seq(Frames)
      /\ Head(sent) \in Ids
  <2>1. Next
    BY DEF Next
  <2>2. frames' \in Seq(Frames)
    BY <2>1, TypeStep DEF StateTypeOK
  <2> QED
    BY <2>2 DEF IInv, StateTypeOK, Serve
<1> DEFINE f == Dispatch(Head(sent))
<1>2. frames' = Append(frames, f) /\ req' = req
  BY DEF Serve, clientVars
<1>3. f.id = Head(sent)
  BY <1>1, DispatchReads
<1> HIDE DEF f
<1>4. CASE \E i \in 1..Len(frames') : frames'[i].id = r /\ frames'[i].data = d
  <2>1. PICK i \in 1..Len(frames') : frames'[i].id = r /\ frames'[i].data = d
    BY <1>4
  <2>2. \/ i \in 1..Len(frames) /\ frames'[i] = frames[i]
        \/ frames'[i] = f
    BY <1>1, <1>2, <2>1
  <2> QED
    BY <1>3, <2>1, <2>2 DEF HasRead, f
<1> QED
  BY <1>2, <1>4 DEF HasRead

LEMMA SentStep == ASSUME IInv, [Next]_vars, SentInv PROVE SentInv'
<1>t. /\ sent \in Seq(Ids) /\ sent' \in Seq(Ids)
      /\ made \in Nat /\ Ids \subseteq Nat
  BY TypeStep, RequestAssumption DEF IInv, StateTypeOK, Ids
<1>b. \A i \in 1..Len(sent) : sent[i] <= made
  BY DEF IInv, FrameInv, Made
<1>m. made' \in {made, made + 1}
  BY StepKinds DEF MakesRequest, Request
<1>s. \A i, j \in 1..Len(sent) : i < j => sent[i] < sent[j]
  BY DEF SentInv
<1>1. CASE Serve
  <2>1. sent # <<>> /\ sent' = Tail(sent) /\ made' = made
    BY <1>1 DEF Serve, clientVars
  <2>2. /\ \A i \in 1..Len(sent') :
             i + 1 \in 1..Len(sent) /\ sent'[i] = sent[i + 1]
        /\ 1 \in 1..Len(sent) /\ Head(sent) = sent[1]
    BY <1>t, <2>1, TailElements
  <2>3. \A i, j \in 1..Len(sent') : i < j => sent'[i] < sent'[j]
    BY <1>s, <2>2
  <2>4. \A i \in 1..Len(sent') : Head(sent) < sent'[i]
    BY <1>s, <2>2
  <2>5. ASSUME NEW r \in Ids, NEW d \in Entries, HasRead(r, d)'
        PROVE  r <= made' /\ \A i \in 1..Len(sent') : r < sent'[i]
    <3>1. CASE HasRead(r, d)
      BY <2>1, <2>2, <3>1 DEF SentInv
    <3>2. CASE r = Head(sent)
      BY <1>b, <2>1, <2>2, <2>4, <3>2
    <3> QED
      BY <1>1, <2>5, <3>1, <3>2, ServeReads
  <2> QED
    BY <2>3, <2>5 DEF SentInv
<1>2. CASE ~Serve
  <2>1. \/ sent' = sent \/ sent' = <<>>
        \/ sent' = Append(sent, made') /\ made' = made + 1
    BY <1>2 DEF Next, vars, peerVars, clientVars, SidecarStart, SidecarDies,
       Update, Get, Subscribe, Snapshot, Timeout, Closes, Deliver, Close, Tick,
       Request
  <2>2. ASSUME NEW i \in 1..Len(sent')
        PROVE  \/ i \in 1..Len(sent) /\ sent'[i] = sent[i]
               \/ /\ i = Len(sent) + 1 /\ i = Len(sent')
                  /\ sent'[i] = made + 1
    BY <1>t, <2>1
  <2>3. ASSUME NEW i \in 1..Len(sent'), NEW j \in 1..Len(sent'), i < j
        PROVE  sent'[i] < sent'[j]
    <3>a. i # Len(sent')
      BY <1>t, <2>3
    <3>b. i \in 1..Len(sent) /\ sent'[i] = sent[i]
      BY <2>2, <3>a
    <3>1. i \in 1..Len(sent) /\ sent'[i] = sent[i] /\ sent[i] \in Nat
      <4>1. sent[i] \in Ids
        BY <1>t, <3>b
      <4> QED
        BY <1>t, <3>b, <4>1
    <3>2. CASE j \in 1..Len(sent) /\ sent'[j] = sent[j]
      BY <1>s, <2>3, <3>1, <3>2
    <3>3. CASE sent'[j] = made + 1
      BY <1>b, <1>t, <3>1, <3>3
    <3> QED
      BY <2>2, <3>2, <3>3
  <2>4. ASSUME NEW r \in Ids, NEW d \in Entries, HasRead(r, d)'
        PROVE  r <= made' /\ \A i \in 1..Len(sent') : r < sent'[i]
    <3>1. r <= made /\ \A i \in 1..Len(sent) : r < sent[i]
      BY <1>2, <2>4, ReadStep DEF SentInv
    <3> QED
      BY <1>m, <1>t, <2>2, <3>1
  <2> QED
    BY <2>3, <2>4 DEF SentInv
<1> QED
  BY <1>1, <1>2

LEMMA OrderStep ==
  ASSUME IInv, [Next]_vars, SentInv, PastInv
  PROVE  PastInv'
<1>c. Ids \subseteq Nat /\ cache \in [Names -> Stamps] /\ now \in Nat
  BY ClockStep DEF IInv, StateTypeOK, Ids
<1>1. CASE ~Serve
  <2>1. \A r \in Ids, d \in Entries : HasRead(r, d)' => HasRead(r, d)
    BY <1>1, ReadStep
  <2>2. \A r \in Ids, d \in Entries : HasRead(r, d)' => Past(d)'
    BY <2>1, PastStep DEF PastInv
  <2>3. \A r, q \in Ids : \A d, e \in Entries :
          HasRead(r, d)' /\ HasRead(q, e)' /\ r < q => Before(d, e)
    BY <2>1 DEF PastInv
  <2> QED
    BY <2>2, <2>3 DEF PastInv, Before
<1>2. CASE Serve
  <2> DEFINE h == Head(sent)
             new == Dispatch(h).data
  <2>1. h \in Ids /\ h = sent[1] /\ 1 \in 1..Len(sent)
    BY <1>2 DEF Serve, IInv, StateTypeOK
  <2>2. /\ DOMAIN new \subseteq Known
        /\ \A n \in DOMAIN new : new[n] = cache[n]
    BY <2>1, DispatchReads
  <2>3. \A r \in Ids, d \in Entries :
          HasRead(r, d)' => HasRead(r, d) \/ (r = h /\ d = new)
    BY <1>2, ServeReads
  <2>4. \A r \in Ids, d \in Entries : HasRead(r, d) => r < h
    BY <2>1 DEF SentInv
  <2>5. \A n \in Known : cache[n] # NoEntry /\ cache[n] <= now
                         /\ cache[n] \in Nat
    BY <1>c, TimeAssumption DEF Known, IInv, RequestInv, Stamps, NoEntry
  <2> HIDE DEF h, new
  <2>6. Past(new)
    BY <2>2, <2>5 DEF Past
  <2>7. \A r \in Ids, d \in Entries : HasRead(r, d)' => Past(d)'
    BY <2>3, <2>6, PastStep DEF PastInv
  <2>8. ASSUME NEW d \in Entries, Past(d) PROVE Before(d, new)
    BY <2>2, <2>5, <2>8 DEF Past, Before
  <2>9. ASSUME NEW r \in Ids, NEW q \in Ids, NEW d \in Entries,
               NEW e \in Entries, HasRead(r, d)', HasRead(q, e)', r < q
        PROVE  Before(d, e)
    <3>1. CASE HasRead(r, d) /\ HasRead(q, e)
      BY <2>9, <3>1 DEF PastInv
    <3>2. CASE HasRead(r, d) /\ q = h /\ e = new
      BY <2>8, <3>2 DEF PastInv
    <3>3. CASE r = h
      BY <1>c, <2>1, <2>3, <2>4, <2>9, <3>3
    <3> QED
      BY <2>3, <2>9, <3>1, <3>2, <3>3
  <2> QED
    BY <2>7, <2>9 DEF PastInv, Before
<1> QED
  BY <1>1, <1>2

LEMMA InitOrder == Init => SentInv /\ PastInv
BY DEF Init, SentInv, PastInv, HasRead, Unmade

(* What is read never goes back in time, for any number of requests.       *)
THEOREM ReadsStayInOrder == Spec => []ReadsInOrder
<1>1. IInv /\ SentInv /\ PastInv /\ [Next]_vars => (SentInv /\ PastInv)'
  BY SentStep, OrderStep
<1>2. IInv /\ PastInv => ReadsInOrder
  <2> SUFFICES ASSUME IInv, PastInv, NEW r \in Ids, NEW q \in Ids, r < q,
                      req[r].st = "ok", req[q].st = "ok"
               PROVE  Before(req[r].data, req[q].data)
    BY DEF ReadsInOrder, Before
  <2>1. req[r].data \in Entries /\ req[q].data \in Entries
    BY DEF IInv, StateTypeOK, RequestType
  <2> QED
    BY <2>1 DEF PastInv, HasRead
<1> QED
  BY Invariance, InitOrder, <1>1, <1>2, PTL DEF Spec
----------------------------------------------------------------------------
(* The client implements StateReads.  Answers come in the order of the     *)
(* requests: who has one, on its way or told, is before who still waits to *)
(* be served, and the frames on their way are in order, one for a request. *)
Answered(r) == req[r].st \in Replies \/ FramesOf(r) # {}

TurnInv ==
  /\ \A r \in Ids : Answered(r) => \A i \in 1..Len(sent) : r < sent[i]
  /\ \A i, j \in 1..Len(frames) : i < j => frames[i].id < frames[j].id

RefineInv == IInv /\ SentInv /\ TurnInv

LEMMA FrameMember ==
  ASSUME NEW r, NEW i \in 1..Len(frames), frames[i].id = r
  PROVE  frames[i] \in FramesOf(r)
BY DEF FramesOf

(* What a step does to the frames.                                         *)
LEMMA FrameKinds ==
  ASSUME IInv, [Next]_vars
  PROVE  \/ frames' = frames
         \/ frames' = <<>> /\ Close
         \/ Serve /\ frames' = Append(frames, Dispatch(Head(sent)))
         \/ Deliver /\ frames # <<>> /\ frames' = Tail(frames)
BY DEF Next, vars, peerVars, clientVars, SidecarStart, SidecarDies, Serve,
   Update, Get, Subscribe, Snapshot, Timeout, Closes, Deliver, Close, Tick

(* A frame read is Head(sent)'s, and it is the last.                       *)
LEMMA ServedFrames ==
  ASSUME RefineInv, Serve
  PROVE  /\ Head(sent) \in Ids /\ FramesOf(Head(sent)) = {}
         /\ Dispatch(Head(sent)).id = Head(sent)
         /\ \A r \in Ids :
              (FramesOf(r))' = IF r = Head(sent) THEN {Dispatch(Head(sent))}
                                                 ELSE FramesOf(r)
         /\ \A r \in Ids : Answered(r) => r < Head(sent)
<1>1. /\ frames \in Seq(Frames) /\ sent \in Seq(Ids) /\ sent # <<>>
      /\ Ids \subseteq Nat
  BY DEF RefineInv, IInv, StateTypeOK, Serve, Ids
<1>h. Head(sent) \in Ids /\ Head(sent) = sent[1] /\ 1 \in 1..Len(sent)
  BY <1>1
<1>2. \A r \in Ids : Answered(r) => r < Head(sent)
  BY <1>h DEF RefineInv, TurnInv
<1>3. FramesOf(Head(sent)) = {}
  <2>1. ~(Head(sent) < Head(sent))
    BY <1>h DEF Ids
  <2> QED
    BY <1>h, <1>2, <2>1 DEF Answered
<1> DEFINE f == Dispatch(Head(sent))
<1>4. f.id = Head(sent)
  BY <1>h, DispatchReads DEF RefineInv
<1>5. frames' = Append(frames, f)
  BY DEF Serve
<1> HIDE DEF f
<1>6. /\ Len(frames') = Len(frames) + 1 /\ frames'[Len(frames) + 1] = f
      /\ \A i \in 1..Len(frames) : frames'[i] = frames[i]
      /\ Len(frames) \in Nat
  BY <1>1, <1>5
<1>7. ASSUME NEW r \in Ids
      PROVE  (FramesOf(r))' =
               FramesOf(r) \cup (IF r = Head(sent) THEN {f} ELSE {})
  <2>1. 1..Len(frames') = (1..Len(frames)) \cup {Len(frames) + 1}
    BY <1>6
  <2> QED
    BY <1>4, <1>6, <2>1 DEF FramesOf
<1> QED
  BY <1>h, <1>2, <1>3, <1>4, <1>7 DEF f

(* A frame delivered was the only one of its request.                      *)
LEMMA DeliveredFrames ==
  ASSUME RefineInv, Deliver
  PROVE  /\ Head(frames) \in Frames
         /\ FramesOf(Head(frames).id) = {Head(frames)}
         /\ \A r \in Ids : (FramesOf(r))' = IF r = Head(frames).id THEN {}
                                            ELSE FramesOf(r)
<1>1. /\ frames \in Seq(Frames) /\ frames # <<>> /\ Len(frames) \in Nat
      /\ frames' = Tail(frames)
  BY DEF RefineInv, IInv, StateTypeOK, Deliver
<1>h. /\ Head(frames) = frames[1] /\ 1 \in 1..Len(frames)
      /\ Head(frames) \in Frames
  BY <1>1
<1>2. \A i \in 1..Len(frames) : frames[i].id \in Nat
  <2>1. \A i \in 1..Len(frames) : frames[i] \in Frames
    BY <1>1
  <2> QED
    BY <2>1 DEF Frames, Ids
<1>3. /\ Len(frames') = Len(frames) - 1
      /\ \A i \in 1..Len(frames') : frames'[i] = frames[i + 1]
  BY <1>1, TailElements
<1>4. ASSUME NEW i \in 1..Len(frames), i # 1
      PROVE  frames[i].id # frames[1].id
  <2>1. frames[1].id < frames[i].id
    BY <1>1, <1>h, <1>4 DEF RefineInv, TurnInv
  <2> QED
    BY <1>2, <1>h, <2>1
<1>5. FramesOf(Head(frames).id) = {Head(frames)}
  BY <1>h, <1>4 DEF FramesOf
<1>6. ASSUME NEW r \in Ids
      PROVE  (FramesOf(r))' = IF r = Head(frames).id THEN {} ELSE FramesOf(r)
  <2>1. ASSUME NEW f \in FramesOf(r), r # Head(frames).id
        PROVE  f \in (FramesOf(r))'
    <3>1. PICK i \in 1..Len(frames) : frames[i].id = r /\ f = frames[i]
      BY DEF FramesOf
    <3>2. i # 1
      BY <1>h, <2>1, <3>1
    <3>3. i - 1 \in 1..Len(frames') /\ frames'[i - 1] = frames[i]
      BY <1>1, <1>3, <3>1, <3>2
    <3> QED
      BY <3>1, <3>3 DEF FramesOf
  <2>2. ASSUME NEW f \in (FramesOf(r))'
        PROVE  f \in FramesOf(r) /\ r # Head(frames).id
    <3>1. PICK i \in 1..Len(frames') : frames'[i].id = r /\ f = frames'[i]
      BY <2>2 DEF FramesOf
    <3>2. /\ i + 1 \in 1..Len(frames) /\ frames[i + 1] = frames'[i]
          /\ i + 1 # 1
      BY <1>1, <1>3
    <3> QED
      BY <1>h, <1>4, <3>1, <3>2 DEF FramesOf
  <2> QED
    BY <2>1, <2>2
<1> QED
  BY <1>h, <1>5, <1>6

(* Only the sidecar answers; a delivery tells what was on its way.         *)
LEMMA AnsweredStep ==
  ASSUME IInv, [Next]_vars, ~Serve, NEW r \in Ids, (Answered(r))'
  PROVE  Answered(r)
<1>t. /\ frames \in Seq(Frames) /\ req[r] \in RequestType
  BY DEF IInv, StateTypeOK
<1>1. CASE req'[r].st \in Replies
  <2>1. ASSUME NEW kind \in Kinds, NEW S \in SUBSET Names, NEW t \in Timeouts,
               Request(kind, S, t)
        PROVE  req'[r] = req[r]
    <3>1. /\ req'[made + 1].st \in {"refused", "pending"}
          /\ \A q \in Ids \ {made + 1} : req'[q] = req[q]
      BY <2>1, MakeRequest
    <3> QED
      BY <1>1, <3>1 DEF Replies
  <2>2. CASE req'[r] = req[r]
    BY <1>1, <2>2 DEF Answered
  <2>3. CASE Ended(r) /\ req'[r] # req[r]
    <3>1. PICK f \in Frames : frames # <<>> /\ f = Head(frames) /\ f.id = r
      BY <1>1, <1>t, <2>3 DEF Ended, RequestType, Replies
    <3>2. 1 \in 1..Len(frames) /\ frames[1] = f
      BY <1>t, <3>1
    <3> QED
      BY <3>1, <3>2 DEF Answered, FramesOf
  <2> QED
    BY <2>1, <2>2, <2>3, StepKinds DEF MakesRequest
<1>2. CASE (FramesOf(r))' # {}
  <2>1. PICK i \in 1..Len(frames') : frames'[i].id = r
    BY <1>2 DEF FramesOf
  <2>2. CASE frames # <<>> /\ frames' = Tail(frames)
    <3>1. i + 1 \in 1..Len(frames) /\ frames'[i] = frames[i + 1]
      BY <1>t, <2>2, TailElements
    <3> QED
      BY <2>1, <3>1 DEF Answered, FramesOf
  <2>3. CASE frames' = frames
    BY <2>1, <2>3 DEF Answered, FramesOf
  <2> QED
    BY <2>1, <2>2, <2>3, FrameKinds
<1> QED
  BY <1>1, <1>2 DEF Answered

LEMMA AnsweredMade ==
  ASSUME IInv, NEW r \in Ids, Answered(r)
  PROVE  r <= made
<1>1. CASE req[r].st \in Replies
  BY <1>1 DEF IInv, RequestInv, Made, Replies
<1>2. CASE FramesOf(r) # {}
  BY <1>2 DEF FramesOf, IInv, FrameInv, Made
<1> QED
  BY <1>1, <1>2 DEF Answered

LEMMA TurnStep == ASSUME RefineInv, [Next]_vars PROVE TurnInv'
<1>t. /\ sent \in Seq(Ids) /\ frames \in Seq(Frames)
      /\ made \in Nat /\ Ids \subseteq Nat
  BY RequestAssumption DEF RefineInv, IInv, StateTypeOK, Ids
<1>i. IInv /\ SentInv /\ TurnInv
  BY DEF RefineInv
<1>s. \A i, j \in 1..Len(sent) : i < j => sent[i] < sent[j]
  BY <1>i DEF SentInv
<1>o. \A i, j \in 1..Len(frames) : i < j => frames[i].id < frames[j].id
  BY <1>i DEF TurnInv
<1>a. \A i \in 1..Len(frames) :
        frames[i].id \in Ids /\ Answered(frames[i].id)
  <2>1. \A i \in 1..Len(frames) : frames[i] \in Frames
    BY <1>t
  <2> QED
    BY <2>1, FrameMember DEF Frames, Answered
<1>1. CASE Serve
  <2>1. sent # <<>> /\ sent' = Tail(sent) /\ req' = req
        /\ frames' = Append(frames, Dispatch(Head(sent)))
    BY <1>1 DEF Serve, clientVars
  <2>2. /\ \A i \in 1..Len(sent') :
             i + 1 \in 1..Len(sent) /\ sent'[i] = sent[i + 1]
        /\ 1 \in 1..Len(sent) /\ Head(sent) = sent[1]
    BY <1>t, <2>1, TailElements
  <2>3. \A i \in 1..Len(sent') : Head(sent) < sent'[i]
    BY <1>s, <2>2
  <2>4. /\ Dispatch(Head(sent)).id = Head(sent)
        /\ \A r \in Ids : (FramesOf(r))' # {} =>
                            r = Head(sent) \/ FramesOf(r) # {}
        /\ \A r \in Ids : Answered(r) => r < Head(sent)
    BY <1>1, ServedFrames
  <2>5. ASSUME NEW r \in Ids, (Answered(r))', NEW i \in 1..Len(sent')
        PROVE  r < sent'[i]
    <3>1. r = Head(sent) \/ Answered(r)
      BY <2>1, <2>4, <2>5 DEF Answered
    <3>2. CASE Answered(r)
      BY <1>i, <2>2, <3>2 DEF TurnInv
    <3> QED
      BY <2>3, <3>1, <3>2
  <2> DEFINE f == Dispatch(Head(sent))
  <2>6. f.id = Head(sent) /\ frames' = Append(frames, f)
    BY <2>1, <2>4
  <2>7. \A i \in 1..Len(frames) : frames[i].id < f.id
    BY <1>a, <2>4, <2>6
  <2> HIDE DEF f
  <2>8. /\ Len(frames') = Len(frames) + 1 /\ frames'[Len(frames) + 1] = f
        /\ \A i \in 1..Len(frames) : frames'[i] = frames[i]
        /\ Len(frames) \in Nat
    BY <1>t, <2>6
  <2>9. ASSUME NEW i \in 1..Len(frames'), NEW j \in 1..Len(frames'), i < j
        PROVE  frames'[i].id < frames'[j].id
    <3>1. i \in 1..Len(frames)
      BY <2>8, <2>9
    <3> QED
      BY <1>o, <2>7, <2>8, <2>9, <3>1
  <2> QED
    BY <2>5, <2>9 DEF TurnInv
<1>2. CASE ~Serve
  <2>1. \/ sent' = sent \/ sent' = <<>>
        \/ sent' = Append(sent, made + 1)
    BY <1>2 DEF Next, vars, peerVars, clientVars, SidecarStart, SidecarDies,
       Update, Get, Subscribe, Snapshot, Timeout, Closes, Deliver, Close, Tick,
       Request
  <2>2. ASSUME NEW i \in 1..Len(sent')
        PROVE  \/ i \in 1..Len(sent) /\ sent'[i] = sent[i]
               \/ sent'[i] = made + 1
    BY <1>t, <2>1
  <2>3. ASSUME NEW r \in Ids, (Answered(r))', NEW i \in 1..Len(sent')
        PROVE  r < sent'[i]
    <3>1. Answered(r) /\ r <= made /\ r \in Nat
      BY <1>2, <1>i, <1>t, <2>3, AnsweredStep, AnsweredMade
    <3> QED
      BY <1>i, <1>t, <2>2, <3>1 DEF TurnInv
  <2>4. CASE frames # <<>> /\ frames' = Tail(frames)
    <3>1. \A i \in 1..Len(frames') :
             i + 1 \in 1..Len(frames) /\ frames'[i] = frames[i + 1]
      BY <1>t, <2>4, TailElements
    <3> QED
      BY <1>o, <2>3, <3>1 DEF TurnInv
  <2>5. CASE frames' = frames
    BY <1>o, <2>3, <2>5 DEF TurnInv
  <2>6. CASE frames' = <<>>
    BY <2>3, <2>6 DEF TurnInv
  <2> QED
    BY <1>2, <1>i, <2>4, <2>5, <2>6, FrameKinds
<1> QED
  BY <1>1, <1>2
----------------------------------------------------------------------------
(* How a request is seen, at each of its stages.                           *)
LEMMA SeenAs ==
  ASSUME NEW q \in RequestType, NEW F
  PROVE  /\ q.st = "unmade" => AsSeen(q, F).stage = "unasked"
         /\ q.st = "pending" /\ F = {} => AsSeen(q, F).stage = "asked"
         /\ q.st = "pending" /\ F # {} => AsSeen(q, F).stage = "read"
         /\ q.st \in Replies => AsSeen(q, F).stage = "told"
         /\ q.st \in Failures => AsSeen(q, F).stage = "failed"
         /\ AsSeen(q, F).kind = q.kind /\ AsSeen(q, F).name = q.name
         /\ AsSeen(q, F).due = q.at + q.timeout
BY DEF AsSeen, Stage, RequestType, Replies, Failures

LEMMA SeenWhole ==
  ASSUME NEW q \in RequestType, NEW F
  PROVE  /\ q.st \notin Replies /\ (q.st # "pending" \/ F = {}) =>
              AsSeen(q, F) = [stage |-> Stage(q, F), kind |-> q.kind,
                              name |-> q.name, due |-> q.at + q.timeout,
                              ok |-> FALSE, data |-> Nothing]
         /\ q.st \in Replies =>
              AsSeen(q, F) = [stage |-> "told", kind |-> q.kind,
                              name |-> q.name, due |-> q.at + q.timeout,
                              ok |-> q.st = "ok", data |-> q.data]
         /\ \A f : q.st = "pending" /\ F = {f} =>
              AsSeen(q, F) = [stage |-> "read", kind |-> q.kind,
                              name |-> q.name, due |-> q.at + q.timeout,
                              ok |-> f.code = "ok", data |-> f.data]
<1>1. ASSUME q.st \notin Replies, q.st # "pending" \/ F = {}
      PROVE  Found(q, F) = [code |-> q.st, data |-> Nothing] /\ q.st # "ok"
  BY <1>1 DEF Found, Stage, RequestType, Replies, Failures
<1>2. ASSUME q.st \in Replies
      PROVE  /\ Found(q, F) = [code |-> q.st, data |-> q.data]
             /\ Stage(q, F) = "told"
  BY <1>2 DEF Found, Stage, Replies, Failures
<1>3. ASSUME NEW f, q.st = "pending", F = {f}
      PROVE  Found(q, F) = f /\ Stage(q, F) = "read"
  <2>1. Stage(q, F) = "read"
    BY <1>3 DEF Stage, Replies, Failures
  <2>2. (CHOOSE g \in F : TRUE) = f
    BY <1>3
  <2> QED
    BY <2>1, <2>2 DEF Found
<1>4. /\ AsSeen(q, F).stage = Stage(q, F)
      /\ AsSeen(q, F) =
           [stage |-> Stage(q, F), kind |-> q.kind, name |-> q.name,
            due |-> q.at + q.timeout, ok |-> Found(q, F).code = "ok",
            data |-> Found(q, F).data]
  BY DEF AsSeen
<1>5. ASSUME q.st \notin Replies, q.st # "pending" \/ F = {}
      PROVE  Found(q, F).code # "ok" /\ Found(q, F).data = Nothing
  BY <1>1, <1>5
<1>6. ASSUME q.st \in Replies
      PROVE  Found(q, F).code = q.st /\ Found(q, F).data = q.data
  BY <1>2, <1>6
<1> QED
  BY <1>2, <1>3, <1>4, <1>5, <1>6

(* Only a pending request is seen through its frames.                      *)
LEMMA SeenSettled ==
  ASSUME NEW q \in RequestType, NEW F, NEW G, q.st # "pending"
  PROVE  AsSeen(q, F) = AsSeen(q, G)
<1>1. Stage(q, F) = Stage(q, G) /\ Stage(q, F) # "read"
  BY DEF Stage, RequestType, Replies, Failures
<1>2. Found(q, F) = Found(q, G)
  BY <1>1 DEF Found
<1> QED
  BY <1>1, <1>2 DEF AsSeen

LEMMA SeenFailed ==
  ASSUME NEW q \in RequestType, NEW F, q.st \in Failures
  PROVE  AsSeen(q, F) = [stage |-> "failed", kind |-> q.kind,
                         name |-> q.name, due |-> q.at + q.timeout,
                         ok |-> FALSE, data |-> Nothing]
<1>1. q.st \notin Replies /\ q.st # "pending" /\ Stage(q, F) = "failed"
  BY DEF Failures, Replies, Stage
<1> QED
  BY <1>1, SeenWhole

LEMMA CallsTyped ==
  /\ Calls = [r \in Ids |-> Calls[r]]
  /\ \A r \in Ids : Calls[r] = AsSeen(req[r], FramesOf(r))
BY DEF Calls

(* A step that concerns one request, and one that concerns none.           *)
LEMMA OneCall ==
  ASSUME NEW r \in Ids, NEW c, c = AsSeen(req'[r], (FramesOf(r))'),
         \A q \in Ids \ {r} : AsSeen(req'[q], (FramesOf(q))') =
                                AsSeen(req[q], FramesOf(q))
  PROVE  Calls' = [Calls EXCEPT ![r] = c]
BY DEF Calls

LEMMA SameCalls ==
  ASSUME \A q \in Ids : AsSeen(req'[q], (FramesOf(q))') =
                          AsSeen(req[q], FramesOf(q))
  PROVE  Calls' = Calls
BY DEF Calls

(* Each step of the client is one of StateReads, or none.                  *)
LEMMA AskIsAbstract ==
  ASSUME RefineInv, MakesRequest, UNCHANGED <<now, peerVars, frames, closed>>
  PROVE  \E r \in Ids : Reads!Ask(r)
<1>1. PICK kind \in Kinds, S \in SUBSET Names, t \in Timeouts :
           Request(kind, S, t)
  BY DEF MakesRequest
<1>t. /\ IInv /\ now \in Nat /\ made \in Nat /\ t \in Nat /\ MaxTime \in Nat
      /\ req \in [Ids -> RequestType] /\ Ids \subseteq Nat
  BY TimeAssumption, RequestAssumption DEF RefineInv, IInv, StateTypeOK, Ids
<1>r. PICK r \in Ids : r = made + 1
  BY <1>1 DEF Request
<1> DEFINE q == [st |-> IF Refuses THEN "refused" ELSE "pending",
                 kind |-> kind, name |-> S, at |-> now, timeout |-> t,
                 data |-> Nothing, done |-> 0]
<1>2. req' = [req EXCEPT ![r] = q] /\ now + t <= MaxTime
  BY <1>1, <1>r DEF Request
<1>3. /\ req[r].st = "unmade"
      /\ \A p \in Ids : p < r => req[p].st # "unmade"
  BY <1>t, <1>r DEF IInv, RequestInv, Made
<1>4. q \in RequestType
  BY <1>t, NothingIsEntries DEF RequestType, Failures
<1>5. \A p \in Ids : (FramesOf(p))' = FramesOf(p)
  BY DEF FramesOf
<1>6. FramesOf(r) = {}
  <2>1. ASSUME FramesOf(r) # {} PROVE FALSE
    <3>1. r <= made
      BY <1>t, <2>1, AnsweredMade DEF Answered
    <3> QED
      BY <1>t, <1>r, <3>1
  <2> QED
    BY <2>1
<1> DEFINE s == IF Refuses THEN "failed" ELSE "asked"
           c == [stage |-> s, kind |-> kind, name |-> S, due |-> now + t,
                 ok |-> FALSE, data |-> Nothing]
<1>7. AsSeen(q, {}) = c
  BY <1>4, SeenWhole DEF Stage, Failures, Replies
<1>8. req'[r] = q /\ \A p \in Ids \ {r} : req'[p] = req[p]
  BY <1>t, <1>2
<1>9. c = AsSeen(req'[r], (FramesOf(r))')
  BY <1>2, <1>5, <1>6, <1>7, <1>8
<1> HIDE DEF q
<1>10. Calls' = [Calls EXCEPT ![r] = c]
  <2> HIDE DEF c
  <2> QED
    BY <1>2, <1>5, <1>8, <1>9, OneCall
<1>11. \A p \in Ids : Calls[p].stage = "unasked" <=> req[p].st = "unmade"
  <2>1. \A p \in Ids : req[p] \in RequestType
    BY <1>t
  <2>2. \A p \in Ids : Calls[p] = AsSeen(req[p], FramesOf(p))
    BY CallsTyped
  <2> QED
    BY <2>1, <2>2, SeenAs DEF RequestType
<1>12. /\ now + t \in now..MaxTime /\ s \in {"asked", "failed"}
       /\ kind \in {"get", "snapshot", "subscribe"}
  BY <1>t, <1>2 DEF Kinds
<1>13. Nothing = Reads!Blank /\ UNCHANGED <<now, cache>>
  BY DEF Nothing, Reads!Blank, peerVars
<1> QED
  BY <1>2, <1>3, <1>10, <1>11, <1>12, <1>13 DEF Reads!Ask

(* An answer is what the cache holds at the instant of Serve.              *)
LEMMA DispatchAnswers ==
  ASSUME IInv, NEW r \in Ids
  PROVE  /\ Dispatch(r).code = "ok" <=> Reads!Answerable(req[r])
         /\ Dispatch(r).data = [n \in Reads!Covers(req[r]) |-> cache[n]]
<1>1. req[r].kind \in Kinds /\ req[r].name \subseteq Names
  BY DEF IInv, StateTypeOK, RequestType
<1>2. Known = Reads!Known
  BY DEF Known, Reads!Known, NoEntry, Reads!Absent
<1>3. \A n \in req[r].name : Reads!Fresh(n) <=> n \in Known /\ IsFresh(cache[n])
  BY <1>2 DEF Reads!Fresh, IsFresh
<1>4. CASE req[r].kind = "snapshot"
  <2>1. Dispatch(r) = Answer(r, "ok", Known)
    BY <1>4 DEF Dispatch
  <2>2. Reads!Answerable(req[r]) /\ Reads!Covers(req[r]) = Known
    BY <1>2, <1>4 DEF Reads!Answerable, Reads!Covers
  <2> QED
    BY <2>1, <2>2 DEF Answer
<1>5. CASE req[r].kind = "subscribe"
  <2>1. Dispatch(r) = Answer(r, "NO_EVENTS", {})
    BY <1>5 DEF Dispatch
  <2>2. ~Reads!Answerable(req[r]) /\ Reads!Covers(req[r]) = {}
    BY <1>5 DEF Reads!Answerable, Reads!Covers
  <2> QED
    BY <2>1, <2>2 DEF Answer
<1>6. CASE req[r].kind = "get"
  <2>1. Reads!Answerable(req[r]) <=>
          req[r].name \subseteq Known /\ \A n \in req[r].name : IsFresh(cache[n])
    BY <1>3, <1>6 DEF Reads!Answerable
  <2>2. Reads!Covers(req[r]) = IF Reads!Answerable(req[r]) THEN req[r].name
                               ELSE {}
    BY <1>6 DEF Reads!Covers
  <2>3. CASE Reads!Answerable(req[r])
    <3>1. Dispatch(r) = Answer(r, "ok", req[r].name)
      BY <1>6, <2>1, <2>3 DEF Dispatch
    <3> QED
      BY <2>2, <2>3, <3>1 DEF Answer
  <2>4. CASE ~Reads!Answerable(req[r])
    <3>1. \E code \in {"UNKNOWN", "STALE"} : Dispatch(r) = Answer(r, code, {})
      BY <1>6, <2>1, <2>4 DEF Dispatch
    <3> QED
      BY <2>2, <2>4, <3>1 DEF Answer
  <2> QED
    BY <2>3, <2>4
<1> QED
  BY <1>1, <1>4, <1>5, <1>6 DEF Kinds

LEMMA ServeIsAbstract ==
  ASSUME RefineInv, Serve
  PROVE  (\E r \in Ids : Reads!Read(r)) \/ UNCHANGED Reads!readVars
<1>t. /\ IInv /\ req \in [Ids -> RequestType] /\ req' = req
      /\ UNCHANGED <<now, cache>> /\ Ids \subseteq Nat
  BY DEF RefineInv, IInv, StateTypeOK, Serve, clientVars, peerVars, Ids
<1>1. /\ Head(sent) \in Ids /\ FramesOf(Head(sent)) = {}
      /\ \A q \in Ids : (FramesOf(q))' = IF q = Head(sent)
                          THEN {Dispatch(Head(sent))} ELSE FramesOf(q)
      /\ \A q \in Ids : Answered(q) => q < Head(sent)
  BY ServedFrames
<1>2. PICK r \in Ids : r = Head(sent)
  BY <1>1
<1>3. \A q \in Ids \ {r} : AsSeen(req'[q], (FramesOf(q))') =
                             AsSeen(req[q], FramesOf(q))
  BY <1>t, <1>1, <1>2
<1>4. CASE req[r].st = "pending"
  <2> DEFINE f == Dispatch(r)
             c == [stage |-> "read", kind |-> req[r].kind,
                   name |-> req[r].name, due |-> req[r].at + req[r].timeout,
                   ok |-> f.code = "ok", data |-> f.data]
             b == [stage |-> "asked", kind |-> req[r].kind,
                   name |-> req[r].name, due |-> req[r].at + req[r].timeout,
                   ok |-> FALSE, data |-> Nothing]
  <2>1. AsSeen(req'[r], (FramesOf(r))') = c
    <3>1. req'[r] = req[r] /\ (FramesOf(r))' = {f} /\ req[r] \in RequestType
      BY <1>t, <1>1, <1>2
    <3> HIDE DEF f
    <3> QED
      BY <1>4, <3>1, SeenWhole
  <2>2. AsSeen(req[r], FramesOf(r)) = b
    BY <1>t, <1>1, <1>2, <1>4, SeenWhole DEF Stage, Replies, Failures
  <2>3. Calls' = [Calls EXCEPT ![r] = c]
    <3> HIDE DEF c
    <3> QED
      BY <1>3, <2>1, OneCall
  <2>4. Calls[r] = b
    BY <2>2, CallsTyped
  <2>5. f.code = "ok" <=> Reads!Answerable(Calls[r])
    <3>1. Reads!Answerable(Calls[r]) <=> Reads!Answerable(req[r])
      BY <2>4 DEF Reads!Answerable
    <3> QED
      BY <1>t, <3>1, DispatchAnswers
  <2>6. f.data = [n \in Reads!Covers(Calls[r]) |-> cache[n]]
    <3>1. Reads!Covers(Calls[r]) = Reads!Covers(req[r])
      BY <2>4 DEF Reads!Covers, Reads!Answerable
    <3> QED
      BY <1>t, <3>1, DispatchAnswers
  <2>7. ASSUME NEW q \in Reads!HaveRead PROVE q < r
    <3>1. /\ q \in Ids /\ Calls[q] = AsSeen(req[q], FramesOf(q))
          /\ req[q] \in RequestType
          /\ Calls[q].stage \in {"read", "told"}
      BY <1>t, CallsTyped DEF Reads!HaveRead
    <3>2. Answered(q)
      BY <3>1, SeenAs DEF Answered, RequestType
    <3> QED
      BY <1>1, <1>2, <3>1, <3>2
  <2>8. Calls[r].stage = "asked"
    BY <2>4
  <2>9. c = Reads!Moved(Calls[r], "read", Reads!Answerable(Calls[r]),
                       [n \in Reads!Covers(Calls[r]) |-> cache[n]])
    <3> DEFINE ok == f.code = "ok"
               ans == Reads!Answerable(Calls[r])
               d == [n \in Reads!Covers(Calls[r]) |-> cache[n]]
    <3>1. ok = ans
      BY <2>5 DEF Reads!Answerable
    <3>2. f.data = d
      BY <2>6
    <3>3. /\ Calls[r].kind = req[r].kind /\ Calls[r].name = req[r].name
          /\ Calls[r].due = req[r].at + req[r].timeout
      BY <2>4
    <3>4. c = [stage |-> "read", kind |-> req[r].kind, name |-> req[r].name,
               due |-> req[r].at + req[r].timeout, ok |-> ok, data |-> f.data]
      OBVIOUS
    <3> HIDE DEF ok, ans, d, c, f
    <3>5. c = Reads!Moved(Calls[r], "read", ans, d)
      BY <3>1, <3>2, <3>3, <3>4 DEF Reads!Moved
    <3> QED
      BY <3>5 DEF ans, d
  <2> HIDE DEF b, c, f
  <2> QED
    BY <1>t, <2>3, <2>7, <2>8, <2>9 DEF Reads!Read
<1>5. CASE req[r].st # "pending"
  <2>1. AsSeen(req'[r], (FramesOf(r))') = AsSeen(req[r], FramesOf(r))
    BY <1>t, <1>5, SeenSettled
  <2>2. Calls' = Calls
    BY <1>3, <2>1, SameCalls
  <2> QED
    BY <1>t, <2>2 DEF Reads!readVars
<1> QED
  BY <1>4, <1>5

LEMMA DeliverIsAbstract ==
  ASSUME RefineInv, Deliver
  PROVE  (\E r \in Ids : Reads!Tell(r)) \/ UNCHANGED Reads!readVars
<1>t. /\ IInv /\ req \in [Ids -> RequestType] /\ now \in Nat
      /\ UNCHANGED <<now, cache>>
  BY TimeAssumption DEF RefineInv, IInv, StateTypeOK, Deliver, peerVars
<1>1. /\ Head(frames) \in Frames
      /\ FramesOf(Head(frames).id) = {Head(frames)}
      /\ \A q \in Ids : (FramesOf(q))' = IF q = Head(frames).id THEN {}
                                         ELSE FramesOf(q)
  BY DeliveredFrames
<1>2. PICK f \in Frames : f = Head(frames)
  BY <1>1
<1>3. PICK r \in Ids : r = f.id
  BY DEF Frames
<1>4. f.code \in Replies /\ f.data \in Entries
  BY DEF Frames
<1>5. \A q \in Ids \ {r} : req'[q] = req[q] /\ (FramesOf(q))' = FramesOf(q)
  BY <1>t, <1>1, <1>2, <1>3 DEF Deliver
<1>6. CASE r \in Pending
  <2> DEFINE c(s) == [stage |-> s, kind |-> req[r].kind,
                      name |-> req[r].name,
                      due |-> req[r].at + req[r].timeout,
                      ok |-> f.code = "ok", data |-> f.data]
  <2>1. req'[r] = [req[r] EXCEPT !.st = f.code, !.data = f.data, !.done = now]
    BY <1>2, <1>3, <1>6, <1>t DEF Deliver
  <2>2. /\ req'[r] \in RequestType
        /\ req'[r].st = f.code /\ req'[r].data = f.data
        /\ req'[r].kind = req[r].kind /\ req'[r].name = req[r].name
        /\ req'[r].at = req[r].at /\ req'[r].timeout = req[r].timeout
    BY <1>t, <1>4, <2>1 DEF RequestType
  <2>3. AsSeen(req'[r], (FramesOf(r))') = c("told")
    <3>1. AsSeen(req'[r], (FramesOf(r))') =
            [stage |-> "told", kind |-> req'[r].kind, name |-> req'[r].name,
             due |-> req'[r].at + req'[r].timeout,
             ok |-> req'[r].st = "ok", data |-> req'[r].data]
      BY <1>4, <2>2, SeenWhole
    <3> QED
      BY <2>2, <3>1
  <2>4. AsSeen(req[r], FramesOf(r)) = c("read")
    BY <1>t, <1>1, <1>2, <1>3, <1>6, SeenWhole DEF Pending
  <2>5. Calls[r] = c("read")
    BY <2>4, CallsTyped
  <2>6. c("told") = Reads!Moved(Calls[r], "told", Calls[r].ok, Calls[r].data)
    BY <2>5 DEF Reads!Moved
  <2>7. Calls[r].stage = "read"
    BY <2>5
  <2>8. Calls' = [Calls EXCEPT ![r] = c("told")]
    <3> DEFINE d == c("told")
    <3>1. d = AsSeen(req'[r], (FramesOf(r))')
      BY <2>3
    <3> HIDE DEF d
    <3>2. Calls' = [Calls EXCEPT ![r] = d]
      BY <1>5, <3>1, OneCall
    <3> QED
      BY <3>2 DEF d
  <2> HIDE DEF c
  <2> QED
    BY <1>t, <2>6, <2>7, <2>8 DEF Reads!Tell
<1>7. CASE r \notin Pending
  <2>1. req' = req
    BY <1>2, <1>3, <1>7 DEF Deliver
  <2>2. AsSeen(req'[r], (FramesOf(r))') = AsSeen(req[r], FramesOf(r))
    BY <1>t, <1>7, <2>1, SeenSettled DEF Pending
  <2>3. Calls' = Calls
    BY <1>5, <2>1, <2>2, SameCalls
  <2> QED
    BY <1>t, <2>3 DEF Reads!readVars
<1> QED
  BY <1>6, <1>7

(* A request that is given up, with the others or alone.                   *)
LEMMA OutstandingPending ==
  ASSUME IInv
  PROVE  Reads!Outstanding = Pending
<1>1. \A r \in Ids : /\ req[r] \in RequestType
                     /\ Calls[r] = AsSeen(req[r], FramesOf(r))
  BY CallsTyped DEF IInv, StateTypeOK
<1> SUFFICES ASSUME NEW r \in Ids
             PROVE  Calls[r].stage \in {"asked", "read"} <=>
                      req[r].st = "pending"
  BY DEF Reads!Outstanding, Pending
<1>2. \/ req[r].st \in {"unmade", "pending"} \/ req[r].st \in Replies
      \/ req[r].st \in Failures
  BY <1>1 DEF RequestType
<1> QED
  BY <1>1, <1>2, SeenAs DEF Replies, Failures

LEMMA FailIsAbstract ==
  ASSUME RefineInv, NEW S, S \subseteq Pending, NEW code \in Failures,
         req' = [r \in Ids |-> IF r \in S THEN [req[r] EXCEPT !.st = code]
                                          ELSE req[r]],
         \/ frames' = frames
         \/ frames' = <<>> /\ S = Pending,
         UNCHANGED <<now, cache>>
  PROVE  Reads!Fail(S)
<1>t. IInv /\ req \in [Ids -> RequestType]
  BY DEF RefineInv, IInv, StateTypeOK
<1>1. S \subseteq Reads!Outstanding /\ S \subseteq Ids
  BY <1>t, OutstandingPending DEF Pending
<1>2. ASSUME NEW r \in S
      PROVE  AsSeen(req'[r], (FramesOf(r))') =
               Reads!Moved(Calls[r], "failed", FALSE, Reads!Blank)
  <2>1. /\ req'[r].st = code /\ req'[r] \in RequestType
        /\ req'[r].kind = req[r].kind /\ req'[r].name = req[r].name
        /\ req'[r].at = req[r].at /\ req'[r].timeout = req[r].timeout
    BY <1>t, <1>1 DEF RequestType
  <2>2. AsSeen(req'[r], (FramesOf(r))') =
          [stage |-> "failed", kind |-> req'[r].kind, name |-> req'[r].name,
           due |-> req'[r].at + req'[r].timeout, ok |-> FALSE,
           data |-> Nothing]
    BY <2>1, SeenFailed
  <2>3. /\ Calls[r].kind = req[r].kind /\ Calls[r].name = req[r].name
        /\ Calls[r].due = req[r].at + req[r].timeout
    BY <1>t, <1>1, CallsTyped, SeenAs
  <2> QED
    BY <2>1, <2>2, <2>3 DEF Reads!Moved, Reads!Blank, Nothing
<1>3. ASSUME NEW r \in Ids \ S
      PROVE  AsSeen(req'[r], (FramesOf(r))') = Calls[r]
  <2>1. req'[r] = req[r] /\ req[r] \in RequestType
    BY <1>t
  <2>0. Calls[r] = AsSeen(req[r], FramesOf(r))
    BY CallsTyped
  <2>2. CASE frames' = frames
    <3>1. (FramesOf(r))' = FramesOf(r)
      BY <2>2 DEF FramesOf
    <3> QED
      BY <2>0, <2>1, <3>1
  <2>3. CASE S = Pending
    <3>1. req[r].st # "pending"
      BY <1>3, <2>3 DEF Pending
    <3>2. AsSeen(req[r], (FramesOf(r))') = AsSeen(req[r], FramesOf(r))
      BY <2>1, <3>1, SeenSettled
    <3> QED
      BY <2>0, <2>1, <3>2
  <2> QED
    BY <2>2, <2>3
<1>4. Calls' = [r \in Ids |->
                  IF r \in S
                  THEN Reads!Moved(Calls[r], "failed", FALSE, Reads!Blank)
                  ELSE Calls[r]]
  <2>1. Calls' = [r \in Ids |-> AsSeen(req'[r], (FramesOf(r))')]
    BY DEF Calls
  <2> QED
    BY <1>2, <1>3, <2>1
<1> QED
  BY <1>1, <1>4 DEF Reads!Fail

LEMMA GiveUpIsAbstract ==
  ASSUME RefineInv, Closes \/ Close \/ \E r \in Ids : Timeout(r)
  PROVE  \E S \in {Reads!Outstanding} \cup {{r} : r \in Ids} : Reads!Fail(S)
<1>i. IInv /\ req \in [Ids -> RequestType]
  BY DEF RefineInv, IInv, StateTypeOK
<1>1. CASE Closes \/ Close
  <2>1. /\ req' = [r \in Ids |-> IF r \in Pending
                     THEN [req[r] EXCEPT !.st = "DOWN"] ELSE req[r]]
        /\ UNCHANGED <<now, cache>> /\ (frames' = frames \/ frames' = <<>>)
    BY <1>1 DEF Closes, Close, RejectAll, peerVars
  <2>2. Reads!Fail(Pending)
    BY <2>1, FailIsAbstract DEF Failures
  <2> QED
    BY <1>i, <2>2, OutstandingPending
<1>2. ASSUME NEW r \in Ids, Timeout(r) PROVE Reads!Fail({r})
  <2>1. /\ r \in Pending /\ UNCHANGED <<now, cache>> /\ frames' = frames
        /\ req' = [req EXCEPT ![r].st = "TIMEOUT"]
    BY <1>2 DEF Timeout, peerVars
  <2>2. req' = [q \in Ids |-> IF q \in {r}
                  THEN [req[q] EXCEPT !.st = "TIMEOUT"] ELSE req[q]]
    BY <1>i, <2>1
  <2> QED
    BY <2>1, <2>2, FailIsAbstract DEF Failures
<1> QED
  BY <1>1, <1>2

(* The steps no caller sees but by what they leave in the cache.           *)
LEMMA QuietIsAbstract ==
  ASSUME RefineInv,
         \/ SidecarStart \/ SidecarDies \/ Tick \/ UNCHANGED vars
         \/ \E n \in Names : Update(n)
  PROVE  \/ Reads!Forget \/ Reads!Pass \/ UNCHANGED Reads!readVars
         \/ \E n \in Names : Reads!Refresh(n)
<1>1. Calls' = Calls
  <2>1. req' = req /\ frames' = frames
    BY DEF SidecarStart, SidecarDies, Tick, Update, vars, clientVars
  <2> QED
    BY <2>1 DEF Calls, FramesOf
<1>2. CASE SidecarStart
  BY <1>1, <1>2 DEF SidecarStart, Reads!Forget, NoEntry, Reads!Absent
<1>3. CASE SidecarDies \/ UNCHANGED vars
  BY <1>1, <1>3 DEF SidecarDies, vars, peerVars, Reads!readVars
<1>4. CASE Tick
  <2>1. \A r \in Pending : Calls[r].due = Due(r)
    BY CallsTyped, SeenAs DEF RefineInv, IInv, StateTypeOK, Due, Pending
  <2>2. \A r \in Reads!Outstanding : now < Calls[r].due
    BY <1>4, <2>1, OutstandingPending DEF RefineInv, Tick
  <2> QED
    BY <1>1, <1>4, <2>2 DEF Tick, peerVars, Reads!Pass
<1>5. ASSUME NEW n \in Names, Update(n) PROVE Reads!Refresh(n)
  BY <1>1, <1>5 DEF Update, Reads!Refresh
<1> QED
  BY <1>2, <1>3, <1>4, <1>5

LEMMA RefinementStep ==
  ASSUME RefineInv, [Next]_vars
  PROVE  [Reads!ReadsNext]_(Reads!readVars)
<1>1. CASE \/ \E n \in Names, t \in Timeouts : Get(n, t) \/ Subscribe(n, t)
           \/ \E t \in Timeouts : Snapshot(t)
  <2>1. MakesRequest /\ UNCHANGED <<now, peerVars, frames, closed>>
    BY <1>1 DEF Get, Subscribe, Snapshot, MakesRequest, Kinds
  <2> QED
    BY <2>1, AskIsAbstract DEF Reads!ReadsNext
<1>2. CASE Serve
  BY <1>2, ServeIsAbstract DEF Reads!ReadsNext
<1>3. CASE Deliver
  BY <1>3, DeliverIsAbstract DEF Reads!ReadsNext
<1>4. CASE Closes \/ Close \/ \E r \in Ids : Timeout(r)
  BY <1>4, GiveUpIsAbstract DEF Reads!ReadsNext
<1>5. CASE \/ SidecarStart \/ SidecarDies \/ Tick \/ UNCHANGED vars
           \/ \E n \in Names : Update(n)
  BY <1>5, QuietIsAbstract DEF Reads!ReadsNext
<1> QED
  BY <1>1, <1>2, <1>3, <1>4, <1>5 DEF Next

LEMMA InitRefines == Init => Reads!ReadsInit /\ TurnInv
<1> SUFFICES ASSUME Init PROVE Reads!ReadsInit /\ TurnInv
  OBVIOUS
<1>1. req = [r \in Ids |-> Unmade] /\ frames = <<>> /\ sent = <<>>
  BY DEF Init
<1>2. \A r \in Ids : FramesOf(r) = {}
  BY <1>1 DEF FramesOf
<1>3. AsSeen(Unmade, {}) =
        [stage |-> "unasked", kind |-> "get", name |-> {}, due |-> 0,
         ok |-> FALSE, data |-> Nothing]
  <2>1. Unmade \in RequestType
    BY NothingIsEntries DEF Unmade, RequestType, Kinds
  <2>2. /\ Unmade.st = "unmade" /\ Unmade.kind = "get" /\ Unmade.name = {}
        /\ Unmade.at + Unmade.timeout = 0 /\ Unmade.st \notin Replies
    BY DEF Unmade, Replies
  <2>3. Stage(Unmade, {}) = "unasked"
    BY <2>2 DEF Stage, Replies, Failures
  <2> QED
    BY <2>1, <2>2, <2>3, SeenWhole
<1>4. Calls = [r \in Ids |->
                 [stage |-> "unasked", kind |-> "get", name |-> {}, due |-> 0,
                  ok |-> FALSE, data |-> Reads!Blank]]
  BY <1>1, <1>2, <1>3 DEF Calls, Nothing, Reads!Blank
<1>5. Reads!ReadsInit
  BY <1>4 DEF Init, Reads!ReadsInit, NoEntry, Reads!Absent
<1>6. TurnInv
  BY <1>1, <1>2 DEF TurnInv, Answered, Unmade, Replies
<1> QED
  BY <1>5, <1>6

(* Whatever is late, lost or restarted, a caller may take the client for a *)
(* cache that each request reads once, in one instant of the request, in   *)
(* the order of the requests, and whose answers do not change.             *)
THEOREM ClientIsAtomic == Spec => ImplementsReads
<1>1. RefineInv /\ [Next]_vars => RefineInv'
  BY StepIInv, SentStep, TurnStep DEF RefineInv
<1>2. Init => RefineInv /\ Reads!ReadsInit
  BY InitIInv, InitOrder, InitRefines DEF RefineInv
<1>3. RefineInv /\ [Next]_vars => [Reads!ReadsNext]_(Reads!readVars)
  BY RefinementStep
<1> QED
  BY <1>1, <1>2, <1>3, PTL DEF Spec, ImplementsReads, Reads!ReadsSpec
============================================================================
