---------------------------- MODULE StateReads ----------------------------
(***************************************************************************)
(* What the state client promises its callers, who see neither a socket    *)
(* nor a sidecar: a cache read in one instant per request, that instant    *)
(* within the call, in the order of the requests; an answer that is given  *)
(* once, as it was read; an end by the deadline.  StateClient is shown to  *)
(* implement this module.                                                  *)
(***************************************************************************)
EXTENDS Integers

CONSTANTS
  Names,     \* the reducers
  Requests,  \* the requests, numbered in the order they are made
  Ttl,       \* the lifetime of an entry, 0 when it has none
  Horizon    \* bound: the last deadline

VARIABLES
  clock,
  entry,     \* the stamp of each reducer's entry, or Absent
  call       \* each request

readVars == <<clock, entry, call>>

Absent == -1
Blank == [n \in {} |-> 0]
Known == {n \in Names : entry[n] # Absent}
Fresh(n) == n \in Known /\ (Ttl = 0 \/ clock - entry[n] <= Ttl)

Outstanding == {r \in Requests : call[r].stage \in {"asked", "read"}}
HaveRead == {r \in Requests : call[r].stage \in {"read", "told"}}

ReadsInit ==
  /\ clock = 0
  /\ entry = [n \in Names |-> Absent]
  /\ call = [r \in Requests |->
               [stage |-> "unasked", kind |-> "get", name |-> {}, due |-> 0,
                ok |-> FALSE, data |-> Blank]]

(* Request q, further on.                                                  *)
Moved(q, stage, ok, data) ==
  [stage |-> stage, kind |-> q.kind, name |-> q.name, due |-> q.due,
   ok |-> ok, data |-> data]

(* The next request, which may fail at once.                               *)
Ask(r) ==
  /\ call[r].stage = "unasked"
  /\ \A q \in Requests : q < r => call[q].stage # "unasked"
  /\ \E s \in {"asked", "failed"}, k \in {"get", "snapshot", "subscribe"},
        S \in SUBSET Names, d \in clock..Horizon :
       call' = [call EXCEPT ![r] = [stage |-> s, kind |-> k, name |-> S,
                                    due |-> d, ok |-> FALSE, data |-> Blank]]
  /\ UNCHANGED <<clock, entry>>

(* A get has an answer while what it asks for is fresh, a snapshot always. *)
Answerable(q) ==
  \/ q.kind = "snapshot"
  \/ q.kind = "get" /\ \A n \in q.name : Fresh(n)
Covers(q) == IF ~Answerable(q) THEN {}
             ELSE IF q.kind = "snapshot" THEN Known ELSE q.name

(* The instant of the call at which the cache is read.                     *)
Read(r) ==
  /\ call[r].stage = "asked"
  /\ \A q \in HaveRead : q < r
  /\ call' = [call EXCEPT ![r] =
                Moved(@, "read", Answerable(@), [n \in Covers(@) |-> entry[n]])]
  /\ UNCHANGED <<clock, entry>>

(* The caller gets what was read.                                          *)
Tell(r) ==
  /\ call[r].stage = "read"
  /\ call' = [call EXCEPT ![r] = Moved(@, "told", @.ok, @.data)]
  /\ UNCHANGED <<clock, entry>>

(* Requests end without an answer, one by its timer or all that there are. *)
Fail(S) ==
  /\ S \subseteq Outstanding
  /\ call' = [r \in Requests |->
                IF r \in S THEN Moved(call[r], "failed", FALSE, Blank)
                           ELSE call[r]]
  /\ UNCHANGED <<clock, entry>>

Refresh(n) ==
  /\ entry' = [entry EXCEPT ![n] = clock]
  /\ UNCHANGED <<clock, call>>

(* The process that keeps the cache was started anew.                      *)
Forget ==
  /\ entry' = [n \in Names |-> Absent]
  /\ UNCHANGED <<clock, call>>

(* No request outlives its deadline.                                       *)
Pass ==
  /\ \A r \in Outstanding : clock < call[r].due
  /\ clock' = clock + 1
  /\ UNCHANGED <<entry, call>>

ReadsNext ==
  \/ \E r \in Requests : Ask(r) \/ Read(r) \/ Tell(r)
  \/ \E S \in {Outstanding} \cup {{r} : r \in Requests} : Fail(S)
  \/ \E n \in Names : Refresh(n)
  \/ Forget \/ Pass

ReadsSpec == ReadsInit /\ [][ReadsNext]_readVars
===========================================================================
