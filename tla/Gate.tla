--------------------------------- MODULE Gate ---------------------------------
(***************************************************************************)
(* The admission gate in front of one LLM target of the AI gateway         *)
(* (class Gate in ai-gateway/gateway.py), with the asyncio tasks that use  *)
(* it.  Everything a task does between two awaits is one action.           *)
(*                                                                         *)
(* A request waits on a future of its own, its turn.  Cancelling a task    *)
(* that waits cancels its turn at once, while the task itself sees the     *)
(* CancelledError only when the event loop next runs it: the two are the   *)
(* actions Cancel and Unwind.  A turn that is granted likewise wakes its   *)
(* task later (Wake), and the caller may hang up in between.               *)
(***************************************************************************)
EXTENDS Integers, Sequences, FiniteSets

CONSTANTS
  Requests,     \* the tasks; one that has left the gate may come again
  Models,       \* upstream model names
  Slots,        \* max_concurrent of the target, 0 for no limit
  Exclusive,    \* TRUE when the target holds one model at a time
  NoModel,      \* Gate.model before the first request (None)
  Gone,         \* a deque entry whose turn was cancelled
  MaxQueue      \* bound of the model on the length of the deque

ASSUME GateAssumption ==
  /\ IsFiniteSet(Requests)
  /\ Slots \in Nat
  /\ Exclusive \in BOOLEAN
  /\ NoModel \notin Models
  /\ Gone \notin Requests
  /\ MaxQueue \in Nat

VARIABLES
  model,        \* model of the request admitted last
  running,      \* the count the gate compares with Slots
  waiters,      \* the deque: a waiting request, or Gone
  at,           \* where each request is
  wants         \* the model each request asks for

vars == <<model, running, waiters, at, wants>>

(***************************************************************************)
(* "out": not at the gate.  "waiting": its turn is pending.  "called": its *)
(* turn is granted, the task has not run yet.  "inside": past the gate.    *)
(* "dropped": its turn was cancelled, the CancelledError is on its way.    *)
(* "refused": cancelled although its turn was granted already.             *)
(***************************************************************************)
Places == {"out", "waiting", "called", "inside", "dropped", "refused"}

Holding == {"called", "inside", "refused"}
Holders == {r \in Requests : at[r] \in Holding}

-----------------------------------------------------------------------------
(***************************************************************************)
(* Definitions named Fault... are not part of the model.  Each is a wrong  *)
(* version of the definition that follows it, as a plausible slip in the   *)
(* code would have it, and refutes a property when put in its place.       *)
(***************************************************************************)
(* _fits: may a request for m join n others, mdl being the gate's model? *)
Fits(n, mdl, m) ==
  /\ Slots = 0 \/ n < Slots
  /\ ~Exclusive \/ n = 0 \/ mdl = m

(* The requests among the first k entries of the deque w. *)
Called(w, k) == {w[i] : i \in 1..k} \ {Gone}

(* Gate.model after the loop of _admit has taken k entries off w. *)
ModelAfter(w, want, mdl, k) ==
  IF Called(w, k) = {} THEN mdl
  ELSE LET last == CHOOSE i \in 1..k : /\ w[i] # Gone
                                       /\ \A j \in (i+1)..k : w[j] = Gone
       IN  want[w[last]]

(* The loop of _admit takes entry i off: it is gone, or it fits by then. *)
Passes(w, want, mdl, n, i) ==
  w[i] # Gone =>
    Fits(n + Cardinality(Called(w, i-1)), ModelAfter(w, want, mdl, i-1), want[w[i]])

(* The loop takes exactly k entries off. *)
Takes(w, want, mdl, n, k) ==
  /\ \A i \in 1..k : Passes(w, want, mdl, n, i)
  /\ k < Len(w) => ~Passes(w, want, mdl, n, k+1)

(***************************************************************************)
(* _admit on the deque w, with n running: it takes entries off the front   *)
(* until one has to wait.  place is where the requests are beforehand; the *)
(* request that runs the loop on its own behalf ("out" so far) goes        *)
(* straight in, for awaiting a turn that is done does not suspend.         *)
(***************************************************************************)
Admit(w, want, n, place) ==
  \E k \in {k \in 0..Len(w) : Takes(w, want, model, n, k)} :
    /\ waiters' = SubSeq(w, k+1, Len(w))
    /\ running' = n + Cardinality(Called(w, k))
    /\ model' = ModelAfter(w, want, model, k)
    /\ wants' = want
    /\ at' = [r \in Requests |->
                IF r \in Called(w, k)
                THEN IF at[r] = "out" THEN "inside" ELSE "called"
                ELSE place[r]]

-----------------------------------------------------------------------------
(* A fast path: who fits does not queue. *)
FaultEnterFast(r, m) ==
  /\ at[r] = "out"
  /\ Len(waiters) < MaxQueue
  /\ IF Fits(running, model, m)
     THEN /\ running' = running + 1
          /\ model' = m
          /\ wants' = [wants EXCEPT ![r] = m]
          /\ at' = [at EXCEPT ![r] = "inside"]
          /\ UNCHANGED waiters
     ELSE Admit(Append(waiters, r), [wants EXCEPT ![r] = m], running,
                [at EXCEPT ![r] = "waiting"])

(* enter() up to its await: queue up, and let the gate look at its deque. *)
Enter(r, m) ==
  /\ at[r] = "out"
  /\ Len(waiters) < MaxQueue
  /\ Admit(Append(waiters, r), [wants EXCEPT ![r] = m], running,
           [at EXCEPT ![r] = "waiting"])

(* The event loop runs a task whose turn has come. *)
Wake(r) ==
  /\ at[r] = "called"
  /\ at' = [at EXCEPT ![r] = "inside"]
  /\ UNCHANGED <<model, running, waiters, wants>>

(* The caller hangs up on a request that is at enter()'s await. *)
Cancel(r) ==
  \/ /\ at[r] = "waiting"
     /\ at' = [at EXCEPT ![r] = "dropped"]
     /\ waiters' = [i \in DOMAIN waiters |-> IF waiters[i] = r THEN Gone ELSE waiters[i]]
     /\ UNCHANGED <<model, running, wants>>
  \/ /\ at[r] = "called"
     /\ at' = [at EXCEPT ![r] = "refused"]
     /\ UNCHANGED <<model, running, waiters, wants>>

(* leave(): the slot is given back and the deque looked at. *)
GiveBack(r) == Admit(waiters, wants, running - 1, [at EXCEPT ![r] = "out"])

(* A turn granted to a caller that has left is not given back. *)
FaultUnwindLeaks(r) ==
  /\ at[r] \in {"dropped", "refused"}
  /\ Admit(waiters, wants, running, [at EXCEPT ![r] = "out"])

(* Who hangs up does not look at the deque. *)
FaultUnwindQuietly(r) ==
  \/ /\ at[r] = "dropped"
     /\ at' = [at EXCEPT ![r] = "out"]
     /\ UNCHANGED <<model, running, waiters, wants>>
  \/ /\ at[r] = "refused"
     /\ GiveBack(r)

(* The except clause of enter(): turn cancelled, or admitted all the same. *)
Unwind(r) ==
  \/ /\ at[r] = "dropped"
     /\ Admit(waiters, wants, running, [at EXCEPT ![r] = "out"])
  \/ /\ at[r] = "refused"
     /\ GiveBack(r)

(* attempt() ends, in whatever way: its finally clause calls leave(). *)
Leave(r) ==
  /\ at[r] = "inside"
  /\ GiveBack(r)

Init ==
  /\ model = NoModel
  /\ running = 0
  /\ waiters = <<>>
  /\ at = [r \in Requests |-> "out"]
  /\ wants \in [Requests -> Models]

Next ==
  \E r \in Requests :
    \/ \E m \in Models : Enter(r, m)
    \/ Wake(r)
    \/ Cancel(r)
    \/ Unwind(r)
    \/ Leave(r)

Spec == Init /\ [][Next]_vars

(***************************************************************************)
(* The event loop runs every task that is ready, and what is inside comes  *)
(* to an end (the upstream answers, fails, or stalls into the session's    *)
(* sock_read timeout).  Callers owe the gate nothing: neither Enter nor    *)
(* Cancel is fair.                                                         *)
(***************************************************************************)
Fairness ==
  \A r \in Requests : WF_vars(Wake(r)) /\ WF_vars(Unwind(r)) /\ WF_vars(Leave(r))

FairSpec == Spec /\ Fairness

-----------------------------------------------------------------------------
(* Every variable has its type; the count of the gate is never negative. *)
TypeOK ==
  /\ model \in Models \cup {NoModel}
  /\ running \in Nat
  /\ waiters \in Seq(Requests \cup {Gone})
  /\ at \in [Requests -> Places]
  /\ wants \in [Requests -> Models]

(* A request is in the deque exactly while its turn is pending, and once. *)
Queued ==
  /\ \A r \in Requests : at[r] = "waiting" <=> \E i \in DOMAIN waiters : waiters[i] = r
  /\ \A i, j \in DOMAIN waiters : waiters[i] = waiters[j] /\ waiters[i] # Gone => i = j

(* The gate's count is the number of requests that hold a slot: none leaks
   when a caller hangs up, not even in the moment its turn came. *)
NoSlotLeak == running = Cardinality(Holders)

(* "At most `slots` requests run at once (0 = no limit)." *)
SlotsRespected == Slots # 0 => Cardinality(Holders) <= Slots

(* "When `exclusive`, they must all be for the same model." *)
OneModelAtATime ==
  Exclusive => \A r, s \in Holders : wants[r] = wants[s]

(* The model the gate remembers is that of the requests inside. *)
ModelIsTheirs ==
  Exclusive => \A r \in Holders : wants[r] = model

(* The invariant the proofs are by: with the deque in order and the model
   remembered rightly, what the gate lets in next keeps to its limits. *)
Inv ==
  /\ TypeOK
  /\ Queued
  /\ NoSlotLeak
  /\ SlotsRespected
  /\ ModelIsTheirs

(* No turn is lost: whoever is first in the deque really has to wait, or
   has hung up and its own exception is on the way to take it off. *)
NoLostTurn ==
  waiters # <<>> =>
    IF Head(waiters) = Gone
    THEN \E r \in Requests : at[r] = "dropped"
    ELSE ~Fits(running, model, wants[Head(waiters)])

(* A request that stands in the deque before r, or r's every predecessor
   when r has just arrived. *)
Ahead(r) ==
  {s \in Requests :
     \E i \in DOMAIN waiters :
       /\ waiters[i] = s
       /\ \A j \in 1..i : waiters[j] # r}

(* "Nothing behind it overtakes": a step that lets r in leaves nobody who
   came before r waiting. *)
NoOvertaking ==
  [][\A r \in Requests :
       at[r] \in {"out", "waiting"} /\ at'[r] \in {"called", "inside"}
         => \A s \in Ahead(r) : at'[s] # "waiting"]_vars

(* "So it cannot starve": whoever waits gets in or hangs up. *)
NoStarvation ==
  \A r \in Requests : at[r] = "waiting" ~> at[r] # "waiting"

-----------------------------------------------------------------------------
(* The requests in the deque are Admission's line, each behind those that
   stand before it there; the holders of a slot are those inside. *)
Waiting == {r \in Requests : at[r] = "waiting"}
Behind == [r \in Requests |-> IF at[r] = "waiting" THEN Ahead(r) ELSE {}]

A == INSTANCE Admission WITH line <- Waiting, ahead <- Behind, inside <- Holders

(* Every step of the gate, those of enter, leave and the callers that hang up,
   is a step, or no step, of the abstract admission. *)
IsAdmission == A!Spec
===============================================================================
