-------------------------------- MODULE Gateway --------------------------------
(***************************************************************************)
(* One request at the AI gateway: handle, serve, attempt and relay_stream  *)
(* of ai-gateway/gateway.py, for several requests and targets at once.  A  *)
(* request asks the models of its plan one after the other until one has   *)
(* an answer, and never once the caller has seen any of it.                *)
(*                                                                         *)
(* Each target's gate is the Admission that module Gate implements, with   *)
(* the admission of the next in line a step of its own (Admit).            *)
(***************************************************************************)
EXTENDS RoutePlan, FiniteSets

CONSTANTS
  Calls,        \* the requests
  Route,        \* the models of the one route, in its order
  Slots,        \* [Targets -> Nat], max_concurrent, 0 for no limit
  Exclusive,    \* [Targets -> BOOLEAN]
  Probed,       \* the targets with a health URL
  NoModel

ASSUME GatewayAssumption ==
  /\ IsFiniteSet(Calls)
  /\ Route \in Seq(Models) /\ Route # <<>> /\ IsInjective(Route)
  /\ Slots \in [Targets -> Nat] /\ Exclusive \in [Targets -> BOOLEAN]
  /\ Probed \subseteq Targets
  /\ NoModel \notin Models

VARIABLES
  up,           \* [Targets -> BOOLEAN]: the last health checks
  stage,        \* where each call is
  trusted,      \* [Calls -> BOOLEAN]: on this host, or with a client key
  plan,         \* the candidates of each call
  pos,          \* the candidate it is at
  line,         \* [Targets -> Seq(Calls)]: who waits at the gate
  inside,       \* [Targets -> SUBSET Calls]: who is past it
  asked,        \* the models a request was sent to, for each call
  seen,         \* the model whose answer the caller has seen some of
  code,         \* Call.code
  finish,       \* Call.finish, of which record makes the reason it counts
  inflight, waiting, running   \* the gauges of /metrics

gauges == <<inflight, waiting, running>>
vars == <<up, stage, trusted, plan, pos, line, inside, asked, seen, code, finish, gauges>>

(* "idle"; "reading" the body; "queued" at a gate; "asking" the upstream;
   "relaying" its stream; "ended" and recorded. *)
Stages == {"idle", "reading", "queued", "asking", "relaying", "ended"}
Codes == {"200", "400", "403", "404", "413", "500", "502", "503", "4xx", "5xx",
          "client_closed", "stream_error"}
Model(c) == plan[c][pos[c]]
Target(c) == TargetOf[Model(c)]
FaultMayRetry(c) == pos[c] + 1 < Len(plan[c])
MayRetry(c) == pos[c] < Len(plan[c])

-----------------------------------------------------------------------------
(* Definitions named Fault... are wrong versions of the definition after
   them; each refutes a property when put in its place. *)
FaultRecorded(sent, codeNow, finishNow) == finishNow

(* record(): a request that was sent and got no answer finished in error. *)
Recorded(sent, codeNow, finishNow) ==
  IF finishNow = "none" /\ sent /\ codeNow # "200" THEN "error" ELSE finishNow

(* handle() ends, its finally clause included. *)
End(c, codeNow, finishNow) ==
  /\ stage' = [stage EXCEPT ![c] = "ended"]
  /\ code' = [code EXCEPT ![c] = codeNow]
  /\ finish' = [finish EXCEPT ![c] = Recorded(asked[c] # {}, codeNow, finishNow)]
  /\ inflight' = inflight - 1

(* attempt() up to the await at the gate of candidate i. *)
Queue(c, i) ==
  LET t == TargetOf[plan'[c][i]] IN
  /\ stage' = [stage EXCEPT ![c] = "queued"]
  /\ pos' = [pos EXCEPT ![c] = i]
  /\ line' = [line EXCEPT ![t] = Append(@, c)]
  /\ waiting' = [waiting EXCEPT ![t] = @ + 1]

(* The slot is not given back. *)
FaultLeaveGate(c) ==
  /\ running' = [running EXCEPT ![Target(c)] = @ - 1]
  /\ UNCHANGED inside

(* The finally clause of attempt(). *)
LeaveGate(c) ==
  /\ inside' = [inside EXCEPT ![Target(c)] = @ \ {c}]
  /\ running' = [running EXCEPT ![Target(c)] = @ - 1]

(* attempt() returns an answer, and with it the request ends. *)
Answer(c, codeNow, finishNow) ==
  /\ LeaveGate(c)
  /\ End(c, codeNow, finishNow)
  /\ UNCHANGED <<up, trusted, plan, pos, line, asked, waiting>>

(* attempt() returns None: failed before the caller saw anything. *)
NextCandidate(c) ==
  /\ MayRetry(c)
  /\ UNCHANGED plan
  /\ LeaveGate(c)
  /\ Queue(c, pos[c] + 1)
  /\ UNCHANGED <<up, trusted, asked, seen, code, finish, inflight>>

-----------------------------------------------------------------------------
(* handle() up to the await of the body. *)
Arrive(c, isTrusted) ==
  /\ stage[c] = "idle"
  /\ stage' = [stage EXCEPT ![c] = "reading"]
  /\ trusted' = [trusted EXCEPT ![c] = isTrusted]
  /\ inflight' = inflight + 1
  /\ UNCHANGED <<up, plan, pos, line, inside, asked, seen, code, finish, waiting, running>>

(* The body is too long or cannot be read, which leaves Call.code as it began;
   or it is no JSON object with a model, or names none there is. *)
TurnAway(c) ==
  /\ stage[c] = "reading"
  /\ \E status \in {"400", "404", "500"} : End(c, status, "none")
  /\ UNCHANGED <<up, trusted, plan, pos, line, inside, asked, seen, waiting, running>>

(* plan(), on the health checks as they are now. *)
Plan(c, p) ==
  /\ stage[c] = "reading"
  /\ IF p.status = "planned"
     THEN /\ plan' = [plan EXCEPT ![c] = p.order]
          /\ Queue(c, 1)
          /\ UNCHANGED <<code, finish, inflight>>
     ELSE /\ End(c, p.status, "none")
          /\ UNCHANGED <<plan, pos, line, waiting>>
  /\ UNCHANGED <<up, trusted, inside, asked, seen, running>>

(* The calls of S may be at target t at once. *)
Together(t, S) ==
  /\ Slots[t] # 0 => Cardinality(S) <= Slots[t]
  /\ Exclusive[t] => \A c, d \in S : Model(c) = Model(d)

(* The gate of t lets the next one in, which then sends its request. *)
Admit(t) ==
  /\ line[t] # <<>>
  /\ LET c == Head(line[t]) IN
     /\ Together(t, inside[t] \cup {c})
     /\ line' = [line EXCEPT ![t] = Tail(@)]
     /\ inside' = [inside EXCEPT ![t] = @ \cup {c}]
     /\ stage' = [stage EXCEPT ![c] = "asking"]
     /\ asked' = [asked EXCEPT ![c] = @ \cup {Model(c)}]
  /\ waiting' = [waiting EXCEPT ![t] = @ - 1]
  /\ running' = [running EXCEPT ![t] = @ + 1]
  /\ UNCHANGED <<up, trusted, plan, pos, seen, code, finish, inflight>>

(* No connection, no answer in time, or it breaks off before its end. *)
NoAnswer(c) ==
  /\ stage[c] = "asking"
  /\ \/ NextCandidate(c)
     \/ ~MayRetry(c) /\ Answer(c, "502", "error") /\ UNCHANGED seen

(* The answer is an error: the target's own (a 5xx, or too little context)
   or the caller's. *)
ErrorAnswer(c) ==
  /\ stage[c] = "asking"
  /\ \/ NextCandidate(c)
     \/ /\ ~MayRetry(c) /\ Answer(c, "5xx", "error")
        /\ seen' = [seen EXCEPT ![c] = Model(c)]
     \/ /\ Answer(c, "4xx", "error")
        /\ seen' = [seen EXCEPT ![c] = Model(c)]

(* A whole answer, which may state an error, or no finish at all. *)
WholeAnswer(c) ==
  /\ stage[c] = "asking"
  /\ \E stated \in {"stop", "error", "none"} : Answer(c, "200", stated)
  /\ seen' = [seen EXCEPT ![c] = Model(c)]

(* A stream begins: the caller gets its headers, or is gone by then and the
   failed write ends the request as any exception does. *)
StreamBegins(c) ==
  /\ stage[c] = "asking"
  /\ \/ /\ stage' = [stage EXCEPT ![c] = "relaying"]
        /\ code' = [code EXCEPT ![c] = "200"]
        /\ seen' = [seen EXCEPT ![c] = Model(c)]
        /\ UNCHANGED <<up, trusted, plan, pos, line, inside, asked, finish, gauges>>
     \/ Answer(c, code[c], finish[c]) /\ UNCHANGED seen

(* A stream that is cut short goes to the next model. *)
FaultStreamEnds(c) ==
  /\ stage[c] = "relaying"
  /\ \/ Answer(c, "200", "stop") /\ UNCHANGED seen
     \/ NextCandidate(c)

(* It ends: finished, cut short or stalled, or the caller's side reset. *)
StreamEnds(c) ==
  /\ stage[c] = "relaying"
  /\ \/ \E stated \in {"stop", "error", "none"} : Answer(c, "200", stated)
     \/ Answer(c, "stream_error", "error")
     \/ Answer(c, "client_closed", "abort")
  /\ UNCHANGED seen

(* One finally clause for the gauges of both stages. *)
FaultHangUp(c) ==
  /\ stage[c] \in {"queued", "asking", "relaying"}
  /\ line' = [line EXCEPT ![Target(c)] = RemoveFirst(@, c)]
  /\ LeaveGate(c)
  /\ End(c, "client_closed", "abort")
  /\ UNCHANGED <<up, trusted, plan, pos, asked, seen, waiting>>

(* The caller hangs up: the task is cancelled at the await it is at. *)
HangUp(c) ==
  \/ /\ stage[c] = "reading"
     /\ End(c, "client_closed", "abort")
     /\ UNCHANGED <<up, trusted, plan, pos, line, inside, asked, seen, waiting, running>>
  \/ /\ stage[c] = "queued"
     /\ End(c, "client_closed", "abort")
     /\ line' = [line EXCEPT ![Target(c)] = RemoveFirst(@, c)]
     /\ waiting' = [waiting EXCEPT ![Target(c)] = @ - 1]
     /\ UNCHANGED <<up, trusted, plan, pos, inside, asked, seen, running>>
  \/ /\ stage[c] \in {"asking", "relaying"}
     /\ Answer(c, "client_closed", "abort")
     /\ UNCHANGED seen

(* A health check has come back. *)
Probe(t) ==
  /\ t \in Probed
  /\ up' = [up EXCEPT ![t] = ~@]
  /\ UNCHANGED <<stage, trusted, plan, pos, line, inside, asked, seen, code, finish, gauges>>

Init ==
  /\ up = [t \in Targets |-> TRUE]
  /\ stage = [c \in Calls |-> "idle"]
  /\ trusted = [c \in Calls |-> FALSE]
  /\ plan = [c \in Calls |-> <<>>]
  /\ pos = [c \in Calls |-> 0]
  /\ line = [t \in Targets |-> <<>>]
  /\ inside = [t \in Targets |-> {}]
  /\ asked = [c \in Calls |-> {}]
  /\ seen = [c \in Calls |-> NoModel]
  /\ code = [c \in Calls |-> "500"]
  /\ finish = [c \in Calls |-> "none"]
  /\ inflight = 0
  /\ waiting = [t \in Targets |-> 0]
  /\ running = [t \in Targets |-> 0]

(* What the gateway, and the upstreams, do with a request. *)
Serve(c) ==
  \/ TurnAway(c)
  \/ \E m \in Models : Plan(c, PlanModel(m, trusted[c]))
  \/ \E long \in BOOLEAN : Plan(c, PlanRoute(Route, trusted[c], long, up))
  \/ NoAnswer(c) \/ ErrorAnswer(c) \/ WholeAnswer(c)
  \/ StreamBegins(c) \/ StreamEnds(c)

Next ==
  \/ \E c \in Calls : Serve(c) \/ HangUp(c) \/ \E isTrusted \in BOOLEAN : Arrive(c, isTrusted)
  \/ \E t \in Targets : Admit(t) \/ Probe(t)

(* The event loop runs, and every upstream answers or fails in the end: the
   session's read timeout sees to it.  No caller has to come or to hang up. *)
Fairness ==
  /\ \A c \in Calls : WF_vars(Serve(c))
  /\ \A t \in Targets : WF_vars(Admit(t))

Spec == Init /\ [][Next]_vars
FairSpec == Spec /\ Fairness

-----------------------------------------------------------------------------
TypeOK ==
  /\ up \in [Targets -> BOOLEAN]
  /\ stage \in [Calls -> Stages]
  /\ trusted \in [Calls -> BOOLEAN]
  /\ plan \in [Calls -> Seq(Models)] /\ pos \in [Calls -> Nat]
  /\ line \in [Targets -> Seq(Calls)] /\ inside \in [Targets -> SUBSET Calls]
  /\ asked \in [Calls -> SUBSET Models]
  /\ seen \in [Calls -> Models \cup {NoModel}]
  /\ code \in [Calls -> Codes]
  /\ finish \in [Calls -> {"none", "stop", "error", "abort"}]
  /\ inflight \in Nat /\ waiting \in [Targets -> Nat] /\ running \in [Targets -> Nat]

At(t, stages) == {c \in Calls : stage[c] \in stages /\ Target(c) = t}

(* Every target's limits hold while requests move from one to another. *)
LimitsHold == \A t \in Targets : Together(t, inside[t])

(* The gauges of the dashboard are true whichever way requests end: each
   request is counted once, at the one target it waits for or runs at, and is
   there within the target's limits. *)
GaugesAreTrue ==
  /\ TypeOK /\ LimitsHold
  /\ inflight = Cardinality({c \in Calls : stage[c] \notin {"idle", "ended"}})
  /\ \A t \in Targets :
       /\ waiting[t] = Cardinality(At(t, {"queued"})) /\ ToSet(line[t]) = At(t, {"queued"})
       /\ running[t] = Cardinality(At(t, {"asking", "relaying"}))
       /\ inside[t] = At(t, {"asking", "relaying"})

(* A target that costs money is asked for trusted callers only, whichever
   route and however many failovers led there; one without a key never. *)
PaidForTheTrusted ==
  \A c \in Calls : \A m \in asked[c] :
    TargetOf[m] \notin Unset /\ (TargetOf[m] \in Keyed => trusted[c])

(* The caller gets an upstream's failure only after all of its candidates
   have been asked, those last that seemed down. *)
FailureIsLastResort ==
  \A c \in Calls :
    stage[c] = "ended" /\ code[c] \in {"5xx", "502"} => asked[c] = ToSet(plan[c])

(* A request is counted as finished well only if the caller has an answer. *)
NoFalseSuccess ==
  \A c \in Calls :
    stage[c] = "ended" /\ asked[c] # {} /\ finish[c] \notin {"error", "abort"}
      => seen[c] # NoModel /\ code[c] = "200"

(* "Failed before the caller saw anything, try the next model": once the
   caller has seen something, no other model is asked. *)
OneAnswerer ==
  [][\A c \in Calls :
       seen[c] # NoModel => asked'[c] = asked[c] /\ seen'[c] = seen[c]]_vars

(* Every request comes to its end and is recorded. *)
EveryCallEnds == \A c \in Calls : stage[c] # "idle" ~> stage[c] = "ended"
===============================================================================
