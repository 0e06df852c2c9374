------------------------------- MODULE RoutePlan -------------------------------
(***************************************************************************)
(* Which models the gateway tries for a request, and in which order        *)
(* (Gateway.plan in ai-gateway/gateway.py).  A pure function of the route, *)
(* of the last health checks and of the request.                           *)
(***************************************************************************)
EXTENDS Integers, Sequences, SequencesExt

CONSTANTS
  Models,       \* what a request may name, beside the route
  Targets,      \* the model servers
  TargetOf,     \* [Models -> Targets]
  Keyed,        \* targets with an API key: they cost money
  Unset,        \* those of Keyed whose key is not set: they are off
  Limited       \* models with a max_prompt_chars that a long request exceeds

ASSUME RoutePlanAssumption ==
  /\ TargetOf \in [Models -> Targets]
  /\ Keyed \subseteq Targets /\ Unset \subseteq Keyed
  /\ Limited \subseteq Models

(* Definitions named Fault... are wrong versions of the definition after
   them; each refutes a property when put in its place. *)
FaultUsable(m, trusted) == TargetOf[m] \notin Unset

(* May a caller use this model at all? *)
Usable(m, trusted) == TargetOf[m] \notin Unset /\ (TargetOf[m] \in Keyed => trusted)

(* What plan() notes of a model it may use. *)
Standing(m, long, up) ==
  IF m \in Limited /\ long THEN "too_long" ELSE IF up[TargetOf[m]] THEN "ok" ELSE "down"

(* The members of ms that are in S, in their order. *)
Those(ms, S) ==
  LET upTo[n \in 0..Len(ms)] ==
        IF n = 0 THEN <<>>
        ELSE IF ms[n] \in S THEN Append(upTo[n-1], ms[n]) ELSE upTo[n-1]
  IN  upTo[Len(ms)]

Eligible(route, trusted) == Those(route, {m \in Models : Usable(m, trusted)})

InStanding(ms, standing, long, up) ==
  Those(ms, {m \in Models : Standing(m, long, up) = standing})

(* Those that are up go first, those that seem down go last. *)
FaultOrderUpOnly(ms, long, up) == InStanding(ms, "ok", long, up)
Order(ms, long, up) == InStanding(ms, "ok", long, up) \o InStanding(ms, "down", long, up)

(* Why the model tried first is tried first. *)
FaultReasonOwn(ms, order, long, up) ==
  IF order[1] = ms[1] THEN "first" ELSE Standing(order[1], long, up)
Reason(ms, order, long, up) ==
  LET first == CHOOSE i \in DOMAIN ms : ms[i] = order[1]
  IN  IF first = 1 THEN "first" ELSE Standing(ms[first - 1], long, up)

Refused(status) == [status |-> status, order |-> <<>>, reason |-> "none"]
Planned(order, reason) == [status |-> "planned", order |-> order, reason |-> reason]

(* plan() for a request that names a model, and for one that names a route:
   the candidates in order, or the error the caller gets. *)
PlanModel(m, trusted) ==
  IF TargetOf[m] \in Unset THEN Refused("503")
  ELSE IF ~Usable(m, trusted) THEN Refused("403")
  ELSE Planned(<<m>>, "requested")

PlanRoute(route, trusted, long, up) ==
  LET ms == Eligible(route, trusted)
      order == Order(ms, long, up)
  IN  IF order # <<>> THEN Planned(order, Reason(ms, order, long, up))
      ELSE IF ms # <<>> THEN Refused("413") ELSE Refused("503")
===============================================================================
