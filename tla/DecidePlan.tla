------------------------------- MODULE DecidePlan -------------------------------
(***************************************************************************)
(* The gateway plans which models it tries: RoutePlan, as decisions to be  *)
(* right about.  The state is one request for a route, with what the last  *)
(* health checks said; another may follow, and nothing is kept between two.*)
(***************************************************************************)
EXTENDS RoutePlan, Question

(* A route is a list of models without repetitions. *)
PlanQuestions ==
  [about: {"plan"}, route: {s \in Seq(Models) : s # <<>> /\ IsInjective(s)},
   trusted: BOOLEAN, long: BOOLEAN, up: [Targets -> BOOLEAN]]

AnyPlan == ask \in PlanQuestions /\ [][ask' \in PlanQuestions]_ask

-----------------------------------------------------------------------------
planned == PlanRoute(ask.route, ask.trusted, ask.long, ask.up)

(* The models the request may go to and fits in. *)
Candidates == {m \in ToSet(ask.route) : Usable(m, ask.trusted) /\ ~(m \in Limited /\ ask.long)}

Place(m) == CHOOSE i \in DOMAIN ask.route : ask.route[i] = m

IsUp(m) == ask.up[TargetOf[m]]

(* What is up goes before what seems down; otherwise the route's order. *)
UpBeforeDown ==
  \A i, j \in DOMAIN planned.order :
    i < j => LET a == planned.order[i]
                 b == planned.order[j]
             IN  IF IsUp(a) = IsUp(b) THEN Place(a) < Place(b) ELSE IsUp(a)

(* "Those models are tried last rather than never" (plan): the plan holds each
   candidate once, those that seem down last, and the caller is refused only
   when there is none; as too long only if a shorter request would be served. *)
EachIsTried ==
  ask.about = "plan" =>
    /\ ToSet(planned.order) = Candidates /\ IsInjective(planned.order)
    /\ UpBeforeDown
    /\ planned.status = "planned" <=> Candidates # {}
    /\ planned.status = "413" <=>
         /\ Candidates = {}
         /\ PlanRoute(ask.route, ask.trusted, FALSE, ask.up).status = "planned"

(* The reason counted for the first candidate (plan) is true: either no usable
   model is ahead of it in the route, or one of those was passed over for it. *)
ReasonIsTrue ==
  ask.about = "plan" /\ planned.status = "planned" =>
    LET first == planned.order[1]
        ahead == {m \in ToSet(ask.route) : Usable(m, ask.trusted) /\ Place(m) < Place(first)}
    IN  IF ahead = {} THEN planned.reason = "first"
        ELSE \/ planned.reason = "too_long" /\ \E m \in ahead : m \in Limited /\ ask.long
             \/ planned.reason = "down" /\ \E m \in ahead : m \in Candidates /\ ~IsUp(m)
================================================================================
