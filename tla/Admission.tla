------------------------------- MODULE Admission -------------------------------
(***************************************************************************)
(* What the gate promises, without futures, wake-ups, a deque or a counter:*)
(* who stands in line, behind whom, and who was let in.  The front of the  *)
(* line may go in whenever those inside then still go together, and never  *)
(* anyone else.                                                            *)
(***************************************************************************)
EXTENDS Integers, FiniteSets

CONSTANTS Requests, Models, Slots, Exclusive

VARIABLES
  line,         \* the requests that wait
  ahead,        \* for each of them those that came before and still wait
  inside,       \* the requests let in
  wants         \* the model each request asks for

vars == <<line, ahead, inside, wants>>

(* The requests of S may be inside at one time. *)
Together(S, want) ==
  /\ Slots # 0 => Cardinality(S) <= Slots
  /\ Exclusive => \A r, s \in S : want[r] = want[s]

(* Of the requests q, each behind those in before, let any number in from
   the front, beside those in S. *)
LetIn(q, before, S, want) ==
  \E front \in SUBSET q :
    /\ \A r \in front : before[r] \subseteq front
    /\ Together(S \cup front, want)
    /\ inside' = S \cup front
    /\ line' = q \ front
    /\ ahead' = [r \in Requests |-> before[r] \ front]
    /\ wants' = want

Arrive(r, m) ==
  /\ r \notin inside \cup line
  /\ LetIn(line \cup {r}, [ahead EXCEPT ![r] = line], inside, [wants EXCEPT ![r] = m])

GiveUp(r) ==
  /\ r \in line
  /\ LetIn(line \ {r}, [s \in Requests |-> IF s = r THEN {} ELSE ahead[s] \ {r}],
           inside, wants)

Depart(r) ==
  /\ r \in inside
  /\ LetIn(line, ahead, inside \ {r}, wants)

Init ==
  /\ line = {}
  /\ ahead = [r \in Requests |-> {}]
  /\ inside = {}
  /\ wants \in [Requests -> Models]

Next ==
  \/ \E r \in Requests : Depart(r) \/ GiveUp(r) \/ \E m \in Models : Arrive(r, m)
  \/ LetIn(line, ahead, inside, wants)

Spec == Init /\ [][Next]_vars
===============================================================================
