-------------------------------- MODULE Routing --------------------------------
(***************************************************************************)
(* How the bridge decides what a request is and who takes it: route_jev,   *)
(* route_rules, decide, delegate, pick_agent, assign, command, answer,     *)
(* preview and talk in muninn/brain/bridge.py.  Pure functions of what she *)
(* said, what Jev says of it and who is connected.                         *)
(*                                                                         *)
(* A request is a record of what the regular expressions find in it; Jev's *)
(* answers are a record with a pick per question and a probability for     *)
(* each fact, all of them in thousandths.                                  *)
(***************************************************************************)
EXTENDS Integers, Sequences, SequencesExt, FiniteSets

Agents == {"hermes", "codex", "claude"}
Nobody == "nobody"
Can == [hermes |-> {"web", "writes"}, codex |-> {"writes"}, claude |-> {"web"}]

(* JEV_MIN_CONFIDENCE, JEV_DEEP_MIN_CONFIDENCE and NEED_MIN as configured. *)
MinSure == 500
DeepSure == 700
NeedMin == 500

Unsaid == -1                                    \* no usable probability
Malformed == [choice |-> "malformed", sure |-> 0]

Route(via, tier, cmd, skill, executor, depth, need) ==
  [via |-> via, tier |-> tier, command |-> cmd, skill |-> skill, executor |-> executor,
   depth |-> depth, need |-> need]
NoRoute == Route("error", "none", "none", "none", Nobody, "none", {})

(* The needs that delegate reads off a route, which keeps two decimals. *)
Rounded(p) == ((p + 5) \div 10) * 10
NeedOf(web, writes) ==
  {n \in {"web", "writes"} : Rounded(IF n = "web" THEN web ELSE writes) >= NeedMin}

-----------------------------------------------------------------------------
(* The commands the rules know by their first word. *)
RuleCommand(req) ==
  CASE req.opening = "capture" -> "capture"
    [] req.opening = "run"     -> "run_skill"
    [] req.opening = "search"  -> "search"
    [] req.opening = "open"    -> IF req.names THEN "open_view" ELSE "open_note"
    [] OTHER                   -> "none"

(* route_rules. *)
RulesRoute(req) ==
  LET tier == IF RuleCommand(req) # "none" THEN "command"
              ELSE IF req.opening = "work" THEN "agent" ELSE "answer"
      executor == IF tier = "agent" /\ req.deep THEN "claude" ELSE Nobody
      depth == IF tier # "answer" THEN "none" ELSE IF req.analyse THEN "deep" ELSE "light"
      need == {n \in {"web", "writes"} : IF n = "web" THEN req.web ELSE req.vault}
  IN  Route("rules", tier, RuleCommand(req), "none", executor, depth, need)

(* Definitions named Fault... are wrong versions of the definition after
   them; each refutes a property when put in its place. *)

(* A half-sure tier is as good as any. *)
FaultTier(a) == a.tier.choice
(* The tier Jev is sure of; torn, what the task needs decides. *)
Tier(a) ==
  IF a.tier.sure >= MinSure THEN a.tier.choice
  ELSE IF a.web >= NeedMin \/ a.writes >= NeedMin \/ a.deep >= DeepSure
       THEN "agent" ELSE "answer"

(* A pick Jev is sure of, and which says something. *)
Sure(pick) == pick.choice \notin {"malformed", "none"} /\ pick.sure >= MinSure

(* route_jev has no use for these answers and leaves the request to the rules. *)
Unusable(a, req) ==
  \/ a.tier = Malformed
  \/ /\ a.tier.sure < MinSure
     /\ a.web = Unsaid \/ a.writes = Unsaid \/ RuleCommand(req) # "none"
  \/ /\ Tier(a) = "command"
     /\ Sure(a.command) => a.command.choice = "run_skill" /\ ~Sure(a.skill)

(* The costly worker is one worker of three. *)
FaultExecutor(a) == IF a.executor.sure >= MinSure THEN a.executor.choice ELSE Nobody
(* The worker for real work, and the depth of an answer. *)
Executor(a) ==
  IF a.deep >= DeepSure \/ (a.executor.choice = "claude" /\ a.executor.sure >= DeepSure)
  THEN "claude"
  ELSE IF a.executor.choice \in {"hermes", "codex"} /\ a.executor.sure >= MinSure
  THEN a.executor.choice ELSE Nobody

Depth(a) == IF a.depth.choice = "deep" /\ a.depth.sure >= DeepSure THEN "deep" ELSE "light"

(* route_jev, once Jev has answered. *)
JevRoute(a, req) ==
  LET cmd == IF Tier(a) = "command" THEN a.command.choice ELSE "none"
  IN  IF Unusable(a, req) THEN NoRoute
      ELSE Route("jev", Tier(a), cmd, IF cmd = "run_skill" THEN a.skill.choice ELSE "none",
                 IF Tier(a) = "agent" THEN Executor(a) ELSE Nobody,
                 IF Tier(a) = "answer" THEN Depth(a) ELSE "none",
                 NeedOf(a.web, a.writes))

(* decide.  says is Jev's answers in a sequence, empty when Jev is silent. *)
Decide(req, target, says) ==
  LET jev == IF says = <<>> THEN NoRoute ELSE JevRoute(says[1], req)
      route == IF jev = NoRoute THEN RulesRoute(req)
               ELSE IF jev.tier # "command" /\ req.opening = "capture"
               THEN [jev EXCEPT !.tier = "command", !.command = "capture",
                                !.executor = Nobody, !.depth = "none"]
               ELSE jev
  IN  IF target \in Agents THEN [route EXCEPT !.tier = "agent"] ELSE route

-----------------------------------------------------------------------------
(* Whoever is connected takes the work. *)
FaultDelegate(preferred, need, have, tried) ==
  IF preferred = "claude" /\ "claude" \in have \ tried /\ "writes" \notin need THEN "claude"
  ELSE IF "hermes" \in have \ tried /\ preferred # "codex" THEN "hermes"
  ELSE IF "codex" \in have \ tried THEN "codex"
  ELSE IF "hermes" \in have \ tried THEN "hermes" ELSE Nobody

(* delegate: the worker among those connected and not yet tried. *)
Delegate(preferred, need, have, tried) ==
  LET able == ({"hermes", "codex"} \cap have) \ tried
      able_fit == {w \in able : need \subseteq Can[w]}
      fit == IF able_fit # {} THEN able_fit ELSE able
  IN  IF preferred = "claude" /\ "claude" \in have \ tried /\ "writes" \notin need
      THEN "claude"
      ELSE IF need = {"writes"} /\ "codex" \in fit THEN "codex"
      ELSE IF preferred \in fit THEN preferred
      ELSE IF "hermes" \in fit THEN "hermes"
      ELSE IF "codex" \in fit THEN "codex" ELSE Nobody

(* pick_agent: a named worker or none; otherwise the one delegate finds. *)
PickAgent(target, preferred, need, have) ==
  IF target \in Agents
  THEN IF target \in have THEN target ELSE Nobody
  ELSE Delegate(preferred, need, have, {})

-----------------------------------------------------------------------------
(* command: what it does without any model, "nothing" when no note or view is
   found.  note: a note has the name. *)
Command(route, req, note) ==
  CASE route.command = "run_skill" ->
         IF route.skill # "none" \/ req.skill THEN "run" ELSE "view"
    [] route.command \in {"capture", "search"} -> route.command
    [] route.command = "open_view" /\ req.names -> "view"
    [] OTHER -> IF note THEN "open" ELSE IF req.names THEN "view" ELSE "nothing"

(* A deep question stays deep when Claude has nothing to say to it, and the
   models after it are not asked. *)
FaultAnswer(depth, ready, failing) ==
  LET Says(m) == m \in ready \ failing
  IN  IF depth = "deep" /\ Says("claude") THEN "claude"
      ELSE IF depth = "light" /\ Says("codex") THEN "codex"
      ELSE IF Says("minimax") THEN "minimax" ELSE Nobody
(* answer: who it is from.  A model that is not ready is not asked; one that is
   asked may fail.  Without Claude's answer the question counts as light, and
   MiniMax is for what has no answer yet. *)
Answer(depth, ready, failing) ==
  LET Says(m) == m \in ready \ failing
      deep == depth = "deep" /\ Says("claude")
      left == IF depth = "deep" /\ ~deep THEN "light" ELSE depth
      light == left = "light" /\ Says("codex")
  IN  CASE deep                                  -> "claude"
        [] light                                 -> "codex"
        [] ~deep /\ ~light /\ Says("minimax")    -> "minimax"
        [] ~deep /\ ~light /\ ~Says("minimax")   -> Nobody

(* answer_model: who would answer, as far as can be told without asking. *)
AnswerModel(depth, ready) ==
  IF depth = "deep" /\ "claude" \in ready THEN "claude"
  ELSE IF "codex" \in ready THEN "codex"
  ELSE IF "minimax" \in ready THEN "minimax" ELSE Nobody

(* A request's depth when the route has none. *)
DepthOf(route) == IF route.depth = "none" THEN "light" ELSE route.depth

(* What comes of a request: who does what. *)
Outcome(does, who) == [does |-> does, who |-> who]

(* assign. *)
Assign(route, target, have) == PickAgent(target, route.executor, route.need, have)

(* preview: what would happen, without doing any of it. *)
Preview(req, target, says, have, ready) ==
  LET route == Decide(req, target, says)
  IN  CASE route.tier = "agent"  -> Outcome("work", Assign(route, target, have))
        [] route.tier = "answer" -> Outcome("answer", AnswerModel(DepthOf(route), ready))
        [] OTHER                 -> Outcome("command", Nobody)

(* talk: a command that finds nothing is answered; work is refused while all
   slots are taken (busy), and where nobody is connected she is told so. *)
Talk(req, target, says, have, ready, failing, note, busy) ==
  LET route == Decide(req, target, says)
      does == Command(route, req, note)
      worker == Assign(route, target, have)
  IN  CASE route.tier = "command" /\ does # "nothing" -> Outcome(does, Nobody)
        [] route.tier = "agent" /\ worker = Nobody -> Outcome("no_agent", Nobody)
        [] route.tier = "agent" /\ worker # Nobody -> Outcome(IF busy THEN "busy" ELSE "work", worker)
        [] OTHER -> Outcome("answer", Answer(DepthOf(route), ready, failing))
================================================================================
