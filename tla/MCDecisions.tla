------------------------------ MODULE MCDecisions ------------------------------
(***************************************************************************)
(* The decisions that are made in one go, each checked for every input of  *)
(* a small set: which models the gateway plans for a request (RoutePlan),  *)
(* what the bridge does with what she says (Routing), and what huginn does *)
(* about the links of her vault (Links).  The properties are in DecidePlan,*)
(* DecideTalk and DecideLinks.                                             *)
(***************************************************************************)
EXTENDS DecidePlan, DecideTalk, DecideLinks, TLC

CONSTANTS m1, m2, m3, m4, t1, t2, t3, t4

MCModels == {m1, m2, m3, m4}
MCTargets == {t1, t2, t3, t4}
MCTitles == {"one", "two", "alpha", "alfa", "beta", "a/b", "Home MOC"}
MCAlike == {<<"alpha", "alfa">>, <<"alfa", "alpha">>}
MCTargetOf == (m1 :> t1) @@ (m2 :> t2) @@ (m3 :> t3) @@ (m4 :> t4)

(* For the gateway: a route of four models on four targets, each up or down,
   from a caller trusted or not, in a request that is long or not. *)
Plans ==
  [about: {"plan"}, route: SetToAllKPermutations(MCModels) \ {<<>>}, trusted: BOOLEAN,
   long: BOOLEAN, up: [MCTargets -> BOOLEAN]]

-----------------------------------------------------------------------------
(* For the bridge: what the rules find in her words ... *)
Said(openings, flags) ==
  [opening: openings, names: flags, skill: flags, deep: flags, analyse: flags, web: flags,
   vault: flags]

(* ... and what Jev answers, below and above each threshold. *)
Picks(choices, sures) == [choice: choices, sure: sures] \cup {Malformed}
Answers(tiers, cmds, skills, executors, depths, facts, deeps) ==
  [tier: tiers, command: cmds, skill: skills, executor: executors, depth: depths,
   web: facts, writes: facts, deep: deeps]
Half == {400, 600}
Third == {400, 600, 800}

(* Only the answers a tier makes Jev's reader look at are varied. *)
CommandAnswers ==
  Answers(Picks({"command"}, Half), Picks({"open_view", "capture", "run_skill", "none"}, Half),
          Picks({"gardener", "none"}, Half), {Malformed}, {Malformed}, {Unsaid, 300, 600}, {300})
WorkAnswers ==
  Answers({[choice |-> "agent", sure |-> 600], [choice |-> "answer", sure |-> 400]},
          {Malformed}, {Malformed}, Picks(Agents \cup {"none"}, Third), {Malformed},
          {Unsaid, 300, 497, 600}, {Unsaid, 600, 800})
QuestionAnswers ==
  Answers({[choice |-> "answer", sure |-> 600], [choice |-> "agent", sure |-> 400]},
          {Malformed}, {Malformed}, {Malformed}, Picks({"light", "deep"}, Third), {300}, {300})

Asked(reqs, targets, says, haves, keys) ==
  [about: {"talk"}, req: reqs, target: targets, says: says, have: haves, key: keys, note: BOOLEAN]
AnyTarget == Agents \cup {"auto"}

Talks ==
  UNION {Asked(Said(Openings, BOOLEAN), AnyTarget, {<<>>}, SUBSET Agents, BOOLEAN),
         Asked(Said({"capture", "run", "other"}, {FALSE}), {"auto", "codex"},
               {<<a>> : a \in CommandAnswers}, {{}, Agents}, {TRUE}),
         Asked(Said({"capture", "other"}, {FALSE}), AnyTarget,
               {<<a>> : a \in WorkAnswers}, SUBSET Agents, {TRUE}),
         Asked(Said({"capture", "work"}, {FALSE}), {"auto", "claude"},
               {<<a>> : a \in QuestionAnswers}, SUBSET Agents, BOOLEAN)}

(* For huginn: a vault with a filed note and one that may be a log, linking to
   what is there, misspelt, missing or no title at all; what she adds to it
   while the fixer is at work; and the order in which it is walked. *)
Vaults ==
  {(Path("Areas", "one") :> one) @@ (Path(folder, "two") :> two)
     @@ [p \in there |-> IF p.title = Home THEN {} ELSE Plain({Home})] :
     one \in SUBSET (Plain({"alpha", "alfa", "a/b"}) \cup {[to |-> "beta", md |-> TRUE]}),
     two \in SUBSET Plain({"alpha", Home}), folder \in {"Resources", "journal"},
     there \in SUBSET {Path("MOCs", Home), Path("Resources", "alpha"), Path("Areas", "beta")}}
Additions ==
  {[p \in new |-> links] : new \in SUBSET {Path("Resources", "alpha"), Path("Areas", "alpha")},
                           links \in {{}, Plain({"beta"})}}
Runs ==
  [about: {"links"}, vault: Vaults, added: Additions,
   walk: {<<"MOCs", "Areas", "Resources", "journal">>, <<"journal", "Resources", "Areas", "MOCs">>}]

Init == ask \in Plans \/ ask \in Talks \/ ask \in Runs

(* Another request: nothing else is kept between two. *)
NextPlan == ask.about = "plan" /\ ask' = [ask EXCEPT !.route = Reverse(@)]
NextTalk == ask.about = "talk" /\ ask' = [ask EXCEPT !.note = ~@]
NextRun == ask.about = "links" /\ ask' = [ask EXCEPT !.walk = Reverse(@)]
Next == NextPlan \/ NextTalk \/ NextRun

Spec == Init /\ [][Next]_ask

(* All of them are requests that can be. *)
ASSUME Samples ==
  /\ Plans \subseteq PlanQuestions
  /\ Talks \subseteq TalkQuestions
  /\ \A q \in Runs : IsFixQuestion(q)
================================================================================
