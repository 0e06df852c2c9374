------------------------------- MODULE DecideTalk -------------------------------
(***************************************************************************)
(* The bridge decides who takes what she says: Routing, as decisions to be *)
(* right about.  The state is one request, where she sent it, what Jev     *)
(* says of it, who is connected and ready, and whether a note has the      *)
(* name.  Another may follow; nothing is kept between two.                 *)
(***************************************************************************)
EXTENDS Routing, Question

CONSTANT Skills     \* what the bridge can be asked to run

ASSUME DecideTalkAssumption == "none" \notin Skills /\ "malformed" \notin Skills

(* What the rules find in her words. *)
Openings == {"capture", "run", "search", "open", "work", "other"}
Requests ==
  [opening: Openings, names: BOOLEAN, skill: BOOLEAN, deep: BOOLEAN, analyse: BOOLEAN,
   web: BOOLEAN, vault: BOOLEAN]

(* What Jev may answer: picks among the criteria of JEV_QUESTIONS, or one that
   is of no use, each with a confidence; facts with a probability, or none. *)
Thousandths == 0..1000
PickOf(choices) == [choice: choices, sure: Thousandths] \cup {Malformed}
Fact == {Unsaid} \cup Thousandths
Commands == {"open_view", "open_note", "search", "capture", "run_skill"}
JevAnswers ==
  [tier: PickOf({"command", "answer", "agent"}), command: PickOf(Commands \cup {"none"}),
   skill: PickOf(Skills \cup {"none"}), executor: PickOf(Agents \cup {"none"}),
   depth: PickOf({"light", "deep"}), web: Fact, writes: Fact, deep: Fact]

TalkQuestions ==
  [about: {"talk"}, req: Requests, target: Agents \cup {"auto"},
   says: {s \in Seq(JevAnswers) : Len(s) <= 1}, have: SUBSET Agents, key: BOOLEAN, note: BOOLEAN]

AnyTalk == ask \in TalkQuestions /\ [][ask' \in TalkQuestions]_ask

-----------------------------------------------------------------------------
chosen == Decide(ask.req, ask.target, ask.says)
ready == (ask.have \cap {"claude", "codex"}) \cup (IF ask.key THEN {"minimax"} ELSE {})

(* Jev named this pick and was sure enough of it. *)
JevSure(question, choice, sure) ==
  \E i \in DOMAIN ask.says :
    ask.says[i][question].choice = choice /\ ask.says[i][question].sure >= sure

(* "A half-sure command is never acted on" (route_jev), by whatever path the
   request comes to be taken for one: her first words say so, or Jev was sure
   that it is a command, of which one, and of which skill to run. *)
CommandsAreCertain ==
  ask.about = "talk" /\ chosen.tier = "command" =>
    \/ RuleCommand(ask.req) = chosen.command
    \/ /\ JevSure("tier", "command", MinSure) /\ JevSure("command", chosen.command, MinSure)
       /\ chosen.command = "run_skill" => JevSure("skill", chosen.skill, MinSure)

(* "Claude is the costly path" (route_jev), "never a fallback" (delegate): it
   works on what she gave it herself or on what the rules or Jev, more than
   half sure, take for deep research, and never where the vault has to change;
   nor does it take over what another worker gave back.  It answers only what
   is surely a deep question. *)
CostlyOnlyWhenSure ==
  ask.about = "talk" =>
    /\ (chosen.tier = "agent" /\ ask.target = "auto"
          /\ Assign(chosen, ask.target, ask.have) = "claude") =>
         /\ "writes" \notin chosen.need
         /\ IF chosen.via = "rules" THEN ask.req.deep
            ELSE ask.says[1].deep >= DeepSure \/ JevSure("executor", "claude", DeepSure)
    /\ (chosen.tier = "answer" /\ AnswerModel(DepthOf(chosen), ready) = "claude") =>
         IF chosen.via = "rules" THEN ask.req.analyse ELSE JevSure("depth", "deep", DeepSure)
    /\ \A tried \in SUBSET Agents : Delegate(Nobody, chosen.need, ask.have, tried) # "claude"

(* "A task that needs the web never goes to a worker without it" (WORKERS), nor
   one that changes the vault to one that cannot, as long as a worker that can
   do both is connected; Claude, the costly one, is not asked to stand in. *)
WorkerFits ==
  /\ ask.about = "talk" /\ chosen.tier = "agent" /\ ask.target = "auto"
  /\ \E w \in ask.have \ {"claude"} : chosen.need \subseteq Can[w]
  => chosen.need \subseteq Can[Assign(chosen, ask.target, ask.have)]

(* "Degrade, never stall" (answer): who answers m was to answer, unless m fails;
   then a model after it that is ready, and nobody only when all of them fail.
   Claude is before the others and after none. *)
Cheaper(m) ==
  CASE m = "claude" -> {"codex", "minimax"} [] m = "codex" -> {"minimax"} [] OTHER -> {}
StandsIn(by, m, failing) ==
  IF m \notin failing THEN by = m
  ELSE \/ by \in (Cheaper(m) \cap ready) \ failing
       \/ by = Nobody /\ Cheaper(m) \cap ready \subseteq failing

(* preview says "what would happen to a request, without doing any of it":
     - the worker it names gets the job or, if all slots are taken, is the one
       the refusal is about, and where it names none nothing is started;
     - the model it names answers, or what stands in for it if that fails;
     - what it takes for a command starts no worker, and if it finds nothing to
       open it is answered, and not by Claude;
   all of this by code other than talk's, down to the choice of the model. *)
PreviewTells ==
  ask.about = "talk" =>
    \A failing \in SUBSET ready, busy \in BOOLEAN :
      LET said == Preview(ask.req, ask.target, ask.says, ask.have, ready)
          done == Talk(ask.req, ask.target, ask.says, ask.have, ready, failing, ask.note, busy)
      IN  /\ said.does = "work" =>
               /\ done.who = said.who
               /\ done.does = "work" <=> said.who # Nobody /\ ~busy
          /\ said.does = "answer" =>
               done.does = "answer" /\ StandsIn(done.who, said.who, failing)
          /\ said.does = "command" =>
               /\ done.does \notin {"work", "busy", "no_agent"}
               /\ done.does = "answer" => done.who # "claude" /\ ~ask.note
================================================================================
