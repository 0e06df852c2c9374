------------------------------- MODULE JobsProofs -------------------------------
(***************************************************************************)
(* Theorems about Jobs for every set of jobs, every number of slots and    *)
(* any number of crashes.  One invariant carries all of them: what the     *)
(* thread of a job knows, stage by stage, about the job's durable record.  *)
(* And about what the bridge decides before there is a job (DecideTalk),   *)
(* for every request, every answer of Jev's and every set of workers: from *)
(* where the decision can come.                                            *)
(***************************************************************************)
EXTENDS Jobs, DecideTalk, FiniteSetTheorems, TLAPS

(* The saved record, between its states. *)
RowIsSound(j) ==
  /\ row[j].status \in {"absent", "running"} => row[j].report = "none" /\ logged[j] = 0
  /\ row[j].status = "absent" => ran[j] = <<>> /\ row[j].result = "none"
  /\ row[j].status \in Terminal => row[j].report # "none"
  /\ row[j].report \in Names => note[j][row[j].report] = row[j].status

(* The record while a thread, or recover, has the job. *)
HasTheJob(j) == pc[j] \in Alive \cup {"pending"} => row[j].status = "running"

(* The thread before finish ... *)
BeforeFinish(j) ==
  /\ pc[j] = "created" => ran[j] = <<>>
  /\ pc[j] \in {"created", "working"} => job[j].agent \in Agents
  /\ pc[j] \in {"created", "working", "finishing"} =>
       row[j].result = "none" /\ job[j].report = "none"
  /\ pc[j] = "finishing" => job[j].status \in Terminal

(* ... and after it. *)
AfterFinish(j) ==
  /\ pc[j] = "filing" => job[j] = row[j] /\ job[j].result # "none"
  /\ pc[j] = "filed" =>
       /\ row[j].result # "none" /\ job[j].answer = row[j].answer
       /\ job[j].status \in Terminal /\ job[j].report # "none"
       /\ job[j].report \in Names => note[j][job[j].report] = job[j].status
       /\ job[j].status = row[j].result \/ job[j].report = "error"
  /\ pc[j] = "logging" => row[j].status \in Terminal /\ logged[j] = 0

JobIsSound(j) ==
  /\ RowIsSound(j) /\ HasTheJob(j) /\ BeforeFinish(j) /\ AfterFinish(j)
  /\ logged[j] <= 1
  /\ IsInjective(ran[j])

IInv ==
  /\ TypeOK
  /\ \A j \in Jobs : JobIsSound(j)
  /\ Cardinality(Running(row)) <= MaxActive

-----------------------------------------------------------------------------
(* The worker delegate finds is one of the three, and none that was tried. *)
LEMMA DelegateFinds ==
  ASSUME NEW preferred, NEW need, NEW have, NEW tried
  PROVE  /\ Delegate(preferred, need, have, tried) \in Agents \cup {Nobody}
         /\ Delegate(preferred, need, have, tried) \notin tried \ {Nobody}
<1> DEFINE able == ({"hermes", "codex"} \cap have) \ tried
           able_fit == {w \in able : need \subseteq Can[w]}
           fit == IF able_fit # {} THEN able_fit ELSE able
<1>1. fit \subseteq able /\ able \subseteq Agents \ tried
  BY DEF Agents
<1> HIDE DEF fit
<1>2. Delegate(preferred, need, have, tried) =
        IF preferred = "claude" /\ "claude" \in have \ tried /\ "writes" \notin need
        THEN "claude"
        ELSE IF need = {"writes"} /\ "codex" \in fit THEN "codex"
        ELSE IF preferred \in fit THEN preferred
        ELSE IF "hermes" \in fit THEN "hermes"
        ELSE IF "codex" \in fit THEN "codex" ELSE Nobody
  BY DEF Delegate, fit
<1>3. QED
  BY <1>1, <1>2 DEF Agents

(* Who is picked is a worker or nobody. *)
LEMMA PickAgentFinds ==
  ASSUME NEW target, NEW preferred, NEW need, NEW have
  PROVE  PickAgent(target, preferred, need, have) \in Agents \cup {Nobody}
  BY DelegateFinds DEF PickAgent

(* A worker that is not in a sequence keeps it free of repetitions. *)
LEMMA AppendKeepsInjective ==
  ASSUME NEW s \in Seq(Agents), IsInjective(s), NEW w \in Agents, w \notin Range(s)
  PROVE  Append(s, w) \in Seq(Agents) /\ IsInjective(Append(s, w))
<1>1. Append(s, w) \in Seq(Agents)
  OBVIOUS
<1>2. \A i \in 1..Len(s) : Append(s, w)[i] = s[i] /\ s[i] # w
  BY DEF Range
<1>3. Append(s, w)[Len(s) + 1] = w /\ DOMAIN Append(s, w) = 1..(Len(s) + 1)
  OBVIOUS
<1>4. IsInjective(Append(s, w))
  BY <1>2, <1>3 DEF IsInjective
<1>5. QED
  BY <1>1, <1>4

(* A record of a known state, worker and answer is a record. *)
LEMMA RecordType ==
  ASSUME NEW status \in {"absent", "running"} \cup Terminal, NEW agent \in Agents \cup {Nobody},
         NEW answer \in Answers
  PROVE  Record(status, agent, answer) \in Records
  BY DEF Record, Records

(* A step that leaves no more rows running keeps to the slots. *)
LEMMA FewerRunning ==
  ASSUME IInv, Running(row') \subseteq Running(row)
  PROVE  Cardinality(Running(row')) <= MaxActive
<1>1. IsFiniteSet(Running(row))
  BY JobsAssumption, FS_Subset DEF Running
<1>2. Cardinality(Running(row')) <= Cardinality(Running(row))
      /\ Cardinality(Running(row')) \in Nat /\ Cardinality(Running(row)) \in Nat
  BY <1>1, FS_Subset, FS_CardinalityType
<1>3. QED
  BY <1>2, JobsAssumption DEF IInv

(* What another job's step leaves alone. *)
LEMMA OthersStaySound ==
  ASSUME NEW k \in Jobs, JobIsSound(k),
         row'[k] = row[k], note'[k] = note[k], logged'[k] = logged[k],
         pc'[k] = pc[k], job'[k] = job[k], ran'[k] = ran[k]
  PROVE  JobIsSound(k)'
  BY DEF JobIsSound, RowIsSound, HasTheJob, BeforeFinish, AfterFinish

-----------------------------------------------------------------------------
(* A job is admitted. *)
LEMMA StartKeepsIInv ==
  ASSUME IInv, NEW j \in Jobs, NEW target, NEW need \in Needs, Start(j, target, need)
  PROVE  IInv'
<1>1. PICK agent \in Agents :
        /\ Cardinality(Running(row)) < MaxActive
        /\ row' = [row EXCEPT ![j] = Record("running", agent, "none")]
        /\ job' = [job EXCEPT ![j] = Record("running", agent, "none")]
  BY PickAgentFinds DEF Start, Create
<1>2. /\ row[j].status = "absent" /\ pc' = [pc EXCEPT ![j] = "created"]
      /\ request' = [request EXCEPT ![j] = need]
      /\ UNCHANGED <<note, logged, bridge, ran, crashes>>
  BY DEF Start
<1>3. Record("running", agent, "none") \in Records
  BY RecordType DEF Answers
<1>4. TypeOK'
  BY <1>1, <1>2, <1>3 DEF IInv, TypeOK, Stages, Alive
<1>5. JobIsSound(j)'
  <2>1. row'[j] = Record("running", agent, "none") /\ job'[j] = row'[j] /\ pc'[j] = "created"
    BY <1>1, <1>2 DEF IInv, TypeOK
  <2>2. RowIsSound(j) /\ logged[j] <= 1 /\ IsInjective(ran[j])
    BY DEF IInv, JobIsSound
  <2>3. logged'[j] = 0 /\ ran'[j] = <<>>
    BY <1>2, <2>2 DEF RowIsSound
  <2>4. "none" \notin Names
    BY JobsAssumption
  <2>5. QED
    BY <1>2, <2>1, <2>2, <2>3, <2>4
       DEF JobIsSound, RowIsSound, HasTheJob, BeforeFinish, AfterFinish, Record, Terminal
<1>6. ASSUME NEW k \in Jobs, k # j
      PROVE  JobIsSound(k)'
  BY <1>1, <1>2, <1>6, OthersStaySound DEF IInv, TypeOK
<1>7. Cardinality(Running(row')) <= MaxActive
  <2>1. Running(row') \subseteq Running(row) \cup {j}
    BY <1>1 DEF Running, IInv, TypeOK
  <2>2. IsFiniteSet(Running(row))
    BY JobsAssumption, FS_Subset DEF Running
  <2>3. Cardinality(Running(row) \cup {j}) <= Cardinality(Running(row)) + 1
        /\ IsFiniteSet(Running(row) \cup {j})
        /\ Cardinality(Running(row)) \in Nat /\ Cardinality(Running(row) \cup {j}) \in Nat
    <3>1. Cardinality(Running(row) \cup {j}) =
            IF j \in Running(row) THEN Cardinality(Running(row)) ELSE Cardinality(Running(row)) + 1
      BY <2>2, FS_AddElement
    <3>2. IsFiniteSet(Running(row) \cup {j}) /\ Cardinality(Running(row)) \in Nat
      BY <2>2, FS_AddElement, FS_CardinalityType
    <3>3. QED
      BY <3>1, <3>2
  <2>4. Cardinality(Running(row')) <= Cardinality(Running(row) \cup {j})
        /\ Cardinality(Running(row')) \in Nat
    BY <2>1, <2>3, FS_Subset, FS_CardinalityType
  <2>5. QED
    BY <1>1, <2>3, <2>4, JobsAssumption
<1>8. QED
  BY <1>4, <1>5, <1>6, <1>7 DEF IInv

(* The steps of a thread up to finish touch its own copy of the record. *)
LEMMA StartThreadKeepsIInv ==
  ASSUME IInv, NEW j \in Jobs, StartThread(j)
  PROVE  IInv'
<1>1. /\ pc[j] = "created" /\ pc' = [pc EXCEPT ![j] = "working"]
      /\ ran' = [ran EXCEPT ![j] = Append(@, job[j].agent)]
      /\ UNCHANGED <<row, note, logged, bridge, job, request, crashes>>
  BY DEF StartThread, durable
<1>2. ran[j] = <<>> /\ ran[j] \in Seq(Agents) /\ job[j].agent \in Agents /\ IsInjective(ran[j])
  BY <1>1 DEF IInv, TypeOK, JobIsSound, BeforeFinish
<1>3. Append(ran[j], job[j].agent) \in Seq(Agents) /\ IsInjective(Append(ran[j], job[j].agent))
  <2>1. job[j].agent \notin Range(ran[j])
    BY <1>2 DEF Range
  <2>2. QED
    BY <1>2, <2>1, AppendKeepsInjective
<1>4. TypeOK'
  BY <1>1, <1>3 DEF IInv, TypeOK, Stages, Alive
<1>5. JobIsSound(j)'
  <2>1. pc'[j] = "working" /\ ran'[j] = Append(ran[j], job[j].agent)
    BY <1>1 DEF IInv, TypeOK
  <2>2. JobIsSound(j) /\ row[j].status = "running"
    BY <1>1 DEF IInv, JobIsSound, HasTheJob, Alive
  <2>3. QED
    BY <1>1, <1>3, <2>1, <2>2 DEF JobIsSound, RowIsSound, HasTheJob, BeforeFinish, AfterFinish, Terminal
<1>6. ASSUME NEW k \in Jobs, k # j
      PROVE  JobIsSound(k)'
  BY <1>1, <1>6, OthersStaySound DEF IInv, TypeOK
<1>7. QED
  BY <1>1, <1>4, <1>5, <1>6, FewerRunning DEF IInv

(* The worker ends one way or another. *)
LEMMA EndedKeepsIInv ==
  ASSUME IInv, NEW j \in Jobs, pc[j] \in {"created", "working"},
         NEW status \in Terminal, NEW answer \in Answers,
         pc' = [pc EXCEPT ![j] = "finishing"],
         job' = [job EXCEPT ![j].status = status, ![j].answer = answer],
         UNCHANGED <<row, note, logged, bridge, request, ran, crashes>>
  PROVE  IInv'
<1>1. job[j] \in Records
  BY DEF IInv, TypeOK
<1>2. /\ pc'[j] = "finishing" /\ job'[j].status = status /\ job'[j].report = job[j].report
      /\ job'[j] \in Records
  BY <1>1 DEF IInv, TypeOK, Records
<1>3. TypeOK'
  <2>1. job' = [job EXCEPT ![j] = job'[j]]
    BY DEF IInv, TypeOK
  <2>2. job' \in [Jobs -> Records]
    BY <1>2, <2>1 DEF IInv, TypeOK
  <2>3. QED
    BY <2>2 DEF IInv, TypeOK, Stages, Alive
<1>4. JobIsSound(j)'
  <2>1. JobIsSound(j) /\ row[j].status = "running"
    BY DEF IInv, JobIsSound, HasTheJob, Alive
  <2>2. QED
    BY <1>2, <2>1 DEF JobIsSound, RowIsSound, HasTheJob, BeforeFinish, AfterFinish, Terminal
<1>5. ASSUME NEW k \in Jobs, k # j
      PROVE  JobIsSound(k)'
  BY <1>5, OthersStaySound DEF IInv, TypeOK
<1>6. QED
  BY <1>3, <1>4, <1>5, FewerRunning DEF IInv

(* The next worker is one that has not had the job. *)
LEMMA HandOverKeepsIInv ==
  ASSUME IInv, NEW j \in Jobs, NEW have, HandOver(j, have)
  PROVE  IInv'
<1> DEFINE other == Delegate(Nobody, request[j], have, Range(ran[j]))
<1>1. pc[j] = "working" /\ job[j].agent \in Agents
  BY DEF IInv, JobIsSound, BeforeFinish, HandOver
<1>2. other \in Agents \cup {Nobody} /\ other \notin Range(ran[j]) \ {Nobody}
  BY DelegateFinds
<1> HIDE DEF other
<1>3. CASE other = Nobody
  <2>1. /\ job' = [job EXCEPT ![j].status = "failed", ![j].answer = job[j].agent]
        /\ pc' = [pc EXCEPT ![j] = "finishing"]
        /\ UNCHANGED <<row, note, logged, bridge, request, ran, crashes>>
    BY <1>3 DEF HandOver, other, durable
  <2>2. job[j].agent \in Answers /\ "failed" \in Terminal
    BY <1>1 DEF Answers, Terminal
  <2>3. QED
    BY <1>1, <2>1, <2>2, EndedKeepsIInv
<1>4. CASE other # Nobody
  <2>1. /\ job' = [job EXCEPT ![j] = Record("running", other, "none")]
        /\ ran' = [ran EXCEPT ![j] = Append(@, other)]
        /\ UNCHANGED <<row, note, logged, bridge, pc, request, crashes>>
    BY <1>4 DEF HandOver, other, durable
  <2>2. other \in Agents /\ other \notin Range(ran[j])
    BY <1>2, <1>4
  <2>3. ran[j] \in Seq(Agents) /\ IsInjective(ran[j])
    BY DEF IInv, TypeOK, JobIsSound
  <2>4. Append(ran[j], other) \in Seq(Agents) /\ IsInjective(Append(ran[j], other))
    BY <2>2, <2>3, AppendKeepsInjective
  <2>5. Record("running", other, "none") \in Records
    BY <2>2, RecordType DEF Answers
  <2>6. TypeOK'
    BY <2>1, <2>4, <2>5 DEF IInv, TypeOK
  <2>7. JobIsSound(j)'
    <3>1. /\ pc'[j] = "working" /\ ran'[j] = Append(ran[j], other)
          /\ job'[j] = Record("running", other, "none")
      BY <1>1, <2>1 DEF IInv, TypeOK
    <3>2. job'[j].agent = other /\ job'[j].report = "none"
      BY <3>1 DEF Record
    <3>3. JobIsSound(j) /\ row[j].status = "running"
      BY <1>1 DEF IInv, JobIsSound, HasTheJob, Alive
    <3>4. QED
      BY <1>1, <2>1, <2>2, <2>4, <3>1, <3>2, <3>3 DEF JobIsSound, RowIsSound, HasTheJob, BeforeFinish, AfterFinish, Terminal
  <2>8. ASSUME NEW k \in Jobs, k # j
        PROVE  JobIsSound(k)'
    BY <2>1, <2>8, OthersStaySound DEF IInv, TypeOK
  <2>9. QED
    BY <2>1, <2>6, <2>7, <2>8, FewerRunning DEF IInv
<1>5. QED
  BY <1>3, <1>4

(* The worker's turn, or a thread that cannot start, keeps the invariant. *)
LEMMA WorkKeepsIInv ==
  ASSUME IInv, NEW j \in Jobs, Work(j) \/ NoThread(j)
  PROVE  IInv'
<1>1. ASSUME NEW status \in Terminal, NEW answer \in Answers, WorkDone(j, status, answer)
      PROVE  IInv'
  BY <1>1, EndedKeepsIInv DEF WorkDone, durable
<1>2. CASE NoThread(j)
  <2>1. "failed" \in Terminal /\ "no thread" \in Answers
    BY DEF Terminal, Answers
  <2>2. QED
    BY <1>2, <2>1, EndedKeepsIInv DEF NoThread, durable
<1>3. ASSUME pc[j] = "working"
      PROVE  job[j].agent \in Answers /\ "exception" \in Answers /\ "failed" \in Terminal
  BY <1>3 DEF IInv, JobIsSound, BeforeFinish, Answers, Terminal
<1>4. QED
  BY <1>1, <1>2, <1>3, HandOverKeepsIInv DEF Work, WorkDone

-----------------------------------------------------------------------------
(* finish and what follows it. *)
LEMMA FinishKeepsIInv ==
  ASSUME IInv, NEW j \in Jobs, Finish(j)
  PROVE  IInv'
<1>1. /\ pc[j] = "finishing" /\ pc' = [pc EXCEPT ![j] = "filing"]
      /\ job' = [job EXCEPT ![j].status = "running", ![j].result = job[j].status]
      /\ row' = [row EXCEPT ![j] = job'[j]]
      /\ UNCHANGED <<note, logged, bridge, request, ran, crashes>>
  BY DEF Finish
<1>2. job[j] \in Records /\ JobIsSound(j) /\ job[j].status \in Terminal
      /\ job[j].report = "none" /\ row[j].status = "running"
  BY <1>1 DEF IInv, TypeOK, JobIsSound, BeforeFinish, HasTheJob, Alive
<1>3. /\ job'[j] \in Records /\ job'[j].status = "running" /\ job'[j].result = job[j].status
      /\ job'[j].report = "none"
  BY <1>1, <1>2 DEF IInv, TypeOK, Records
<1>4. row'[j] = job'[j] /\ pc'[j] = "filing"
  BY <1>1 DEF IInv, TypeOK
<1>5. TypeOK'
  <2>1. job' = [job EXCEPT ![j] = job'[j]]
    BY <1>1 DEF IInv, TypeOK
  <2>2. job' \in [Jobs -> Records] /\ row' \in [Jobs -> Records]
    BY <1>1, <1>3, <2>1 DEF IInv, TypeOK
  <2>3. QED
    BY <1>1, <2>2 DEF IInv, TypeOK, Stages, Alive
<1>6. JobIsSound(j)'
  <2>1. "none" \notin Names /\ "none" \notin Terminal
    BY JobsAssumption DEF Terminal
  <2>2. QED
    BY <1>1, <1>2, <1>3, <1>4, <2>1 DEF JobIsSound, RowIsSound, HasTheJob, BeforeFinish, AfterFinish, Terminal
<1>7. ASSUME NEW k \in Jobs, k # j
      PROVE  JobIsSound(k)'
  BY <1>1, <1>7, OthersStaySound DEF IInv, TypeOK
<1>8. Running(row') \subseteq Running(row)
  BY <1>1, <1>2 DEF Running, IInv, TypeOK
<1>9. QED
  BY <1>5, <1>6, <1>7, <1>8, FewerRunning DEF IInv

(* Filing a report, or failing to, keeps the invariant. *)
LEMMA FileReportKeepsIInv ==
  ASSUME IInv, NEW j \in Jobs, FileReport(j)
  PROVE  IInv'
<1>1. PICK name \in Names, written \in BOOLEAN :
        /\ Filed(j, name, written)
        /\ note' = IF written THEN [note EXCEPT ![j][name] = job[j].result] ELSE note
  BY DEF FileReport
<1>2. /\ pc[j] = "filing" /\ pc' = [pc EXCEPT ![j] = "filed"]
      /\ UNCHANGED <<row, logged, bridge, request, ran, crashes>>
  BY DEF FileReport
<1>3. /\ job[j] \in Records /\ JobIsSound(j) /\ job[j] = row[j] /\ job[j].result \in Terminal
      /\ row[j].status = "running" /\ note[j] \in [Names -> {"none"} \cup Terminal]
  BY <1>2 DEF IInv, TypeOK, JobIsSound, AfterFinish, HasTheJob, Alive, Records
<1>4. "none" \notin Names /\ "error" \notin Names /\ "none" # "error" /\ "failed" \in Terminal
  BY JobsAssumption DEF Terminal
<1>5. /\ job'[j] \in Records /\ job'[j].answer = job[j].answer
      /\ job'[j].status = IF written THEN job[j].result ELSE "failed"
      /\ job'[j].report = IF written THEN name ELSE "error"
      /\ \A k \in Jobs \ {j} : job'[k] = job[k]
      /\ job' = [job EXCEPT ![j] = job'[j]]
  BY <1>1, <1>3, <1>4 DEF IInv, TypeOK, Records, Filed
<1>6. /\ note' \in [Jobs -> [Names -> {"none"} \cup Terminal]]
      /\ \A k \in Jobs \ {j} : note'[k] = note[k]
      /\ written => note'[j][name] = job[j].result
  BY <1>1, <1>3 DEF IInv, TypeOK
<1>7. TypeOK'
  <2>1. job' \in [Jobs -> Records]
    BY <1>5 DEF IInv, TypeOK
  <2>2. QED
    BY <1>2, <1>6, <2>1 DEF IInv, TypeOK, Stages, Alive
<1>8. JobIsSound(j)'
  <2>1. pc'[j] = "filed"
    BY <1>2 DEF IInv, TypeOK
  <2>2. RowIsSound(j)'
    BY <1>2, <1>3, <1>4 DEF JobIsSound, RowIsSound, Terminal
  <2>3. AfterFinish(j)'
    <3>1. job'[j].status \in Terminal /\ job'[j].report # "none"
      BY <1>3, <1>4, <1>5
    <3>2. job'[j].report \in Names => note'[j][job'[j].report] = job'[j].status
      BY <1>4, <1>5, <1>6
    <3>3. job'[j].status = row'[j].result \/ job'[j].report = "error"
      BY <1>2, <1>3, <1>5
    <3>4. row'[j].result # "none" /\ job'[j].answer = row'[j].answer
      BY <1>2, <1>3, <1>5 DEF Terminal
    <3>5. QED
      BY <2>1, <3>1, <3>2, <3>3, <3>4 DEF AfterFinish
  <2>4. QED
    BY <1>2, <1>3, <2>1, <2>2, <2>3 DEF JobIsSound, HasTheJob, BeforeFinish
<1>9. ASSUME NEW k \in Jobs, k # j
      PROVE  JobIsSound(k)'
  BY <1>2, <1>5, <1>6, <1>9, OthersStaySound DEF IInv, TypeOK
<1>10. QED
  BY <1>2, <1>7, <1>8, <1>9, FewerRunning DEF IInv

(* The last save keeps the invariant. *)
LEMMA SaveKeepsIInv ==
  ASSUME IInv, NEW j \in Jobs, Save(j)
  PROVE  IInv'
<1>1. /\ pc[j] = "filed" /\ row' = [row EXCEPT ![j] = job[j]]
      /\ pc'[j] \in {"none", "logging"} /\ pc' = [pc EXCEPT ![j] = pc'[j]]
      /\ UNCHANGED <<note, logged, bridge, job, request, ran, crashes>>
  BY DEF Save, IInv, TypeOK
<1>2. /\ JobIsSound(j) /\ row'[j] = job[j] /\ job[j].status \in Terminal /\ job[j].report # "none"
      /\ job[j].report \in Names => note[j][job[j].report] = job[j].status
      /\ row[j].status = "running"
  BY <1>1 DEF IInv, TypeOK, JobIsSound, AfterFinish, HasTheJob, Alive
<1>3. TypeOK'
  BY <1>1 DEF IInv, TypeOK, Stages, Alive
<1>4. JobIsSound(j)'
  BY <1>1, <1>2 DEF JobIsSound, RowIsSound, HasTheJob, BeforeFinish, AfterFinish, Terminal, Alive
<1>5. ASSUME NEW k \in Jobs, k # j
      PROVE  JobIsSound(k)'
  BY <1>1, <1>5, OthersStaySound DEF IInv, TypeOK
<1>6. Running(row') \subseteq Running(row)
  BY <1>1, <1>2 DEF Running, IInv, TypeOK
<1>7. QED
  BY <1>3, <1>4, <1>5, <1>6, FewerRunning DEF IInv

(* Logging a job keeps the invariant: it is logged by this thread alone. *)
LEMMA LogKeepsIInv ==
  ASSUME IInv, NEW j \in Jobs, Log(j)
  PROVE  IInv'
<1>1. /\ pc[j] = "logging" /\ logged' = [logged EXCEPT ![j] = @ + 1]
      /\ pc' = [pc EXCEPT ![j] = "none"]
      /\ UNCHANGED <<row, note, bridge, job, request, ran, crashes>>
  BY DEF Log
<1>2. JobIsSound(j) /\ row[j].status \in Terminal /\ logged[j] = 0
  BY <1>1 DEF IInv, JobIsSound, AfterFinish
<1>3. TypeOK'
  BY <1>1 DEF IInv, TypeOK, Stages
<1>4. JobIsSound(j)'
  <2>1. pc'[j] = "none" /\ logged'[j] = 1
    BY <1>1, <1>2 DEF IInv, TypeOK
  <2>2. QED
    BY <1>1, <1>2, <2>1 DEF JobIsSound, RowIsSound, HasTheJob, BeforeFinish, AfterFinish, Terminal, Alive
<1>5. ASSUME NEW k \in Jobs, k # j
      PROVE  JobIsSound(k)'
  BY <1>1, <1>5, OthersStaySound DEF IInv, TypeOK
<1>6. QED
  BY <1>1, <1>3, <1>4, <1>5, FewerRunning DEF IInv

-----------------------------------------------------------------------------
(* The bridge dies and starts again. *)
LEMMA BridgeKeepsIInv ==
  ASSUME IInv, Crash \/ Restart \/ Open
  PROVE  IInv'
<1>1. UNCHANGED <<row, note, logged, request, ran>> /\ bridge' \in {"down", "recovering", "up"}
      /\ crashes' \in Nat
  BY DEF Crash, Restart, Open, durable, IInv, TypeOK
<1>2. \A j \in Jobs : pc'[j] = "none" \/ (pc'[j] = "pending" /\ row[j].status = "running")
  BY DEF Crash, Restart, Open, Running
<1>3. pc' \in [Jobs -> Stages]
  BY DEF Crash, Restart, Open, IInv, TypeOK, Stages
<1>4. job' \in [Jobs -> Records]
  <2>1. Absent \in Records
    BY RecordType DEF Absent, Answers
  <2>2. QED
    BY <2>1 DEF Crash, Restart, Open, IInv, TypeOK
<1>5. TypeOK'
  BY <1>1, <1>3, <1>4 DEF IInv, TypeOK
<1>6. ASSUME NEW j \in Jobs
      PROVE  JobIsSound(j)'
  BY <1>1, <1>2 DEF IInv, JobIsSound, RowIsSound, HasTheJob, BeforeFinish, AfterFinish, Alive
<1>7. QED
  BY <1>1, <1>5, <1>6, FewerRunning DEF IInv

(* Recovery of an interrupted job keeps the invariant. *)
LEMMA RecoverKeepsIInv ==
  ASSUME IInv, NEW j \in Jobs, Recover(j)
  PROVE  IInv'
<1>1. pc[j] = "pending" /\ UNCHANGED <<row, note, logged, bridge, request, ran, crashes>>
  BY DEF Recover, durable
<1>2. /\ JobIsSound(j) /\ row[j].status = "running" /\ row[j] \in Records
      /\ row[j].report = "none"
  BY <1>1 DEF IInv, TypeOK, JobIsSound, HasTheJob, RowIsSound
<1>3. CASE row[j].result # "none"
  <2>1. job' = [job EXCEPT ![j] = row[j]] /\ pc' = [pc EXCEPT ![j] = "filing"]
    BY <1>3 DEF Recover
  <2>2. TypeOK'
    BY <1>1, <1>2, <2>1 DEF IInv, TypeOK, Stages, Alive
  <2>3. JobIsSound(j)'
    <3>1. job'[j] = row[j] /\ pc'[j] = "filing"
      BY <2>1 DEF IInv, TypeOK
    <3>2. QED
      BY <1>1, <1>2, <1>3, <3>1 DEF JobIsSound, RowIsSound, HasTheJob, BeforeFinish, AfterFinish
  <2>4. ASSUME NEW k \in Jobs, k # j
        PROVE  JobIsSound(k)'
    BY <1>1, <2>1, <2>4, OthersStaySound DEF IInv, TypeOK
  <2>5. QED
    BY <1>1, <2>2, <2>3, <2>4, FewerRunning DEF IInv
<1>4. CASE row[j].result = "none"
  <2> DEFINE cut == [row[j] EXCEPT !.status = "failed", !.answer = "interrupted"]
  <2>1. job' = [job EXCEPT ![j] = cut] /\ pc' = [pc EXCEPT ![j] = "finishing"]
    BY <1>4 DEF Recover
  <2>2. cut \in Records /\ cut.status = "failed" /\ cut.report = "none"
    BY <1>2 DEF Records, Terminal, Answers
  <2> HIDE DEF cut
  <2>3. TypeOK'
    BY <1>1, <2>1, <2>2 DEF IInv, TypeOK, Stages, Alive
  <2>4. JobIsSound(j)'
    <3>1. job'[j] = cut /\ pc'[j] = "finishing"
      BY <2>1 DEF IInv, TypeOK
    <3>2. QED
      BY <1>1, <1>2, <1>4, <2>2, <3>1 DEF JobIsSound, RowIsSound, HasTheJob, BeforeFinish, AfterFinish, Terminal
  <2>5. ASSUME NEW k \in Jobs, k # j
        PROVE  JobIsSound(k)'
    BY <1>1, <2>1, <2>5, OthersStaySound DEF IInv, TypeOK
  <2>6. QED
    BY <1>1, <2>3, <2>4, <2>5, FewerRunning DEF IInv
<1>5. QED
  BY <1>3, <1>4

(* A step that changes nothing keeps the invariant. *)
LEMMA StutterKeepsIInv ==
  ASSUME IInv, UNCHANGED vars
  PROVE  IInv'
<1>1. ASSUME NEW k \in Jobs
      PROVE  JobIsSound(k)'
  BY OthersStaySound DEF IInv, vars, durable
<1>2. TypeOK'
  BY DEF IInv, TypeOK, vars, durable
<1>3. QED
  BY <1>1, <1>2, FewerRunning DEF IInv, vars, durable

(* Every step keeps the invariant. *)
LEMMA NextKeepsIInv ==
  ASSUME IInv, [Next]_vars
  PROVE  IInv'
BY StartKeepsIInv, StartThreadKeepsIInv, WorkKeepsIInv, FinishKeepsIInv, FileReportKeepsIInv,
   SaveKeepsIInv, LogKeepsIInv, BridgeKeepsIInv, RecoverKeepsIInv, StutterKeepsIInv
   DEF Next, Thread

(* The invariant holds in every reachable state. *)
LEMMA SpecKeepsIInv == Spec => []IInv
<1>1. Init => IInv
  <2> SUFFICES ASSUME Init PROVE IInv
    OBVIOUS
  <2>1. /\ Absent \in Records /\ Absent.status = "absent"
        /\ Absent.report = "none" /\ Absent.result = "none"
    BY RecordType DEF Absent, Answers, Record
  <2>2. <<>> \in Seq(Agents) /\ IsInjective(<<>>)
    BY DEF IsInjective
  <2>3. TypeOK
    BY <2>1, <2>2 DEF Init, TypeOK, Stages
  <2>4. ASSUME NEW j \in Jobs
        PROVE  JobIsSound(j)
    <3>1. row[j] = Absent /\ pc[j] = "none" /\ logged[j] = 0 /\ ran[j] = <<>>
      BY DEF Init
    <3>2. QED
      BY <2>1, <2>2, <3>1, JobsAssumption DEF JobIsSound, RowIsSound, HasTheJob, BeforeFinish, AfterFinish, Alive, Terminal
  <2>5. Cardinality(Running(row)) <= MaxActive
    <3>1. Running(row) = {}
      BY <2>1 DEF Init, Running
    <3>2. QED
      BY <3>1, FS_EmptySet, JobsAssumption
  <2>6. QED
    BY <2>3, <2>4, <2>5 DEF IInv
<1>2. IInv /\ [Next]_vars => IInv'
  BY NextKeepsIInv
<1>3. QED
  BY <1>1, <1>2, PTL DEF Spec

-----------------------------------------------------------------------------
(***************************************************************************)
(* No more jobs have a thread at work or a report on its way than there    *)
(* are slots (create counts and inserts in one transaction, and finish     *)
(* saves a job as running until it is filed).                              *)
(***************************************************************************)
THEOREM SlotsAreKept == Spec => []SlotLimit
<1>1. ASSUME IInv
      PROVE  SlotLimit
  <2> DEFINE alive == {j \in Jobs : pc[j] \in Alive}
  <2>1. alive \subseteq Running(row) /\ IsFiniteSet(Running(row))
    BY <1>1, JobsAssumption, FS_Subset DEF IInv, JobIsSound, HasTheJob, Running
  <2>2. Cardinality(alive) <= Cardinality(Running(row))
        /\ Cardinality(alive) \in Nat /\ Cardinality(Running(row)) \in Nat
    BY <2>1, FS_Subset, FS_CardinalityType
  <2>3. QED
    BY <1>1, <2>2, JobsAssumption DEF IInv, SlotLimit
<1>2. QED
  BY <1>1, SpecKeepsIInv, PTL

(***************************************************************************)
(* No worker is started on a job twice, by hand-over or after a crash      *)
(* (run_agent keeps the workers it has tried, recover starts none).  Two   *)
(* workers may do the same work, one after the other.                      *)
(***************************************************************************)
THEOREM WorkIsNeverRepeated == Spec => []NeverRepeats
<1>1. IInv => NeverRepeats
  BY DEF IInv, JobIsSound, NeverRepeats
<1>2. QED
  BY <1>1, SpecKeepsIInv, PTL

(***************************************************************************)
(* The report that a record names is in the vault and states the record's  *)
(* status, wherever the bridge has died (finish, _file_terminal, recover). *)
(***************************************************************************)
THEOREM ReportsAreNeverFalse == Spec => []ReportsAreTrue
<1>1. IInv => ReportsAreTrue
  BY DEF IInv, JobIsSound, RowIsSound, ReportsAreTrue
<1>2. QED
  BY <1>1, SpecKeepsIInv, PTL

(***************************************************************************)
(* A job reaches the talk log once at most, and only when it has ended     *)
(* (log_job of run_agent and of job_store).                                *)
(***************************************************************************)
THEOREM JobsAreLoggedOnce == Spec => []LoggedOnce
<1>1. ASSUME IInv, NEW j \in Jobs
      PROVE  logged[j] <= 1 /\ (logged[j] = 1 => row[j].status \in Terminal)
  <2>1. JobIsSound(j) /\ logged[j] \in Nat /\ row[j] \in Records
    BY <1>1 DEF IInv, TypeOK
  <2>2. row[j].status \in {"absent", "running"} \cup Terminal
    BY <2>1 DEF Records
  <2>3. QED
    BY <2>1, <2>2 DEF JobIsSound, RowIsSound
<1>2. IInv => LoggedOnce
  BY <1>1 DEF LoggedOnce
<1>3. QED
  BY <1>2, SpecKeepsIInv, PTL

(***************************************************************************)
(* What a worker said is what the record says for ever once finish has     *)
(* saved it, and a final record never changes, whatever crashes.           *)
(***************************************************************************)
THEOREM ResultsAreKept == Spec => ResultKept
<1> DEFINE Kept(j) ==
      /\ row[j].status \in Terminal => row'[j] = row[j]
      /\ row[j].result # "none" =>
           /\ row'[j].answer = row[j].answer
           /\ row'[j].result # row[j].result =>
                row'[j].status = row[j].result \/ row'[j].report = "error"
<1>1. ASSUME IInv, [Next]_vars, NEW j \in Jobs
      PROVE  Kept(j)
  <2>1. \/ row' = row
        \/ \E k \in Jobs : \/ \E target, need : need \in Needs /\ Start(k, target, need)
                           \/ Finish(k) \/ Save(k)
    BY <1>1 DEF Next, Thread, StartThread, Work, WorkDone, HandOver, NoThread, FileReport, Log,
                Recover, Crash, Restart, Open, durable, vars
  <2>2. ASSUME NEW target, NEW need \in Needs, Start(j, target, need)
        PROVE  Kept(j)
    <3>1. row[j].status = "absent" /\ row[j].result = "none"
      BY <1>1, <2>2 DEF Start, IInv, JobIsSound, RowIsSound
    <3>2. QED
      BY <3>1 DEF Terminal
  <2>3. CASE Finish(j)
    <3>1. row[j].status = "running" /\ row[j].result = "none"
      BY <1>1, <2>3 DEF Finish, IInv, JobIsSound, HasTheJob, BeforeFinish, Alive
    <3>2. QED
      BY <3>1 DEF Terminal
  <2>4. CASE Save(j)
    <3>1. /\ row[j].status = "running" /\ row'[j] = job[j] /\ job[j].answer = row[j].answer
          /\ job[j].status = row[j].result \/ job[j].report = "error"
      BY <1>1, <2>4 DEF Save, IInv, TypeOK, JobIsSound, HasTheJob, AfterFinish, Alive
    <3>2. QED
      BY <3>1 DEF Terminal
  <2>5. ASSUME NEW k \in Jobs, k # j, \/ \E target, need : Start(k, target, need)
                                      \/ Finish(k) \/ Save(k)
        PROVE  row'[j] = row[j]
    BY <1>1, <2>5 DEF IInv, TypeOK, Start, Create, Finish, Save
  <2>6. row'[j] = row[j] => Kept(j)
    OBVIOUS
  <2>7. QED
    BY <2>1, <2>2, <2>3, <2>4, <2>5, <2>6
<1>2. IInv /\ [Next]_vars =>
        [\A j \in Jobs :
           /\ row[j].status \in Terminal => row'[j] = row[j]
           /\ row[j].result # "none" =>
                /\ row'[j].answer = row[j].answer
                /\ row'[j].result # row[j].result =>
                     row'[j].status = row[j].result \/ row'[j].report = "error"]_vars
  BY <1>1
<1>3. QED
  BY <1>2, SpecKeepsIInv, PTL DEF Spec, ResultKept

-----------------------------------------------------------------------------
(* Where a decision comes from: from the rules, from her own first word
   against Jev, or from Jev. *)
ByRules(route) ==
  /\ route.via = "rules"
  /\ route.command = RuleCommand(ask.req)
  /\ route.executor = RulesRoute(ask.req).executor
  /\ route.depth = RulesRoute(ask.req).depth
  /\ route.need = RulesRoute(ask.req).need
  /\ ask.target = "auto" => route.tier = RulesRoute(ask.req).tier

JevSays(a) == ask.says # <<>> /\ a = ask.says[1] /\ a \in JevAnswers /\ ~Unusable(a, ask.req)

ByHerWord(route) ==
  /\ route.via = "jev" /\ ask.req.opening = "capture"
  /\ route.command = "capture" /\ route.executor = Nobody /\ route.depth = "none"
  /\ ask.target = "auto" => route.tier = "command"
  /\ \E a : JevSays(a) /\ route.need = NeedOf(a.web, a.writes)

ByJev(route) ==
  /\ route.via = "jev"
  /\ \E a : /\ JevSays(a) /\ route.need = NeedOf(a.web, a.writes)
            /\ route.command = IF Tier(a) = "command" THEN a.command.choice ELSE "none"
            /\ route.skill = IF route.command = "run_skill" THEN a.skill.choice ELSE "none"
            /\ route.executor = IF Tier(a) = "agent" THEN Executor(a) ELSE Nobody
            /\ route.depth = IF Tier(a) = "answer" THEN Depth(a) ELSE "none"
            /\ ask.target = "auto" => route.tier = Tier(a)

(* decide has no other source. *)
LEMMA DecideIs ==
  ASSUME ask \in TalkQuestions
  PROVE  /\ ByRules(chosen) \/ ByHerWord(chosen) \/ ByJev(chosen)
         /\ ask.target \in Agents => chosen.tier = "agent"
<1> DEFINE a == ask.says[1]
           rules == RulesRoute(ask.req)
           jev == IF ask.says = <<>> THEN NoRoute ELSE JevRoute(ask.says[1], ask.req)
           route == IF jev = NoRoute THEN rules
                    ELSE IF jev.tier # "command" /\ ask.req.opening = "capture"
                    THEN [jev EXCEPT !.tier = "command", !.command = "capture",
                                     !.executor = Nobody, !.depth = "none"]
                    ELSE jev
<1>0. ask.says \in Seq(JevAnswers) /\ Len(ask.says) <= 1 /\ ask.target \in Agents \cup {"auto"}
  BY DEF TalkQuestions
<1>1. chosen = IF ask.target \in Agents THEN [route EXCEPT !.tier = "agent"] ELSE route
  BY DEF chosen, Decide
<1>2. "auto" \notin Agents
  BY DEF Agents
<1>3. CASE jev = NoRoute
  <2>1. route = rules
    BY <1>3
  <2> HIDE DEF route
  <2>2. /\ rules.via = "rules" /\ rules.command = RuleCommand(ask.req)
        /\ rules = [via |-> rules.via, tier |-> rules.tier, command |-> rules.command,
                    skill |-> rules.skill, executor |-> rules.executor, depth |-> rules.depth,
                    need |-> rules.need]
    BY DEF RulesRoute, Route
  <2> HIDE DEF rules
  <2>3. ByRules(chosen)
    BY <1>1, <1>2, <2>1, <2>2 DEF ByRules, rules
  <2>4. ask.target \in Agents => chosen.tier = "agent"
    BY <1>1, <2>1, <2>2
  <2>5. QED
    BY <2>3, <2>4
<1>4. CASE jev # NoRoute
  <2>1. ask.says # <<>> /\ jev = JevRoute(a, ask.req)
    BY <1>4
  <2>2. a \in JevAnswers
    BY <1>0, <2>1
  <2> DEFINE cmd == IF Tier(a) = "command" THEN a.command.choice ELSE "none"
             skill == IF cmd = "run_skill" THEN a.skill.choice ELSE "none"
             executor == IF Tier(a) = "agent" THEN Executor(a) ELSE Nobody
             depth == IF Tier(a) = "answer" THEN Depth(a) ELSE "none"
             need == NeedOf(a.web, a.writes)
  <2>3. /\ ~Unusable(a, ask.req)
        /\ jev = [via |-> "jev", tier |-> Tier(a), command |-> cmd, skill |-> skill,
                  executor |-> executor, depth |-> depth, need |-> need]
    BY <1>4, <2>1 DEF JevRoute, Route
  <2>4. JevSays(a)
    BY <2>1, <2>2, <2>3 DEF JevSays
  <2> HIDE DEF jev, a, cmd, skill, executor, depth, need
  <2>5. CASE jev.tier # "command" /\ ask.req.opening = "capture"
    <3>1. route = [via |-> "jev", tier |-> "command", command |-> "capture", skill |-> skill,
                   executor |-> Nobody, depth |-> "none", need |-> need]
      BY <1>4, <2>3, <2>5
    <3> HIDE DEF route
    <3>2. /\ chosen.via = "jev" /\ chosen.command = "capture" /\ chosen.executor = Nobody
          /\ chosen.depth = "none" /\ chosen.need = need
          /\ chosen.tier = IF ask.target \in Agents THEN "agent" ELSE "command"
      BY <1>1, <3>1
    <3>3. ByHerWord(chosen)
      BY <1>2, <2>4, <2>5, <3>2 DEF ByHerWord, need
    <3>4. QED
      BY <3>2, <3>3
  <2>6. CASE ~(jev.tier # "command" /\ ask.req.opening = "capture")
    <3>1. route = jev
      BY <1>4, <2>6
    <3> HIDE DEF route
    <3>2. /\ chosen.via = "jev" /\ chosen.command = cmd /\ chosen.skill = skill
          /\ chosen.executor = executor /\ chosen.depth = depth /\ chosen.need = need
          /\ chosen.tier = IF ask.target \in Agents THEN "agent" ELSE Tier(a)
      BY <1>1, <2>3, <3>1
    <3>3. ByJev(chosen)
      BY <1>2, <2>4, <3>2 DEF ByJev, cmd, skill, executor, depth, need
    <3>4. QED
      BY <3>2, <3>3
  <2>7. QED
    BY <2>5, <2>6
<1>5. QED
  BY <1>3, <1>4

(* What Jev is sure of, field by field. *)
LEMMA JevSureOf ==
  ASSUME NEW a, JevSays(a), ask \in TalkQuestions, NEW choice, NEW sure
  PROVE  /\ a.tier.choice = choice /\ a.tier.sure >= sure => JevSure("tier", choice, sure)
         /\ a.command.choice = choice /\ a.command.sure >= sure => JevSure("command", choice, sure)
         /\ a.skill.choice = choice /\ a.skill.sure >= sure => JevSure("skill", choice, sure)
         /\ a.executor.choice = choice /\ a.executor.sure >= sure => JevSure("executor", choice, sure)
         /\ a.depth.choice = choice /\ a.depth.sure >= sure => JevSure("depth", choice, sure)
<1>1. ask.says \in Seq(JevAnswers) /\ ask.says # <<>> /\ a = ask.says[1]
  BY DEF JevSays, TalkQuestions
<1>2. 1 \in DOMAIN ask.says
  BY <1>1
<1>3. ask.says[1] = a
  BY <1>1
<1>4. QED
  BY <1>2, <1>3 DEF JevSure

(* There are three tiers. *)
LEMMA TierIs ==
  ASSUME ask \in TalkQuestions
  PROVE  chosen.tier \in {"command", "answer", "agent"}
<1>1. RulesRoute(ask.req).tier \in {"command", "answer", "agent"}
  BY DEF RulesRoute, Route
<1>2. ASSUME NEW a, JevSays(a)
      PROVE  Tier(a) \in {"command", "answer", "agent"}
  <2>1. a.tier \in PickOf({"command", "answer", "agent"}) /\ a.tier # Malformed
    BY <1>2 DEF JevSays, JevAnswers, Unusable
  <2>2. a.tier.choice \in {"command", "answer", "agent"}
    BY <2>1 DEF PickOf
  <2>3. QED
    BY <2>2 DEF Tier
<1>3. ask.target \in Agents \/ ask.target = "auto"
  BY DEF TalkQuestions
<1>4. QED
  BY <1>1, <1>2, <1>3, DecideIs DEF ByRules, ByHerWord, ByJev

(* Only what is certainly a command is taken for one. *)
LEMMA CommandIsCertain ==
  ASSUME ask \in TalkQuestions
  PROVE  CommandsAreCertain
<1> SUFFICES ASSUME chosen.tier = "command"
             PROVE  \/ RuleCommand(ask.req) = chosen.command
                    \/ /\ JevSure("tier", "command", MinSure)
                       /\ JevSure("command", chosen.command, MinSure)
                       /\ chosen.command = "run_skill" => JevSure("skill", chosen.skill, MinSure)
  BY DEF CommandsAreCertain
<1>1. ask.target = "auto"
  BY DecideIs DEF TalkQuestions
<1>2. CASE ByRules(chosen)
  BY <1>2 DEF ByRules
<1>3. CASE ByHerWord(chosen)
  BY <1>3 DEF ByHerWord, RuleCommand
<1>4. CASE ByJev(chosen)
  <2>1. PICK a : /\ JevSays(a) /\ Tier(a) = "command"
                 /\ chosen.command = IF Tier(a) = "command" THEN a.command.choice ELSE "none"
                 /\ chosen.skill = IF chosen.command = "run_skill" THEN a.skill.choice ELSE "none"
    BY <1>1, <1>4 DEF ByJev
  <2>2. ~Unusable(a, ask.req)
    BY <2>1 DEF JevSays
  <2>3. a.tier.choice = "command" /\ a.tier.sure >= MinSure
    BY <2>1 DEF Tier
  <2>4. Sure(a.command) /\ (a.command.choice = "run_skill" => Sure(a.skill))
    BY <2>1, <2>2 DEF Unusable
  <2>5. a.command.sure >= MinSure /\ (a.command.choice = "run_skill" => a.skill.sure >= MinSure)
    BY <2>4 DEF Sure
  <2>6. JevSure("tier", "command", MinSure) /\ JevSure("command", a.command.choice, MinSure)
    BY <2>1, <2>3, <2>5, JevSureOf
  <2>7. a.command.choice = "run_skill" => JevSure("skill", a.skill.choice, MinSure)
    BY <2>1, <2>5, JevSureOf
  <2>8. QED
    BY <2>1, <2>6, <2>7
<1>5. QED
  BY <1>2, <1>3, <1>4, DecideIs

(* What delegate does about the costly worker. *)
LEMMA DelegateIsFrugal ==
  ASSUME NEW preferred, NEW need, NEW have, NEW tried
  PROVE  Delegate(preferred, need, have, tried) = "claude"
           => preferred = "claude" /\ "writes" \notin need
<1> DEFINE able == ({"hermes", "codex"} \cap have) \ tried
           able_fit == {w \in able : need \subseteq Can[w]}
           fit == IF able_fit # {} THEN able_fit ELSE able
<1>1. "claude" \notin fit
  BY DEF Agents
<1> HIDE DEF fit
<1>2. Delegate(preferred, need, have, tried) =
        IF preferred = "claude" /\ "claude" \in have \ tried /\ "writes" \notin need
        THEN "claude"
        ELSE IF need = {"writes"} /\ "codex" \in fit THEN "codex"
        ELSE IF preferred \in fit THEN preferred
        ELSE IF "hermes" \in fit THEN "hermes"
        ELSE IF "codex" \in fit THEN "codex" ELSE Nobody
  BY DEF Delegate, fit
<1>3. QED
  BY <1>1, <1>2 DEF Nobody

(* It finds a worker that fits where there is one. *)
LEMMA DelegateFits ==
  ASSUME NEW preferred, NEW need \in SUBSET {"web", "writes"}, NEW have \in SUBSET Agents,
         NEW w \in have \ {"claude"}, need \subseteq Can[w]
  PROVE  need \subseteq Can[Delegate(preferred, need, have, {})]
<1> DEFINE able == ({"hermes", "codex"} \cap have) \ {}
           able_fit == {x \in able : need \subseteq Can[x]}
           fit == IF able_fit # {} THEN able_fit ELSE able
<1>1. w \in able_fit
  BY DEF Agents
<1>2. \A x \in fit : need \subseteq Can[x]
  BY <1>1
<1>3. fit # {} /\ fit \subseteq {"hermes", "codex"}
  BY <1>1
<1>4. "writes" \notin need => need \subseteq Can["claude"]
  BY DEF Can
<1> HIDE DEF fit
<1>5. Delegate(preferred, need, have, {}) =
        IF preferred = "claude" /\ "claude" \in have \ {} /\ "writes" \notin need
        THEN "claude"
        ELSE IF need = {"writes"} /\ "codex" \in fit THEN "codex"
        ELSE IF preferred \in fit THEN preferred
        ELSE IF "hermes" \in fit THEN "hermes"
        ELSE IF "codex" \in fit THEN "codex" ELSE Nobody
  BY DEF Delegate, fit
<1>6. CASE Delegate(preferred, need, have, {}) \in fit
  BY <1>2, <1>6
<1>7. CASE Delegate(preferred, need, have, {}) \notin fit
  <2>1. Delegate(preferred, need, have, {}) = "claude" /\ "writes" \notin need
    BY <1>3, <1>5, <1>7
  <2>2. QED
    BY <1>4, <2>1
<1>8. QED
  BY <1>6, <1>7

(* What a task needs is what delegate looks at. *)
LEMMA NeedIs ==
  ASSUME ask \in TalkQuestions
  PROVE  chosen.need \in SUBSET {"web", "writes"}
<1>1. RulesRoute(ask.req).need \in SUBSET {"web", "writes"}
  BY DEF RulesRoute, Route
<1>2. \A a : NeedOf(a.web, a.writes) \in SUBSET {"web", "writes"}
  BY DEF NeedOf
<1>3. QED
  BY <1>1, <1>2, DecideIs DEF ByRules, ByHerWord, ByJev

(* The costly worker and the costly model are for what is surely deep. *)
LEMMA CostlyIsSure ==
  ASSUME ask \in TalkQuestions
  PROVE  CostlyOnlyWhenSure
<1>1. ASSUME chosen.tier = "agent", ask.target = "auto",
             Assign(chosen, ask.target, ask.have) = "claude"
      PROVE  /\ "writes" \notin chosen.need
             /\ IF chosen.via = "rules" THEN ask.req.deep
                ELSE ask.says[1].deep >= DeepSure \/ JevSure("executor", "claude", DeepSure)
  <2>1. "auto" \notin Agents
    BY DEF Agents
  <2>2. Delegate(chosen.executor, chosen.need, ask.have, {}) = "claude"
    BY <1>1, <2>1 DEF Assign, PickAgent
  <2>3. chosen.executor = "claude" /\ "writes" \notin chosen.need
    BY <2>2, DelegateIsFrugal
  <2>4. CASE ByRules(chosen)
    <3>1. RulesRoute(ask.req).executor = "claude"
      BY <2>3, <2>4 DEF ByRules
    <3>2. ask.req.deep
      BY <3>1 DEF RulesRoute, Route, Nobody
    <3>3. QED
      BY <2>3, <2>4, <3>2 DEF ByRules
  <2>5. CASE ByHerWord(chosen)
    BY <2>3, <2>5 DEF ByHerWord, Nobody
  <2>6. CASE ByJev(chosen)
    <3>1. PICK a : JevSays(a) /\ chosen.executor = IF Tier(a) = "agent" THEN Executor(a) ELSE Nobody
      BY <2>6 DEF ByJev
    <3>2. Executor(a) = "claude"
      BY <2>3, <3>1 DEF Nobody
    <3>3. a.deep >= DeepSure \/ (a.executor.choice = "claude" /\ a.executor.sure >= DeepSure)
      BY <3>2 DEF Executor, Nobody
    <3>4. a = ask.says[1]
      BY <3>1 DEF JevSays
    <3>5. a.deep >= DeepSure \/ JevSure("executor", "claude", DeepSure)
      BY <3>1, <3>3, JevSureOf
    <3>6. chosen.via # "rules"
      BY <2>6 DEF ByJev
    <3>7. QED
      BY <2>3, <3>4, <3>5, <3>6
  <2>7. QED
    BY <2>4, <2>5, <2>6, DecideIs
<1>2. ASSUME chosen.tier = "answer", AnswerModel(DepthOf(chosen), ready) = "claude"
      PROVE  IF chosen.via = "rules" THEN ask.req.analyse ELSE JevSure("depth", "deep", DeepSure)
  <2>1. chosen.depth = "deep"
    BY <1>2 DEF AnswerModel, DepthOf, Nobody
  <2>2. CASE ByRules(chosen)
    <3>1. RulesRoute(ask.req).depth = "deep"
      BY <2>1, <2>2 DEF ByRules
    <3>2. ask.req.analyse
      BY <3>1 DEF RulesRoute, Route
    <3>3. QED
      BY <2>2, <3>2 DEF ByRules
  <2>3. CASE ByHerWord(chosen)
    BY <2>1, <2>3 DEF ByHerWord
  <2>4. CASE ByJev(chosen)
    <3>1. PICK a : JevSays(a) /\ chosen.depth = IF Tier(a) = "answer" THEN Depth(a) ELSE "none"
      BY <2>4 DEF ByJev
    <3>2. a.depth.choice = "deep" /\ a.depth.sure >= DeepSure
      BY <2>1, <3>1 DEF Depth
    <3>3. JevSure("depth", "deep", DeepSure)
      BY <3>1, <3>2, JevSureOf
    <3>4. chosen.via # "rules"
      BY <2>4 DEF ByJev
    <3>5. QED
      BY <3>3, <3>4
  <2>5. QED
    BY <2>2, <2>3, <2>4, DecideIs
<1>3. ASSUME NEW tried \in SUBSET Agents
      PROVE  Delegate(Nobody, chosen.need, ask.have, tried) # "claude"
  BY DelegateIsFrugal DEF Nobody
<1>4. QED
  BY <1>1, <1>2, <1>3 DEF CostlyOnlyWhenSure

(* The worker assigned can do what the task needs, if any can. *)
LEMMA AssignedFits ==
  ASSUME ask \in TalkQuestions
  PROVE  WorkerFits
<1> SUFFICES ASSUME ask.target = "auto",
                    NEW w \in ask.have \ {"claude"}, chosen.need \subseteq Can[w]
             PROVE  chosen.need \subseteq Can[Assign(chosen, ask.target, ask.have)]
  BY DEF WorkerFits
<1>1. ask.have \in SUBSET Agents
  BY DEF TalkQuestions
<1>2. "auto" \notin Agents
  BY DEF Agents
<1>3. Assign(chosen, ask.target, ask.have) = Delegate(chosen.executor, chosen.need, ask.have, {})
  BY <1>2 DEF Assign, PickAgent
<1>4. chosen.need \subseteq Can[Delegate(chosen.executor, chosen.need, ask.have, {})]
  BY <1>1, NeedIs, DelegateFits
<1>5. QED
  BY <1>3, <1>4

(* What is answered has a depth; what was taken for a command is no deep question. *)
LEMMA DepthIs ==
  ASSUME ask \in TalkQuestions
  PROVE  /\ DepthOf(chosen) \in {"light", "deep"}
         /\ chosen.tier = "command" => DepthOf(chosen) = "light"
<1>1. chosen.depth \in {"none", "light", "deep"}
  BY DecideIs DEF ByRules, ByHerWord, ByJev, RulesRoute, Route, Depth
<1>2. ASSUME chosen.tier = "command"
      PROVE  chosen.depth = "none"
  <2>1. ask.target = "auto"
    BY <1>2, DecideIs DEF TalkQuestions
  <2>2. CASE ByRules(chosen)
    BY <1>2, <2>1, <2>2 DEF ByRules, RulesRoute, Route
  <2>3. CASE ByHerWord(chosen)
    BY <2>3 DEF ByHerWord
  <2>4. CASE ByJev(chosen)
    BY <1>2, <2>1, <2>4 DEF ByJev
  <2>5. QED
    BY <2>2, <2>3, <2>4, DecideIs
<1>3. QED
  BY <1>1, <1>2 DEF DepthOf

(* answer, which asks one model after another, ends with the one answer_model
   names without asking, or with one that stands in for it. *)
LEMMA AnswerDegrades ==
  ASSUME NEW depth \in {"light", "deep"}, NEW failing \in SUBSET ready
  PROVE  /\ StandsIn(Answer(depth, ready, failing), AnswerModel(depth, ready), failing)
         /\ depth = "light" => Answer(depth, ready, failing) # "claude"
<1> DEFINE left == ready \ failing
<1>1. Nobody \notin failing
  BY DEF ready, Nobody
<1>2. Answer(depth, ready, failing) =
        IF depth = "deep" /\ "claude" \in left THEN "claude"
        ELSE IF "codex" \in left THEN "codex"
        ELSE IF "minimax" \in left THEN "minimax" ELSE Nobody
  BY DEF Answer
<1>3. depth = "light" => Answer(depth, ready, failing) # "claude"
  BY <1>2 DEF Nobody
<1>4. CASE AnswerModel(depth, ready) = "claude"
  BY <1>2, <1>4 DEF AnswerModel, StandsIn, Cheaper, Nobody
<1>5. CASE AnswerModel(depth, ready) = "codex"
  BY <1>2, <1>5 DEF AnswerModel, StandsIn, Cheaper, Nobody
<1>6. CASE AnswerModel(depth, ready) = "minimax"
  BY <1>2, <1>6 DEF AnswerModel, StandsIn, Cheaper, Nobody
<1>7. CASE AnswerModel(depth, ready) = Nobody
  BY <1>1, <1>2, <1>7 DEF AnswerModel, StandsIn, Nobody
<1>8. QED
  BY <1>3, <1>4, <1>5, <1>6, <1>7 DEF AnswerModel

(* What preview says is what talk does. *)
LEMMA PreviewIsTrue ==
  ASSUME ask \in TalkQuestions
  PROVE  PreviewTells
<1> DEFINE said == Preview(ask.req, ask.target, ask.says, ask.have, ready)
           done(failing, busy) ==
             Talk(ask.req, ask.target, ask.says, ask.have, ready, failing, ask.note, busy)
           does == Command(chosen, ask.req, ask.note)
           worker == Assign(chosen, ask.target, ask.have)
           depth == DepthOf(chosen)
<1> SUFFICES ASSUME NEW failing \in SUBSET ready, NEW busy \in BOOLEAN
             PROVE  /\ said.does = "work" =>
                         /\ done(failing, busy).who = said.who
                         /\ done(failing, busy).does = "work" <=> said.who # Nobody /\ ~busy
                    /\ said.does = "answer" =>
                         /\ done(failing, busy).does = "answer"
                         /\ StandsIn(done(failing, busy).who, said.who, failing)
                    /\ said.does = "command" =>
                         /\ done(failing, busy).does \notin {"work", "busy", "no_agent"}
                         /\ done(failing, busy).does = "answer" =>
                              done(failing, busy).who # "claude" /\ ~ask.note
  BY DEF PreviewTells
<1> DEFINE then == done(failing, busy)
<1>1. CASE chosen.tier = "agent"
  <2> DEFINE says == IF busy THEN "busy" ELSE "work"
  <2>1. says = "work" <=> ~busy
    OBVIOUS
  <2>2. said = Outcome("work", worker)
    BY <1>1 DEF Preview, chosen
  <2>3. then = IF worker = Nobody THEN Outcome("no_agent", Nobody) ELSE Outcome(says, worker)
    BY <1>1 DEF Talk, chosen
  <2> HIDE DEF said, done, worker, says
  <2>4. said.does = "work" /\ said.who = worker
    BY <2>2 DEF Outcome
  <2>5. then.does = (IF worker = Nobody THEN "no_agent" ELSE says) /\ then.who = worker
    BY <2>3 DEF Outcome
  <2>6. QED
    BY <2>1, <2>4, <2>5
<1>2. CASE chosen.tier = "answer"
  <2>1. said = Outcome("answer", AnswerModel(depth, ready))
    BY <1>2 DEF Preview, chosen
  <2>2. then = Outcome("answer", Answer(depth, ready, failing))
    BY <1>2 DEF Talk, chosen
  <2>3. StandsIn(Answer(depth, ready, failing), AnswerModel(depth, ready), failing)
    BY AnswerDegrades, DepthIs
  <2> HIDE DEF said, done
  <2>4. QED
    BY <2>1, <2>2, <2>3 DEF Outcome
<1>3. CASE chosen.tier = "command"
  <2>1. said = Outcome("command", Nobody)
    BY <1>3 DEF Preview, chosen
  <2>2. then = IF does # "nothing" THEN Outcome(does, Nobody)
               ELSE Outcome("answer", Answer(depth, ready, failing))
    BY <1>3 DEF Talk, chosen
  <2>3. does \notin {"work", "busy", "no_agent", "answer"} /\ (does = "nothing" => ~ask.note)
    BY DEF Command
  <2>4. Answer(depth, ready, failing) # "claude"
    BY <1>3, AnswerDegrades, DepthIs
  <2> HIDE DEF said, done, does
  <2>5. said.does = "command"
    BY <2>1 DEF Outcome
  <2>6. /\ then.does = IF does # "nothing" THEN does ELSE "answer"
        /\ does = "nothing" => then.who = Answer(depth, ready, failing)
    BY <2>2 DEF Outcome
  <2>7. QED
    BY <2>3, <2>4, <2>5, <2>6
<1>4. QED
  BY <1>1, <1>2, <1>3, TierIs

(* Whatever Jev says and she asks, a command that is taken for one is certain:
   her first words say so, or Jev was sure enough of all of it. *)
THEOREM CommandsStayCertain == AnyTalk => []CommandsAreCertain
<1>1. ask \in TalkQuestions => CommandsAreCertain
  BY CommandIsCertain
<1>2. ask \in TalkQuestions /\ [ask' \in TalkQuestions]_ask => (ask \in TalkQuestions)'
  OBVIOUS
<1>3. QED
  BY <1>1, <1>2, PTL DEF AnyTalk

(* The costly worker and the costly model get only what is surely deep, and
   never what changes the vault; none falls back on them. *)
THEOREM ClaudeIsForSureCases == AnyTalk => []CostlyOnlyWhenSure
<1>1. ask \in TalkQuestions => CostlyOnlyWhenSure
  BY CostlyIsSure
<1>2. ask \in TalkQuestions /\ [ask' \in TalkQuestions]_ask => (ask \in TalkQuestions)'
  OBVIOUS
<1>3. QED
  BY <1>1, <1>2, PTL DEF AnyTalk

(* Work goes to a worker that can do it whenever a cheap one that can is
   connected, for every set of workers that is. *)
THEOREM WorkersFit == AnyTalk => []WorkerFits
<1>1. ask \in TalkQuestions => WorkerFits
  BY AssignedFits
<1>2. ask \in TalkQuestions /\ [ask' \in TalkQuestions]_ask => (ask \in TalkQuestions)'
  OBVIOUS
<1>3. QED
  BY <1>1, <1>2, PTL DEF AnyTalk

(* What preview says of a request is what talk does with it, or the next best
   that is left, whichever models fail and whether or not there is a slot. *)
THEOREM PreviewsAreTrue == AnyTalk => []PreviewTells
<1>1. ask \in TalkQuestions => PreviewTells
  BY PreviewIsTrue
<1>2. ask \in TalkQuestions /\ [ask' \in TalkQuestions]_ask => (ask \in TalkQuestions)'
  OBVIOUS
<1>3. QED
  BY <1>1, <1>2, PTL DEF AnyTalk
================================================================================
