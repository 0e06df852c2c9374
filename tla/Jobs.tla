---------------------------------- MODULE Jobs ----------------------------------
(***************************************************************************)
(* The bridge's durable agent jobs: JobStore (muninn/brain/jobs.py) and    *)
(* the threads that work a job off (start_agent, run_agent and delegate in *)
(* muninn/brain/bridge.py), with the bridge crashing and starting again.   *)
(*                                                                         *)
(* row, note and logged are durable: the row in SQLite, the report in the  *)
(* vault, the talk log.  job and pc are the threads' own and die with the  *)
(* process.  A save is one step and so is the rename that puts a report in *)
(* its place; the process may die between any two.                         *)
(***************************************************************************)
EXTENDS Routing

CONSTANTS
  Jobs,         \* ids
  MaxActive,    \* MUNINN_MAX_JOBS: jobs that run at a time
  Names,        \* what a report may be called; the titler chooses
  Connected,    \* the workers that may be connected, at one time or another
  Needs,        \* what requests may need: sets of "web" and "writes"
  MaxCrashes    \* bound of the model on how often the bridge dies

ASSUME JobsAssumption ==
  /\ IsFiniteSet(Jobs)
  /\ MaxActive \in Nat \ {0}
  /\ Names # {} /\ "none" \notin Names /\ "error" \notin Names
  /\ Connected \subseteq Agents
  /\ Needs \subseteq SUBSET {"web", "writes"}
  /\ MaxCrashes \in Nat

VARIABLES
  row,          \* the saved record of each job
  note,         \* the status each report in the vault states, "none" without one
  logged,       \* entries of each job in the talk log
  bridge,       \* "down", "recovering" (job_store's first call) or "up"
  pc,           \* where the thread of a job is, "none" without one
  job,          \* the thread's copy of the record
  request,      \* what the job's request needs
  ran,          \* the workers that were started on each job, in order
  crashes

durable == <<row, note, logged>>
vars == <<durable, bridge, pc, job, request, ran, crashes>>

(* "created": inserted, no thread yet.  "finishing": finish is called.
   "filing": the result is saved, the report is not written.  "filed": it is,
   or could not be.  "logging": the final record is saved.  "pending": recover
   has read the row and not come to it. *)
Alive == {"created", "working", "finishing", "filing", "filed"}
Stages == Alive \cup {"none", "logging", "pending"}

Terminal == {"done", "failed"}

(* A record; result is there ("none" otherwise) while it is being filed. *)
Record(status, agent, answer) ==
  [status |-> status, agent |-> agent, answer |-> answer, result |-> "none", report |-> "none"]
Absent == Record("absent", Nobody, "none")
Answers == Agents \cup {"none", "interrupted", "exception", "no thread"}
Records ==
  [status: {"absent", "running"} \cup Terminal, agent: Agents \cup {Nobody}, answer: Answers,
   result: {"none"} \cup Terminal, report: {"none", "error"} \cup Names]

Running(rows) == {j \in Jobs : rows[j].status = "running"}

-----------------------------------------------------------------------------
(* Definitions named Fault... are wrong versions of the definition after
   them; each refutes a property when put in its place. *)

(* One job too many. *)
FaultCreate(j, agent) ==
  /\ Cardinality(Running(row)) <= MaxActive
  /\ row' = [row EXCEPT ![j] = Record("running", agent, "none")]

(* JobStore.create: count and insert in one transaction. *)
Create(j, agent) ==
  /\ Cardinality(Running(row)) < MaxActive
  /\ row' = [row EXCEPT ![j] = Record("running", agent, "none")]

(* talk() hands an agent request to start_agent. *)
Start(j, target, need) ==
  /\ bridge = "up"
  /\ row[j].status = "absent"
  /\ \E preferred \in Agents \cup {Nobody}, have \in SUBSET Connected :
       LET agent == PickAgent(target, preferred, need, have) IN
       /\ agent # Nobody
       /\ Create(j, agent)
       /\ job' = [job EXCEPT ![j] = Record("running", agent, "none")]
  /\ pc' = [pc EXCEPT ![j] = "created"]
  /\ request' = [request EXCEPT ![j] = need]
  /\ UNCHANGED <<note, logged, bridge, ran, crashes>>

(* The thread runs: the first worker is started. *)
StartThread(j) ==
  /\ pc[j] = "created"
  /\ pc' = [pc EXCEPT ![j] = "working"]
  /\ ran' = [ran EXCEPT ![j] = Append(@, job[j].agent)]
  /\ UNCHANGED <<durable, bridge, job, request, crashes>>

(* Thread.start raises: start_agent finishes the job itself. *)
NoThread(j) ==
  /\ pc[j] = "created"
  /\ pc' = [pc EXCEPT ![j] = "finishing"]
  /\ job' = [job EXCEPT ![j].status = "failed", ![j].answer = "no thread"]
  /\ UNCHANGED <<durable, bridge, request, ran, crashes>>

(* The worker ended, and what it said stands. *)
WorkDone(j, status, answer) ==
  /\ pc[j] = "working"
  /\ pc' = [pc EXCEPT ![j] = "finishing"]
  /\ job' = [job EXCEPT ![j].status = status, ![j].answer = answer]
  /\ UNCHANGED <<durable, bridge, request, ran, crashes>>

(* Workers that were tried may be tried again. *)
FaultHandOver(j, have) ==
  /\ pc[j] = "working"
  /\ LET other == Delegate(Nobody, request[j], have, {job[j].agent}) IN
     IF other # Nobody
     THEN /\ job' = [job EXCEPT ![j] = Record("running", other, "none")]
          /\ ran' = [ran EXCEPT ![j] = Append(@, other)]
          /\ UNCHANGED pc
     ELSE /\ job' = [job EXCEPT ![j].status = "failed", ![j].answer = job[j].agent]
          /\ pc' = [pc EXCEPT ![j] = "finishing"]
          /\ UNCHANGED ran
  /\ UNCHANGED <<durable, bridge, request, crashes>>

(* The worker declined or gave up: another one gets the job, if there is any. *)
HandOver(j, have) ==
  /\ pc[j] = "working"
  /\ LET other == Delegate(Nobody, request[j], have, Range(ran[j])) IN
     IF other # Nobody
     THEN /\ job' = [job EXCEPT ![j] = Record("running", other, "none")]
          /\ ran' = [ran EXCEPT ![j] = Append(@, other)]
          /\ UNCHANGED pc
     ELSE /\ job' = [job EXCEPT ![j].status = "failed", ![j].answer = job[j].agent]
          /\ pc' = [pc EXCEPT ![j] = "finishing"]
          /\ UNCHANGED ran
  /\ UNCHANGED <<durable, bridge, request, crashes>>

(* What comes of the worker's run. *)
Work(j) ==
  \/ \E status \in Terminal : WorkDone(j, status, job[j].agent)
  \/ WorkDone(j, "failed", "exception")
  \/ \E have \in SUBSET Connected : HandOver(j, have)

-----------------------------------------------------------------------------
(* finish: the result is saved before any of the filing's I/O. *)
Finish(j) ==
  /\ pc[j] = "finishing"
  /\ job' = [job EXCEPT ![j].status = "running", ![j].result = job[j].status]
  /\ row' = [row EXCEPT ![j] = job'[j]]
  /\ pc' = [pc EXCEPT ![j] = "filing"]
  /\ UNCHANGED <<note, logged, bridge, request, ran, crashes>>

(* The record names the report, written or not. *)
FaultFiled(j, name, written) ==
  job' = [job EXCEPT ![j].status = job[j].result, ![j].result = "none", ![j].report = name]

(* _file_terminal, with what file_report came to. *)
Filed(j, name, written) ==
  job' = [job EXCEPT ![j].status = IF written THEN job[j].result ELSE "failed",
                     ![j].result = "none",
                     ![j].report = IF written THEN name ELSE "error"]

(* An error of the file system ends the thread. *)
FaultFileReport(j) ==
  /\ pc[j] = "filing"
  /\ \/ /\ \E name \in Names : /\ Filed(j, name, TRUE)
                              /\ note' = [note EXCEPT ![j][name] = job[j].result]
        /\ pc' = [pc EXCEPT ![j] = "filed"]
     \/ /\ pc' = [pc EXCEPT ![j] = "none"]
        /\ UNCHANGED <<note, job>>
  /\ UNCHANGED <<row, logged, bridge, request, ran, crashes>>

(* file_report: the finished text replaces what had the name, or nothing does. *)
FileReport(j) ==
  /\ pc[j] = "filing"
  /\ \E name \in Names, written \in BOOLEAN :
       /\ Filed(j, name, written)
       /\ note' = IF written THEN [note EXCEPT ![j][name] = job[j].result] ELSE note
  /\ pc' = [pc EXCEPT ![j] = "filed"]
  /\ UNCHANGED <<row, logged, bridge, request, ran, crashes>>

(* The final save.  start_agent has no more to do, run_agent has. *)
Save(j) ==
  /\ pc[j] = "filed"
  /\ row' = [row EXCEPT ![j] = job[j]]
  /\ pc' = [pc EXCEPT ![j] =
              IF bridge = "up" /\ job[j].answer = "no thread" THEN "none" ELSE "logging"]
  /\ UNCHANGED <<note, logged, bridge, job, request, ran, crashes>>

(* log_job, which for the jobs recovered comes after all of recover. *)
Log(j) ==
  /\ pc[j] = "logging"
  /\ bridge = "recovering" => \A k \in Jobs : pc[k] \in {"none", "logging"}
  /\ logged' = [logged EXCEPT ![j] = @ + 1]
  /\ pc' = [pc EXCEPT ![j] = "none"]
  /\ UNCHANGED <<row, note, bridge, job, request, ran, crashes>>

-----------------------------------------------------------------------------
(* The process dies, and every thread with it. *)
Crash ==
  /\ bridge # "down"
  /\ crashes < MaxCrashes
  /\ bridge' = "down"
  /\ crashes' = crashes + 1
  /\ pc' = [j \in Jobs |-> "none"]
  /\ job' = [j \in Jobs |-> Absent]
  /\ UNCHANGED <<durable, request, ran>>

(* Every job is looked at again. *)
FaultRestart ==
  /\ bridge = "down"
  /\ bridge' = "recovering"
  /\ pc' = [j \in Jobs |-> IF row[j].status # "absent" THEN "pending" ELSE "none"]
  /\ UNCHANGED <<durable, job, request, ran, crashes>>

(* The bridge starts: recover reads the rows that are running. *)
Restart ==
  /\ bridge = "down"
  /\ bridge' = "recovering"
  /\ pc' = [j \in Jobs |-> IF j \in Running(row) THEN "pending" ELSE "none"]
  /\ UNCHANGED <<durable, job, request, ran, crashes>>

(* Whatever was running was cut off. *)
FaultRecoverForgets(j) ==
  /\ pc[j] = "pending"
  /\ \A k \in Jobs : pc[k] \in {"none", "pending", "logging"}
  /\ job' = [job EXCEPT ![j] = [row[j] EXCEPT !.status = "failed", !.answer = "interrupted"]]
  /\ pc' = [pc EXCEPT ![j] = "finishing"]
  /\ UNCHANGED <<durable, bridge, request, ran, crashes>>

(* recover, one row after the other: file what it saved, or say it was cut off. *)
Recover(j) ==
  /\ pc[j] = "pending"
  /\ \A k \in Jobs : pc[k] \in {"none", "pending", "logging"}
  /\ IF row[j].result # "none"
     THEN /\ job' = [job EXCEPT ![j] = row[j]]
          /\ pc' = [pc EXCEPT ![j] = "filing"]
     ELSE /\ job' = [job EXCEPT ![j] = [row[j] EXCEPT !.status = "failed", !.answer = "interrupted"]]
          /\ pc' = [pc EXCEPT ![j] = "finishing"]
  /\ UNCHANGED <<durable, bridge, request, ran, crashes>>

(* job_store returns, and the bridge serves. *)
Open ==
  /\ bridge = "recovering"
  /\ \A j \in Jobs : pc[j] = "none"
  /\ bridge' = "up"
  /\ UNCHANGED <<durable, pc, job, request, ran, crashes>>

Init ==
  /\ row = [j \in Jobs |-> Absent]
  /\ note = [j \in Jobs |-> [n \in Names |-> "none"]]
  /\ logged = [j \in Jobs |-> 0]
  /\ bridge = "down"
  /\ pc = [j \in Jobs |-> "none"]
  /\ job = [j \in Jobs |-> Absent]
  /\ request = [j \in Jobs |-> {}]
  /\ ran = [j \in Jobs |-> <<>>]
  /\ crashes = 0

Thread(j) ==
  StartThread(j) \/ NoThread(j) \/ Work(j) \/ Finish(j) \/ FileReport(j) \/ Save(j) \/ Log(j)

Next ==
  \/ \E j \in Jobs, target \in Agents \cup {"auto"}, need \in Needs : Start(j, target, need)
  \/ \E j \in Jobs : Thread(j) \/ Recover(j)
  \/ Crash \/ Restart \/ Open

Spec == Init /\ [][Next]_vars

(***************************************************************************)
(* Threads run; a worker has a timeout of 25 minutes and then comes back   *)
(* with what it has; systemd starts the bridge again (Restart = "always"). *)
(***************************************************************************)
Fairness ==
  /\ \A j \in Jobs : WF_vars(Thread(j)) /\ WF_vars(Recover(j))
  /\ WF_vars(Restart) /\ WF_vars(Open)

FairSpec == Spec /\ Fairness

-----------------------------------------------------------------------------
(* Every variable has its type; only the running have a result to file. *)
TypeOK ==
  /\ row \in [Jobs -> Records] /\ job \in [Jobs -> Records]
  /\ note \in [Jobs -> [Names -> {"none"} \cup Terminal]]
  /\ logged \in [Jobs -> Nat]
  /\ bridge \in {"down", "recovering", "up"}
  /\ pc \in [Jobs -> Stages]
  /\ request \in [Jobs -> Needs \cup {{}}]
  /\ ran \in [Jobs -> Seq(Agents)]
  /\ crashes \in Nat

(***************************************************************************)
(* "Admission and insertion share a transaction": no more jobs have a      *)
(* thread at work or a report on its way than there are slots, crashes and *)
(* recoveries included.  A job holds its slot until its report is filed,   *)
(* for finish saves it as running once more.                               *)
(***************************************************************************)
SlotLimit == Cardinality({j \in Jobs : pc[j] \in Alive}) <= MaxActive

(***************************************************************************)
(* "A restart records interruption; it never repeats work", and each other *)
(* worker gets one try (run_agent): no worker is started on a job twice.   *)
(* That another worker does over what the first had done, when it gave up  *)
(* or was misjudged, is allowed.                                           *)
(***************************************************************************)
NeverRepeats == \A j \in Jobs : IsInjective(ran[j])

(***************************************************************************)
(* "Even a crash while filing cannot lose the result or falsely advertise  *)
(* a filed report" (finish).  The report a record names is in the vault    *)
(* and states the record's status ...                                      *)
(***************************************************************************)
ReportsAreTrue ==
  /\ TypeOK
  /\ \A j \in Jobs :
       /\ row[j].report \in Names => note[j][row[j].report] = row[j].status
       /\ row[j].status \in Terminal => row[j].report # "none"

(***************************************************************************)
(* ... and what a worker said, once saved, is what the record says in the  *)
(* end, however often the bridge dies on the way; the result turns into a  *)
(* failure only if its report could not be filed.                          *)
(***************************************************************************)
ResultKept ==
  [][\A j \in Jobs :
       /\ row[j].status \in Terminal => row'[j] = row[j]
       /\ row[j].result # "none" =>
            /\ row'[j].answer = row[j].answer
            /\ row'[j].result # row[j].result =>
                 row'[j].status = row[j].result \/ row'[j].report = "error"]_vars

(***************************************************************************)
(* Jobs that recover closed never "reached the talk log" before (recover), *)
(* so logging them then logs no job twice; and only the final record is.   *)
(***************************************************************************)
LoggedOnce ==
  \A j \in Jobs : logged[j] <= 1 /\ (logged[j] = 1 => row[j].status \in Terminal)

(* A job that was admitted ends, and its slot is free again. *)
EveryJobEnds == \A j \in Jobs : row[j].status = "running" ~> row[j].status \in Terminal
=============================================================================
