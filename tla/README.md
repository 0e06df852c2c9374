# Verification of the services on heimdall

TLA+ models of the services this repository keeps beside its NixOS
configuration: the AI gateway in front of the model servers, the muninn bridge
that gives work to agents, the inbox sweep that files captures into the vault,
the chain from a note to the vector it is found by, the login check, the
read-only view, and huginn's care for links. The modules are translated from the
code (`src/hosts/heimdall/...`); its comments, docs and tests are where most
properties come from. TLC checks the modules on small instances; TLAPS proves
every safety property that a passing run checks, and that the gate implements
its abstract specification, for all.

    tlc -workers 2 -config MCGate.cfg Gate       # a run
    tlapm GateProofs.tla                         # the proofs of a module

Every row of `PROJECT.json` ("map") names the lines a definition translates.
Definitions called `Fault...` are no part of a model. Each is a plausible wrong
version of the definition after it; put in its place, a run must refute the
property `PROJECT.json` ("mutants") names. They show that the properties bite.

## Inventory

| part | state it keeps | operations | works with |
|---|---|---|---|
| **AI gateway: gate** (`ai-gateway/gateway.py`, `Gate`) | count and model of what runs at one target, a deque of turns (futures) | `enter`, `leave`, `_admit`, cancellation at the await | asyncio tasks of one event loop |
| **AI gateway: plan** (`Gateway.plan`) | none | from route, health, caller and size to an order of models or a refusal | health probes, request handling |
| **AI gateway: requests** (`handle`, `serve`, `attempt`, `relay_stream`, `record`) | a `Call` for each request, gauges and counters, last health checks | try one model after another, relay, record, probe | gates, upstreams, callers that hang up |
| **bridge: jobs** (`brain/jobs.py`, `run_agent`, `start_agent`) | SQLite rows, reports in the vault | admit, work, hand over, finish, file, recover | a thread for each job, the workers hermes, codex and claude, talk log |
| **bridge: talk log** (`log_talk` ... `_write_talk`) | a note for each day in the vault (NFS), a local spool | log, flush at start | every thread of the bridge, under `TALK_LOCK` |
| **bridge: routing** (`route_jev`, `route_rules`, `decide`, `delegate`, `assign`, `preview`, `talk`) | none | from her words and Jev's answer to a command, a model or a worker | Jev, the model servers, jobs |
| **bridge: the rest** (`bridge.py`) | usage and statistics files, caches | retrieve, place, speak, measure | note index, hosts that push usage |
| **inbox sweep** (`muninn/inbox.py`) | `_inbox`, an archive, a lock file | list, read, claim, ask, write, restore, report | her editor, the writer (MiniMax), Jev, the bridge |
| **indexer** (`modules/system/brain.nix`) | note index (SQLite), the times of its last walk | reindex at the start, a round each minute | vault |
| **embedding index** (`brain/embed.py`) | vectors (SQLite); in the bridge a copy of them | `sync` each minute; `vectors`, by any thread | note index, mimir, bridge |
| **login check** (`brain/auth.py`) | token file; the service's own copy, reloaded on SIGHUP | `check`; the command `add`, `revoke` | nginx, systemd |
| **read-only view** (`ro/build-view.py`, `ro/muninn-ro.py`) | versioned directories, the link `current`; the server's snapshot | build, swap, remove; load | vault, huginn's graph, readers |
| **dead-link fixer, gardener** (`muninn/*.py`) | none between runs | scan, write stubs, report | vault, each other's reports |
| **huginn** (`modules/system/huginn.nix`, `alerting.nix`) | timers, path units, an alert note | start the sweep, poll, notify | inbox sweep, ntfy |
| **unlinked mentions, graph builder** | none between runs | one pass over the vault | vault |
| **everything else** (hosts, NixOS modules, desktop, odyn, rack display, st, dmenu) | none, or a display's | declarative configuration, polling, vendored programs | |

What is hard, and what makes each part correct:

* *Gate.* A caller may hang up at any moment, even in the one between the grant
  of its turn and its task running. No slot may leak, the limits must hold, no
  turn may get lost, nobody may overtake, nobody may starve.
* *Requests.* Failures in every phase, several candidates, cancellation at every
  await. Gauges must stay true, the caller must never get pieces of two answers,
  a failure must be the last resort, and failover must not spend money on behalf
  of strangers.
* *Jobs.* The bridge may die between any two durable steps. Work must not be
  repeated, results must not be lost, reports must not be claimed that are not
  there, slots must be neither exceeded nor leaked.
* *Talk log.* Vault and spool fail independently. Nothing may be lost or get out
  of order when only the vault fails; a crash may cost little.
* *Routing.* Six thresholds and as many fallbacks meet. Nothing half-sure may
  run or reach the costly worker, and a preview must foretell what happens.
* *Sweep.* She edits while it works. No capture may be lost, each gets one
  outcome, and none stays for ever.
* *Index and vectors.* Three processes hand a text on, two of them by comparing
  times, with restarts and failures between commits. What she wrote last must be
  what is found, and a copy in memory must be as new as it claims.
* *Login check.* The command rewrites a file without a lock, and a fresh copy of
  it and the signal to read it come in either order. Revocations must count.
* *View.* Builds die anywhere and a server loads while directories go. There
  must always be a whole view, and nothing private in it, graphs included that
  were carried over from views of other days.
* *Fixer.* It writes into a vault that has changed since it looked, and reads
  its own output the next week.

`PROJECT.json` ("hazards") lists these one by one at their lines.

## Modules

| module | models | notes |
|---|---|---|
| `Gate` | class `Gate` with its tasks | one action for each stretch between awaits |
| `Admission` | what `Gate` promises | who waits, behind whom, and who is in: no deque, no counter, no futures |
| `RoutePlan` | `Gateway.plan` | operators only |
| `Gateway`, `MCGateway` | requests from arrival to record | extends `RoutePlan`; each gate is `Admission`'s |
| `Routing` | from a request to who takes it | operators only |
| `Jobs`, `MCJobs` | job store, workers, crash and recovery | extends `Routing`: hand-overs are `Delegate`'s |
| `TalkLog`, `MCTalkLog` | log, spool, crash | |
| `Inbox`, `MCInbox` | sweep, editor, bridge, kill | |
| `Search` | indexer, embedder, the bridge's copy | three processes in a chain |
| `Access`, `MCAccess` | token file, command, systemd, service | |
| `View`, `MCView` | builder, link, server | |
| `Links` | dead-link fixer, orphans and dead links of the gardener | operators only |
| `DecidePlan`, `DecideTalk`, `DecideLinks` | the decisions of `RoutePlan`, `Routing` and `Links` as specifications | one variable (`Question`), the inputs that can be, and the properties |
| `MCDecisions` | every input of small sets for the three | |
| `GateProofs`, `TalkLogProofs`, `ViewProofs`, `AccessProofs`, `SearchProofs` | theorems about the module of the name | see below |
| `GatewayProofs`, `JobsProofs`, `InboxProofs` | the same, and about the decisions of the same program: the plan, the talk, the links | see below |

### Gate

`waiters`, `running`, `model` are the fields of the same names; `at[r]` is where
request r's coroutine stands. A future that is granted (`set_result`) and a task
that runs again are two moments in asyncio, and so are a `cancel()` and the
`CancelledError` it raises; `Wake` and `Unwind` are the second halves. The
deque entry of a cancelled turn stays until `_admit` comes to it (`Gone`).
`Admit` is the whole `while` loop of `_admit`: it takes exactly the k entries
off that the loop would (`Takes`), written without recursion so that it can be
proved about. `Enter` runs it with the new request at the end of the deque; a
request whose own `_admit` grants its turn goes in without suspending.

`Admission` lets any number in from the front, by a set in which nobody stands
behind somebody who is not in it. `Waiting` and `Behind` map the gate to it: the
requests that wait, each behind those that are before it in the deque and still
wait, and `Holders`, who have a slot from the moment it is granted. Futures, the
count, the remembered model and the entries of those that left have no image;
`Wake` is a stutter. A request whose turn was granted when it hung up is inside
until it has given the slot back.

### RoutePlan and Gateway

A model is limited or not and a request long or not: sizes matter only for that.
A `Call`'s `code` and `finish` are kept as `record` sees them; 4xx and 5xx stand
for an upstream's own codes, and "stop", "error" and "none" for the finish it
states. `Queue` is `attempt` up to `gate.enter`, `Admit` the gate letting the
head of its line in and the request being sent, `Answer` an `attempt` that
returns a response, with both `finally` clauses. The granularity is an await:
`HangUp` may come at each. Gates are used by their promise, which `Gate` is
proved to keep. `Those` picks from a route in its order, by a recursive function and not
by `SelectSeq`, for the proofs. Every model has an upstream name of its own.

### Routing

A request is what the regular expressions find in it: how it opens and which of
five kinds of words it holds. Jev's answer is a pick with a confidence for each
question and a probability for each fact, in thousandths; a pick the code cannot
use is `Malformed`, a missing probability `Unsaid`. `Rounded` is there because
`delegate` reads needs off a route whose probabilities are cut to two decimals,
which moves 0.497 over the threshold of 0.5. What the bridge can run (`Skills`) is
a constant. `Decide` is `decide` with both
sources; `Delegate`, `PickAgent` and `Assign` choose the worker. `Answer` asks
one model after the other, where one that is ready may fail; `AnswerModel` tells
from the depth and from what is ready who would answer, without asking. `Preview` puts it
together without doing any of it, `Talk` with what preview does not see: a
command that finds nothing and is answered, all slots taken ("busy"), models that
fail, and nobody connected ("no_agent"). Of all of these `PreviewTells` says how
far talk may come from what preview said: a worker named is refused the job only
for want of a slot, a model named is replaced only when it fails and only by a
cheaper one that works, and what was to be a command starts no worker. Both are
given the same answer of Jev, as if it said the same twice.

### Jobs

`row`, `note`, `logged` survive a crash, `job` and `pc` do not. `pc[j]` is where
the thread of j is; each durable write (`save`, `os.replace`, the talk log) is a
step, and `Crash` may come between any two. `ran` and `request` are history, for
the properties. `Start` is `talk` with `pick_agent`, so the workers connected and
the preference of Jev are arbitrary each time. Recovery goes through the rows
one after another and logs them afterwards, as `job_store` does. SQLite itself
does not fail in this model, and the commit into git is left out.

### TalkLog

`hand` is what the thread that holds `TALK_LOCK` still has to append. The vault
may refuse at any entry; the spool may fail to be written (`MaxTrouble`, shared
with crashes) or read (`MaxUnreadable`). A refused append leaves nothing behind:
partial appends are left out. The notes of several days are one log.

### Inbox

Files are inodes: a name in `_inbox` links one, the archive links what was
moved there, editors save in place into an inode they hold or put a new one
under the name (`Save`, `Put`, at any time). `content` has the kind the sweep
branches on and a version that stands for the signature. `Check`, `Move` and
`Verify` are the three moments of `claim`; `ReadTorn` and `VerifyTorn` are saves
that land inside `read_note`. `BridgeActs`, `NoAnswer` and `BridgeActsLate` are a
bridge that does or does not act while the sweep waits, or after it has given
up. A note is written whole or not at all.

### Search

A text is its number, the time it is taken to be of, and whether it says
anything (`wanted`: no stub, no log, not empty). `index` and `vecs` are the two
databases as committed; `draft` is the indexer's transaction, `current` and
`toEmbed` a round of `sync`, both lost with their process. `Walk` and `WalkAll`
take the times of all files, `IndexFile` then reads one text after another, so
she may write in between; `IndexTorn` is a save between the two reads of
`index_file`, which gives the old text the new time. `commits` is what the
vectors' mtime tells. `Stat`, `Select` and `Replace` are the three moments of
`vectors`, for several threads and no lock.

### Access

`tool[w]` is an invocation of the command between its read of the file and its
`systemctl try-reload-or-restart`. A reload is a set, `{"copy", "signal"}`:
`RefreshOnReload` and the SIGHUP come in either order. `looks` are reads of the
copy, each with a beginning and an end: `on_hup` reads at once and then sets a
timer for a second read, and another signal or a timer may come in between. That
the copy has landed, and earlier reads are through, two seconds after a signal
is an assumption about time, made by the comment in `serve`: a guard of
`ReadCopy`. `stale` remembers that a reload or the last read of one has failed
since the service started. `meant` is what the file would hold had the commands run one after
another. `Decide` is `decide` for a caller with a bearer token, a cookie, or an
allowed address.

### View

Of each note there is what matters to the builder: absent, public, private or
in a folder that is only walked. A directory has no name, only the roles it has
for others (`as`): linked, made or found by the build under way, being loaded,
loaded. `Pruned` is `prune_notes_graph` and `NotesGraph` the choice among fresh
copy, previous view's and none; a community's name remembers the nodes it was
written from, which is how a leak would show. `Kill` comes anywhere in a build;
what it leaves is removed by a later one. The server's load is `Open`,
`ReadNotes` and `ReadGraphs`, each of which may find the directory gone.

### Links

A vault is a function from paths to the links written there. `Walked` is the
dictionary of notes by name, in which the one walked last wins. `Fixed` is a
whole run of the fixer on a vault that was scanned in one state and written to
in another: stubs where there is no file, and the report, with the links both
have. `Listed` and `Orphans` are the gardener's. Whether two titles are alike is
a constant relation; the fixer strips ".md" off a link, the gardener does not.
`IsFixQuestion` asks only that every folder with a note is walked. `FixerSettles`
is about a `Calm` vault: what she adds between scan and stubs has no links and is
no hub, the report has not been made a hub, and the home page, which every stub
links to, is one. Without it a run may leave work to the next.

## Runs

| run | question | size and bounds |
|---|---|---|
| `MCGate` (`Gate`) | limits, accounting, order, no starvation with hang-ups anywhere; `Gate` implements `Admission` | 4 requests, 2 models, 2 slots, exclusive: one more request than fits the slots and one more behind it, blocked by slots and blocked by model |
| `MCDecisions` | plan: order, reason, refusals; routing: nothing half-sure, fit workers, a true preview; links: nothing overwritten, a second run settles | all 64 routes of 4 models with every health, caller and length; Jev's answers on both sides of each threshold with every set of workers; vaults of two notes and three that may be there, scanned before and after additions, in two orders of the walk |
| `MCGateway` | gauges, limits, trust, failover, every call ends | 2 calls; two models of an exclusive target with 2 slots, and between them in the route a model of a target that lacks its key and one of a paid target with 1: the calls can exclude each other by model at the one and by slots at the other, and a failover returns to a gate it left |
| `MCJobs` | no worker twice, results kept, every job ends | 2 jobs for 1 slot, every set of connected workers, 2 crashes; no needs, which only narrow the choice of worker: a job is refused or waits for the other's slot, and the second crash hits the recovery from the first |
| `MCJobsSlots` | slots, logged once, true reports | 3 jobs, 2 slots, 1 worker, 2 crashes, 2 names for a report: one job is refused, two are recovered one after the other, and again, and a report may be filed twice under two names; jobs are alike and so are names (symmetry) |
| `MCInbox` | captures are kept, one outcome, the inbox gets empty | 2 names, 2 inodes, 1 save each, 2 failures |
| `MCTalkLog` | nothing lost, order, what is durable stays | 4 entries, 2 crashes or failed spool writes, 1 failed read |
| `MCView` | nothing private shown, always a view, a load lacks nothing, what is served catches up | 2 notes that link and share a community, 1 change, 1 fault, any number of builds and loads: three views can exist at once, and a graph survives the one it was made for |
| `MCAccess` | a sound file; in the end exactly the holders of its tokens get in, unless a reload or the last read of one has failed since the service started | 3 tokens, two of one name and one scoped; 3 invocations, 2 at a time, 2 failures or deaths of the service |
| `MCSearch` | the copy is never older than its label says, what is wanted is found | 2 notes, 3 edits, 2 threads, 1 failure: a note can change again while its old text is embedded, and two threads can replace the copy in the wrong order |

The two others end in a counterexample on purpose: each states what the
repository says of itself, and TLC shows a behaviour of the code that
contradicts it (`PROJECT.json`, "findings").

| run | the repository says | the code does |
|---|---|---|
| `MCInboxFiled` | everything in the inbox is filed | a sweep killed after the claim leaves the capture in the archive |
| `MCViewEdges` | the last good graph is cut to today's notes | an edge stated by a note that has left the view stays, when it was carried over |

Bounds of the models (`MaxQueue`, `MaxCrashes`, `MaxEdits`, `MaxTrouble`,
`MaxUnreadable`, `MaxCommands`, `MaxChanges`, `MaxFaults`) limit the environment,
never the code. `MaxQueue` is as large as the number of requests, plus none for
entries of callers that left: with the deque full, a newcomer waits, and
everything else goes on. Where a run may deadlock (`CHECK_DEADLOCK FALSE`) the
environment has used up its bounds and nothing is left to do.

### Known limits of the code

Behaviour met while modelling that the properties have as a premise, or do not
rule out, and that a reader of the code should know:

* `delegate` gives a task to a connected worker that does not fit it when none
  fits (`bridge.py:418`, "or able"), although line 163 says "never". `WorkerFits`
  is about the choice when one fits.
* A request whose answer from the bridge is lost is put back and asked again
  (`inbox.py:471`), although line 407 says a retry never runs a task twice.
  `OneOutcome` grants one more outcome for each lost answer.
* A spool that cannot be read is taken for an empty one (`bridge.py:1254`), and
  the next write removes it. `InOrder` and `DurableStays` suppose it is readable.
* A note saved between the two reads of `index_file` has its old text under its
  new time. Torn in a round of the indexer it is read again in the next; torn in
  the walk over all notes at its start (`full_reindex`) it is not, for the new
  time counts as seen; and if the embedder came first, the old vector stays until
  the note changes. A note that cannot be read in a round is not read again
  before it changes or the indexer starts. `FoundInTheEnd` leaves all these notes
  (`missed`) out. What it says would fail too, outside the model, with two edits
  within one second, which its times do not tell apart.
* Overlapping invocations of the token command may undo each other, a
  revocation too (`auth.py:346`). `FileIsSound` promises `file = meant` only
  while they do not overlap.
* Nothing waits for the copy of the token file to land: were it later than the
  second read, two seconds after the signal, a revoked token would stay good until
  the next reload. `HoldersGetIn` is under the assumption that it is not. Nor does
  the service try again when its last read fails: that is the property's premise.
* A job that is handed over is done from the start by the next worker, also when
  the first had changed files before it was judged to have failed
  (`docs/muninn-agentic-os.md:103`). `NeverRepeats` says that no worker is started
  twice.
* A load overtaken by two builds may serve a view without its notes; the next
  load mends it. `SnapshotIsWhole` and `ServedCatchesUp` say so.
* A job can end unlogged: a crash after the final save, or a thread that never
  started (`bridge.py:1068`). `LoggedOnce` is about at most once.

## Fairness

* *Gate, Gateway.* The event loop runs ready tasks; an upstream answers, fails or
  stalls into the session's `sock_read=900` (`gateway.py:288`). Weak fairness for
  each task's own steps. Arrivals and hang-ups are not fair.
* *Jobs.* Threads run; workers have 1500 s (`subprocess.run(timeout=1500)`); the
  unit is restarted (`Restart` in `brain.nix`), and crashes are bounded. A worker
  may decline for ever only as often as there are workers, for `tried` grows.
* *Inbox.* The path unit and the poll start a sweep while there are captures, and
  all its calls have timeouts. Failures are bounded, she stops editing in the end.
* *Search.* Indexer and embedder go round every minute: weak fairness. `Abort`
  ends a round of the embedder at any time and is not bounded, so each note needs
  strong fairness for `Embed`: a server that is tried again and again answers
  again and again. The bridge is asked: weak fairness for each thread.
* *View.* A timer starts a build every 15 minutes whatever became of the last;
  the server is asked now and then. Weak fairness of both. A server that is
  overtaken by two builds in every single load would never catch up;
  `ServedCatchesUp` has that as its premise, and a load takes seconds.
* *Access.* What has begun goes on, and the service is started again
  (`Restart`). Nothing is assumed about the order of copy and signal.

`MCJobsSlots`, `MCTalkLog` and the two violations are runs of safety properties
and need none.

## Proofs

For any values of the constants, from each module's named assumption alone:

| module | theorem | property |
|---|---|---|
| `GateProofs` | `TypeCorrect`, `Invariance`, `NoSlotIsLeaked`, `SlotsAreRespected`, `OneModelRuns` | `TypeOK`, `Inv` and its parts |
| | `NoTurnIsLost`, `NobodyOvertakes` | `NoLostTurn`, `NoOvertaking` |
| | `GateIsAdmission` | `IsAdmission`: `Gate` implements `Admission` |
| `GatewayProofs` | `RequestsStaySound` | its inductive invariant |
| | `GaugesStayTrue`, `MoneyIsForTheTrusted`, `EveryCandidateIsTried`, `SuccessIsAnAnswer`, `OneAnswererOnly` | `GaugesAreTrue`, `PaidForTheTrusted`, `FailureIsLastResort`, `NoFalseSuccess`, `OneAnswerer` |
| | `EveryCandidateIsPlanned`, `ReasonsAreTrue` | `EachIsTried`, `ReasonIsTrue` |
| `JobsProofs` | `SlotsAreKept`, `WorkIsNeverRepeated`, `ReportsAreNeverFalse`, `JobsAreLoggedOnce`, `ResultsAreKept` | `SlotLimit`, `NeverRepeats`, `ReportsAreTrue`, `LoggedOnce`, `ResultKept` |
| | `CommandsStayCertain`, `ClaudeIsForSureCases`, `WorkersFit`, `PreviewsAreTrue` | `CommandsAreCertain`, `CostlyOnlyWhenSure`, `WorkerFits`, `PreviewTells` |
| `InboxProofs` | `HandStaysSound` | its inductive invariant |
| | `CapturesAreNeverLost`, `OriginalsAreKept`, `CapturesHaveOneOutcome` | `NoCaptureLost`, `OriginalKept`, `OneOutcome` |
| | `HerNotesStay`, `RunsSettle` | `NothingOverwritten`, `FixerSettles` |
| `TalkLogProofs` | `TheLogIsInOrder`, `DurableIsKept`, `TroubleStaysCheap` | `InOrder`, `DurableStays`, `TroubleCostsLittle` |
| `ViewProofs` | `NothingPrivateIsShown`, `ThereIsAlwaysAView`, `LoadsAreWhole` | `NothingPrivateShown`, `AlwaysAView`, `SnapshotIsWhole` |
| `AccessProofs` | `TheFileIsSound` | `FileIsSound` |
| `SearchProofs` | `TheCopyIsHonest` | `CopyIsHonest` |

The assumptions are what the code has by construction: there is a name in the
inbox, requests are finitely many, every model of the route has a target and the
route names none twice, a skill is not called "none", the report is not the home
page.

*Gate.* `OneModelAtATime` is not inductive: the next request is compared with
the model the gate *remembers*, so the invariant has to say that it is the model
of those inside (`ModelIsTheirs`). Nor is `NoSlotLeak` without `Queued`: the
count grows by the number of requests called, and this is the number of new
holders only if none is in the deque twice or already inside. The central lemmas
are about `Admit`, on any deque and any number of entries taken: who is called,
what the count becomes, that limits are kept (by induction along the deque,
stated as the property of each prefix), and that what is left at the front does
not fit. Each action is then an instance of them. The refinement needs one more
about the same operator: a run of `_admit` over the deque is one `LetIn` of the
abstract gate, whose `front` are those called (`AdmitIsLetIn`), nobody of whom
stood behind one that was not. Who stands before whom changes only there and
where somebody arrives or leaves, so each action is then an `Arrive`, `GiveUp`,
`Depart` or a stutter (`StepIsAdmission`).

*Gateway.* The place a call is at in its plan says whom it has asked
(`Placed`): the candidates before, and the one at that place once the gate let it
in. That is why a failure that is not retried comes from the last candidate. The
gauges are counted target by target (`WaitAt`, `RunAt`), since a step moves one
call between two places of one target. That a plan has nothing the caller may
not use (`PlanRouteIsUsable`), and for the decisions that it has everything else,
once, in order, rests on what `Those` returns (`ThosePicks`: an order-preserving
one-to-one map from its places to the route's), by induction along the route.

*Talk.* A decision comes from the rules, from her first word against Jev, or
from Jev (`DecideIs`), and each source says what its fields are. Then the four
properties are about single operators: what `Unusable` lets pass (commands), what
`Executor`, `Depth` and `Delegate` give to the costly worker, and which worker
`Delegate` finds (`DelegateFits`). For the preview, `AnswerDegrades` goes through
`answer` model by model: whatever fails, it ends with the one `answer_model`
names or with a cheaper one that stands in for it, or nobody is left. That a
command is never answered by Claude rests on the depth of its route (`DepthIs`).

*Inbox.* The invariant has two halves. `HandIsSound` follows the file that was
claimed: it is in the archive and in no name until it is put back. `OutcomesAreFew`
counts for each file the outcomes it has had and those a bridge that was given up
may still add: as long as the sweep may come to act on it again (`Open`), each of
these is paid for by an answer that was lost; the one that is not paid for closes
it. `OneOutcome` alone is not inductive, for it does not see what is still on its way.

*Links.* The scan finds the last of each name (`ScanFinds`). A note that is last
after the run and was there before was last before (`LastAmongFewer`), so what the
second scan sees of hers, the first one saw too; and stubs have names the first
scan had not (`StubsAreNew`), so no hub is hidden by one (`HubsStay`). Hence a
dead link that is left was dead before and is of a kind the fixer leaves alone.

*Jobs.* One invariant carries all five: what the thread of a job knows, stage by
stage, about the job's row (`BeforeFinish`, `AfterFinish`). A crash takes the
thread's knowledge and leaves `RowIsSound`; recovery must find in the row alone
what a thread would have known. Slots follow from the count of *running rows*,
which bounds the jobs alive because whoever is alive has one (`HasTheJob`).
`DelegateFinds` (no worker that was tried) and `PickAgentFinds` are lemmas about
`Routing`, used for `NeverRepeats`.

*TalkLog.* The order of the log is inductive only together with what is in hand:
while the lock is held, log and hand are what was said (`AllInOrder`), and the
spool holds nothing that is not in one of them (`SpoolIsCovered`), so clearing
or replacing it loses nothing. Lemmas about concatenation come first. What a
fault costs needs more than its count (`CostIsLow`): of what is in hand at most
one entry is not durable yet (`OneAtRisk`), and nothing stands twice in spool or
hand, so one fault repeats or loses no more than one.

*View.* A graph is `Sound` when each community's name was written from nodes it
still has. `PrunedIsSound` is the heart: cutting to any set of notes keeps that,
because a community that loses one node loses its name. Being a property of the
graph alone, it goes on through any number of views. `LinkIsKept` says what each
stage of a build has, so that a kill before or after the swap leaves a link to a
directory that is done and that no removal picks. For a load (`LoadIsSafe`), the
directory is the linked one until the link moves, then the one before it, which
a build that clears up keeps; so it is there until the link moves again.

*Access.* The command looks for the name in what it has *read*, so the invariant
keeps what each invocation has read sound by itself (`ToolIsSound`), whatever
has become of the file since. While none has overlapped, it also is the file
(`Alone`).

*Search.* A thread that has the age of now has the vectors of now
(`ThreadIsHonest`): it took the age *before* it read, and a commit raises the age.

## Only model-checked

Liveness (`NoStarvation`, `EveryCallEnds`, `EveryJobEnds`, `EveryCaptureLeaves`,
`FoundInTheEnd`, `ServedCatchesUp`, `HoldersGetIn`) stays with TLC: the prover
does not reason about fairness. `IsAdmission` is safety only, since `Admission`
states no fairness. That the sets `MCDecisions` draws its inputs from are questions of
the kind the theorems are about is an assumption TLC evaluates (`Samples`).

## Not modelled

* Wording, placement and formatting of notes, reports and metrics; the models'
  and Jev's answers beyond the outcomes the code branches on; token accounting;
  retrieval's ranking and speech, which keep no state.
* Usage and statistics: display data, each file written by one host.
* The capture endpoint, which writes one file; the dashboard API and the request
  gate of `muninn-ro`, which only read (and count, for the rate limit).
* What `classify` and masking look for in a text: here a note is private or not.
* The gardener's stale notes and suggestions, unlinked mentions and the graph
  builder: single passes that overwrite their own output.
* The poll's and path units' own rules, taken as fairness of the sweep.
* SQLite errors, a partly written note (`write_new`), a disk that loses what it
  has acknowledged.
* Nix configuration and vendored programs, which have no transitions of their own.

## Plan

1. *Done:* `Gate`, `Admission`; `RoutePlan`, `Routing`, `Links`; `Gateway`;
   `Jobs`; `TalkLog`; `Inbox`; `Search`; `Access`; `View`; proofs of all their
   safety properties.
2. An abstract specification of a job (asked, ended once, told once) that `Jobs`
   implements, and one of a capture that `Inbox` implements.
3. `Jobs` with saves that fail, `Inbox` with notes written in part.
4. `Poll`: the units that start a sweep, composed with `Inbox`, instead of its
   fairness assumption.
