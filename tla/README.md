# EvalSmith in TLA+

EvalSmith evaluates applications built on language models: it collects their
traces, turns traces into dataset examples, versions datasets and prompts, and
runs experiments that score a target on a dataset. This directory holds TLA+
models of the parts of it where order, interleaving and failure matter, the TLC
configurations that check them on small instances, and TLAPS proofs of the
properties that hold for every value of the constants.

    tlc -workers 2 -config MCExperimentJobsQueue.cfg MCExperimentJobs
    tlapm ExperimentJobsProofs.tla

`PROJECT.json` lists components, runs, mutants, hazards, theorems, findings and,
definition by definition, the source lines a definition stands for.

## 1. The system

A React application talks through an nginx gateway to Go services (auth,
dataset, annotation, trace) and Python services (evaluation engine, monitor).
Workers take what the services leave in PostgreSQL (eval-worker,
monitor-worker) or Kafka (trace-consumer). Rows are in PostgreSQL, traces in
ClickHouse, their payloads in MinIO. No component holds a lock across
statements except the prompt repository and `claim_next_job`; Go handlers
run one autocommitted statement after another.

| Component | State | Operations | Talks to | Hard behaviour |
|---|---|---|---|---|
| Experiment job queue, runner, worker (`eval-engine`, `eval-worker`) | experiments, experiment_jobs, experiment_results, experiment_baselines | create, enqueue, claim, run examples in parallel, save result, complete, fail and retry, cancel, delete, set baseline | dataset service, target, evaluators | workers race for a job; tasks outlive their attempt; cancellation against completion; a worker dies; a statement fails half-way |
| Prompt repository (`prompt_repo.py`) | prompts, prompt_versions, prompt_releases, snapshots in experiments | create, update, new version, rollback, release, resolve a binding | experiments | numbering under a row lock; releases move the current version; an experiment pins what others change |
| Dataset service | datasets, dataset_versions, dataset_version_snapshots, examples | create, add, import, update, delete example, rollback, delete dataset, diff | experiments, trace and monitor backfills | five statements per handler, no transaction; failures between them; snapshots read late |
| Trace service | feedback actions, local store file, Kafka producer | ingest, list, backfill to dataset or annotation, retry an action | dataset and annotation service, Kafka | a batch half produced and sent again; an action posted, not recorded |
| Trace consumer | Kafka offsets, MinIO, ClickHouse | process a message | Kafka | at-least-once delivery; three stores, no transaction; errors logged and committed |
| Monitor service and worker | monitor rules, runs, alerts | process a rule, run by hand, backfill, alert | trace and dataset service | the cursor passes traces nobody looked at; worker and manual run at once |
| Auth service | users, projects, members, models, keys | register, log in, members, roles, models, default judge | everything | lazy migration raced by two requests; a project without an owner |
| Annotation service | queues, tasks | create, claim, submit | trace service | two annotators claim or submit one task |
| Console (`web`) | store and cookie of a tab; per page: what was loaded, busy flags, dialogs, timers | sign in and out, choose a project, search, edit through dialogs, poll, compare, clone | every service | answers overtake each other and outlive their page; timers and effects keep values of an earlier rendering; flags shared by several requests |
| TypeScript SDK | polls of `evaluate` | start an experiment, poll it, time out | evaluation engine | the experiment ends, or does not |
| Not core | - | other SDKs, gateway, deployment, scripts, migrations, docs, demo | - | - |

What makes each of them correct:

* **Queue**: one run per experiment at a time; a claimable job has an attempt
  left; every queued job ends, and only a crash leaves one running that nobody
  works on; a cancellation is final; the experiment shows how its job ended; a
  summary covers what was written.
* **Prompts**: versions 1, 2, 3, ... without gaps or collisions, never
  rewritten; an experiment's snapshot says what its version says.
* **Datasets**: a version belongs to one request, and only a failure of that
  request loses it; its snapshot, once saved, is final and is the history; the
  latest snapshot is what the dataset holds; a rollback restores; a diff leads from one version to
  the other.
* **Traces**: a trace that was accepted is in the log, what is committed was
  stored or reported, a row has what it refers to; a retry does not post twice.
* **Monitor**: every matching trace is judged once, and gets its alert and
  backfill.
* **Projects and models**: a project has an owner; at most one default judge.
* **Annotation**: a task is worked on by one annotator and its answer is kept.
* **Console**: the user shown is the one whose cookie is sent; a page that is
  left alone ends up showing what the server has; no late answer overwrites what
  is newer; what was typed is searched for; controls are enabled again.

## 2. The modules

| Module | What it is |
|---|---|
| `JobLifecycle` | what the queue promises of one job: the abstract specification |
| `ExperimentJobs` | queue, runner, worker and API handlers, statement by statement |
| `ExperimentJobsProofs` | its theorems, the refinement included |
| `DatasetVersions` | the dataset service, statement by statement |
| `DatasetVersionsProofs` | its theorems |
| `PromptVersions` | the prompt repository, transaction by transaction |
| `PromptVersionsProofs` | its theorems |
| `TraceIngest` | producing traces and the trace consumer, call by call |
| `TraceIngestProofs` | its theorems |
| `AsyncResource` | `useAsyncResource`: loads in flight and what a page shows |
| `ConsoleSession` | sign-in, cookie and store of a tab |
| `SettingsPage` | members, keys, models and projects |
| `ListPages` | search box, filters and pages of every list |
| `ExperimentPages` | list and detail of experiments, the baseline tab, `evaluate` of the TypeScript SDK |
| `NewExperimentPage` | the form that starts an experiment |
| `EvaluatorDialogs` | versions, regressions and test of an evaluator |
| `EvaluatorForm` | the form that creates or clones an evaluator |
| `DialogPages` | dataset, prompt(s), trace(s) and monitor rules with their dialogs |
| `ConsoleSessionProofs`, `ConsolePagesProofs`, `ExperimentPagesProofs`, `EvaluatorPagesProofs` | theorems about the eight modules from `ConsoleSession` to `DialogPages`: `ConsolePagesProofs` those of `ListPages`, `SettingsPage` and `DialogPages` |
| `MC...` | constants for TLC; `MCConsole` composes the pages of the console |

### ExperimentJobs

One action is one autocommitted statement, because that is what another process
can come between; `claim_next_job` is one transaction and one action
(`ClaimNextJob`, `ClaimCanceledJob`). A *run* `<<e, a>>` is the execution of
`ExperimentRunner.run` and of the rest of `run_once` for attempt `a` of
experiment `e`; `runPc` names the statement it executes next, `runWorker` the
process it lives in. A *task* is `process_example` for one example; `task` names
where it is, `waiting` being the semaphore's queue.

| Variable | Code |
|---|---|
| `expStatus`, `summary` | row of `experiments` |
| `jobStatus`, `attempts` | row of `experiment_jobs` |
| `results` | rows of `experiment_results` (upsert per example: scored or error) |
| `baseline` | row of `experiment_baselines` of the dataset |
| `creating`, `canceling`, `baselining` | API handlers between their two statements |
| `runPc`, `runWorker`, `task` | workers and their tasks, lost in a crash |

Three things of the code carry most of the behaviour. `asyncio.gather` returns
at the first exception and does not cancel the other tasks: these go on, with
their `save_result`, while the worker calls `fail_job` and claims again. `run`
catches `ExperimentCanceled` itself, so the worker takes a canceled run for a
completed one (`SetCanceled` is followed by `CompleteSelect`). `fail_job` and
`complete_job` are a SELECT and two UPDATEs, each of them autocommitted.

`RunFault` and `TaskFault` make any statement raise (the worker answers with
`fail_job`, the task with an error row or with the end of the gather), `Crash`
kills a process with its run and its tasks, `HandlerDies` kills the API process
between two statements. A statement of `fail_job` that raises ends the worker
and so is a crash.

The data is abstract: a result is scored or an error, a summary is the set of
examples it covers, and a target or an evaluator may answer or raise.

`JobLifecycle` says what remains when statements, tasks and rows are forgotten:
a job that is handed out is handed out to one worker, at most once per attempt,
and leaves the queue completed, failed, canceled or deleted. The refinement maps `status` to `jobStatus` and `active` to the
experiments that have a run still working on the job; the last UPDATE of
`fail_job`, which comes after the job was given back, is not work on the job.

### DatasetVersions

One dataset and several handlers. Each handler is a sequence of the statements
of the code (`Following` gives the order by kind of request), one action each:
draw the version (`BumpVersion`), insert the version row, write the examples,
adjust the count, list the active examples, save the snapshot. `Fail` ends a
handler at any statement; `DeleteDataset` runs next to the others.
`ReplaceActiveSet` of a rollback is the one transaction of several statements. It
reads committed data, so statements of other handlers come between its two
(`ArchiveOthers`, `ReplaceActiveSet`): what `archiving` holds is not visible until
the commit, and undone by a failure. An example
has an id, inputs and outputs; inputs and outputs come from two sets, and one
value stands for outputs the service refuses. Imports compare inputs only, as
`filterImportExamples` does.

### PromptVersions

The handlers take the row lock (`LockPrompt`), do their statements and commit.
As they hold the lock from SELECT ... FOR UPDATE to commit, statements in
between are one action each of the three that number or release; `get_prompt_snapshot`
reads without a lock, and an experiment is stored by a later statement
(`ResolvePromptBinding`, `CreateExperiment`).

### TraceIngest

One action is one call to Kafka, MinIO or ClickHouse. A handler of `BatchIngest`
produces the messages of its request one by one (`Produce`); a call that fails
(`ProduceFails`, `ProcessFails`, `CommitFails`) may have taken effect, which is
how the internal retries of the Kafka writer and of exporters duplicate
messages. The consumer's `pc` is its place in the loop of `main` and in
`Process`: fetch, put the payload, insert the trace, insert the spans, commit.
An error is logged (`logged`) and the message committed. `Restart` is a new
process, `Rejoin` the reader's return to the committed offsets in the middle of
a message. Rows and payloads carry nothing but the message they were made from;
the rows of a message are counted, since both tables are plain `MergeTree`s and keep
duplicates. Kafka's log, offsets and reader are external and modelled by what
the two services use of them.

| Variable | Code |
|---|---|
| `sent`, `left` | the request of a handler and what is left of its loop |
| `accepted` | requests answered with 200 |
| `topic`, `committed`, `position` | log, committed offset and reader offset of each partition |
| `pc`, `current` | the consumer's place and the message in hand |
| `payload`, `traceRows`, `spanRows` | MinIO object, rows of `traces` and `spans` |
| `logged` | messages whose error is in the log |

### The console

A tab runs one thread, so an action is one event handled to its end, the
effects React runs after it included where no other event can tell: a click or a
keystroke, a timer, the server reading a request, or its answer arriving. In two
places the steps in between matter and are actions of their own. The answer to a
sign-in or a sign-out sets the cookie when its headers arrive (`HeadersArrive`),
and changes the store when the code that awaits its body goes on
(`AnswerHandled`). The baseline tab changes its state, is rendered (`RenderTab`), and
runs the effect of that rendering later (`AutoCompare`, while `due`); a click in
between finds what the last rendering shows (`HandleCompare`), and what is due
runs before the click is rendered. Nothing aborts a request: an answer
arrives in any order with others, after its dialog was closed or its
page left, and the code that awaits it still runs. `AsyncResource` is the one
hook every page loads with; it does not number its loads, so the last to arrive
is what the page shows (`Applied`), and the properties are about what pages do in spite
of that.

| Module | Variable | Code |
|---|---|---|
| `ConsoleSession` | `user`, `listed`, `current`, `role`, `initialized` | `useAppStore` |
| | `cookie`, `remembered` | the browser's cookie and local storage |
| | `inFlight` | requests, and how far each has come: sent, refused, served, headers in |
| | `owner`, `alive`, `joined` | sessions and memberships on the server |
| | `inTurn` | history: no two answers that set the cookie have overlapped |
| `SettingsPage` | `settings`, `busy`, `posts` | the resource, one `...Id` or `...Loading` state per kind of row, changes in flight |
| `ListPages` | `address`, `box`, `timer` | search parameters, `searchInput`, the debounce with the closure it holds |
| `ExperimentPages` | `shown`, `polling`, `asked` | the resource, the 2.5 s timer, handlers in flight |
| | `tab`, `compare`, `rendered`, `due` | `BaselineCompareTab`: its state, what the last rendering shows, whether that rendering's effect still has to compare |
| `NewExperimentPage` | `offered`, `config`, `dataset`, `version`, `split`, `prompt` | resources and choices of the form |
| `EvaluatorDialogs` | `modal`, `entries`, `selected`, `diff`, `draft`, `saved` | state of the version dialog, drafts in local storage |
| `EvaluatorForm` | `judge`, `text`, `models`, `project` | what the form is filled with, where its text is from |
| `DialogPages` | `items`, `flag`, `popup`, `saves` | resource, `submitting` and its like, open dialog, changes in flight |

`DialogPages` is one machine for six pages because they are written alike: its
first part lists, page by page, the busy flags, the handlers with the flag each
sets, the dialog each closes and whether it loads again, and the dialogs with
the handler each confirms; the rest is what such a page does. The server in
these modules is no more than what the console reads of it; the services
have modules of their own. `ExperimentPages` takes from `ExperimentJobs` which status
can follow which: `WorkerMoves` is a run that goes on and ends, `StatusRewritten`
what else happens with one worker whose statements do not raise (`Rewrites`:
canceled by somebody else, queued again, begun although canceled, completed after it was
canceled).

`MCConsole` puts the pages together: a tab shows one route, and pages share
nothing but the server, so what belongs to the other routes stays as it is.

## 3. What is checked

| Run | Properties | Instance | Shows |
|---|---|---|---|
| Queue | TypeOK, PendingJobIsFree, OneRunPerJob, StrandedOnlyByCrash, SummaryCoversResults, ImplementsLifecycle | 1 experiment, 2 workers, 2 examples in parallel, 2 attempts, 1 crash, 1 failing statement (1.1 million states) | safety of the queue under every interleaving |
| Serial | FinalStatusAgrees, ExperimentSettles | 2 experiments, 1 worker, 1 example, `Concurrency` 1, 2 attempts, nothing that raises, fair (161 000 states) | what a deployment with one worker and a stable database may rely on |
| Live | JobSettles | 2 workers, 1 failing statement, fair | every queued job ends |
| Cancel | CanceledIsFinal: **violated** | 1 worker, 1 example | a canceled experiment becomes completed |
| Crash | JobSettles: **violated** | 2 workers, 1 crash, fair | the job of a dead worker runs for ever |
| DatasetConcurrent | TypeOK, VersionDrawnOnce, EachFailureLosesOneVersion, SnapshotIsFinal | 2 handlers of any kind, 3 versions, 2 failures (1.1 million states) | what holds without any lock |
| DatasetSerial | LatestIsActive, DiffIsExact, RollbackRestores, ImportAddsNewInputs | 1 handler, 2 examples, 2 inputs and 2 outputs, batches of 2, 5 versions (331 000 states) | history is right when requests do not overlap |
| DatasetHistory | SnapshotIsHistorical: **violated** | 2 additions | the snapshot of v holds examples of v + 1 |
| Prompts | TypeOK, NumberedWithoutGaps, ReadIsFresh, PinnedIsTheVersion, VersionIsFinal | 2 handlers, 3 versions, 2 contents (82 000 states) | numbering, locks and pins |
| PromptRelease | NextVersionIsFree: **violated** | the same | after releasing version 1 of 2, no version can be added |
| Ingest | TypeOK, AcceptedIsProduced, CommittedIsHandled, PayloadCoversSpans, TraceRowsAreBacked, SpansHaveTrace, MessageSettles | 1 client, 2 traces (one without spans), requests of 2, 3 messages in one partition, 2 failing calls, 1 restart, fair (296 000 states) | at-least-once ingestion into three stores |
| Console | StoreAgrees, SettledSettings, FilterSurvivesSearch, ComparisonsHaveACause, VersionIsOffered, DiffMatchesSelection, SavesTakeTurns, EditsSurviveClone, SearchIsCommitted, OutcomeShown | one route at a time; 2 users, projects, sessions and calls; 2 workspaces; 2 experiments, datasets, evaluators; 6 dialog pages with 2 rows; fair (1.3 million states) | what the console shows is right in every order of clicks, answers, failures and timers |

Every property of a passing run has a mutant, a plausible bug of the code next
to the definition it changes, that makes TLC find the property violated.

**Bounds.** `MaxAttempts` = 2 has a first attempt, a retry and the last failure;
the default of the table is 3, which adds another retry like the first. Two
examples with `Concurrency` 2 let one task raise while the other goes on
writing; with `Concurrency` 1 the second waits for the semaphore. Two workers
are two runs at once; there cannot be more of one experiment that matter, as
each needs an attempt. `MaxCrashes` and `MaxFaults` bound what breaks, not
where: one is enough to leave any handler half done, and the proofs cover
any number. `MaxFailures` = 2 lets both handlers fail, or one fail after the other
has. `MaxVersion` stops the dataset at 3 to 5 and the prompt at 3
versions: two concurrent handlers after an initial version, or additions, a deletion and a
rollback of both in sequence. `MaxBatch` is the number of examples of one request. `MaxLog` is 3
because skipping a message takes one to skip and one to commit behind it, and a
request that is sent again takes a third; more partitions are only more logs, and the
proofs cover any number. Symmetry
of workers, clients, examples and contents is used in safety runs only.

In the console two requests of a kind in flight (`Calls`, `MaxLoads`, `MaxItemLoads`,
`MaxListed`, `MaxConfigs`, `MaxCalls`, `MaxClones`,
`MaxModelLoads`, `MaxSaves`) are what it takes for one to overtake another, and two
values of each choice what it takes for the answer to be the wrong one.
`MaxChanges` and `MaxPosts` = 1 leave one change of the settings in flight with two
loads; more only repeat it. `ModelButtons` keeps one of
three buttons, which differ in the name of their slot and in nothing else.
`MaxShownLoads` = 1 bounds the loads after which the user asks for another; the poll
is not bounded by it and gives a second load in flight, which the first may overtake.
`MaxPresses` = 1 is one click on the button of the tab, which with the effect's own
comparison makes two in flight; `MaxRewrites` = 1 is one status out of turn.
`Sessions` numbers the sessions the server issues: two are an old one and a new one,
or those of two sign-ins in flight at once. `NewProjects` are the projects the tab can create.
`MaxTyped` = 2 types a second text while the first waits. `MaxPolls` shortens the
120 polls of `evaluate` to 2, `MaxLeft` counts creations whose form was left.
The proofs do not depend on any of them.

**Deadlock** is checked for prompts. Elsewhere it is off: a queue whose experiments are all
deleted, a dataset at its `MaxVersion`, a page whose bounds are used up, or a consumer that has read a full log
rightly has nothing to do.

**Fairness** (`FairSpec`) is weak and belongs to the code: `main` of the worker
polls for ever, a run and its tasks go on because every call they make has a timeout, and
a handler that has inserted an experiment comes to its second statement.
The consumer reads for ever, and its calls return.
In the console (`ConsoleFairness`) timers fire, the server answers or the call
fails, answers are handled, and the worker goes on with the experiments shown:
`OutcomeShown` says what the page makes of an outcome there is, and the Crash run shows
that after a crash there may be none.
Nothing makes a user request, cancel or delete, or a statement fail.

**Configurations that matter.** `FinalStatusAgrees` and `ExperimentSettles` need one worker and a database whose statements do not
raise. With two workers the last UPDATE of `fail_job` of one attempt may come
after the next attempt has finished, and an experiment whose job is done shows
`pending`; that experiment may have become the baseline in between, as
`set_baseline` tests the status in an earlier statement (`experiments.py:416`). No
property speaks about these two cases, and the Serial run cannot reach them.
`StoreAgrees` compares user and cookie while the answers of sign-ins and
sign-outs take turns, each handled before the headers of the next arrive (`inTurn`). When two
sign-ins are in flight at once, which takes a form left for the other one, both
headers can be in before the code of either runs: the cookie is then the one that came last
and the user the one handled last, and the two may differ until the tab is reloaded.
Likewise the cookie is gone, or another's, from the moment the headers of one such
answer are in to the moment its code runs (`Answering`). Without
these two exemptions TLC finds both.
`ComparisonsHaveACause` bounds comparisons by clicks: between a failure and the effect of its
rendering the button is on the screen, and a click there does start a second comparison
next to the effect's (`ExperimentDetailPage.tsx:537`, `568`). The first answer then ends
`compareLoading` for both, so the property does not say that a tab with
a comparison in flight shows that it loads; the code does not.
Two imports at once both find the same row missing and both add it
(`import.go:57`), so `ImportAddsNewInputs` is a property of requests that do not
overlap, like the rest of DatasetSerial. `PayloadCoversSpans` needs clients that
send a trace whole, as the SDKs do: the payload of a trace sent in parts (`POST /spans`, OTLP)
is the part that was processed last, and as the producer's balancer ignores
the trace id that need not be the part sent last. The deployment files start one replica, so both cases are worth
stating; `JobSettles` and all of Queue hold with several workers.

## 4. What is proved

The proofs assume only the named ASSUME of each module, which says what kind of
value its constants have: sets of any size, any positive number of attempts,
calls and versions, any number of crashes and faults. Every invariant and every
action property a passing run checks is a theorem. Five of them are false in
general, and their theorems state the hypothesis they need
(see *Configurations that matter* above for what happens without it):

| Hypothesis | Says | Theorems |
|---|---|---|
| `OneWorkerNoFaults` | one worker, no crash, no statement that raises | `StatusAgreesInTheEnd` |
| `OneAtATime` | one handler, no statement that fails | `LatestVersionIsActive`, `RollbacksRestore` |
| `Alone` | one handler, any failures | `ImportsAddNewInputs` |
| `WholeTraces` | clients send a trace in one piece | `RowsHavePayload` |

* **ExperimentJobs**: `TypeCorrect`, `PendingIsFree`, `OneRunAtATime`,
  `OnlyCrashesStrandJobs`, `SummaryIsBacked`, `QueueImplementsLifecycle`.
  `OneRunPerJob` is not inductive: a run that fails requeues the job, and one
  must know that the job is not already claimable and that the run
  is of the latest attempt. `QueueInv` adds
  what the statuses of the job say about runs (a pending or finished job has
  no working run where the claim needs it, attempts not made have no run).
  `StrandInv` adds, for `StrandedOnlyByCrash`, that a run about to make the last UPDATE of
  `complete_job` has left its job completed, unless the job was deleted: when that run
  ends, or that UPDATE raises, no running job is left behind. `ResultInv` adds, for `SummaryCoversResults`, that a task that is done has
  its row unless the experiment is deleted. The step simulation of
  `JobLifecycle` takes one lemma per action, and rests on `QueueInv`.
  `StatusAgreesInTheEnd` comes from `SerialInv`: an experiment has
  at most one live run, the statuses of job and experiment are those that
  the statement the run executes next expects (`Fits`) and agree while there is none
  (`Agree`).
* **DatasetVersions**: `VersionsAreDrawnOnce`, `SnapshotsAreFinal`, `FailuresLoseOneVersionEach`. `HistoryInv`
  says that a version a handler holds has been drawn and is not beyond
  `current_version`, that no two handlers hold the same, and that a handler that has
  not come to its last statement has no snapshot; the atomic
  `UPDATE ... RETURNING` is what makes it inductive. For
  `FailuresLoseOneVersionEach` every statement but a failure leaves the set of lost
  versions (`LostVersions`) as it is or smaller, and a failure adds at most the version its handler holds.
  `DatasetIsTyped` and `DiffsAreExact` need `RowsInv` as well: rows of a table, a snapshot or a
  handler's list have different ids, active and archived ids are disjoint, and the
  rows a handler is about to insert have ids no table has yet, nor another handler. `DiffsAreExact` is then
  algebra of two sets of rows in which an id names one row.
  For `LatestVersionIsActive` and `RollbacksRestore`, `LatestInv` says for every
  statement of the only handler what it still has to do to table, count and
  snapshot, and `RollbackInv` that what it holds is the snapshot asked for. For
  `ImportsAddNewInputs`, `ImportInv` says that the inputs it is about to insert
  differ from each other and from all active ones; a failure only ends the handler, so that any number may happen.
* **PromptVersions**: `PromptTypes`, `NoGaps`, `LockIsExclusive`,
  `PinsAreFaithful`, `VersionsAreFinal`. `PromptInv` relates the handler that
  holds the lock to the row it has read, and the snapshots that handlers and
  experiments hold to the version's row.
* **TraceIngest**: `IngestTypes`, `AcceptedTracesAreInTheLog`, `NothingIsSkipped`,
  `NoOrphanSpans`, `RowsHavePayload` (the last assumes `WholeTraces`). `ServiceInv` says that what
  a handler has not left to produce is in the log. `ConsumerInv` says that
  every message the reader has passed is handled but for the one in hand, and
  that the one in hand is as far as `pc` says; it needs that nothing a step
  does, in Kafka or in the stores, undoes the handling of a message
  (`HandledForEver`). `RowsInv` adds the order of the three writes.
  `DuplicatesNeedRestarts` counts (`RowsPerPass`): the rows of a trace, with the one in
  hand, are no more than one for each copy up to the reader's position, and one for each
  copy and restart before.

* **ConsoleSession**: `SessionTypeCorrect`, `StoreAgreesCorrect`. Cookie and store
  change in two steps with other answers in between. The invariant `SessionIInv` says that
  while answers take turns at most one of them has set the cookie without its code having
  run, and that the cookie is still the one it brought (`OneAtATime`), whose
  owner is the user it names (`RequestsFit`); handling it makes the two
  agree again. Answers out of turn end that for good (`inTurn`), until a reload. While the tab does
  not know who is signed in, its first request is the only one in flight, was sent with
  the cookie the browser still has and names its owner (`FirstCall`), and a session the server
  accepts has an owner (`AliveOwned`). Project and role need none of this: they agree
  in every order of answers.
* **EvaluatorDialogs**: `DiffMatchesCorrect`, `DraftsStayApartCorrect`. The
  invariant says that the call the effect waits for (`live`) asks the question the dialog
  shows, and that no other call in flight has its number.
* **EvaluatorForm**: `EditsSurviveCloneCorrect`. Only the call of the effect's
  last run may fill the form, and there is none once the source was applied.
* **ExperimentPages**: `ComparisonsHaveACauseCorrect`. The bound alone is not inductive: a
  comparison that the effect still owes, as its rendering is due to run it or the next
  rendering will be (`Owed`), counts like one in flight (`Bounded`). Nothing is owed, or in
  flight, before the baseline is loaded (`NothingYet`).
* **NewExperimentPage** (in `ExperimentPagesProofs`): `VersionIsOfferedCorrect`.
  What is chosen is among what was loaded last, *for whatever dataset it was loaded*
  (`NewFormInv`): that does survive a change of dataset before its versions
  arrive, and gives the property as soon as the two agree. It rests on lemmas about
  `AsyncResource`: loads keep what is shown, an answer that is applied is shown.
* **ListPages** (this and the next two in `ConsolePagesProofs`): `FilterSurvivesCorrect`. The timer that runs holds the address
  of the last rendering (`TimerIsFresh`), so committing it changes the search and the page only.
* **SettingsPage**: `SettingsSettle`. `BusyIsSupported` says that a flag that is on has a
  change or a load in flight that resets it; `StepInv` that as long as no load was
  overtaken and no answer lost there is at most one load, for the current project, and
  that what it brings, or what is shown, is the server's last revision.
* **DialogPages**: `FormsTakeTurns`. `Turn` says of a form's flag that it is off and
  nobody is underway, or on for exactly one change, or on for exactly one load; it rests
  on lemmas about the bag of changes in flight (what adding and removing one does to the sum).

Each invariant was checked with TLC before it was proved.

**Only model-checked**: the liveness properties `JobSettles`, `ExperimentSettles`,
`MessageSettles`, `SearchIsCommitted` and `OutcomeShown`, as fairness and ENABLED are
beyond the prover. The four properties of the violation runs are false, and stay with TLC too.

## 5. What the runs found

1. A canceled experiment is recorded as completed (`runner.py:486`): `run`
   swallows the exception `run_once` has a handler for; `cancel_job` is never called.
2. The job of a worker that died stays `running`: `claim_next_job` selects
   pending and cancel-requested jobs only (`experiment_repo.py:323`).
3. A dataset snapshot can contain examples of a later version
   (`dataset.go:444`).
4. After a release of an earlier prompt version, creating a version and rolling
   back both try to insert a number that is taken (`prompt_repo.py:359`).

## 6. Plan

Done: ExperimentJobs with JobLifecycle, DatasetVersions, PromptVersions,
TraceIngest and the console, each with its first theorems. Next, in this order:

1. `TraceActions`: backfill and retry of feedback actions, the posts to
   dataset and annotation service, crashes between post and record.
2. An abstract specification of ingestion (accepted traces, each stored at least
   once or reported) that `TraceIngest` implements, and two consumers in one group.
3. `MonitorRules`: candidate window, cursor, runs, alerts, backfills, manual
   runs.
4. `ProjectModels` and `ProjectMembers`: default judge, lazy migration, roles.
5. `AnnotationTasks` and `LocalTraceStore`.
6. Compositions: `DatasetPaging` (the runner's `_fetch_dataset` while the
   dataset is edited), `DatasetUse` (deleting a dataset experiments refer to).
7. Pure algorithms: the experiment summary, `compare_experiments`, paging.
8. `FormPages`: the annotation task and the new dataset.
9. Proofs: the invariants of the new modules, and the abstract ingestion of item 2.

## 7. What is not modelled

* **Services**: the feedback actions and the local store of the trace service
  and the monitor, auth and annotation services are in the plan above. Of
  ingestion, the conversion of OTLP and the contents of rows (aggregates,
  previews) are left out. Kafka's log is taken for durable: the
  writer waits for the leader only (`RequireOne`), so a broker that is lost with its
  log would take accepted traces with it. Of the other modelled services: texts
  (names, descriptions, labels), paging and filters of lists, parsing of uploaded
  files, scoring of one example, the numbers of a summary, authorization.
  Known there, and in no module: two first requests of a project both migrate
  its legacy models (`project_model.go:350`), role changes may leave a project without
  owner (`project.go:252`), a second claim of a task changes nothing and succeeds
  (`task.go:151`), the local store writes its file in place
  (`local_store.go:316`), and traces sent in parts keep one part's payload
  (`kafka.go:19`).
* **Console**: dashboard, trace statistics and the comparison page (they load and
  show; the last stores a baseline); the annotation task and the new
  dataset (planned); the playground of the evaluator form, the results of tests
  and regressions, the version diff of a dataset, the trace page's other resources;
  what forms contain; layout and charts. The user of `DialogPages` may manage everything:
  without the permission the same pages have fewer buttons. The create
  dialog of `DatasetListPage` is never opened (its buttons navigate to
  `/datasets/new`) and is left out.
* **The rest**: Go and Python SDKs, gateway, deployment and scripts hold no shared state of
  their own. Migrations are used as facts: keys, uniqueness, cascades.

Two things a reader of the console should know and no document contradicts. A
comparison that fails is begun again after the next rendering, for as long as it fails
(`ComparisonFails`, `AutoCompare`, `ExperimentDetailPage.tsx:537`). And the new evaluator's form
seeds its model from the models loaded at that moment: none when the form opens,
so that it settles on a custom model, and those of the previous project when the
project changes (`SeedFrom`, `NewEvaluatorPage.tsx:138`).
