--------------------------- MODULE ExperimentJobs ---------------------------
(***************************************************************************)
(* The experiment job queue of the evaluation engine: the API handlers     *)
(* that create, cancel, delete and baseline an experiment, the workers     *)
(* that claim its job, the runner that evaluates every example, and the    *)
(* statements they run on the experiments, experiment_jobs,                *)
(* experiment_results and experiment_baselines tables.                     *)
(*                                                                         *)
(* Every action is one autocommitted statement (claim_next_job is one      *)
(* transaction), because that is what other processes can come between.    *)
(* A run is one execution of ExperimentRunner.run with what its worker     *)
(* does after it; <<e, a>> names the run of attempt a of experiment e.     *)
(* process_example runs as one task per example: asyncio.gather does not   *)
(* stop the other tasks when one raises, so tasks outlive their run.       *)
(***************************************************************************)
EXTENDS Naturals, FiniteSets

CONSTANTS Experiments,  \* experiments of one project, all on one dataset
          Workers,      \* eval-worker processes
          Examples,     \* examples the dataset may hold
          NoWorker,     \* the worker of a run that never started
          MaxAttempts,  \* experiment_jobs.max_attempts
          Concurrency,  \* run_config.concurrency, the size of the semaphore
          MaxCrashes,   \* bound: how often a process dies
          MaxFaults     \* bound: how often a single statement raises

ASSUME ConstantsAssumption ==
    /\ NoWorker \notin Workers
    /\ MaxAttempts \in Nat \ {0}
    /\ Concurrency \in Nat \ {0}
    /\ MaxCrashes \in Nat
    /\ MaxFaults \in Nat

VARIABLES
    expStatus,     \* experiments.status; "none" before, "deleted" after its row
    jobStatus,     \* experiment_jobs.status; "none" when there is no row
    attempts,      \* experiment_jobs.attempts
    results,       \* experiment_results, by experiment and example
    summary,       \* {} or the one set of examples experiments.summary covers
    baseline,      \* {} or the one experiment experiment_baselines names
    creating,      \* POST /experiments between its two statements
    canceling,     \* POST /cancel between the two statements of request_cancel
    baselining,    \* POST /baseline between its check and its upsert
    runPc,         \* where each run is
    runWorker,     \* the worker that executes each run
    task,          \* where each task of each run is
    crashes,       \* processes that died so far
    faults         \* statements that raised so far

rows == <<expStatus, jobStatus, attempts, results, summary, baseline>>
handlers == <<creating, canceling, baselining>>
runs == <<runPc, runWorker, task>>
budget == <<crashes, faults>>
vars == <<rows, handlers, runs, budget>>

Attempts == 1..MaxAttempts

JobStatus == {"none", "pending", "running", "completed", "failed",
              "cancel_requested", "canceled"}
ExpStatus == JobStatus \cup {"deleted"}
ResultStatus == {"none", "scored", "error"}

\* What the worker executes next for a run, named for the statement.
ActivePc == {"setRunning", "setup", "gather", "setSummary", "setCompleted",
             "setCanceled", "completeSelect", "completeJob",
             "completeCanceledJob", "completeExp", "failSelect",
             "requeueJob", "failJob"}
RunPc == ActivePc \cup {"requeueExp", "failExp", "none", "over", "crashed"}

LivePc == ActivePc \cup {"requeueExp", "failExp"}

\* What a task executes next; "waiting" is the semaphore's queue.
BusyTaskPc == {"call", "check", "saveSelect", "saveInsert", "lastCheck",
               "errorCheck", "errorSelect", "errorInsert"}
TaskPc == BusyTaskPc \cup {"none", "waiting", "done", "raised", "lost"}

Init ==
    /\ expStatus = [e \in Experiments |-> "none"]
    /\ jobStatus = [e \in Experiments |-> "none"]
    /\ attempts = [e \in Experiments |-> 0]
    /\ results = [e \in Experiments |-> [x \in Examples |-> "none"]]
    /\ summary = [e \in Experiments |-> {}]
    /\ baseline = {}
    /\ creating = {} /\ canceling = {} /\ baselining = {}
    /\ runPc = [e \in Experiments |-> [a \in Attempts |-> "none"]]
    /\ runWorker = [e \in Experiments |-> [a \in Attempts |-> NoWorker]]
    /\ task = [e \in Experiments |->
                 [a \in Attempts |-> [x \in Examples |-> "none"]]]
    /\ crashes = 0 /\ faults = 0

-----------------------------------------------------------------------------
(* Statements. An UPDATE of a row that is gone changes nothing.            *)

HasExp(e) == expStatus[e] \notin {"none", "deleted"}
HasJob(e) == jobStatus[e] # "none"

SetExp(e, s) ==
    expStatus' = IF HasExp(e) THEN [expStatus EXCEPT ![e] = s] ELSE expStatus

SetJob(e, s) ==
    jobStatus' = IF HasJob(e) THEN [jobStatus EXCEPT ![e] = s] ELSE jobStatus

\* A statement raises, within the bound.
Fault == faults < MaxFaults /\ faults' = faults + 1

GoTo(e, a, pc) == runPc' = [runPc EXCEPT ![e][a] = pc]
TaskGoTo(e, a, x, pc) == task' = [task EXCEPT ![e][a][x] = pc]

-----------------------------------------------------------------------------
(* API handlers.                                                           *)

CreateExperiment(e) ==
    /\ expStatus[e] = "none"
    /\ expStatus' = [expStatus EXCEPT ![e] = "pending"]
    /\ creating' = creating \cup {e}
    /\ UNCHANGED <<jobStatus, attempts, results, summary, baseline,
                   canceling, baselining, runs, budget>>

\* The insert violates its foreign key when the experiment is gone already.
EnqueueExperimentJob(e) ==
    /\ e \in creating
    /\ creating' = creating \ {e}
    /\ jobStatus' = IF HasExp(e) THEN [jobStatus EXCEPT ![e] = "pending"]
                                 ELSE jobStatus
    /\ UNCHANGED <<expStatus, attempts, results, summary, baseline,
                   canceling, baselining, runs, budget>>

\* At most one cancellation of an experiment is between its statements.
RequestCancelJob(e) ==
    /\ e \notin canceling
    /\ jobStatus[e] \in {"pending", "running"}
    /\ jobStatus' = [jobStatus EXCEPT ![e] = "cancel_requested"]
    /\ canceling' = canceling \cup {e}
    /\ UNCHANGED <<expStatus, attempts, results, summary, baseline,
                   creating, baselining, runs, budget>>

RequestCancelExp(e) ==
    /\ e \in canceling
    /\ canceling' = canceling \ {e}
    /\ expStatus' = IF expStatus[e] \in {"pending", "running"}
                    THEN [expStatus EXCEPT ![e] = "cancel_requested"]
                    ELSE expStatus
    /\ UNCHANGED <<jobStatus, attempts, results, summary, baseline,
                   creating, baselining, runs, budget>>

\* Job, results and baseline go with the row (ON DELETE CASCADE).
DeleteExperiment(e) ==
    /\ HasExp(e)
    /\ expStatus' = [expStatus EXCEPT ![e] = "deleted"]
    /\ jobStatus' = [jobStatus EXCEPT ![e] = "none"]
    /\ results' = [results EXCEPT ![e] = [x \in Examples |-> "none"]]
    /\ summary' = [summary EXCEPT ![e] = {}]
    /\ baseline' = baseline \ {e}
    /\ UNCHANGED <<attempts, handlers, runs, budget>>

CheckBaseline(e) ==
    /\ expStatus[e] = "completed"
    /\ baselining' = baselining \cup {e}
    /\ UNCHANGED <<rows, creating, canceling, runs, budget>>

SetBaseline(e) ==
    /\ e \in baselining
    /\ baselining' = baselining \ {e}
    /\ baseline' = IF HasExp(e) THEN {e} ELSE baseline
    /\ UNCHANGED <<expStatus, jobStatus, attempts, results, summary,
                   creating, canceling, runs, budget>>

-----------------------------------------------------------------------------
(* The worker takes a job. Which of several claimable rows it gets is left *)
(* open: ORDER BY created_at skips the rows other transactions hold.       *)

Idle(w) == \A e \in Experiments, a \in Attempts :
               runWorker[e][a] = w => runPc[e][a] \notin LivePc

\* Mutant: a job that is being executed can be claimed as well.
ClaimRunningJob(w, e) ==
    LET a == attempts[e] + 1 IN
    /\ Idle(w)
    /\ jobStatus[e] \in {"pending", "running"}
    /\ a \in Attempts
    /\ jobStatus' = [jobStatus EXCEPT ![e] = "running"]
    /\ attempts' = [attempts EXCEPT ![e] = a]
    /\ GoTo(e, a, "setRunning")
    /\ runWorker' = [runWorker EXCEPT ![e][a] = w]
    /\ UNCHANGED <<expStatus, results, summary, baseline, handlers, task,
                   budget>>

\* Mutant: a claim does not use up an attempt.
ClaimUncounted(w, e) ==
    /\ Idle(w)
    /\ jobStatus[e] = "pending"
    /\ jobStatus' = [jobStatus EXCEPT ![e] = "running"]
    /\ GoTo(e, attempts[e] + 1, "setRunning")
    /\ runWorker' = [runWorker EXCEPT ![e][attempts[e] + 1] = w]
    /\ UNCHANGED <<expStatus, attempts, results, summary, baseline, handlers,
                   task, budget>>

\* Mutant: only a job that was never started is claimed.
ClaimFreshJob(w, e) ==
    /\ attempts[e] = 0
    /\ Idle(w)
    /\ jobStatus[e] = "pending"
    /\ jobStatus' = [jobStatus EXCEPT ![e] = "running"]
    /\ attempts' = [attempts EXCEPT ![e] = 1]
    /\ GoTo(e, 1, "setRunning")
    /\ runWorker' = [runWorker EXCEPT ![e][1] = w]
    /\ UNCHANGED <<expStatus, results, summary, baseline, handlers, task,
                   budget>>

ClaimNextJob(w, e) ==
    LET a == attempts[e] + 1 IN
    /\ Idle(w)
    /\ jobStatus[e] = "pending"
    /\ jobStatus' = [jobStatus EXCEPT ![e] = "running"]
    /\ attempts' = [attempts EXCEPT ![e] = a]
    /\ GoTo(e, a, "setRunning")
    /\ runWorker' = [runWorker EXCEPT ![e][a] = w]
    /\ UNCHANGED <<expStatus, results, summary, baseline, handlers, task,
                   budget>>

ClaimCanceledJob(w, e) ==
    /\ Idle(w)
    /\ jobStatus[e] = "cancel_requested"
    /\ jobStatus' = [jobStatus EXCEPT ![e] = "canceled"]
    /\ SetExp(e, "canceled")
    /\ UNCHANGED <<attempts, results, summary, baseline, handlers, runs,
                   budget>>

-----------------------------------------------------------------------------
(* ExperimentRunner.run                                                    *)

SetRunning(e, a) ==
    /\ runPc[e][a] = "setRunning"
    /\ SetExp(e, "running")
    /\ GoTo(e, a, "setup")
    /\ UNCHANGED <<jobStatus, attempts, results, summary, baseline, handlers,
                   runWorker, task, budget>>

\* Evaluators are resolved and the examples fetched; the dataset may have
\* changed since the last attempt.
Setup(e, a) ==
    /\ runPc[e][a] = "setup"
    /\ \E fetched \in SUBSET Examples :
          task' = [task EXCEPT ![e][a] =
                     [x \in Examples |->
                        IF x \in fetched THEN "waiting" ELSE "none"]]
    /\ GoTo(e, a, "gather")
    /\ UNCHANGED <<rows, handlers, runWorker, budget>>

\* No evaluator can be built, or the dataset service does not answer.
SetupFails(e, a) ==
    /\ runPc[e][a] = "setup"
    /\ GoTo(e, a, "failSelect")
    /\ UNCHANGED <<rows, handlers, runWorker, task, budget>>

GatherReturns(e, a) ==
    /\ runPc[e][a] = "gather"
    /\ \A x \in Examples : task[e][a][x] \in {"none", "done"}
    /\ GoTo(e, a, "setSummary")
    /\ UNCHANGED <<rows, handlers, runWorker, task, budget>>

UpdateSummary(e, a) ==
    /\ runPc[e][a] = "setSummary"
    /\ summary' = IF HasExp(e)
                  THEN [summary EXCEPT ![e] =
                          {{x \in Examples : task[e][a][x] = "done"}}]
                  ELSE summary
    /\ GoTo(e, a, "setCompleted")
    /\ UNCHANGED <<expStatus, jobStatus, attempts, results, baseline,
                   handlers, runWorker, task, budget>>

SetCompleted(e, a) ==
    /\ runPc[e][a] = "setCompleted"
    /\ SetExp(e, "completed")
    /\ GoTo(e, a, "completeSelect")
    /\ UNCHANGED <<jobStatus, attempts, results, summary, baseline, handlers,
                   runWorker, task, budget>>

\* run catches ExperimentCanceled and returns: the worker goes on as after
\* a run that completed.
SetCanceled(e, a) ==
    /\ runPc[e][a] = "setCanceled"
    /\ SetExp(e, "canceled")
    /\ GoTo(e, a, "completeSelect")
    /\ UNCHANGED <<jobStatus, attempts, results, summary, baseline, handlers,
                   runWorker, task, budget>>

-----------------------------------------------------------------------------
(* process_example                                                         *)

\* A task ends with an exception; the first one to do so ends the gather.
EndWith(e, a, x, next) ==
    /\ TaskGoTo(e, a, x, "raised")
    /\ runPc' = IF runPc[e][a] = "gather"
                THEN [runPc EXCEPT ![e][a] = next] ELSE runPc

RaiseCanceled(e, a, x) ==
    /\ EndWith(e, a, x, "setCanceled")
    /\ UNCHANGED <<rows, handlers, runWorker, budget>>

TaskStep(e, a, x, next) ==
    /\ TaskGoTo(e, a, x, next)
    /\ UNCHANGED <<rows, handlers, runPc, runWorker, budget>>

InFlight(e, a) == {x \in Examples : task[e][a][x] \in BusyTaskPc}

EnsureNotCanceled(e, a, x, next) ==
    IF jobStatus[e] = "cancel_requested" THEN RaiseCanceled(e, a, x)
                                         ELSE TaskStep(e, a, x, next)

\* The semaphore lets the task in, and it looks at the job first.
StartTask(e, a, x) ==
    /\ task[e][a][x] = "waiting"
    /\ Cardinality(InFlight(e, a)) < Concurrency
    /\ EnsureNotCanceled(e, a, x, "call")

\* The target and the evaluators answer, or the target call raises.
CallTarget(e, a, x) ==
    /\ task[e][a][x] = "call"
    /\ \E next \in {"check", "errorCheck"} : TaskStep(e, a, x, next)

CheckTask(e, a, x) ==
    \/ /\ task[e][a][x] = "check"
       /\ EnsureNotCanceled(e, a, x, "saveSelect")
    \/ /\ task[e][a][x] = "lastCheck"
       /\ EnsureNotCanceled(e, a, x, "done")
    \/ /\ task[e][a][x] = "errorCheck"
       /\ EnsureNotCanceled(e, a, x, "errorSelect")

\* Mutant: the runner takes a refused result for a saved one.
SaveResultRefusalIgnored(e, a, x) ==
    \E insert \in {<<"saveSelect", "saveInsert">>,
                   <<"errorSelect", "errorInsert">>} :
       /\ task[e][a][x] = insert[1]
       /\ IF jobStatus[e] \in {"cancel_requested", "canceled"}
          THEN TaskStep(e, a, x, "done")
          ELSE TaskStep(e, a, x, insert[2])

\* save_result looks at the job again, in a statement of its own.
SaveResultSelect(e, a, x) ==
    \E insert \in {<<"saveSelect", "saveInsert">>,
                   <<"errorSelect", "errorInsert">>} :
       /\ task[e][a][x] = insert[1]
       /\ IF jobStatus[e] \in {"cancel_requested", "canceled"}
          THEN RaiseCanceled(e, a, x)
          ELSE TaskStep(e, a, x, insert[2])

SaveResultInsert(e, a, x) ==
    \E insert \in {<<"saveInsert", "scored", "lastCheck">>,
                   <<"errorInsert", "error", "done">>} :
       /\ task[e][a][x] = insert[1]
       /\ HasExp(e)
       /\ results' = [results EXCEPT ![e][x] = insert[2]]
       /\ TaskGoTo(e, a, x, insert[3])
       /\ UNCHANGED <<expStatus, jobStatus, attempts, summary, baseline,
                      handlers, runPc, runWorker, budget>>

\* An exception inside the try records an error result instead; one in the
\* except clause leaves process_example.
TaskException(e, a, x) ==
    \/ /\ task[e][a][x] \in {"waiting", "check", "saveSelect", "saveInsert",
                             "lastCheck"}
       /\ task[e][a][x] = "waiting" =>
             Cardinality(InFlight(e, a)) < Concurrency
       /\ TaskGoTo(e, a, x, "errorCheck")
       /\ UNCHANGED runPc
    \/ /\ task[e][a][x] \in {"errorCheck", "errorSelect", "errorInsert"}
       /\ EndWith(e, a, x, "failSelect")

\* The insert violates its foreign key: the experiment has been deleted.
SaveResultOfDeleted(e, a, x) ==
    /\ task[e][a][x] \in {"saveInsert", "errorInsert"}
    /\ ~HasExp(e)
    /\ TaskException(e, a, x)
    /\ UNCHANGED <<rows, handlers, runWorker, budget>>

\* A statement of the task raises: the connection is lost, say.
TaskFault(e, a, x) ==
    /\ Fault
    /\ TaskException(e, a, x)
    /\ UNCHANGED <<rows, handlers, runWorker, crashes>>

-----------------------------------------------------------------------------
(* run_once of the worker, after the run: complete_job and fail_job.       *)

CompleteSelect(e, a) ==
    /\ runPc[e][a] = "completeSelect"
    /\ GoTo(e, a, CASE ~HasJob(e) -> "over"
                    [] jobStatus[e] = "canceled" -> "completeCanceledJob"
                    [] OTHER -> "completeJob")
    /\ UNCHANGED <<rows, handlers, runWorker, task, budget>>

CompleteJob(e, a) ==
    /\ \/ runPc[e][a] = "completeJob" /\ GoTo(e, a, "completeExp")
       \/ runPc[e][a] = "completeCanceledJob" /\ GoTo(e, a, "over")
    /\ SetJob(e, "completed")
    /\ UNCHANGED <<expStatus, attempts, results, summary, baseline, handlers,
                   runWorker, task, budget>>

CompleteExp(e, a) ==
    /\ runPc[e][a] = "completeExp"
    /\ SetExp(e, "completed")
    /\ GoTo(e, a, "over")
    /\ UNCHANGED <<jobStatus, attempts, results, summary, baseline, handlers,
                   runWorker, task, budget>>

\* Mutant: one attempt too many.
FailSelectOffByOne(e, a) ==
    /\ runPc[e][a] = "failSelect"
    /\ GoTo(e, a, CASE ~HasJob(e) -> "over"
                    [] attempts[e] <= MaxAttempts -> "requeueJob"
                    [] OTHER -> "failJob")
    /\ UNCHANGED <<rows, handlers, runWorker, task, budget>>

\* Mutant: a job without attempts left is not failed.
FailSelectGivesUp(e, a) ==
    /\ runPc[e][a] = "failSelect"
    /\ GoTo(e, a, IF HasJob(e) /\ attempts[e] < MaxAttempts
                  THEN "requeueJob" ELSE "over")
    /\ UNCHANGED <<rows, handlers, runWorker, task, budget>>

FailSelect(e, a) ==
    /\ runPc[e][a] = "failSelect"
    /\ GoTo(e, a, CASE ~HasJob(e) -> "over"
                    [] attempts[e] < MaxAttempts -> "requeueJob"
                    [] OTHER -> "failJob")
    /\ UNCHANGED <<rows, handlers, runWorker, task, budget>>

FailJob(e, a) ==
    /\ \/ /\ runPc[e][a] = "requeueJob"
          /\ SetJob(e, "pending")
          /\ GoTo(e, a, "requeueExp")
       \/ /\ runPc[e][a] = "failJob"
          /\ SetJob(e, "failed")
          /\ GoTo(e, a, "failExp")
    /\ UNCHANGED <<expStatus, attempts, results, summary, baseline, handlers,
                   runWorker, task, budget>>

\* Mutant: a job without attempts left does not fail its experiment.
FailExpOnlyRequeues(e, a) ==
    /\ \/ runPc[e][a] = "requeueExp" /\ SetExp(e, "pending")
       \/ runPc[e][a] = "failExp" /\ UNCHANGED expStatus
    /\ GoTo(e, a, "over")
    /\ UNCHANGED <<jobStatus, attempts, results, summary, baseline, handlers,
                   runWorker, task, budget>>

FailExp(e, a) ==
    /\ \/ runPc[e][a] = "requeueExp" /\ SetExp(e, "pending")
       \/ runPc[e][a] = "failExp" /\ SetExp(e, "failed")
    /\ GoTo(e, a, "over")
    /\ UNCHANGED <<jobStatus, attempts, results, summary, baseline, handlers,
                   runWorker, task, budget>>

-----------------------------------------------------------------------------
(* What goes wrong around them.                                            *)

\* A statement of run or of complete_job raises: run_once calls fail_job.
\* A statement of fail_job that raises ends the worker process: Crash.
RunFault(e, a) ==
    /\ Fault
    /\ runPc[e][a] \in {"setRunning", "setSummary", "setCompleted",
                        "setCanceled", "completeSelect", "completeJob",
                        "completeCanceledJob", "completeExp"}
    /\ GoTo(e, a, "failSelect")
    /\ UNCHANGED <<rows, handlers, runWorker, task, crashes>>

\* The process dies with its run and all its tasks, and is started again:
\* nothing is persisted but the rows.
Crash(w) ==
    LET dies(e, a) == runWorker[e][a] = w
        LiveTaskPc == BusyTaskPc \cup {"waiting"} IN
    /\ crashes < MaxCrashes
    /\ \E e \in Experiments, a \in Attempts :
          /\ dies(e, a)
          /\ \/ runPc[e][a] \in LivePc
             \/ \E x \in Examples : task[e][a][x] \in LiveTaskPc
    /\ crashes' = crashes + 1
    /\ runPc' = [e \in Experiments |-> [a \in Attempts |->
                   IF dies(e, a) /\ runPc[e][a] \in LivePc
                   THEN "crashed" ELSE runPc[e][a]]]
    /\ task' = [e \in Experiments |-> [a \in Attempts |-> [x \in Examples |->
                  IF dies(e, a) /\ task[e][a][x] \in LiveTaskPc
                  THEN "lost" ELSE task[e][a][x]]]]
    /\ UNCHANGED <<rows, handlers, runWorker, faults>>

\* The API process dies between the two statements of a handler.
HandlerDies(e) ==
    /\ crashes < MaxCrashes
    /\ crashes' = crashes + 1
    /\ \/ e \in creating /\ creating' = creating \ {e} /\ UNCHANGED canceling
       \/ e \in canceling /\ canceling' = canceling \ {e} /\ UNCHANGED creating
    /\ UNCHANGED <<rows, baselining, runs, faults>>

-----------------------------------------------------------------------------

Handler(e) ==
    \/ CreateExperiment(e) \/ EnqueueExperimentJob(e)
    \/ RequestCancelJob(e) \/ RequestCancelExp(e)
    \/ DeleteExperiment(e)
    \/ CheckBaseline(e) \/ SetBaseline(e)

RunStep(e, a) ==
    \/ SetRunning(e, a) \/ Setup(e, a) \/ SetupFails(e, a)
    \/ GatherReturns(e, a) \/ UpdateSummary(e, a)
    \/ SetCompleted(e, a) \/ SetCanceled(e, a)
    \/ CompleteSelect(e, a) \/ CompleteJob(e, a) \/ CompleteExp(e, a)
    \/ FailSelect(e, a) \/ FailJob(e, a) \/ FailExp(e, a)

ExampleStep(e, a, x) ==
    \/ StartTask(e, a, x) \/ CallTarget(e, a, x) \/ CheckTask(e, a, x)
    \/ SaveResultSelect(e, a, x) \/ SaveResultInsert(e, a, x)
    \/ SaveResultOfDeleted(e, a, x)

Claim(w) == \E e \in Experiments : ClaimNextJob(w, e) \/ ClaimCanceledJob(w, e)

Next ==
    \/ \E e \in Experiments : Handler(e) \/ HandlerDies(e)
    \/ \E w \in Workers : Claim(w) \/ Crash(w)
    \/ \E e \in Experiments, a \in Attempts : RunStep(e, a) \/ RunFault(e, a)
    \/ \E e \in Experiments, a \in Attempts, x \in Examples :
          ExampleStep(e, a, x) \/ TaskFault(e, a, x)

Spec == Init /\ [][Next]_vars

\* Workers poll for ever, every call they make has a timeout, and a handler
\* that has started comes to its end. Nobody has to ask for anything.
Fairness ==
    /\ \A w \in Workers : WF_vars(Claim(w))
    /\ \A e \in Experiments, a \in Attempts : WF_vars(RunStep(e, a))
    /\ \A e \in Experiments, a \in Attempts, x \in Examples :
          WF_vars(ExampleStep(e, a, x))
    /\ \A e \in Experiments :
          WF_vars(EnqueueExperimentJob(e) \/ RequestCancelExp(e))

FairSpec == Spec /\ Fairness

-----------------------------------------------------------------------------
(* Properties.                                                             *)

\* Every table, handler, run and task holds a value the code can give it.
TypeOK ==
    /\ expStatus \in [Experiments -> ExpStatus]
    /\ jobStatus \in [Experiments -> JobStatus]
    /\ attempts \in [Experiments -> 0..MaxAttempts]
    /\ results \in [Experiments -> [Examples -> ResultStatus]]
    /\ summary \in [Experiments -> SUBSET SUBSET Examples]
    /\ baseline \in SUBSET Experiments
    /\ creating \in SUBSET Experiments
    /\ canceling \in SUBSET Experiments
    /\ baselining \in SUBSET Experiments
    /\ runPc \in [Experiments -> [Attempts -> RunPc]]
    /\ runWorker \in [Experiments -> [Attempts -> Workers \cup {NoWorker}]]
    /\ task \in [Experiments -> [Attempts -> [Examples -> TaskPc]]]
    /\ crashes \in 0..MaxCrashes
    /\ faults \in 0..MaxFaults

Working(e) == {a \in Attempts : runPc[e][a] \in ActivePc}

\* A job that can be claimed has an attempt left and nobody works on it:
\* fail_job requeues only what it still owns, and counts before it does.
PendingJobIsFree ==
    \A e \in Experiments : jobStatus[e] = "pending" =>
        attempts[e] < MaxAttempts /\ Working(e) = {}

\* Two workers never evaluate the same experiment at once, whatever
\* cancellations, retries, crashes and failed statements come between:
\* a run that still works on its job is the run of its latest attempt.
OneRunPerJob ==
    \A e \in Experiments, a \in Attempts :
        a \in Working(e) => a = attempts[e]

\* A job that says it is running is worked on by the run of its latest
\* attempt, or the process of that run has died: no cancellation, deletion,
\* retry or failing statement leaves a job running that nobody works on.
StrandedOnlyByCrash ==
    \A e \in Experiments : jobStatus[e] = "running" =>
        /\ attempts[e] \in Attempts
        /\ runPc[e][attempts[e]] \in ActivePc \cup {"crashed"}

\* experiments.summary covers only examples whose result row is there.
SummaryCoversResults ==
    \A e \in Experiments : \A covered \in summary[e] :
        \A x \in covered : results[e][x] # "none"

\* The queue keeps the promise of JobLifecycle.
Lifecycle == INSTANCE JobLifecycle
                 WITH status <- jobStatus,
                      active <- {e \in Experiments : Working(e) # {}}
ImplementsLifecycle == Lifecycle!Spec

Settled(e) ==
    /\ e \notin creating \cup canceling
    /\ \A a \in Attempts : runPc[e][a] \notin LivePc

FinalStatus == {"completed", "failed", "canceled"}

\* With one worker and no failing statement, an experiment whose job has
\* ended, and that nobody is busy with, shows how the job ended.
FinalStatusAgrees ==
    \A e \in Experiments :
        Settled(e) /\ jobStatus[e] \in FinalStatus =>
            expStatus[e] = jobStatus[e]

\* Every job that is queued ends for good or is deleted: attempts run out,
\* and a canceled job is not claimed for ever.
JobSettles ==
    \A e \in Experiments :
        jobStatus[e] = "pending" ~> [](jobStatus[e] \in FinalStatus \cup {"none"})

\* So does the experiment it belongs to, when one worker does all the work.
ExperimentSettles ==
    \A e \in Experiments :
        expStatus[e] = "pending" ~>
            [](expStatus[e] \in FinalStatus \cup {"deleted"})

\* An experiment that was canceled does not turn into a completed one.
CanceledIsFinal ==
    [][\A e \in Experiments :
         expStatus[e] = "canceled" => expStatus'[e] # "completed"]_vars
=============================================================================
