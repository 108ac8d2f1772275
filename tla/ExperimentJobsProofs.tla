------------------------ MODULE ExperimentJobsProofs ------------------------
(***************************************************************************)
(* Proofs about ExperimentJobs for every set of experiments, workers and   *)
(* examples and every value of the other constants.                        *)
(***************************************************************************)
EXTENDS ExperimentJobs, TLAPS

RunPcType == [Experiments -> [Attempts -> RunPc]]
TaskType == [Experiments -> [Attempts -> [Examples -> TaskPc]]]

-----------------------------------------------------------------------------
(* What the updates the actions are made of do.                            *)

LEMMA GoToUpdates ==
  ASSUME runPc \in RunPcType, NEW e \in Experiments, NEW a \in Attempts,
         NEW pc \in RunPc, GoTo(e, a, pc)
  PROVE  /\ runPc' \in RunPcType
         /\ \A f \in Experiments, b \in Attempts :
               runPc'[f][b] = IF f = e /\ b = a THEN pc ELSE runPc[f][b]
  BY DEF GoTo, RunPcType

LEMMA TaskGoToUpdates ==
  ASSUME task \in TaskType, NEW e \in Experiments, NEW a \in Attempts,
         NEW x \in Examples, NEW pc \in TaskPc, TaskGoTo(e, a, x, pc)
  PROVE  /\ task' \in TaskType
         /\ \A f \in Experiments, b \in Attempts, y \in Examples :
               task'[f][b][y] = IF f = e /\ b = a /\ y = x
                                THEN pc ELSE task[f][b][y]
  BY DEF TaskGoTo, TaskType

LEMMA EndWithUpdates ==
  ASSUME runPc \in RunPcType, task \in TaskType,
         NEW e \in Experiments, NEW a \in Attempts, NEW x \in Examples,
         NEW next \in RunPc, EndWith(e, a, x, next)
  PROVE  /\ runPc' \in RunPcType
         /\ \A f \in Experiments, b \in Attempts :
               runPc'[f][b] = IF f = e /\ b = a /\ runPc[e][a] = "gather"
                              THEN next ELSE runPc[f][b]
         /\ task' \in TaskType
         /\ \A f \in Experiments, b \in Attempts, y \in Examples :
               task'[f][b][y] = IF f = e /\ b = a /\ y = x
                                THEN "raised" ELSE task[f][b][y]
  <1>1. TaskGoTo(e, a, x, "raised") /\ "raised" \in TaskPc
    BY DEF EndWith, TaskPc
  <1>2. CASE runPc[e][a] = "gather"
    <2>1. GoTo(e, a, next)
      BY <1>2 DEF EndWith, GoTo
    <2>. QED BY <1>1, <1>2, <2>1, TaskGoToUpdates, GoToUpdates
  <1>3. CASE runPc[e][a] # "gather"
    <2>1. runPc' = runPc
      BY <1>3 DEF EndWith
    <2>. QED BY <1>1, <1>3, <2>1, TaskGoToUpdates
  <1>. QED BY <1>2, <1>3

LEMMA FaultBounded ==
  ASSUME TypeOK, UNCHANGED faults \/ Fault
  PROVE  faults' \in 0..MaxFaults
  BY ConstantsAssumption DEF TypeOK, Fault

LEMMA SetExpUpdates ==
  ASSUME expStatus \in [Experiments -> ExpStatus], NEW e \in Experiments,
         NEW s \in JobStatus \ {"none"}, SetExp(e, s)
  PROVE  /\ expStatus' \in [Experiments -> ExpStatus]
         /\ \A f \in Experiments :
               expStatus'[f] = IF f = e /\ HasExp(e) THEN s ELSE expStatus[f]
  BY DEF SetExp, HasExp, ExpStatus

LEMMA SetJobUpdates ==
  ASSUME jobStatus \in [Experiments -> JobStatus], NEW e \in Experiments,
         NEW s \in JobStatus \ {"none"}, SetJob(e, s)
  PROVE  /\ jobStatus' \in [Experiments -> JobStatus]
         /\ \A f \in Experiments :
               jobStatus'[f] = IF f = e /\ HasJob(e) THEN s ELSE jobStatus[f]
  BY DEF SetJob, HasJob

\* A task changes its own place, one result, and the run that awaits it.
TaskEffects(e, a, x) ==
  /\ UNCHANGED <<expStatus, jobStatus, attempts, summary, baseline, handlers,
                 runWorker, crashes>>
  /\ task' \in TaskType
  /\ task[e][a][x] \notin {"none", "done", "raised", "lost"}
  /\ \A f \in Experiments, b \in Attempts, y \in Examples :
        f # e \/ b # a \/ y # x => task'[f][b][y] = task[f][b][y]
  /\ runPc' \in RunPcType
  /\ \A f \in Experiments, b \in Attempts :
        \/ runPc'[f][b] = runPc[f][b]
        \/ /\ runPc[f][b] = "gather"
           /\ runPc'[f][b] \in {"setCanceled", "failSelect"}
  /\ UNCHANGED faults \/ Fault

\* Where a task can go, and what it leaves in the results.
TaskTransition(e, a, x) ==
  LET pc == task[e][a][x]
      npc == task'[e][a][x] IN
  /\ results' \in [Experiments -> [Examples -> ResultStatus]]
  /\ \A f \in Experiments, y \in Examples :
        results[f][y] # "none" => results'[f][y] # "none"
  /\ npc \notin {"none", "waiting", "lost"}
  /\ npc = "lastCheck" => HasExp(e) /\ results'[e][x] # "none"
  /\ npc = "done" => \/ pc = "lastCheck"
                     \/ HasExp(e) /\ results'[e][x] # "none"

LEMMA TaskStepEffects ==
  ASSUME TypeOK, NEW e \in Experiments, NEW a \in Attempts, NEW x \in Examples,
         NEW next \in TaskPc \ {"none", "waiting", "lost", "lastCheck"},
         TaskStep(e, a, x, next),
         task[e][a][x] \notin {"none", "done", "raised", "lost"},
         next = "done" => task[e][a][x] = "lastCheck"
  PROVE  TaskEffects(e, a, x) /\ TaskTransition(e, a, x)
  <1>1. TaskGoTo(e, a, x, next) /\ next \in TaskPc /\ task \in TaskType
    BY DEF TaskStep, TypeOK, TaskType
  <1>2. task' \in TaskType
        /\ \A f \in Experiments, b \in Attempts, y \in Examples :
              task'[f][b][y] = IF f = e /\ b = a /\ y = x
                               THEN next ELSE task[f][b][y]
    BY <1>1, TaskGoToUpdates
  <1>3. UNCHANGED <<rows, handlers, runPc, runWorker, budget>>
    BY DEF TaskStep
  <1>4. TaskEffects(e, a, x)
    BY <1>2, <1>3 DEF TaskEffects, TypeOK, rows, budget, RunPcType
  <1>5. TaskTransition(e, a, x)
    BY <1>2, <1>3 DEF TaskTransition, TypeOK, rows
  <1>. QED BY <1>4, <1>5

LEMMA EndWithEffects ==
  ASSUME TypeOK, NEW e \in Experiments, NEW a \in Attempts, NEW x \in Examples,
         NEW next \in {"setCanceled", "failSelect"},
         EndWith(e, a, x, next),
         UNCHANGED <<rows, handlers, runWorker, crashes>>,
         UNCHANGED faults \/ Fault,
         task[e][a][x] \notin {"none", "done", "raised", "lost"}
  PROVE  TaskEffects(e, a, x) /\ TaskTransition(e, a, x)
  <1>1. next \in RunPc /\ runPc \in RunPcType /\ task \in TaskType
    BY DEF TypeOK, RunPc, ActivePc, RunPcType, TaskType
  <1>2. /\ runPc' \in RunPcType
        /\ \A f \in Experiments, b \in Attempts :
              runPc'[f][b] = IF f = e /\ b = a /\ runPc[e][a] = "gather"
                             THEN next ELSE runPc[f][b]
        /\ task' \in TaskType
        /\ \A f \in Experiments, b \in Attempts, y \in Examples :
              task'[f][b][y] = IF f = e /\ b = a /\ y = x
                               THEN "raised" ELSE task[f][b][y]
    BY <1>1, EndWithUpdates
  <1>4. TaskEffects(e, a, x)
    BY <1>2 DEF TaskEffects, rows
  <1>5. TaskTransition(e, a, x)
    BY <1>2 DEF TaskTransition, TypeOK, rows
  <1>. QED BY <1>4, <1>5

LEMMA EnsureNotCanceledEffects ==
  ASSUME TypeOK, NEW e \in Experiments, NEW a \in Attempts, NEW x \in Examples,
         NEW next \in {"call", "saveSelect", "done", "errorSelect"},
         EnsureNotCanceled(e, a, x, next),
         task[e][a][x] \in {"waiting", "check", "lastCheck", "errorCheck"},
         next = "done" => task[e][a][x] = "lastCheck"
  PROVE  TaskEffects(e, a, x) /\ TaskTransition(e, a, x)
  <1>1. CASE jobStatus[e] = "cancel_requested"
    BY <1>1, EndWithEffects DEF EnsureNotCanceled, RaiseCanceled, budget
  <1>2. CASE jobStatus[e] # "cancel_requested"
    <2>1. TaskStep(e, a, x, next)
          /\ next \in TaskPc \ {"none", "waiting", "lost", "lastCheck"}
      BY <1>2 DEF EnsureNotCanceled, TaskPc, BusyTaskPc
    <2>. QED BY <2>1, TaskStepEffects
  <1>. QED BY <1>1, <1>2

LEMMA TaskExceptionEffects ==
  ASSUME TypeOK, NEW e \in Experiments, NEW a \in Attempts, NEW x \in Examples,
         TaskException(e, a, x), UNCHANGED <<rows, handlers, runWorker, crashes>>,
         UNCHANGED faults \/ Fault
  PROVE  TaskEffects(e, a, x) /\ TaskTransition(e, a, x)
  <1>. DEFINE from == {"waiting", "check", "saveSelect", "saveInsert",
                       "lastCheck"}
  <1>0. task \in TaskType /\ runPc \in RunPcType
    BY DEF TypeOK, TaskType, RunPcType
  <1>1. CASE /\ task[e][a][x] \in from
             /\ TaskGoTo(e, a, x, "errorCheck")
             /\ UNCHANGED runPc
    <2>1. "errorCheck" \in TaskPc
      BY DEF TaskPc, BusyTaskPc
    <2>2. task' \in TaskType
          /\ \A f \in Experiments, b \in Attempts, y \in Examples :
                task'[f][b][y] = IF f = e /\ b = a /\ y = x
                                 THEN "errorCheck" ELSE task[f][b][y]
      BY <1>0, <1>1, <2>1, TaskGoToUpdates
    <2>3. TaskEffects(e, a, x)
      BY <1>0, <1>1, <2>2 DEF TaskEffects, rows
    <2>4. TaskTransition(e, a, x)
      BY <2>2 DEF TaskTransition, TypeOK, rows
    <2>. QED BY <2>3, <2>4
  <1>2. CASE /\ task[e][a][x] \in {"errorCheck", "errorSelect", "errorInsert"}
             /\ EndWith(e, a, x, "failSelect")
    BY <1>2, EndWithEffects
  <1>. QED BY <1>1, <1>2 DEF TaskException

LEMMA SaveResultInsertEffects ==
  ASSUME TypeOK, NEW e \in Experiments, NEW a \in Attempts, NEW x \in Examples,
         SaveResultInsert(e, a, x)
  PROVE  TaskEffects(e, a, x) /\ TaskTransition(e, a, x)
  <1>1. PICK insert \in {<<"saveInsert", "scored", "lastCheck">>,
                         <<"errorInsert", "error", "done">>} :
             /\ task[e][a][x] = insert[1]
             /\ HasExp(e)
             /\ results' = [results EXCEPT ![e][x] = insert[2]]
             /\ TaskGoTo(e, a, x, insert[3])
             /\ UNCHANGED <<expStatus, jobStatus, attempts, summary, baseline,
                            handlers, runPc, runWorker, budget>>
    BY DEF SaveResultInsert
  <1>. DEFINE next == insert[3]
              written == insert[2]
  <1>2. /\ next \in {"lastCheck", "done"} /\ next \in TaskPc
        /\ written \in ResultStatus \ {"none"}
        /\ task[e][a][x] \in {"saveInsert", "errorInsert"}
    BY <1>1 DEF TaskPc, BusyTaskPc, ResultStatus
  <1>3. task' \in TaskType
        /\ \A f \in Experiments, b \in Attempts, y \in Examples :
              task'[f][b][y] = IF f = e /\ b = a /\ y = x
                               THEN next ELSE task[f][b][y]
    BY <1>1, <1>2, TaskGoToUpdates DEF TypeOK, TaskType
  <1>4. /\ results' \in [Experiments -> [Examples -> ResultStatus]]
        /\ \A f \in Experiments, y \in Examples :
              results'[f][y] = IF f = e /\ y = x THEN written
                                                ELSE results[f][y]
    BY <1>1, <1>2 DEF TypeOK
  <1>5. TaskEffects(e, a, x)
    BY <1>1, <1>2, <1>3 DEF TaskEffects, TypeOK, RunPcType, budget
  <1>6. TaskTransition(e, a, x)
    BY <1>1, <1>2, <1>3, <1>4 DEF TaskTransition
  <1>. QED BY <1>5, <1>6

\* Every step of a task, with or without a failing statement.
LEMMA ExampleStepEffects ==
  ASSUME TypeOK, NEW e \in Experiments, NEW a \in Attempts, NEW x \in Examples,
         ExampleStep(e, a, x) \/ TaskFault(e, a, x)
  PROVE  TaskEffects(e, a, x) /\ TaskTransition(e, a, x)
  <1>1. CASE StartTask(e, a, x)
    BY <1>1, EnsureNotCanceledEffects DEF StartTask
  <1>2. CASE CallTarget(e, a, x)
    <2>1. PICK next \in {"check", "errorCheck"} : TaskStep(e, a, x, next)
      BY <1>2 DEF CallTarget
    <2>2. next \in TaskPc \ {"none", "waiting", "lost", "lastCheck"}
      BY DEF TaskPc, BusyTaskPc
    <2>. QED BY <1>2, <2>1, <2>2, TaskStepEffects DEF CallTarget
  <1>3. CASE CheckTask(e, a, x)
    BY <1>3, EnsureNotCanceledEffects DEF CheckTask
  <1>4. CASE SaveResultSelect(e, a, x)
    <2>1. PICK insert \in {<<"saveSelect", "saveInsert">>,
                           <<"errorSelect", "errorInsert">>} :
             /\ task[e][a][x] = insert[1]
             /\ IF jobStatus[e] \in {"cancel_requested", "canceled"}
                THEN RaiseCanceled(e, a, x)
                ELSE TaskStep(e, a, x, insert[2])
      BY <1>4 DEF SaveResultSelect
    <2>2. CASE jobStatus[e] \in {"cancel_requested", "canceled"}
      BY <2>1, <2>2, EndWithEffects DEF RaiseCanceled, budget
    <2>3. CASE jobStatus[e] \notin {"cancel_requested", "canceled"}
      <3>1. insert[2] \in TaskPc \ {"none", "waiting", "lost", "lastCheck"}
        BY DEF TaskPc, BusyTaskPc
      <3>. QED BY <2>1, <2>3, <3>1, TaskStepEffects
    <2>. QED BY <2>2, <2>3
  <1>5. CASE SaveResultInsert(e, a, x)
    BY <1>5, SaveResultInsertEffects
  <1>6. CASE SaveResultOfDeleted(e, a, x)
    BY <1>6, TaskExceptionEffects DEF SaveResultOfDeleted, budget
  <1>7. CASE TaskFault(e, a, x)
    BY <1>7, TaskExceptionEffects DEF TaskFault
  <1>. QED BY <1>1, <1>2, <1>3, <1>4, <1>5, <1>6, <1>7 DEF ExampleStep

-----------------------------------------------------------------------------
(* What the steps of a run do to the rows and to the run.                  *)

\* A run changes its own place, the rows of its experiment and its tasks.
RunEffects(e, a) ==
  /\ UNCHANGED <<attempts, results, baseline, handlers, runWorker, crashes>>
  /\ expStatus' \in [Experiments -> ExpStatus]
  /\ jobStatus' \in [Experiments -> JobStatus]
  /\ runPc' \in RunPcType
  /\ task' \in TaskType
  /\ summary' \in [Experiments -> SUBSET SUBSET Examples]
  /\ UNCHANGED faults \/ Fault
  /\ \A f \in Experiments :
        /\ expStatus[f] \in {"none", "deleted"} <=>
              expStatus'[f] \in {"none", "deleted"}
        /\ expStatus[f] = "none" <=> expStatus'[f] = "none"
        /\ f # e => jobStatus'[f] = jobStatus[f]
  /\ \A f \in Experiments, b \in Attempts :
        f # e \/ b # a => runPc'[f][b] = runPc[f][b]

\* Where a run can go, and what becomes of its job on the way.
RunTransition(e, a) ==
  LET pc == runPc[e][a]
      npc == runPc'[e][a] IN
  /\ pc \in LivePc
  /\ npc \notin {"none", "setRunning"}
  /\ npc \in ActivePc => pc \in ActivePc
  /\ npc = "requeueJob" => attempts[e] < MaxAttempts
  /\ npc = "failJob" => ~(attempts[e] < MaxAttempts)
  /\ npc = "completeExp" => jobStatus'[e] \in {"completed", "none"}
  /\ pc # "completeExp" /\ pc \in ActivePc /\ npc \notin ActivePc =>
        jobStatus'[e] # "running"
  /\ \/ jobStatus' = jobStatus
     \/ /\ pc \in ActivePc /\ jobStatus[e] # "none"
        /\ \/ npc \in {"completeExp", "over"} /\ jobStatus'[e] = "completed"
           \/ /\ pc = "requeueJob" /\ npc = "requeueExp"
              /\ jobStatus'[e] = "pending"
           \/ /\ pc = "failJob" /\ npc = "failExp"
              /\ jobStatus'[e] = "failed"

\* What a run does to its tasks and to the summary.
RunTasks(e, a) ==
  \/ UNCHANGED <<task, summary>>
  \/ /\ runPc[e][a] = "setup" /\ UNCHANGED summary
     /\ \A f \in Experiments, b \in Attempts, y \in Examples :
           IF f = e /\ b = a THEN task'[f][b][y] \in {"waiting", "none"}
                            ELSE task'[f][b][y] = task[f][b][y]
  \/ /\ UNCHANGED task /\ HasExp(e)
     /\ \A f \in Experiments :
           summary'[f] = IF f = e THEN {{x \in Examples : task[e][a][x] = "done"}}
                                  ELSE summary[f]

\* The steps that change nothing but the run's place and its experiment row.
LEMMA PlainRunStep ==
  ASSUME TypeOK, NEW e \in Experiments, NEW a \in Attempts,
         NEW s \in JobStatus \ {"none"},
         NEW pc \in RunPc \ {"none", "setRunning", "completeExp"},
         GoTo(e, a, pc), SetExp(e, s) \/ UNCHANGED expStatus,
         UNCHANGED <<jobStatus, attempts, results, summary, baseline, handlers,
                     runWorker, task, crashes>>,
         UNCHANGED faults \/ Fault,
         runPc[e][a] \in LivePc,
         pc \in ActivePc => runPc[e][a] \in ActivePc,
         \/ pc \in ActivePc \/ runPc[e][a] \notin ActivePc
         \/ runPc[e][a] = "completeExp" \/ ~HasJob(e),
         pc = "requeueJob" => attempts[e] < MaxAttempts,
         pc = "failJob" => ~(attempts[e] < MaxAttempts)
  PROVE  RunEffects(e, a) /\ RunTransition(e, a) /\ RunTasks(e, a)
  <1>1. /\ runPc' \in RunPcType
        /\ \A f \in Experiments, b \in Attempts :
              runPc'[f][b] = IF f = e /\ b = a THEN pc ELSE runPc[f][b]
    BY GoToUpdates DEF TypeOK, RunPcType
  <1>2. /\ expStatus' \in [Experiments -> ExpStatus]
        /\ \A f \in Experiments :
              \/ expStatus'[f] = expStatus[f]
              \/ /\ expStatus'[f] = s
                 /\ expStatus[f] \notin {"none", "deleted"}
    BY SetExpUpdates DEF TypeOK, HasExp
  <1>3. s \notin {"none", "deleted"}
    BY DEF JobStatus
  <1>4. RunEffects(e, a)
    BY <1>1, <1>2, <1>3 DEF RunEffects, TypeOK, TaskType
  <1>5. RunTransition(e, a)
    BY <1>1 DEF RunTransition, HasJob
  <1>. QED BY <1>4, <1>5 DEF RunTasks

\* CompleteJob and FailJob: the job row changes with the run's place.
LEMMA JobRunStep ==
  ASSUME TypeOK, NEW e \in Experiments, NEW a \in Attempts,
         NEW s \in {"completed", "pending", "failed"},
         NEW pc \in {"completeExp", "over", "requeueExp", "failExp"},
         GoTo(e, a, pc), SetJob(e, s),
         UNCHANGED <<expStatus, attempts, results, summary, baseline, handlers,
                     runWorker, task, budget>>,
         runPc[e][a] \in ActivePc,
         \/ pc \in {"completeExp", "over"} /\ s = "completed"
         \/ runPc[e][a] = "requeueJob" /\ pc = "requeueExp" /\ s = "pending"
         \/ runPc[e][a] = "failJob" /\ pc = "failExp" /\ s = "failed"
  PROVE  RunEffects(e, a) /\ RunTransition(e, a) /\ RunTasks(e, a)
  <1>1. pc \in RunPc /\ s \in JobStatus \ {"none"}
    BY DEF RunPc, ActivePc, JobStatus
  <1>2. /\ runPc' \in RunPcType
        /\ \A f \in Experiments, b \in Attempts :
              runPc'[f][b] = IF f = e /\ b = a THEN pc ELSE runPc[f][b]
    BY <1>1, GoToUpdates DEF TypeOK, RunPcType
  <1>3. /\ jobStatus' \in [Experiments -> JobStatus]
        /\ \A f \in Experiments :
              jobStatus'[f] = IF f = e /\ HasJob(e) THEN s ELSE jobStatus[f]
    BY <1>1, SetJobUpdates DEF TypeOK
  <1>4. RunEffects(e, a)
    BY <1>2, <1>3 DEF RunEffects, TypeOK, TaskType, budget
  <1>5. RunTransition(e, a)
    <2>1. \/ jobStatus' = jobStatus /\ jobStatus[e] = "none"
          \/ jobStatus[e] # "none" /\ jobStatus'[e] = s
      BY <1>3 DEF SetJob, HasJob
    <2>. QED BY <1>2, <2>1 DEF RunTransition, LivePc
  <1>. QED BY <1>4, <1>5 DEF RunTasks

\* Every step of a run, with or without a failing statement.
LEMMA RunStepEffects ==
  ASSUME TypeOK, NEW e \in Experiments, NEW a \in Attempts,
         RunStep(e, a) \/ RunFault(e, a)
  PROVE  RunEffects(e, a) /\ RunTransition(e, a) /\ RunTasks(e, a)
  <1>. USE DEF LivePc, ActivePc, RunPc, JobStatus, budget
  <1>1. CASE SetRunning(e, a)
    BY <1>1, PlainRunStep DEF SetRunning
  <1>2. CASE Setup(e, a)
    <2>1. PICK fetched \in SUBSET Examples :
             task' = [task EXCEPT ![e][a] =
                        [x \in Examples |->
                           IF x \in fetched THEN "waiting" ELSE "none"]]
      BY <1>2 DEF Setup
    <2>2. "waiting" \in TaskPc /\ "none" \in TaskPc
      BY DEF TaskPc
    <2>3. /\ task' \in TaskType
          /\ \A f \in Experiments, b \in Attempts, y \in Examples :
                task'[f][b][y] = IF f = e /\ b = a
                                 THEN IF y \in fetched THEN "waiting" ELSE "none"
                                 ELSE task[f][b][y]
      BY <2>1, <2>2 DEF TypeOK, TaskType
    <2>4. /\ runPc' \in RunPcType
          /\ \A f \in Experiments, b \in Attempts :
                runPc'[f][b] = IF f = e /\ b = a THEN "gather" ELSE runPc[f][b]
      BY <1>2, GoToUpdates DEF Setup, TypeOK, RunPcType
    <2>5. RunEffects(e, a)
      BY <1>2, <2>3, <2>4 DEF Setup, RunEffects, TypeOK, rows
    <2>6. RunTransition(e, a)
      BY <1>2, <2>4 DEF Setup, RunTransition, rows
    <2>7. RunTasks(e, a)
      BY <1>2, <2>3 DEF Setup, RunTasks, rows
    <2>. QED BY <2>5, <2>6, <2>7
  <1>3. CASE SetupFails(e, a)
    BY <1>3, PlainRunStep DEF SetupFails, rows
  <1>4. CASE GatherReturns(e, a)
    BY <1>4, PlainRunStep DEF GatherReturns, rows
  <1>5. CASE UpdateSummary(e, a)
    <2>1. /\ runPc' \in RunPcType
          /\ \A f \in Experiments, b \in Attempts :
                runPc'[f][b] = IF f = e /\ b = a THEN "setCompleted"
                                                ELSE runPc[f][b]
      BY <1>5, GoToUpdates DEF UpdateSummary, TypeOK, RunPcType
    <2>2. RunEffects(e, a)
      BY <1>5, <2>1 DEF UpdateSummary, RunEffects, TypeOK, TaskType
    <2>3. RunTransition(e, a)
      BY <1>5, <2>1 DEF UpdateSummary, RunTransition
    <2>4. RunTasks(e, a)
      BY <1>5 DEF UpdateSummary, RunTasks, TypeOK
    <2>. QED BY <2>2, <2>3, <2>4
  <1>6. CASE SetCompleted(e, a)
    BY <1>6, PlainRunStep DEF SetCompleted
  <1>7. CASE SetCanceled(e, a)
    BY <1>7, PlainRunStep DEF SetCanceled
  <1>8. CASE CompleteSelect(e, a)
    <2>1. PICK pc \in {"over", "completeCanceledJob", "completeJob"} :
             GoTo(e, a, pc) /\ (pc = "over" => ~HasJob(e))
      BY <1>8 DEF CompleteSelect
    <2>. QED BY <1>8, <2>1, PlainRunStep DEF CompleteSelect, rows
  <1>9. CASE CompleteJob(e, a)
    BY <1>9, JobRunStep DEF CompleteJob
  <1>10. CASE CompleteExp(e, a)
    BY <1>10, PlainRunStep DEF CompleteExp
  <1>11. CASE FailSelect(e, a)
    <2>1. PICK pc \in {"over", "requeueJob", "failJob"} :
             /\ GoTo(e, a, pc)
             /\ pc = "requeueJob" => attempts[e] < MaxAttempts
             /\ pc = "failJob" => ~(attempts[e] < MaxAttempts)
             /\ pc = "over" => ~HasJob(e)
      BY <1>11 DEF FailSelect
    <2>. QED BY <1>11, <2>1, PlainRunStep DEF FailSelect, rows
  <1>12. CASE FailJob(e, a)
    BY <1>12, JobRunStep DEF FailJob
  <1>13. CASE FailExp(e, a)
    BY <1>13, PlainRunStep DEF FailExp
  <1>14. CASE RunFault(e, a)
    BY <1>14, PlainRunStep DEF RunFault, rows
  <1>. QED BY <1>1, <1>2, <1>3, <1>4, <1>5, <1>6, <1>7, <1>8, <1>9, <1>10,
              <1>11, <1>12, <1>13, <1>14 DEF RunStep

-----------------------------------------------------------------------------
(* What claims and crashes do.                                             *)

LEMMA ClaimNextJobEffects ==
  ASSUME TypeOK, NEW w \in Workers, NEW e \in Experiments,
         ClaimNextJob(w, e), attempts[e] < MaxAttempts
  PROVE  /\ attempts[e] + 1 \in Attempts
         /\ jobStatus' \in [Experiments -> JobStatus]
         /\ attempts' \in [Experiments -> 0..MaxAttempts]
         /\ runPc' \in RunPcType
         /\ runWorker' \in [Experiments -> [Attempts -> Workers \cup {NoWorker}]]
         /\ \A f \in Experiments :
               /\ jobStatus'[f] = IF f = e THEN "running" ELSE jobStatus[f]
               /\ attempts'[f] = IF f = e THEN attempts[e] + 1 ELSE attempts[f]
         /\ \A f \in Experiments, b \in Attempts :
               runPc'[f][b] = IF f = e /\ b = attempts[e] + 1
                              THEN "setRunning" ELSE runPc[f][b]
  <1>. DEFINE a == attempts[e] + 1
  <1>1. a \in Attempts /\ a \in 0..MaxAttempts
    BY ConstantsAssumption DEF TypeOK, Attempts
  <1>2. "setRunning" \in RunPc /\ "running" \in JobStatus
    BY DEF RunPc, ActivePc, JobStatus
  <1>3. /\ runPc' \in RunPcType
        /\ \A f \in Experiments, b \in Attempts :
              runPc'[f][b] = IF f = e /\ b = a THEN "setRunning"
                                               ELSE runPc[f][b]
    BY <1>1, <1>2, GoToUpdates DEF ClaimNextJob, TypeOK, RunPcType
  <1>4. runWorker' \in [Experiments -> [Attempts -> Workers \cup {NoWorker}]]
    BY <1>1 DEF ClaimNextJob, TypeOK
  <1>. HIDE DEF a
  <1>5. attempts' = [attempts EXCEPT ![e] = a]
        /\ jobStatus' = [jobStatus EXCEPT ![e] = "running"]
    BY DEF ClaimNextJob, a
  <1>6. /\ attempts' \in [Experiments -> 0..MaxAttempts]
        /\ jobStatus' \in [Experiments -> JobStatus]
        /\ \A f \in Experiments :
               /\ jobStatus'[f] = IF f = e THEN "running" ELSE jobStatus[f]
               /\ attempts'[f] = IF f = e THEN a ELSE attempts[f]
    BY <1>1, <1>2, <1>5 DEF TypeOK
  <1>. QED BY <1>1, <1>3, <1>4, <1>6 DEF a

LEMMA CrashEffects ==
  ASSUME TypeOK, NEW w \in Workers, Crash(w)
  PROVE  /\ runPc' \in RunPcType
         /\ task' \in TaskType
         /\ crashes' \in 0..MaxCrashes
         /\ UNCHANGED <<rows, handlers, runWorker, faults>>
         /\ \A f \in Experiments, b \in Attempts :
               \/ runPc'[f][b] = runPc[f][b]
               \/ runPc[f][b] \in LivePc /\ runPc'[f][b] = "crashed"
         /\ \A f \in Experiments, b \in Attempts, y \in Examples :
               \/ task'[f][b][y] = task[f][b][y]
               \/ task[f][b][y] # "none" /\ task'[f][b][y] = "lost"
  <1>1. "crashed" \in RunPc /\ "lost" \in TaskPc
    BY DEF RunPc, TaskPc
  <1>2. crashes' \in 0..MaxCrashes
    BY ConstantsAssumption DEF Crash, TypeOK
  <1>3. /\ runPc' \in RunPcType
        /\ \A f \in Experiments, b \in Attempts :
               \/ runPc'[f][b] = runPc[f][b]
               \/ runPc[f][b] \in LivePc /\ runPc'[f][b] = "crashed"
    BY <1>1 DEF Crash, TypeOK, RunPcType
  <1>4. /\ task' \in TaskType
        /\ \A f \in Experiments, b \in Attempts, y \in Examples :
               \/ task'[f][b][y] = task[f][b][y]
               \/ task[f][b][y] # "none" /\ task'[f][b][y] = "lost"
    BY <1>1 DEF Crash, TypeOK, TaskType, BusyTaskPc
  <1>. QED BY <1>2, <1>3, <1>4 DEF Crash

-----------------------------------------------------------------------------
(* The inductive invariant of the queue.                                   *)

\* fail_job has counted before it requeues or fails a job.
CountedBeforeRequeue ==
  \A e \in Experiments, a \in Attempts :
     /\ runPc[e][a] = "requeueJob" => attempts[e] < MaxAttempts
     /\ runPc[e][a] = "failJob" => ~(attempts[e] < MaxAttempts)

\* Nothing has been done for an experiment whose job is not queued yet.
UnqueuedIsUntouched ==
  \A e \in Experiments :
     e \in creating \/ expStatus[e] = "none" =>
        /\ jobStatus[e] = "none" /\ attempts[e] = 0
        /\ \A a \in Attempts : runPc[e][a] = "none"

QueueInv == /\ TypeOK
            /\ PendingJobIsFree
            /\ OneRunPerJob
            /\ CountedBeforeRequeue
            /\ UnqueuedIsUntouched

LEMMA InitQueueInv == Init => QueueInv
  <1>. SUFFICES ASSUME Init PROVE QueueInv
    OBVIOUS
  <1>1. TypeOK
    BY ConstantsAssumption
    DEF Init, TypeOK, ExpStatus, JobStatus, ResultStatus, RunPc, TaskPc
  <1>2. PendingJobIsFree /\ OneRunPerJob
    BY DEF Init, PendingJobIsFree, OneRunPerJob, Working, ActivePc
  <1>3. CountedBeforeRequeue /\ UnqueuedIsUntouched
    BY DEF Init, CountedBeforeRequeue, UnqueuedIsUntouched
  <1>. QED BY <1>1, <1>2, <1>3 DEF QueueInv

LEMMA HandlerQueueInv ==
  ASSUME QueueInv, NEW e \in Experiments, Handler(e)
  PROVE  QueueInv'
  <1>. USE DEF rows, handlers, runs, budget
  <1>0. TypeOK /\ "pending" \in JobStatus /\ "cancel_requested" \in JobStatus
        /\ "none" \in JobStatus /\ "deleted" \in ExpStatus /\ 0 < MaxAttempts
        /\ JobStatus \subseteq ExpStatus /\ "none" \in ResultStatus
    BY ConstantsAssumption DEF QueueInv, JobStatus, ExpStatus, ResultStatus
  <1>. DEFINE Parts == /\ PendingJobIsFree /\ OneRunPerJob
                       /\ CountedBeforeRequeue /\ UnqueuedIsUntouched
  <1>1. CASE CreateExperiment(e)
    <2>1. TypeOK'
      BY <1>0, <1>1 DEF CreateExperiment, TypeOK
    <2>2. Parts'
      BY <1>1 DEF CreateExperiment, QueueInv, TypeOK, PendingJobIsFree,
        OneRunPerJob, CountedBeforeRequeue, UnqueuedIsUntouched, Working
    <2>. QED BY <2>1, <2>2 DEF QueueInv
  <1>2. CASE EnqueueExperimentJob(e)
    <2>1. TypeOK'
      BY <1>0, <1>2 DEF EnqueueExperimentJob, TypeOK
    <2>2. attempts[e] < MaxAttempts /\ Working(e) = {}
      BY <1>0, <1>2 DEF EnqueueExperimentJob, QueueInv, UnqueuedIsUntouched,
        Working, ActivePc
    <2>3. PendingJobIsFree'
      BY <1>0, <1>2, <2>2 DEF EnqueueExperimentJob, QueueInv, TypeOK,
        PendingJobIsFree, Working
    <2>4. (OneRunPerJob /\ CountedBeforeRequeue)'
      BY <1>2 DEF EnqueueExperimentJob, QueueInv, OneRunPerJob,
        CountedBeforeRequeue, Working
    <2>5. UnqueuedIsUntouched'
      BY <1>0, <1>2 DEF EnqueueExperimentJob, QueueInv, TypeOK, HasExp,
        UnqueuedIsUntouched
    <2>. QED BY <2>1, <2>3, <2>4, <2>5 DEF QueueInv
  <1>3. CASE RequestCancelJob(e)
    <2>1. TypeOK'
      BY <1>0, <1>3 DEF RequestCancelJob, TypeOK
    <2>2. Parts'
      BY <1>0, <1>3 DEF RequestCancelJob, QueueInv, TypeOK, PendingJobIsFree,
        OneRunPerJob, CountedBeforeRequeue, UnqueuedIsUntouched, Working
    <2>. QED BY <2>1, <2>2 DEF QueueInv
  <1>4. CASE RequestCancelExp(e)
    <2>1. TypeOK'
      BY <1>0, <1>4 DEF RequestCancelExp, TypeOK
    <2>2. Parts'
      BY <1>0, <1>4 DEF RequestCancelExp, QueueInv, TypeOK, PendingJobIsFree,
        OneRunPerJob, CountedBeforeRequeue, UnqueuedIsUntouched, Working
    <2>. QED BY <2>1, <2>2 DEF QueueInv
  <1>5. CASE DeleteExperiment(e)
    <2>1. TypeOK'
      BY <1>0, <1>5 DEF DeleteExperiment, TypeOK
    <2>2. Parts'
      BY <1>0, <1>5 DEF DeleteExperiment, QueueInv, TypeOK, PendingJobIsFree,
        OneRunPerJob, CountedBeforeRequeue, UnqueuedIsUntouched, Working
    <2>. QED BY <2>1, <2>2 DEF QueueInv
  <1>6. CASE CheckBaseline(e) \/ SetBaseline(e)
    <2>1. TypeOK'
      BY <1>0, <1>6 DEF CheckBaseline, SetBaseline, TypeOK
    <2>2. Parts'
      BY <1>6 DEF CheckBaseline, SetBaseline, QueueInv, PendingJobIsFree,
        OneRunPerJob, CountedBeforeRequeue, UnqueuedIsUntouched, Working
    <2>. QED BY <2>1, <2>2 DEF QueueInv
  <1>. QED BY <1>1, <1>2, <1>3, <1>4, <1>5, <1>6 DEF Handler

LEMMA ClaimQueueInv ==
  ASSUME QueueInv, NEW w \in Workers, Claim(w)
  PROVE  QueueInv'
  <1>1. PICK e \in Experiments : ClaimNextJob(w, e) \/ ClaimCanceledJob(w, e)
    BY DEF Claim
  <1>2. CASE ClaimNextJob(w, e)
    <2>1. attempts[e] < MaxAttempts /\ Working(e) = {} /\ TypeOK
      BY <1>2 DEF ClaimNextJob, QueueInv, PendingJobIsFree
    <2>2. /\ attempts[e] + 1 \in Attempts
          /\ jobStatus' \in [Experiments -> JobStatus]
          /\ attempts' \in [Experiments -> 0..MaxAttempts]
          /\ runPc' \in RunPcType
          /\ runWorker' \in [Experiments -> [Attempts -> Workers \cup {NoWorker}]]
          /\ \A f \in Experiments :
                /\ jobStatus'[f] = IF f = e THEN "running" ELSE jobStatus[f]
                /\ attempts'[f] = IF f = e THEN attempts[e] + 1 ELSE attempts[f]
          /\ \A f \in Experiments, b \in Attempts :
                runPc'[f][b] = IF f = e /\ b = attempts[e] + 1
                               THEN "setRunning" ELSE runPc[f][b]
      BY <1>2, <2>1, ClaimNextJobEffects
    <2>3. UNCHANGED <<expStatus, results, summary, baseline, handlers, task,
                      budget>>
      BY <1>2 DEF ClaimNextJob
    <2>4. TypeOK'
      BY <2>1, <2>2, <2>3 DEF TypeOK, RunPcType, handlers, budget
    <2>5. PendingJobIsFree'
      BY <2>2 DEF QueueInv, PendingJobIsFree, Working
    <2>6. OneRunPerJob'
      BY <2>1, <2>2 DEF QueueInv, OneRunPerJob, Working
    <2>7. CountedBeforeRequeue'
      BY <2>1, <2>2 DEF QueueInv, CountedBeforeRequeue, Working, ActivePc
    <2>8. UnqueuedIsUntouched'
      BY <1>2, <2>2, <2>3 DEF ClaimNextJob, QueueInv, UnqueuedIsUntouched,
        handlers
    <2>. QED BY <2>4, <2>5, <2>6, <2>7, <2>8 DEF QueueInv
  <1>3. CASE ClaimCanceledJob(w, e)
    <2>1. "canceled" \in JobStatus \ {"none"}
      BY DEF JobStatus
    <2>2. /\ expStatus' \in [Experiments -> ExpStatus]
          /\ \A f \in Experiments :
               expStatus'[f] = "none" => expStatus[f] = "none"
      BY <1>3, <2>1, SetExpUpdates DEF ClaimCanceledJob, QueueInv, TypeOK
    <2>3. TypeOK'
      BY <1>3, <2>1, <2>2 DEF ClaimCanceledJob, QueueInv, TypeOK, handlers, runs,
        budget
    <2>4. (PendingJobIsFree /\ OneRunPerJob /\ CountedBeforeRequeue)'
      BY <1>3 DEF ClaimCanceledJob, QueueInv, TypeOK, PendingJobIsFree,
        OneRunPerJob, CountedBeforeRequeue, Working, runs
    <2>5. UnqueuedIsUntouched'
      BY <1>3, <2>2 DEF ClaimCanceledJob, QueueInv, TypeOK,
        UnqueuedIsUntouched, handlers, runs
    <2>. QED BY <2>3, <2>4, <2>5 DEF QueueInv
  <1>. QED BY <1>1, <1>2, <1>3

\* Every step of a run, with or without a failing statement. Only the run of
\* the latest attempt can requeue the job, and it stops working on it then.
LEMMA RunQueueInv ==
  ASSUME QueueInv, NEW e \in Experiments, NEW a \in Attempts,
         RunStep(e, a) \/ RunFault(e, a)
  PROVE  QueueInv'
  <1>1. RunEffects(e, a) /\ RunTransition(e, a)
    BY RunStepEffects DEF QueueInv
  <1>2. faults' \in 0..MaxFaults
    BY <1>1, FaultBounded DEF RunEffects, QueueInv
  <1>3. TypeOK'
    BY <1>1, <1>2 DEF RunEffects, QueueInv, TypeOK, RunPcType, TaskType,
      handlers
  <1>4. \A f \in Experiments : Working(f)' \subseteq Working(f)
    BY <1>1 DEF RunEffects, RunTransition, Working
  <1>5. PendingJobIsFree'
    <2>1. ASSUME NEW f \in Experiments, jobStatus'[f] = "pending"
          PROVE  attempts'[f] < MaxAttempts /\ Working(f)' = {}
      <3>1. CASE jobStatus[f] = "pending"
        BY <1>1, <1>4, <3>1 DEF QueueInv, PendingJobIsFree, RunEffects
      <3>2. CASE jobStatus[f] # "pending"
        <4>1. /\ f = e /\ runPc[e][a] = "requeueJob"
              /\ runPc'[e][a] = "requeueExp"
          BY <1>1, <2>1, <3>2 DEF RunEffects, RunTransition
        <4>2. attempts'[e] < MaxAttempts
          BY <1>1, <4>1 DEF QueueInv, CountedBeforeRequeue, RunEffects
        <4>3. a = attempts[e] /\ a \notin Working(e)'
          BY <4>1 DEF QueueInv, OneRunPerJob, Working, ActivePc
        <4>4. Working(e)' = {}
          BY <1>4, <4>3 DEF QueueInv, OneRunPerJob, Working
        <4>. QED BY <4>1, <4>2, <4>4
      <3>. QED BY <3>1, <3>2
    <2>. QED BY <2>1 DEF PendingJobIsFree
  <1>6. OneRunPerJob'
    BY <1>1, <1>4 DEF QueueInv, OneRunPerJob, RunEffects
  <1>7. CountedBeforeRequeue'
    BY <1>1 DEF QueueInv, CountedBeforeRequeue, RunEffects, RunTransition
  <1>8. UnqueuedIsUntouched'
    BY <1>1 DEF QueueInv, UnqueuedIsUntouched, RunEffects, RunTransition,
      LivePc, ActivePc, handlers
  <1>. QED BY <1>3, <1>5, <1>6, <1>7, <1>8 DEF QueueInv

LEMMA ExampleQueueInv ==
  ASSUME QueueInv, NEW e \in Experiments, NEW a \in Attempts,
         NEW x \in Examples, ExampleStep(e, a, x) \/ TaskFault(e, a, x)
  PROVE  QueueInv'
  <1>1. TaskEffects(e, a, x) /\ TaskTransition(e, a, x)
    BY ExampleStepEffects DEF QueueInv
  <1>2. faults' \in 0..MaxFaults
    BY <1>1, FaultBounded DEF TaskEffects, QueueInv
  <1>3. TypeOK'
    BY <1>1, <1>2 DEF TaskEffects, TaskTransition, QueueInv, TypeOK, RunPcType,
      TaskType, handlers
  <1>4. \A f \in Experiments : Working(f)' = Working(f)
    BY <1>1 DEF TaskEffects, Working, ActivePc
  <1>5. (PendingJobIsFree /\ OneRunPerJob)'
    BY <1>1, <1>4 DEF QueueInv, PendingJobIsFree, OneRunPerJob, TaskEffects
  <1>6. (CountedBeforeRequeue /\ UnqueuedIsUntouched)'
    BY <1>1 DEF QueueInv, CountedBeforeRequeue, UnqueuedIsUntouched,
      TaskEffects, handlers
  <1>. QED BY <1>3, <1>5, <1>6 DEF QueueInv

LEMMA CrashQueueInv ==
  ASSUME QueueInv,
         \/ \E w \in Workers : Crash(w)
         \/ \E e \in Experiments : HandlerDies(e)
  PROVE  QueueInv'
  <1>1. CASE \E w \in Workers : Crash(w)
    <2>1. PICK w \in Workers : Crash(w)
      BY <1>1
    <2>2. /\ runPc' \in RunPcType
          /\ task' \in TaskType
          /\ crashes' \in 0..MaxCrashes
          /\ UNCHANGED <<rows, handlers, runWorker, faults>>
          /\ \A f \in Experiments, b \in Attempts :
               \/ runPc'[f][b] = runPc[f][b]
               \/ runPc[f][b] \in LivePc /\ runPc'[f][b] = "crashed"
      BY <2>1, CrashEffects DEF QueueInv
    <2>3. TypeOK'
      BY <2>2 DEF QueueInv, TypeOK, RunPcType, TaskType, rows, handlers
    <2>4. \A f \in Experiments : Working(f)' \subseteq Working(f)
      BY <2>2 DEF Working, ActivePc
    <2>5. (PendingJobIsFree /\ OneRunPerJob)'
      BY <2>2, <2>4 DEF QueueInv, PendingJobIsFree, OneRunPerJob, rows
    <2>6. (CountedBeforeRequeue /\ UnqueuedIsUntouched)'
      BY <2>2 DEF QueueInv, CountedBeforeRequeue, UnqueuedIsUntouched,
        LivePc, ActivePc, rows, handlers
    <2>. QED BY <2>3, <2>5, <2>6 DEF QueueInv
  <1>2. CASE \E e \in Experiments : HandlerDies(e)
    <2>1. TypeOK'
      BY <1>2, ConstantsAssumption DEF HandlerDies, QueueInv, TypeOK, rows, runs
    <2>2. (PendingJobIsFree /\ OneRunPerJob /\ CountedBeforeRequeue)'
      BY <1>2 DEF HandlerDies, QueueInv, PendingJobIsFree, OneRunPerJob,
        CountedBeforeRequeue, Working, rows, runs
    <2>3. UnqueuedIsUntouched'
      BY <1>2 DEF HandlerDies, QueueInv, UnqueuedIsUntouched, rows, runs
    <2>. QED BY <2>1, <2>2, <2>3 DEF QueueInv
  <1>. QED BY <1>1, <1>2

LEMMA QueueInvStep == QueueInv /\ [Next]_vars => QueueInv'
  <1>. SUFFICES ASSUME QueueInv, [Next]_vars PROVE QueueInv'
    OBVIOUS
  <1>1. CASE UNCHANGED vars
    BY <1>1 DEF QueueInv, TypeOK, PendingJobIsFree, OneRunPerJob,
      CountedBeforeRequeue, UnqueuedIsUntouched, Working, vars, rows, handlers,
      runs, budget
  <1>2. CASE Next
    BY <1>2, HandlerQueueInv, ClaimQueueInv, RunQueueInv, ExampleQueueInv,
      CrashQueueInv DEF Next
  <1>. QED BY <1>1, <1>2

LEMMA QueueInvHolds == Spec => []QueueInv
  BY InitQueueInv, QueueInvStep, PTL DEF Spec

-----------------------------------------------------------------------------
(* The inductive invariant of the results.                                 *)

\* A task that has written its result finds it there, unless the experiment
\* has been deleted; a run that has not started has no tasks.
WrittenIsThere ==
  \A e \in Experiments, a \in Attempts, x \in Examples :
     /\ task[e][a][x] \in {"lastCheck", "done"} /\ HasExp(e) =>
           results[e][x] # "none"
     /\ runPc[e][a] = "none" => task[e][a][x] = "none"

ResultInv == QueueInv /\ WrittenIsThere /\ SummaryCoversResults

LEMMA InitResultInv == Init => ResultInv
  <1>1. Init => WrittenIsThere /\ SummaryCoversResults
    BY DEF Init, WrittenIsThere, SummaryCoversResults
  <1>. QED BY <1>1, InitQueueInv DEF ResultInv

LEMMA HandlerResultInv ==
  ASSUME ResultInv, NEW e \in Experiments, Handler(e)
  PROVE  (WrittenIsThere /\ SummaryCoversResults)'
  <1>. USE DEF rows, handlers, runs, budget
  <1>0. TypeOK
    BY DEF ResultInv, QueueInv
  <1>1. CASE CreateExperiment(e)
    <2>1. \A a \in Attempts, x \in Examples : task[e][a][x] = "none"
      BY <1>1 DEF CreateExperiment, ResultInv, QueueInv, WrittenIsThere,
        UnqueuedIsUntouched
    <2>2. WrittenIsThere'
      BY <1>0, <1>1, <2>1 DEF CreateExperiment, ResultInv, WrittenIsThere,
        HasExp, TypeOK
    <2>3. SummaryCoversResults'
      BY <1>1 DEF CreateExperiment, ResultInv, SummaryCoversResults
    <2>. QED BY <2>2, <2>3
  <1>2. CASE DeleteExperiment(e)
    <2>1. WrittenIsThere'
      BY <1>0, <1>2 DEF DeleteExperiment, ResultInv, WrittenIsThere, HasExp,
        TypeOK
    <2>2. SummaryCoversResults'
      BY <1>0, <1>2 DEF DeleteExperiment, ResultInv, SummaryCoversResults,
        TypeOK
    <2>. QED BY <2>1, <2>2
  <1>3. CASE \/ EnqueueExperimentJob(e) \/ RequestCancelJob(e)
             \/ CheckBaseline(e) \/ SetBaseline(e)
    <2>1. WrittenIsThere'
      BY <1>3 DEF EnqueueExperimentJob, RequestCancelJob, CheckBaseline,
        SetBaseline, ResultInv, WrittenIsThere, HasExp
    <2>2. SummaryCoversResults'
      BY <1>3 DEF EnqueueExperimentJob, RequestCancelJob, CheckBaseline,
        SetBaseline, ResultInv, SummaryCoversResults
    <2>. QED BY <2>1, <2>2
  <1>4. CASE RequestCancelExp(e)
    <2>1. \A f \in Experiments : HasExp(f)' => HasExp(f)
      BY <1>0, <1>4 DEF RequestCancelExp, HasExp, TypeOK
    <2>2. WrittenIsThere'
      BY <1>4, <2>1 DEF RequestCancelExp, ResultInv, WrittenIsThere
    <2>3. SummaryCoversResults'
      BY <1>4 DEF RequestCancelExp, ResultInv, SummaryCoversResults
    <2>. QED BY <2>2, <2>3
  <1>. QED BY <1>1, <1>2, <1>3, <1>4 DEF Handler

LEMMA ClaimResultInv ==
  ASSUME ResultInv, NEW w \in Workers, Claim(w)
  PROVE  (WrittenIsThere /\ SummaryCoversResults)'
  <1>1. PICK e \in Experiments : ClaimNextJob(w, e) \/ ClaimCanceledJob(w, e)
    BY DEF Claim
  <1>2. CASE ClaimNextJob(w, e)
    <2>1. attempts[e] < MaxAttempts /\ TypeOK
      BY <1>2 DEF ClaimNextJob, ResultInv, QueueInv, PendingJobIsFree
    <2>2. \A f \in Experiments, b \in Attempts :
             runPc'[f][b] = "none" => runPc[f][b] = "none"
      BY <1>2, <2>1, ClaimNextJobEffects
    <2>. QED BY <1>2, <2>2 DEF ClaimNextJob, ResultInv, WrittenIsThere,
           SummaryCoversResults, HasExp
  <1>3. CASE ClaimCanceledJob(w, e)
    <2>1. \A f \in Experiments : HasExp(f)' => HasExp(f)
      BY <1>3 DEF ClaimCanceledJob, SetExp, HasExp, ResultInv, QueueInv, TypeOK
    <2>. QED BY <1>3, <2>1 DEF ClaimCanceledJob, ResultInv, WrittenIsThere,
           SummaryCoversResults, runs
  <1>. QED BY <1>1, <1>2, <1>3

LEMMA RunResultInv ==
  ASSUME ResultInv, NEW e \in Experiments, NEW a \in Attempts,
         RunStep(e, a) \/ RunFault(e, a)
  PROVE  (WrittenIsThere /\ SummaryCoversResults)'
  <1>1. RunEffects(e, a) /\ RunTransition(e, a) /\ RunTasks(e, a)
    BY RunStepEffects DEF ResultInv, QueueInv
  <1>2. /\ \A f \in Experiments : HasExp(f)' <=> HasExp(f)
        /\ \A f \in Experiments, b \in Attempts :
              runPc'[f][b] = "none" => runPc[f][b] = "none" /\ <<f, b>> # <<e, a>>
    BY <1>1 DEF RunEffects, RunTransition, HasExp
  <1>3. \A f \in Experiments, b \in Attempts, y \in Examples :
           \/ task'[f][b][y] = task[f][b][y]
           \/ <<f, b>> = <<e, a>> /\ task'[f][b][y] \in {"waiting", "none"}
    BY <1>1 DEF RunTasks
  <1>4. WrittenIsThere'
    BY <1>1, <1>2, <1>3 DEF RunEffects, ResultInv, WrittenIsThere
  <1>5. SummaryCoversResults'
    <2>1. CASE UNCHANGED summary
      BY <1>1, <2>1 DEF RunEffects, ResultInv, SummaryCoversResults
    <2>2. CASE /\ HasExp(e)
               /\ \A f \in Experiments :
                     summary'[f] = IF f = e
                        THEN {{x \in Examples : task[e][a][x] = "done"}}
                        ELSE summary[f]
      BY <1>1, <2>2 DEF RunEffects, ResultInv, SummaryCoversResults,
        WrittenIsThere
    <2>. QED BY <1>1, <2>1, <2>2 DEF RunTasks
  <1>. QED BY <1>4, <1>5

LEMMA ExampleResultInv ==
  ASSUME ResultInv, NEW e \in Experiments, NEW a \in Attempts,
         NEW x \in Examples, ExampleStep(e, a, x) \/ TaskFault(e, a, x)
  PROVE  (WrittenIsThere /\ SummaryCoversResults)'
  <1>1. TaskEffects(e, a, x) /\ TaskTransition(e, a, x)
    BY ExampleStepEffects DEF ResultInv, QueueInv
  <1>2. WrittenIsThere'
    <2>1. \A f \in Experiments, b \in Attempts :
             runPc'[f][b] = "none" => runPc[f][b] = "none"
      BY <1>1 DEF TaskEffects
    <2>2. ASSUME NEW f \in Experiments, NEW b \in Attempts, NEW y \in Examples
          PROVE  /\ task'[f][b][y] \in {"lastCheck", "done"} /\ HasExp(f)' =>
                       results'[f][y] # "none"
                 /\ runPc'[f][b] = "none" => task'[f][b][y] = "none"
      <3>1. CASE f = e /\ b = a /\ y = x
        BY <1>1, <2>1, <3>1 DEF TaskEffects, TaskTransition, ResultInv,
          WrittenIsThere, HasExp
      <3>2. CASE f # e \/ b # a \/ y # x
        BY <1>1, <2>1, <3>2 DEF TaskEffects, TaskTransition, ResultInv,
          WrittenIsThere, HasExp
      <3>. QED BY <3>1, <3>2
    <2>. QED BY <2>2 DEF WrittenIsThere, HasExp
  <1>3. SummaryCoversResults'
    BY <1>1 DEF TaskEffects, TaskTransition, ResultInv, QueueInv, TypeOK,
      SummaryCoversResults
  <1>. QED BY <1>2, <1>3

LEMMA CrashResultInv ==
  ASSUME ResultInv,
         \/ \E w \in Workers : Crash(w)
         \/ \E e \in Experiments : HandlerDies(e)
  PROVE  (WrittenIsThere /\ SummaryCoversResults)'
  <1>1. CASE \E w \in Workers : Crash(w)
    <2>1. PICK w \in Workers : Crash(w)
      BY <1>1
    <2>2. /\ UNCHANGED rows
          /\ \A f \in Experiments, b \in Attempts :
               \/ runPc'[f][b] = runPc[f][b]
               \/ runPc'[f][b] = "crashed"
          /\ \A f \in Experiments, b \in Attempts, y \in Examples :
               \/ task'[f][b][y] = task[f][b][y]
               \/ task[f][b][y] # "none" /\ task'[f][b][y] = "lost"
      BY <2>1, CrashEffects DEF ResultInv, QueueInv
    <2>. QED BY <2>2 DEF ResultInv, WrittenIsThere, SummaryCoversResults,
           HasExp, rows
  <1>2. CASE \E e \in Experiments : HandlerDies(e)
    BY <1>2 DEF HandlerDies, ResultInv, WrittenIsThere, SummaryCoversResults,
      HasExp, rows, runs
  <1>. QED BY <1>1, <1>2

LEMMA ResultInvStep == ResultInv /\ [Next]_vars => ResultInv'
  <1>. SUFFICES ASSUME ResultInv, [Next]_vars PROVE ResultInv'
    OBVIOUS
  <1>1. QueueInv'
    BY QueueInvStep DEF ResultInv
  <1>2. CASE UNCHANGED vars
    BY <1>1, <1>2 DEF ResultInv, WrittenIsThere, SummaryCoversResults, HasExp,
      vars, rows, runs
  <1>3. CASE Next
    BY <1>1, <1>3, HandlerResultInv, ClaimResultInv, RunResultInv,
      ExampleResultInv, CrashResultInv DEF Next, ResultInv
  <1>. QED BY <1>2, <1>3

LEMMA ResultInvHolds == Spec => []ResultInv
  BY InitResultInv, ResultInvStep, PTL DEF Spec

-----------------------------------------------------------------------------
(* The invariants, for every value of the constants.                       *)

\* Every table, handler, run and task only ever holds what the code can put
\* there; in particular a job is never claimed beyond its last attempt.
THEOREM TypeCorrect == Spec => []TypeOK
  <1>1. QueueInv => TypeOK
    BY DEF QueueInv
  <1>. QED BY <1>1, QueueInvHolds, PTL

\* claim_next_job needs no test of attempts or of other workers: a job that
\* is pending has an attempt left and no run that still works on it.
THEOREM PendingIsFree == Spec => []PendingJobIsFree
  <1>1. QueueInv => PendingJobIsFree
    BY DEF QueueInv
  <1>. QED BY <1>1, QueueInvHolds, PTL

\* No two runs of one experiment ever work on its job at the same time.
THEOREM OneRunAtATime == Spec => []OneRunPerJob
  <1>1. QueueInv => OneRunPerJob
    BY DEF QueueInv
  <1>. QED BY <1>1, QueueInvHolds, PTL

\* The summary run writes never covers an example without a result row,
\* whatever fails, crashes or is deleted.
THEOREM SummaryIsBacked == Spec => []SummaryCoversResults
  <1>1. ResultInv => SummaryCoversResults
    BY DEF ResultInv
  <1>. QED BY <1>1, ResultInvHolds, PTL

-----------------------------------------------------------------------------
(* No job is left running without a run that works on it.                  *)

\* A run that still has to set its experiment to completed has set its job.
CompletedBeforeExp ==
  \A e \in Experiments, a \in Attempts :
     runPc[e][a] = "completeExp" => jobStatus[e] \in {"completed", "none"}

StrandInv == QueueInv /\ StrandedOnlyByCrash /\ CompletedBeforeExp

LEMMA RunStrandInv ==
  ASSUME StrandInv, NEW e \in Experiments, NEW a \in Attempts,
         RunStep(e, a) \/ RunFault(e, a)
  PROVE  (StrandedOnlyByCrash /\ CompletedBeforeExp)'
  <1>1. RunEffects(e, a) /\ RunTransition(e, a)
    BY RunStepEffects DEF StrandInv, QueueInv
  <1>2. /\ runPc[e][a] \in ActivePc => a = attempts[e]
        /\ attempts' = attempts
    BY <1>1 DEF StrandInv, QueueInv, OneRunPerJob, Working, RunEffects
  <1>3. CompletedBeforeExp'
    <2>. SUFFICES ASSUME NEW f \in Experiments, NEW b \in Attempts,
                         runPc'[f][b] = "completeExp"
                  PROVE  jobStatus'[f] \in {"completed", "none"}
      BY DEF CompletedBeforeExp
    <2>1. CASE f = e /\ b = a
      BY <1>1, <2>1 DEF RunTransition
    <2>2. CASE f # e
      BY <1>1, <2>2 DEF RunEffects, StrandInv, CompletedBeforeExp
    <2>3. CASE f = e /\ b # a
      <3>1. runPc[e][b] = "completeExp" /\ jobStatus[e] \in {"completed", "none"}
        BY <1>1, <2>3 DEF RunEffects, StrandInv, CompletedBeforeExp
      <3>2. runPc[e][a] \notin ActivePc
        BY <2>3, <3>1, <1>2 DEF StrandInv, QueueInv, OneRunPerJob, Working,
          ActivePc
      <3>. QED BY <1>1, <2>3, <3>1, <3>2 DEF RunTransition
    <2>. QED BY <2>1, <2>2, <2>3
  <1>4. StrandedOnlyByCrash'
    <2>. SUFFICES ASSUME NEW f \in Experiments, jobStatus'[f] = "running"
                  PROVE  /\ attempts[f] \in Attempts
                         /\ runPc'[f][attempts[f]] \in ActivePc \cup {"crashed"}
      BY <1>2 DEF StrandedOnlyByCrash
    <2>1. jobStatus[f] = "running"
      BY <1>1 DEF RunEffects, RunTransition
    <2>2. /\ attempts[f] \in Attempts
          /\ runPc[f][attempts[f]] \in ActivePc \cup {"crashed"}
      BY <2>1 DEF StrandInv, StrandedOnlyByCrash
    <2>3. CASE f = e /\ a = attempts[f]
      <3>1. runPc[e][a] \in ActivePc /\ runPc[e][a] # "completeExp"
        BY <1>1, <2>1, <2>2, <2>3 DEF RunTransition, LivePc, ActivePc,
          StrandInv, CompletedBeforeExp
      <3>. QED BY <1>1, <2>2, <2>3, <3>1 DEF RunTransition
    <2>4. CASE f # e \/ a # attempts[f]
      BY <1>1, <2>2, <2>4 DEF RunEffects
    <2>. QED BY <2>3, <2>4
  <1>. QED BY <1>3, <1>4

LEMMA ClaimStrandInv ==
  ASSUME StrandInv, NEW w \in Workers, Claim(w)
  PROVE  (StrandedOnlyByCrash /\ CompletedBeforeExp)'
  <1>1. PICK e \in Experiments : ClaimNextJob(w, e) \/ ClaimCanceledJob(w, e)
    BY DEF Claim
  <1>2. CASE ClaimNextJob(w, e)
    <2>1. attempts[e] < MaxAttempts /\ TypeOK
      BY <1>2 DEF ClaimNextJob, StrandInv, QueueInv, PendingJobIsFree
    <2>2. /\ attempts[e] + 1 \in Attempts
          /\ \A f \in Experiments :
                /\ jobStatus'[f] = IF f = e THEN "running" ELSE jobStatus[f]
                /\ attempts'[f] = IF f = e THEN attempts[e] + 1 ELSE attempts[f]
          /\ \A f \in Experiments, b \in Attempts :
                runPc'[f][b] = IF f = e /\ b = attempts[e] + 1
                               THEN "setRunning" ELSE runPc[f][b]
      BY <1>2, <2>1, ClaimNextJobEffects
    <2>3. \A b \in Attempts : runPc[e][b] # "completeExp"
      BY <1>2 DEF ClaimNextJob, StrandInv, CompletedBeforeExp
    <2>4. StrandedOnlyByCrash'
      BY <2>2 DEF StrandInv, StrandedOnlyByCrash, ActivePc
    <2>5. CompletedBeforeExp'
      BY <2>2, <2>3 DEF StrandInv, CompletedBeforeExp
    <2>. QED BY <2>4, <2>5
  <1>3. CASE ClaimCanceledJob(w, e)
    BY <1>3 DEF ClaimCanceledJob, StrandInv, QueueInv, TypeOK,
      StrandedOnlyByCrash, CompletedBeforeExp, runs
  <1>. QED BY <1>1, <1>2, <1>3

\* A handler sets no job to running, and leaves the runs where they are.
LEMMA HandlerStrandInv ==
  ASSUME StrandInv, NEW e \in Experiments, Handler(e)
  PROVE  (StrandedOnlyByCrash /\ CompletedBeforeExp)'
  <1>1. UNCHANGED <<runPc, attempts>> /\ TypeOK
    BY DEF Handler, CreateExperiment, EnqueueExperimentJob, RequestCancelJob,
      RequestCancelExp, DeleteExperiment, CheckBaseline, SetBaseline, runs,
      rows, StrandInv, QueueInv
  <1>2. \A f \in Experiments :
           /\ jobStatus'[f] = "running" => jobStatus[f] = "running"
           /\ jobStatus[f] \in {"completed", "none"} =>
                 \/ jobStatus'[f] \in {"completed", "none"}
                 \/ f = e /\ EnqueueExperimentJob(e)
    BY <1>1 DEF Handler, CreateExperiment, EnqueueExperimentJob,
      RequestCancelJob, RequestCancelExp, DeleteExperiment, CheckBaseline,
      SetBaseline, rows, TypeOK
  <1>3. EnqueueExperimentJob(e) => \A a \in Attempts : runPc[e][a] = "none"
    BY DEF EnqueueExperimentJob, StrandInv, QueueInv, UnqueuedIsUntouched
  <1>4. StrandedOnlyByCrash'
    BY <1>1, <1>2 DEF StrandInv, StrandedOnlyByCrash
  <1>5. CompletedBeforeExp'
    BY <1>1, <1>2, <1>3 DEF StrandInv, CompletedBeforeExp
  <1>. QED BY <1>4, <1>5

LEMMA StrandInvStep == StrandInv /\ [Next]_vars => StrandInv'
  <1>. SUFFICES ASSUME StrandInv, [Next]_vars PROVE StrandInv'
    OBVIOUS
  <1>1. QueueInv'
    BY QueueInvStep DEF StrandInv
  <1>2. CASE UNCHANGED vars
    BY <1>1, <1>2 DEF StrandInv, StrandedOnlyByCrash, CompletedBeforeExp,
      vars, rows, runs
  <1>3. CASE \E w \in Workers : Crash(w)
    <2>1. PICK w \in Workers : Crash(w)
      BY <1>3
    <2>2. /\ UNCHANGED rows
          /\ \A f \in Experiments, b \in Attempts :
               \/ runPc'[f][b] = runPc[f][b]
               \/ runPc'[f][b] = "crashed"
      BY <2>1, CrashEffects DEF StrandInv, QueueInv
    <2>. QED BY <1>1, <2>2 DEF StrandInv, StrandedOnlyByCrash,
           CompletedBeforeExp, rows
  <1>4. CASE \E e \in Experiments : HandlerDies(e)
    BY <1>1, <1>4 DEF HandlerDies, StrandInv, StrandedOnlyByCrash,
      CompletedBeforeExp, rows, runs
  <1>5. CASE \E e \in Experiments, a \in Attempts, x \in Examples :
                ExampleStep(e, a, x) \/ TaskFault(e, a, x)
    <2>1. PICK e \in Experiments, a \in Attempts, x \in Examples :
             TaskEffects(e, a, x)
      BY <1>5, ExampleStepEffects DEF StrandInv, QueueInv
    <2>. QED BY <1>1, <2>1 DEF TaskEffects, StrandInv, StrandedOnlyByCrash,
           CompletedBeforeExp, ActivePc
  <1>. QED BY <1>1, <1>2, <1>3, <1>4, <1>5, RunStrandInv, ClaimStrandInv,
         HandlerStrandInv DEF Next, StrandInv

\* Only the death of a worker process leaves a job running that nobody
\* works on: every other way a run ends first changes the status of its job.
THEOREM OnlyCrashesStrandJobs == Spec => []StrandedOnlyByCrash
  <1>1. Init => StrandInv
    BY InitQueueInv DEF StrandInv, Init, StrandedOnlyByCrash,
      CompletedBeforeExp
  <1>2. StrandInv => StrandedOnlyByCrash
    BY DEF StrandInv
  <1>. QED BY <1>1, <1>2, StrandInvStep, PTL DEF Spec

-----------------------------------------------------------------------------
(* ExperimentJobs implements JobLifecycle.                                 *)

Active == {e \in Experiments : Working(e) # {}}

LEMMA InitRefines == Init => Lifecycle!Init
  BY DEF Init, Lifecycle!Init, Working, ActivePc

\* A step that leaves the jobs alone, and starts no run, is a Release.
LEMMA ReleaseRefines ==
  ASSUME jobStatus' = jobStatus, attempts' = attempts,
         \A e \in Experiments : Working(e)' \subseteq Working(e)
  PROVE  Lifecycle!Next
  <1>1. Active' \subseteq Active
    BY DEF Active
  <1>. QED BY <1>1 DEF Lifecycle!Next, Lifecycle!Release, Active

LEMMA HandlerRefines ==
  ASSUME QueueInv, NEW e \in Experiments, Handler(e)
  PROVE  Lifecycle!Next
  <1>1. /\ runPc' = runPc /\ attempts' = attempts
        /\ \A f \in Experiments : Working(f)' = Working(f)
        /\ Active' = Active
    BY DEF Handler, CreateExperiment, EnqueueExperimentJob,
      RequestCancelJob, RequestCancelExp, DeleteExperiment, CheckBaseline,
      SetBaseline, runs, rows, Working, Active
  <1>2. CASE EnqueueExperimentJob(e) /\ HasExp(e)
    <2>1. jobStatus[e] = "none" /\ attempts[e] = 0 /\ e \notin Active
      BY <1>2 DEF EnqueueExperimentJob, QueueInv, UnqueuedIsUntouched, Active,
        Working, ActivePc
    <2>2. Lifecycle!Enqueue(e)
      BY <1>1, <1>2, <2>1 DEF EnqueueExperimentJob, Lifecycle!Enqueue,
        Lifecycle!SetStatus, Active
    <2>. QED BY <2>2 DEF Lifecycle!Next
  <1>3. CASE RequestCancelJob(e)
    <2>1. Lifecycle!RequestCancel(e)
      BY <1>1, <1>3 DEF RequestCancelJob, Lifecycle!RequestCancel,
        Lifecycle!SetStatus, Active
    <2>. QED BY <2>1 DEF Lifecycle!Next
  <1>4. CASE DeleteExperiment(e) /\ jobStatus[e] # "none"
    <2>1. Lifecycle!Delete(e)
      BY <1>1, <1>4 DEF DeleteExperiment, Lifecycle!Delete,
        Lifecycle!SetStatus, Active
    <2>. QED BY <2>1 DEF Lifecycle!Next
  <1>5. CASE \/ CreateExperiment(e) \/ RequestCancelExp(e)
             \/ CheckBaseline(e) \/ SetBaseline(e)
             \/ EnqueueExperimentJob(e) /\ ~HasExp(e)
             \/ DeleteExperiment(e) /\ jobStatus[e] = "none"
    <2>1. jobStatus' = jobStatus
      BY <1>5 DEF CreateExperiment, RequestCancelExp, CheckBaseline,
        SetBaseline, EnqueueExperimentJob, DeleteExperiment, rows,
        QueueInv, TypeOK
    <2>. QED BY <1>1, <2>1, ReleaseRefines
  <1>. QED BY <1>2, <1>3, <1>4, <1>5 DEF Handler

LEMMA ClaimRefines ==
  ASSUME QueueInv, NEW w \in Workers, Claim(w)
  PROVE  Lifecycle!Next
  <1>1. PICK e \in Experiments : ClaimNextJob(w, e) \/ ClaimCanceledJob(w, e)
    BY DEF Claim
  <1>2. CASE ClaimNextJob(w, e)
    <2>1. /\ attempts[e] < MaxAttempts /\ Working(e) = {} /\ TypeOK
          /\ e \notin Active
      BY <1>2 DEF ClaimNextJob, QueueInv, PendingJobIsFree, Active
    <2>2. /\ attempts[e] + 1 \in Attempts
          /\ \A f \in Experiments, b \in Attempts :
                runPc'[f][b] = IF f = e /\ b = attempts[e] + 1
                               THEN "setRunning" ELSE runPc[f][b]
      BY <1>2, <2>1, ClaimNextJobEffects
    <2>3. Working(e)' # {}
      BY <2>2 DEF Working, ActivePc
    <2>4. \A f \in Experiments \ {e} : Working(f)' = Working(f)
      BY <2>2 DEF Working
    <2>5. Active' = Active \cup {e}
      BY <2>3, <2>4 DEF Active
    <2>6. Lifecycle!HandOut(e)
      BY <1>2, <2>1, <2>5 DEF ClaimNextJob, Lifecycle!HandOut,
        Lifecycle!SetStatus, Active
    <2>. QED BY <2>6 DEF Lifecycle!Next
  <1>3. CASE ClaimCanceledJob(w, e)
    <2>1. Active' = Active
      BY <1>3 DEF ClaimCanceledJob, Active, Working, runs
    <2>2. Lifecycle!Cancel(e)
      BY <1>3, <2>1 DEF ClaimCanceledJob, Lifecycle!Cancel,
        Lifecycle!SetStatus, Active
    <2>. QED BY <2>2 DEF Lifecycle!Next
  <1>. QED BY <1>1, <1>2, <1>3

LEMMA RunRefines ==
  ASSUME QueueInv, NEW e \in Experiments, NEW a \in Attempts,
         RunStep(e, a) \/ RunFault(e, a)
  PROVE  Lifecycle!Next
  <1>1. RunEffects(e, a) /\ RunTransition(e, a)
    BY RunStepEffects DEF QueueInv
  <1>2. \A f \in Experiments : Working(f)' \subseteq Working(f)
    BY <1>1 DEF RunEffects, RunTransition, Working
  <1>3. CASE jobStatus' = jobStatus
    BY <1>1, <1>2, <1>3, ReleaseRefines DEF RunEffects
  <1>4. CASE jobStatus' # jobStatus
    <2>1. runPc[e][a] \in ActivePc /\ e \in Active /\ jobStatus[e] # "none"
      BY <1>1, <1>4 DEF RunTransition, Active, Working
    <2>2. Working(e) = {a}
      BY <2>1 DEF QueueInv, OneRunPerJob, Working
    <2>3. \A f \in Experiments \ {e} : Working(f)' = Working(f)
      BY <1>1 DEF RunEffects, Working
    <2>4. runPc'[e][a] \notin ActivePc => Active' = Active \ {e}
      <3>1. runPc'[e][a] \notin ActivePc => Working(e)' = {}
        BY <1>2, <2>2 DEF Working
      <3>. QED BY <2>3, <3>1 DEF Active
    <2>5. runPc'[e][a] \in ActivePc => Active' = Active
      <3>1. runPc'[e][a] \in ActivePc => Working(e)' # {}
        BY DEF Working
      <3>. QED BY <2>1, <2>3, <3>1 DEF Active
    <2>6. /\ attempts' = attempts
          /\ \A s : jobStatus'[e] = s => jobStatus' = [jobStatus EXCEPT ![e] = s]
      BY <1>1 DEF RunEffects, QueueInv, TypeOK
    <2>7. CASE /\ runPc'[e][a] \in {"completeExp", "over"}
               /\ jobStatus'[e] = "completed"
      <3>1. Lifecycle!Complete(e)
        BY <2>1, <2>4, <2>5, <2>6, <2>7 DEF Lifecycle!Complete,
          Lifecycle!SetStatus, Active
      <3>. QED BY <3>1 DEF Lifecycle!Next
    <2>8. CASE /\ runPc[e][a] = "requeueJob" /\ runPc'[e][a] = "requeueExp"
               /\ jobStatus'[e] = "pending"
      <3>1. attempts[e] < MaxAttempts /\ Active' = Active \ {e}
        BY <2>4, <2>8 DEF QueueInv, CountedBeforeRequeue, ActivePc
      <3>2. Lifecycle!Requeue(e)
        BY <2>1, <2>6, <2>8, <3>1 DEF Lifecycle!Requeue,
          Lifecycle!SetStatus, Active
      <3>. QED BY <3>2 DEF Lifecycle!Next
    <2>9. CASE /\ runPc[e][a] = "failJob" /\ runPc'[e][a] = "failExp"
               /\ jobStatus'[e] = "failed"
      <3>1. attempts[e] = MaxAttempts /\ Active' = Active \ {e}
        <4>1. attempts[e] \in 0..MaxAttempts /\ ~(attempts[e] < MaxAttempts)
          BY <2>9 DEF QueueInv, TypeOK, CountedBeforeRequeue
        <4>2. attempts[e] = MaxAttempts
          BY <4>1, ConstantsAssumption
        <4>. QED BY <2>4, <2>9, <4>2 DEF ActivePc
      <3>2. Lifecycle!Fail(e)
        BY <2>1, <2>6, <2>9, <3>1 DEF Lifecycle!Fail, Lifecycle!SetStatus,
          Active
      <3>. QED BY <3>2 DEF Lifecycle!Next
    <2>. QED BY <1>1, <1>4, <2>7, <2>8, <2>9 DEF RunTransition
  <1>. QED BY <1>3, <1>4

LEMMA StepRefines ==
  QueueInv /\ [Next]_vars => [Lifecycle!Next]_(Lifecycle!jobVars)
  <1>. SUFFICES ASSUME QueueInv, [Next]_vars
                PROVE  [Lifecycle!Next]_(Lifecycle!jobVars)
    OBVIOUS
  <1>1. CASE UNCHANGED vars
    BY <1>1 DEF vars, rows, runs, Lifecycle!jobVars, Working
  <1>2. CASE \E e \in Experiments : HandlerDies(e)
    BY <1>2, ReleaseRefines DEF HandlerDies, rows, runs, Working
  <1>3. CASE \E w \in Workers : Crash(w)
    <2>1. PICK w \in Workers : Crash(w)
      BY <1>3
    <2>2. /\ UNCHANGED rows
          /\ \A f \in Experiments, b \in Attempts :
               \/ runPc'[f][b] = runPc[f][b]
               \/ runPc'[f][b] = "crashed"
      BY <2>1, CrashEffects DEF QueueInv
    <2>. QED BY <2>2, ReleaseRefines DEF rows, Working, ActivePc
  <1>4. CASE \E e \in Experiments, a \in Attempts, x \in Examples :
                ExampleStep(e, a, x) \/ TaskFault(e, a, x)
    <2>1. PICK e \in Experiments, a \in Attempts, x \in Examples :
             TaskEffects(e, a, x)
      BY <1>4, ExampleStepEffects DEF QueueInv
    <2>2. \A f \in Experiments : Working(f)' = Working(f)
      BY <2>1 DEF TaskEffects, Working, ActivePc
    <2>. QED BY <2>1, <2>2, ReleaseRefines DEF TaskEffects
  <1>. QED BY <1>1, <1>2, <1>3, <1>4, HandlerRefines, ClaimRefines,
         RunRefines DEF Next

\* The queue keeps the promise of JobLifecycle: whatever the handlers, the
\* workers, the runner and their failures do, a job row only moves as the
\* lifecycle allows and is handed out at most MaxAttempts times.
THEOREM QueueImplementsLifecycle == Spec => ImplementsLifecycle
  <1>1. Spec => []QueueInv
    BY QueueInvHolds
  <1>. QED BY <1>1, InitRefines, StepRefines, PTL
         DEF Spec, ImplementsLifecycle, Lifecycle!Spec

-----------------------------------------------------------------------------
(* One worker, and nothing that fails: then job and experiment agree in the *)
(* end. With more workers, a crash or a statement that raises they need    *)
(* not, because each is set by a statement of its own.                     *)

OneWorkerNoFaults ==
    (\E w : Workers = {w}) /\ MaxCrashes = 0 /\ MaxFaults = 0

Live(e) == {a \in Attempts : runPc[e][a] \in LivePc}

\* One worker is busy with one run, and claims nothing meanwhile.
OneLiveRun ==
    \A e \in Experiments : \A a \in Live(e) : \A b \in Live(e) :
        a = b /\ runWorker[e][a] \in Workers

\* An experiment has a job but while its creation is between two statements.
ExperimentsQueued ==
    \A e \in Experiments :
        /\ HasJob(e) => HasExp(e)
        /\ HasExp(e) /\ ~HasJob(e) => e \in creating /\ expStatus[e] = "pending"
        /\ e \in canceling => e \notin creating /\ expStatus[e] # "none"

BegunPc == {"setRunning", "setup", "gather", "setSummary", "setCompleted",
            "setCanceled", "failSelect", "requeueJob", "failJob"}

\* Not ended: what a cancellation or a requeue leaves is among them.
OpenExp == {"pending", "running", "cancel_requested"}

\* What the rows of an experiment are while a run of it is at pc.
Fits(pc, job, exp) ==
    \/ /\ pc \in BegunPc
       /\ job \in {"running", "cancel_requested"} /\ exp \in OpenExp
    \/ /\ pc \in {"completeSelect", "completeJob"}
       /\ job \in {"running", "cancel_requested"}
       /\ exp \in {"completed", "canceled"}
    \/ /\ pc = "completeExp"
       /\ job = "completed" /\ exp \in {"completed", "canceled"}
    \/ /\ pc = "requeueExp"
       /\ job \in {"pending", "cancel_requested"} /\ exp \in OpenExp
    \/ /\ pc = "failExp" /\ job = "failed" /\ exp \in OpenExp

\* What they are when no run is at work.
Agree(job, exp) ==
    \/ job \in FinalStatus /\ exp = job
    \/ /\ job \in {"pending", "cancel_requested"}
       /\ exp \in {"pending", "cancel_requested"}

StatusFits ==
    \A e \in Experiments : HasJob(e) =>
        /\ Live(e) = {} => Agree(jobStatus[e], expStatus[e])
        /\ \A a \in Live(e) : Fits(runPc[e][a], jobStatus[e], expStatus[e])

SerialInv == /\ QueueInv
             /\ OneLiveRun
             /\ ExperimentsQueued
             /\ StatusFits

\* The rows a step of a run may touch are those of its experiment.
LEMMA RunStepRows ==
  ASSUME TypeOK, NEW e \in Experiments, NEW a \in Attempts, RunStep(e, a)
  PROVE  /\ \A f \in Experiments : f # e =>
               expStatus'[f] = expStatus[f] /\ jobStatus'[f] = jobStatus[f]
         /\ ~HasExp(e) => expStatus'[e] = expStatus[e]
         /\ ~HasJob(e) => jobStatus'[e] = jobStatus[e]
  <1>1. CASE \E s \in JobStatus \ {"none"} : SetExp(e, s) /\ UNCHANGED jobStatus
    BY <1>1, SetExpUpdates DEF TypeOK
  <1>2. CASE \E s \in JobStatus \ {"none"} : SetJob(e, s) /\ UNCHANGED expStatus
    BY <1>2, SetJobUpdates DEF TypeOK
  <1>3. CASE UNCHANGED <<expStatus, jobStatus>>
    BY <1>3
  <1>4. \/ \E s \in JobStatus \ {"none"} : SetExp(e, s) /\ UNCHANGED jobStatus
        \/ \E s \in JobStatus \ {"none"} : SetJob(e, s) /\ UNCHANGED expStatus
        \/ UNCHANGED <<expStatus, jobStatus>>
    BY DEF RunStep, SetRunning, Setup, SetupFails, GatherReturns,
      UpdateSummary, SetCompleted, SetCanceled, CompleteSelect, CompleteJob,
      CompleteExp, FailSelect, FailJob, FailExp, JobStatus, rows
  <1>. QED BY <1>1, <1>2, <1>3, <1>4

\* A run keeps the rows fit for where it is, and leaves them in agreement.
LEMMA RunStepFits ==
  ASSUME TypeOK, NEW e \in Experiments, NEW a \in Attempts, RunStep(e, a),
         HasExp(e), HasJob(e),
         Fits(runPc[e][a], jobStatus[e], expStatus[e])
  PROVE  IF runPc'[e][a] \in LivePc
         THEN Fits(runPc'[e][a], jobStatus'[e], expStatus'[e])
         ELSE Agree(jobStatus'[e], expStatus'[e])
  <1>. USE DEF LivePc, ActivePc, BegunPc, OpenExp, Fits, Agree, FinalStatus
  <1>1. \A pc \in RunPc : GoTo(e, a, pc) => runPc'[e][a] = pc
    BY GoToUpdates DEF TypeOK, RunPcType
  <1>2. \A s \in JobStatus \ {"none"} : SetExp(e, s) => expStatus'[e] = s
    BY SetExpUpdates DEF TypeOK
  <1>3. \A s \in JobStatus \ {"none"} : SetJob(e, s) => jobStatus'[e] = s
    BY SetJobUpdates DEF TypeOK
  <1>4. CASE SetRunning(e, a)
    <2>1. /\ runPc'[e][a] = "setup" /\ expStatus'[e] = "running"
          /\ jobStatus' = jobStatus
      BY <1>1, <1>2, <1>4 DEF SetRunning, RunPc, JobStatus
    <2>. QED BY <1>4, <2>1 DEF SetRunning
  <1>5. CASE \/ Setup(e, a) \/ SetupFails(e, a)
             \/ GatherReturns(e, a) \/ UpdateSummary(e, a)
    <2>1. /\ runPc'[e][a] \in BegunPc /\ runPc[e][a] \in BegunPc
          /\ UNCHANGED <<expStatus, jobStatus>>
      BY <1>1, <1>5 DEF Setup, SetupFails, GatherReturns, UpdateSummary, RunPc,
        rows
    <2>. QED BY <2>1
  <1>6. CASE SetCompleted(e, a) \/ SetCanceled(e, a)
    <2>1. /\ runPc[e][a] \in BegunPc /\ runPc'[e][a] = "completeSelect"
          /\ expStatus'[e] \in {"completed", "canceled"}
          /\ jobStatus' = jobStatus
      BY <1>1, <1>2, <1>6 DEF SetCompleted, SetCanceled, RunPc, JobStatus
    <2>. QED BY <2>1
  <1>7. CASE CompleteSelect(e, a)
    <2>1. runPc[e][a] = "completeSelect" /\ GoTo(e, a, "completeJob")
          /\ UNCHANGED <<expStatus, jobStatus>>
      BY <1>7 DEF CompleteSelect, rows
    <2>2. runPc'[e][a] = "completeJob"
      BY <1>1, <2>1 DEF RunPc
    <2>. QED BY <2>1, <2>2
  <1>8. CASE CompleteJob(e, a)
    <2>1. /\ runPc[e][a] = "completeJob" /\ runPc'[e][a] = "completeExp"
          /\ expStatus' = expStatus /\ jobStatus'[e] = "completed"
      BY <1>1, <1>3, <1>8 DEF CompleteJob, RunPc, JobStatus
    <2>. QED BY <2>1
  <1>9. CASE CompleteExp(e, a)
    <2>1. /\ runPc[e][a] = "completeExp" /\ runPc'[e][a] = "over"
          /\ expStatus'[e] = "completed" /\ jobStatus' = jobStatus
      BY <1>1, <1>2, <1>9 DEF CompleteExp, RunPc, JobStatus
    <2>. QED BY <2>1
  <1>10. CASE FailSelect(e, a)
    <2>1. /\ runPc[e][a] = "failSelect"
          /\ runPc'[e][a] \in {"requeueJob", "failJob"}
          /\ UNCHANGED <<expStatus, jobStatus>>
      BY <1>1, <1>10 DEF FailSelect, RunPc, rows
    <2>. QED BY <2>1
  <1>11. CASE FailJob(e, a)
    <2>1. /\ runPc[e][a] \in BegunPc /\ expStatus' = expStatus
          /\ \/ runPc'[e][a] = "requeueExp" /\ jobStatus'[e] = "pending"
             \/ runPc'[e][a] = "failExp" /\ jobStatus'[e] = "failed"
      BY <1>1, <1>3, <1>11 DEF FailJob, RunPc, JobStatus
    <2>. QED BY <2>1
  <1>12. CASE FailExp(e, a)
    <2>1. /\ jobStatus' = jobStatus /\ runPc'[e][a] = "over"
          /\ \/ runPc[e][a] = "requeueExp" /\ expStatus'[e] = "pending"
             \/ runPc[e][a] = "failExp" /\ expStatus'[e] = "failed"
      BY <1>1, <1>2, <1>12 DEF FailExp, RunPc, JobStatus
    <2>. QED BY <2>1
  <1>. QED BY <1>4, <1>5, <1>6, <1>7, <1>8, <1>9, <1>10, <1>11, <1>12
           DEF RunStep

LEMMA RunSerialInv ==
  ASSUME SerialInv, NEW e \in Experiments, NEW a \in Attempts, RunStep(e, a)
  PROVE  SerialInv'
  <1>1. QueueInv' /\ RunEffects(e, a) /\ RunTransition(e, a) /\ TypeOK
    BY RunQueueInv, RunStepEffects DEF SerialInv, QueueInv
  <1>2. /\ \A f \in Experiments : f # e =>
               expStatus'[f] = expStatus[f] /\ jobStatus'[f] = jobStatus[f]
        /\ ~HasExp(e) => expStatus'[e] = expStatus[e]
        /\ ~HasJob(e) => jobStatus'[e] = jobStatus[e]
    BY <1>1, RunStepRows
  <1>3. a \in Live(e) /\ e \notin creating /\ UNCHANGED handlers
    BY <1>1 DEF RunTransition, Live, SerialInv, QueueInv, UnqueuedIsUntouched,
      RunEffects, handlers, LivePc, ActivePc
  <1>4. \A f \in Experiments : f # e => Live(f)' = Live(f)
    BY <1>1 DEF RunEffects, Live
  <1>5. Live(e) = {a} /\ Live(e)' \subseteq {a}
    BY <1>1, <1>3 DEF RunEffects, Live, SerialInv, OneLiveRun
  <1>6. OneLiveRun'
    BY <1>1, <1>3, <1>4, <1>5 DEF RunEffects, SerialInv, OneLiveRun
  <1>7. HasExp(e) <=> HasJob(e)
    BY <1>3 DEF SerialInv, ExperimentsQueued
  <1>8. HasJob(e) => IF runPc'[e][a] \in LivePc
                     THEN Fits(runPc'[e][a], jobStatus'[e], expStatus'[e])
                     ELSE Agree(jobStatus'[e], expStatus'[e])
    BY <1>1, <1>3, <1>7, RunStepFits DEF SerialInv, StatusFits
  <1>9. HasJob(e)' <=> HasJob(e)
    <2>1. HasJob(e) => jobStatus'[e] # "none"
      BY <1>8 DEF Fits, Agree, FinalStatus
    <2>. QED BY <1>2, <2>1 DEF HasJob
  <1>10. HasExp(e)' <=> HasExp(e)
    BY <1>1 DEF RunEffects, HasExp
  <1>11. ExperimentsQueued'
    BY <1>1, <1>2, <1>3, <1>7, <1>9, <1>10 DEF SerialInv, ExperimentsQueued,
      HasExp, HasJob, handlers, RunEffects
  <1>12. StatusFits'
    <2>. SUFFICES ASSUME NEW f \in Experiments, HasJob(f)'
                  PROVE  /\ Live(f)' = {} => Agree(jobStatus'[f], expStatus'[f])
                         /\ \A b \in Live(f)' :
                               Fits(runPc'[f][b], jobStatus'[f], expStatus'[f])
      BY DEF StatusFits
    <2>1. CASE f = e
      <3>1. runPc'[e][a] \in LivePc <=> Live(e)' # {}
        BY <1>5 DEF Live
      <3>. QED BY <1>5, <1>8, <1>9, <2>1, <3>1
    <2>2. CASE f # e
      <3>1. \A b \in Attempts : runPc'[f][b] = runPc[f][b]
        BY <1>1, <2>2 DEF RunEffects
      <3>. QED BY <1>2, <1>4, <2>2, <3>1 DEF SerialInv, StatusFits, HasJob, Live
    <2>. QED BY <2>1, <2>2
  <1>. QED BY <1>1, <1>6, <1>11, <1>12 DEF SerialInv

\* Tasks end the gather of a run, and touch no row but a result.
LEMMA ExampleSerialInv ==
  ASSUME SerialInv, NEW e \in Experiments, NEW a \in Attempts,
         NEW x \in Examples, ExampleStep(e, a, x)
  PROVE  SerialInv'
  <1>1. QueueInv' /\ TaskEffects(e, a, x)
    BY ExampleQueueInv, ExampleStepEffects DEF SerialInv, QueueInv
  <1>2. UNCHANGED <<expStatus, jobStatus, baseline, handlers,
                    runWorker>>
    BY <1>1 DEF TaskEffects
  <1>3. \A f \in Experiments : \A b \in Attempts :
           \/ runPc'[f][b] = runPc[f][b]
           \/ runPc[f][b] \in BegunPc /\ runPc'[f][b] \in BegunPc
    BY <1>1 DEF TaskEffects, BegunPc
  <1>4. \A f \in Experiments : Live(f)' = Live(f)
    BY <1>3 DEF Live, LivePc, ActivePc, BegunPc
  <1>5. OneLiveRun'
    BY <1>2, <1>4 DEF SerialInv, OneLiveRun
  <1>6. ExperimentsQueued'
    BY <1>2 DEF SerialInv, ExperimentsQueued, HasExp, HasJob, handlers
  <1>7. StatusFits'
    <2>. SUFFICES ASSUME NEW f \in Experiments, HasJob(f)'
                  PROVE  /\ Live(f)' = {} => Agree(jobStatus'[f], expStatus'[f])
                         /\ \A b \in Live(f)' :
                               Fits(runPc'[f][b], jobStatus'[f], expStatus'[f])
      BY DEF StatusFits
    <2>1. /\ Live(f) = {} => Agree(jobStatus[f], expStatus[f])
          /\ \A b \in Live(f) : Fits(runPc[f][b], jobStatus[f], expStatus[f])
      BY <1>2 DEF SerialInv, StatusFits, HasJob
    <2>2. ASSUME NEW b \in Live(f)
          PROVE  Fits(runPc'[f][b], jobStatus[f], expStatus[f])
      BY <1>3, <2>1, <2>2 DEF Live, Fits, BegunPc
    <2>. QED BY <1>2, <1>4, <2>1, <2>2
  <1>. QED BY <1>1, <1>5, <1>6, <1>7 DEF SerialInv

\* The one worker claims a job when no run is live.
LEMMA ClaimSerialInv ==
  ASSUME SerialInv, NEW w \in Workers, Workers = {w}, Claim(w)
  PROVE  SerialInv'
  <1>1. QueueInv' /\ TypeOK
    BY ClaimQueueInv DEF SerialInv, QueueInv
  <1>2. PICK e \in Experiments : ClaimNextJob(w, e) \/ ClaimCanceledJob(w, e)
    BY DEF Claim
  <1>3. \A f \in Experiments : Live(f) = {}
    <2>1. Idle(w)
      BY <1>2 DEF ClaimNextJob, ClaimCanceledJob
    <2>2. \A f \in Experiments : \A a \in Live(f) : runWorker[f][a] = w
      BY DEF SerialInv, OneLiveRun
    <2>. QED BY <2>1, <2>2 DEF Idle, Live
  <1>4. HasJob(e) /\ HasExp(e)
        /\ expStatus[e] \in {"pending", "cancel_requested"}
    BY <1>2, <1>3 DEF ClaimNextJob, ClaimCanceledJob, SerialInv, StatusFits,
      ExperimentsQueued, HasJob, Agree, FinalStatus
  <1>5. CASE ClaimNextJob(w, e)
    <2>1. attempts[e] < MaxAttempts
      BY <1>5 DEF ClaimNextJob, SerialInv, QueueInv, PendingJobIsFree
    <2>2. PICK a \in Attempts :
             /\ a = attempts[e] + 1
             /\ \A f \in Experiments :
                   jobStatus'[f] = IF f = e THEN "running" ELSE jobStatus[f]
             /\ \A f \in Experiments, b \in Attempts :
                   runPc'[f][b] = IF f = e /\ b = a
                                  THEN "setRunning" ELSE runPc[f][b]
      BY <1>1, <1>5, <2>1, ClaimNextJobEffects
    <2>3. runWorker'[e][a] = w
      BY <1>1, <1>5, <2>2 DEF ClaimNextJob, TypeOK
    <2>4. UNCHANGED <<expStatus, baseline, handlers>>
      BY <1>5 DEF ClaimNextJob
    <2>5. Live(e)' = {a} /\ \A f \in Experiments : f # e => Live(f)' = {}
      BY <1>3, <2>2 DEF Live, LivePc, ActivePc
    <2>6. OneLiveRun'
      BY <2>3, <2>5 DEF OneLiveRun
    <2>7. ExperimentsQueued'
      BY <1>4, <2>2, <2>4 DEF SerialInv, ExperimentsQueued, HasExp, HasJob,
        handlers
    <2>8. StatusFits'
      <3>. SUFFICES ASSUME NEW f \in Experiments, HasJob(f)'
                    PROVE  /\ Live(f)' = {} => Agree(jobStatus'[f], expStatus'[f])
                           /\ \A b \in Live(f)' :
                                 Fits(runPc'[f][b], jobStatus'[f], expStatus'[f])
        BY DEF StatusFits
      <3>1. CASE f = e
        BY <1>4, <2>2, <2>4, <2>5, <3>1 DEF Fits, BegunPc, OpenExp
      <3>2. CASE f # e
        BY <1>3, <2>2, <2>4, <2>5, <3>2 DEF SerialInv, StatusFits, HasJob
      <3>. QED BY <3>1, <3>2
    <2>. QED BY <1>1, <2>6, <2>7, <2>8 DEF SerialInv
  <1>6. CASE ClaimCanceledJob(w, e)
    <2>1. /\ \A f \in Experiments :
                 expStatus'[f] = IF f = e THEN "canceled" ELSE expStatus[f]
          /\ \A f \in Experiments :
                 jobStatus'[f] = IF f = e THEN "canceled" ELSE jobStatus[f]
      BY <1>1, <1>4, <1>6, SetExpUpdates DEF ClaimCanceledJob, TypeOK, JobStatus
    <2>2. UNCHANGED <<baseline, handlers, runPc, runWorker>>
      BY <1>6 DEF ClaimCanceledJob, runs
    <2>3. \A f \in Experiments : Live(f)' = {}
      BY <1>3, <2>2 DEF Live
    <2>4. OneLiveRun'
      BY <2>3 DEF OneLiveRun
    <2>5. ExperimentsQueued'
      BY <1>4, <2>1, <2>2 DEF SerialInv, ExperimentsQueued, HasExp, HasJob,
        handlers
    <2>6. StatusFits'
      BY <1>3, <2>1, <2>3 DEF SerialInv, StatusFits, HasJob, Agree, FinalStatus
    <2>. QED BY <1>1, <2>4, <2>5, <2>6 DEF SerialInv
  <1>. QED BY <1>2, <1>5, <1>6

\* The handlers leave the runs alone, and change no row of a completed
\* experiment but by deleting it.
LEMMA HandlerSerialInv ==
  ASSUME SerialInv, NEW e \in Experiments, Handler(e)
  PROVE  SerialInv'
  <1>1. QueueInv' /\ TypeOK
    BY HandlerQueueInv DEF SerialInv, QueueInv
  <1>2. UNCHANGED <<runPc, runWorker>>
    BY DEF Handler, CreateExperiment, EnqueueExperimentJob, RequestCancelJob,
      RequestCancelExp, DeleteExperiment, CheckBaseline, SetBaseline, runs
  <1>3. \A f \in Experiments : Live(f)' = Live(f)
    BY <1>2 DEF Live
  <1>4. OneLiveRun'
    BY <1>2, <1>3 DEF SerialInv, OneLiveRun
  <1>5. e \in creating \/ expStatus[e] = "none" =>
           jobStatus[e] = "none" /\ Live(e) = {}
    BY DEF SerialInv, QueueInv, UnqueuedIsUntouched, Live, LivePc, ActivePc
  <1>. USE DEF SerialInv, ExperimentsQueued, HasExp, HasJob
  <1>6. CASE CreateExperiment(e)
    <2>1. ExperimentsQueued'
      BY <1>1, <1>5, <1>6 DEF CreateExperiment, TypeOK
    <2>2. StatusFits'
      BY <1>1, <1>2, <1>3, <1>5, <1>6 DEF CreateExperiment, TypeOK, StatusFits
    <2>. QED BY <1>1, <1>4, <2>1, <2>2
  <1>7. CASE EnqueueExperimentJob(e)
    <2>1. ExperimentsQueued'
      BY <1>1, <1>5, <1>7 DEF EnqueueExperimentJob, TypeOK
    <2>2. StatusFits'
      BY <1>1, <1>2, <1>3, <1>5, <1>7 DEF EnqueueExperimentJob, TypeOK,
        StatusFits, Agree
    <2>. QED BY <1>1, <1>4, <2>1, <2>2
  <1>8. CASE RequestCancelJob(e)
    <2>1. ExperimentsQueued'
      BY <1>1, <1>5, <1>8 DEF RequestCancelJob, TypeOK
    <2>2. StatusFits'
      <3>1. /\ \A f \in Experiments :
                   jobStatus'[f] = IF f = e THEN "cancel_requested"
                                            ELSE jobStatus[f]
            /\ expStatus' = expStatus
            /\ jobStatus[e] \in {"pending", "running"}
        BY <1>1, <1>8 DEF RequestCancelJob, TypeOK
      <3>2. Live(e) = {} => Agree("cancel_requested", expStatus[e])
        BY <3>1 DEF StatusFits, Agree, FinalStatus
      <3>3. \A a \in Live(e) :
               Fits(runPc[e][a], "cancel_requested", expStatus[e])
        BY <3>1 DEF StatusFits, Fits
      <3>. QED BY <1>2, <1>3, <3>1, <3>2, <3>3 DEF StatusFits
    <2>. QED BY <1>1, <1>4, <2>1, <2>2
  <1>9. CASE RequestCancelExp(e)
    <2>1. ExperimentsQueued'
      BY <1>1, <1>9 DEF RequestCancelExp, TypeOK
    <2>2. StatusFits'
      BY <1>1, <1>2, <1>3, <1>9 DEF RequestCancelExp, TypeOK, StatusFits,
        Agree, Fits, FinalStatus, OpenExp
    <2>. QED BY <1>1, <1>4, <2>1, <2>2
  <1>10. CASE DeleteExperiment(e)
    <2>1. ExperimentsQueued'
      BY <1>1, <1>10 DEF DeleteExperiment, TypeOK, handlers
    <2>2. StatusFits'
      BY <1>1, <1>2, <1>3, <1>10 DEF DeleteExperiment, TypeOK, StatusFits
    <2>. QED BY <1>1, <1>4, <2>1, <2>2
  <1>11. CASE CheckBaseline(e) \/ SetBaseline(e)
    <2>1. UNCHANGED <<expStatus, jobStatus, creating, canceling>>
      BY <1>11 DEF CheckBaseline, SetBaseline, rows
    <2>2. ExperimentsQueued'
      BY <1>1, <1>11, <2>1 DEF CheckBaseline, SetBaseline, TypeOK, rows
    <2>3. StatusFits'
      BY <1>2, <1>3, <2>1 DEF StatusFits
    <2>. QED BY <1>1, <1>4, <2>2, <2>3
  <1>. QED BY <1>6, <1>7, <1>8, <1>9, <1>10, <1>11 DEF Handler

LEMMA SerialInvHolds ==
  ASSUME OneWorkerNoFaults
  PROVE  Spec => []SerialInv
  <1>1. Init => SerialInv
    <2>. SUFFICES ASSUME Init PROVE SerialInv
      OBVIOUS
    <2>1. QueueInv
      BY InitQueueInv
    <2>2. \A e \in Experiments : Live(e) = {} /\ ~HasExp(e) /\ ~HasJob(e)
      BY DEF Init, Live, LivePc, ActivePc, HasExp, HasJob
    <2>3. canceling = {}
      BY DEF Init
    <2>. QED BY <2>1, <2>2, <2>3 DEF SerialInv, OneLiveRun, ExperimentsQueued,
           StatusFits
  <1>2. SerialInv /\ [Next]_vars => SerialInv'
    <2>. SUFFICES ASSUME SerialInv, [Next]_vars PROVE SerialInv'
      OBVIOUS
    <2>1. crashes = 0 /\ faults = 0
      BY DEF OneWorkerNoFaults, SerialInv, QueueInv, TypeOK
    <2>2. CASE \E e \in Experiments : Handler(e)
      BY <2>2, HandlerSerialInv
    <2>3. CASE \E w \in Workers : Claim(w)
      BY <2>3, ClaimSerialInv DEF OneWorkerNoFaults
    <2>4. CASE \E e \in Experiments, a \in Attempts : RunStep(e, a)
      BY <2>4, RunSerialInv
    <2>5. CASE \E e \in Experiments, a \in Attempts, x \in Examples :
                  ExampleStep(e, a, x)
      BY <2>5, ExampleSerialInv
    <2>6. CASE UNCHANGED vars
      <3>1. QueueInv'
        BY <2>6, QueueInvStep DEF SerialInv
      <3>2. UNCHANGED <<expStatus, jobStatus, baseline, creating, canceling,
                        baselining, runPc, runWorker>>
        BY <2>6 DEF vars, rows, handlers, runs
      <3>3. \A e \in Experiments : Live(e)' = Live(e)
        BY <3>2 DEF Live
      <3>. QED BY <3>1, <3>2, <3>3 DEF SerialInv, OneLiveRun,
             ExperimentsQueued, StatusFits, HasExp, HasJob
    <2>7. ASSUME NEW e \in Experiments, HandlerDies(e) PROVE FALSE
      BY <2>1, <2>7 DEF HandlerDies, OneWorkerNoFaults
    <2>8. ASSUME NEW w \in Workers, Crash(w) PROVE FALSE
      BY <2>1, <2>8 DEF Crash, OneWorkerNoFaults
    <2>9. ~Fault
      BY <2>1 DEF Fault, OneWorkerNoFaults
    <2>. QED BY <2>2, <2>3, <2>4, <2>5, <2>6, <2>7, <2>8, <2>9
           DEF Next, RunFault, TaskFault
  <1>. QED BY <1>1, <1>2, PTL DEF Spec

\* With one worker and no crash or failing statement, an experiment nobody
\* is busy with shows how its job ended: completed, failed or canceled.
THEOREM StatusAgreesInTheEnd ==
  ASSUME OneWorkerNoFaults
  PROVE  Spec => []FinalStatusAgrees
  <1>1. SerialInv => FinalStatusAgrees
    <2>. SUFFICES ASSUME SerialInv, NEW e \in Experiments,
                         Settled(e), jobStatus[e] \in FinalStatus
                  PROVE  expStatus[e] = jobStatus[e]
      BY DEF FinalStatusAgrees
    <2>1. Live(e) = {} /\ HasJob(e)
      BY DEF Settled, Live, HasJob, FinalStatus
    <2>. QED BY <2>1 DEF SerialInv, StatusFits, Agree, FinalStatus
  <1>. QED BY <1>1, SerialInvHolds, PTL
=============================================================================
