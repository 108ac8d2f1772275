---------------------------- MODULE JobLifecycle ----------------------------
(***************************************************************************)
(* What the experiment job queue promises to the rest of the evaluation    *)
(* engine, with no runner, no handler and no statement boundary in it:     *)
(* a job row moves between its statuses, an attempt is counted when the    *)
(* job is handed to a worker, no job is handed out while somebody still    *)
(* works on it, and it is handed out at most MaxAttempts times.            *)
(* ExperimentJobs implements this specification.                           *)
(***************************************************************************)
EXTENDS Naturals

CONSTANTS Experiments,  \* the experiments; each has at most one job row
          MaxAttempts   \* experiment_jobs.max_attempts

VARIABLES status,    \* status of the job row; "none" when there is no row
          attempts,  \* how often the job has been handed to a worker
          active     \* the jobs some live worker has not given back

jobVars == <<status, attempts, active>>

JobStatus == {"none", "pending", "running", "completed", "failed",
              "cancel_requested", "canceled"}

SetStatus(e, s) == status' = [status EXCEPT ![e] = s]

Init == /\ status = [e \in Experiments |-> "none"]
        /\ attempts = [e \in Experiments |-> 0]
        /\ active = {}

\* A new job is queued; a job is queued once in its life.
Enqueue(e) == /\ status[e] = "none" /\ attempts[e] = 0 /\ e \notin active
              /\ SetStatus(e, "pending")
              /\ UNCHANGED <<attempts, active>>

\* A pending job nobody works on is handed to a worker.
HandOut(e) == /\ status[e] = "pending" /\ e \notin active
              /\ attempts[e] < MaxAttempts
              /\ SetStatus(e, "running")
              /\ attempts' = [attempts EXCEPT ![e] = @ + 1]
              /\ active' = active \cup {e}

RequestCancel(e) == /\ status[e] \in {"pending", "running"}
                    /\ SetStatus(e, "cancel_requested")
                    /\ UNCHANGED <<attempts, active>>

\* Any worker may finish a cancellation, even of a job another worker runs.
Cancel(e) == /\ status[e] = "cancel_requested"
             /\ SetStatus(e, "canceled")
             /\ UNCHANGED <<attempts, active>>

\* The worker that has the job records that it is complete, and may have
\* more to do before it gives the job back.
Complete(e) == /\ e \in active /\ status[e] # "none"
               /\ SetStatus(e, "completed")
               /\ active' \in {active, active \ {e}}
               /\ UNCHANGED attempts

\* The worker gives the job back for another attempt, while one is left.
Requeue(e) == /\ e \in active /\ status[e] # "none"
              /\ attempts[e] < MaxAttempts
              /\ SetStatus(e, "pending")
              /\ active' = active \ {e}
              /\ UNCHANGED attempts

\* The worker gives the job back as failed: its last attempt is spent.
Fail(e) == /\ e \in active /\ status[e] # "none"
           /\ attempts[e] = MaxAttempts
           /\ SetStatus(e, "failed")
           /\ active' = active \ {e}
           /\ UNCHANGED attempts

\* Workers finish or die: what they worked on stays as its row says.
Release == /\ active' \subseteq active
           /\ UNCHANGED <<status, attempts>>

\* The row goes with its experiment; the attempts it used are not given back.
Delete(e) == /\ status[e] # "none"
             /\ SetStatus(e, "none")
             /\ UNCHANGED <<attempts, active>>

Next == \/ \E e \in Experiments :
             \/ Enqueue(e) \/ HandOut(e) \/ RequestCancel(e) \/ Cancel(e)
             \/ Complete(e) \/ Requeue(e) \/ Fail(e) \/ Delete(e)
        \/ Release

Spec == Init /\ [][Next]_jobVars
=============================================================================
