----------------------------- MODULE WorkflowRuns -----------------------------
(***************************************************************************)
(* Durable workflow runs: the workflow_runs and workflow_jobs tables of    *)
(* mas/runtime/run_state.py and mas/runtime/work_queue.py, and the API     *)
(* tasks of mas/api.py that fill, drain and repair them.  Several API      *)
(* processes share the tables; each keeps its own set `running`.  Each     *)
(* action is one SQL statement (asyncpg autocommits) with the in-memory    *)
(* steps around it up to the next await.                                   *)
(***************************************************************************)
EXTENDS Naturals, Sequences

CONSTANTS Project,
          Process,     \* API processes on the same database
          Task,        \* asyncio tasks: requests, background drains, preflights
          Home,        \* the process each task lives in
          Run,         \* the uuid4 run identities
          LongPhases,  \* may a phase outlast the stale threshold?
          MaxAsks,     \* bound on POST /run requests
          MaxFaults,   \* bound on crashes and failed statements
          None

ASSUME ConstantsAssumption ==
    /\ Home \in [Task -> Process]
    /\ LongPhases \in BOOLEAN
    /\ MaxAsks \in Nat /\ MaxFaults \in Nat
    /\ None \notin Project \cup Run

VARIABLES
    status,    \* workflow_runs.status, "none" for no row
    project,   \* workflow_runs.project_id
    stale,     \* runs whose heartbeat is older than the threshold
    job,       \* workflow_jobs.status of the run's job, "none" for no row
    queue,     \* the jobs in the order of available_at
    running,   \* api.running of each process
    task,      \* what each task is doing
    asks,      \* POST /run requests so far
    faults     \* crashes and failed statements so far

runTable == <<status, project, stale>>
jobTable == <<job, queue>>
vars == <<status, project, stale, job, queue, running, task, asks, faults>>

Active == {"queued", "running"}
Terminal == {"succeeded", "failed"}

Requesting == {"asked", "recovered", "free", "contended", "retry", "enqueue"}
Closing == {"settle", "refail", "succeeded", "failed"}
Stage == {"idle", "unqueued", "drain", "claimed", "executing", "surveyed"}
             \cup Requesting \cup Closing

Idle == [at |-> "idle", project |-> None, run |-> None, excluded |-> {}]

Init ==
    /\ status  = [r \in Run |-> "none"]
    /\ project = [r \in Run |-> None]
    /\ stale   = {}
    /\ job     = [r \in Run |-> "none"]
    /\ queue   = <<>>
    /\ running = [k \in Process |-> {}]
    /\ task    = [w \in Task |-> Idle]
    /\ asks    = 0
    /\ faults  = 0

ActiveRuns(p) == {r \in Run : project[r] = p /\ status[r] \in Active}

\* The rows the recovery statements select, set to failed with a fresh heartbeat.
Abandon(rs) ==
    /\ status' = [r \in Run |-> IF r \in rs THEN "failed" ELSE status[r]]
    /\ stale'  = stale \ rs
    /\ UNCHANGED project

\* _update_run: WHERE run_id only, whatever the status is; the heartbeat is touched.
SetStatus(r, s) ==
    /\ status' = [status EXCEPT ![r] = s]
    /\ stale' = stale \ {r}
    /\ UNCHANGED project

Goto(w, stage) == task' = [task EXCEPT ![w].at = stage]
Drop(w) == task' = [task EXCEPT ![w] = Idle]

\* Mutant: no `running.discard`.
DiscardNothing(w) == UNCHANGED running
Discard(w) == running' = [running EXCEPT ![Home[w]] = @ \ {task[w].project}]

\* A statement fails and the caller goes on: _safe_mark_* swallow the exception.
Fault == faults < MaxFaults /\ faults' = faults + 1

-----------------------------------------------------------------------------
(* POST /projects/{id}/run                                                  *)

\* The project is loaded and this process is not executing it.
Ask(w, p) ==
    /\ task[w].at = "idle"
    /\ asks < MaxAsks
    /\ p \notin running[Home[w]]
    /\ asks' = asks + 1
    /\ task' = [task EXCEPT ![w] = [Idle EXCEPT !.at = "asked", !.project = p]]
    /\ UNCHANGED <<runTable, jobTable, running, faults>>

\* recover_stale_project_run, then the local check again.
RecoverProject(w) ==
    LET p == task[w].project IN
    /\ task[w].at = "asked"
    /\ Abandon(ActiveRuns(p) \cap stale)
    /\ IF p \in running[Home[w]] THEN Drop(w) ELSE Goto(w, "recovered")
    /\ UNCHANGED <<jobTable, running, asks, faults>>

\* _ensure_project_not_running: 409 when the project has an active run.
EnsureNotRunning(w) ==
    /\ task[w].at = "recovered"
    /\ IF ActiveRuns(task[w].project) = {} THEN Goto(w, "free") ELSE Drop(w)
    /\ UNCHANGED <<runTable, jobTable, running, asks, faults>>

\* The workflow is already complete, or the recovery failed (503).
Refuse(w) ==
    /\ task[w].at \in {"asked", "recovered"}
    /\ Drop(w)
    /\ UNCHANGED <<runTable, jobTable, running, asks, faults>>

\* Mutant: an insert that ignores the partial unique index.
InsertRunUnguarded(w, r) ==
    /\ task[w].at \in {"free", "retry"}
    /\ status[r] = "none"
    /\ status'  = [status EXCEPT ![r] = "queued"]
    /\ project' = [project EXCEPT ![r] = task[w].project]
    /\ task' = [task EXCEPT ![w].at = "enqueue", ![w].run = r]
    /\ UNCHANGED <<stale, jobTable, running, asks, faults>>

\* _insert_workflow_run under the partial unique index.
InsertRun(w, r) ==
    /\ task[w].at \in {"free", "retry"}
    /\ ActiveRuns(task[w].project) = {}
    /\ status[r] = "none"
    /\ status'  = [status EXCEPT ![r] = "queued"]
    /\ project' = [project EXCEPT ![r] = task[w].project]
    /\ task' = [task EXCEPT ![w].at = "enqueue", ![w].run = r]
    /\ UNCHANGED <<stale, jobTable, running, asks, faults>>

\* ON CONFLICT DO NOTHING; after the second attempt the answer is 409.
InsertConflict(w) ==
    /\ task[w].at \in {"free", "retry"}
    /\ ActiveRuns(task[w].project) # {}
    /\ IF task[w].at = "free" THEN Goto(w, "contended") ELSE Drop(w)
    /\ UNCHANGED <<runTable, jobTable, running, asks, faults>>

\* create_workflow_run recovers the project's run once and tries again.
RecoverContended(w) ==
    LET rs == ActiveRuns(task[w].project) \cap stale IN
    /\ task[w].at = "contended"
    /\ Abandon(rs)
    /\ IF rs = {} THEN Drop(w) ELSE Goto(w, "retry")
    /\ UNCHANGED <<jobTable, running, asks, faults>>

Enqueued(w) ==
    /\ task[w].at = "enqueue"
    /\ job' = [job EXCEPT ![task[w].run] = "queued"]
    /\ queue' = Append(queue, task[w].run)
    /\ UNCHANGED <<runTable, running, asks>>

\* enqueue_workflow_job; the drain runs in the background of this request.
EnqueueJob(w) == Enqueued(w) /\ Goto(w, "drain") /\ UNCHANGED faults

\* The background drain could not be scheduled: the job stays queued.
EnqueueUndrained(w) == Enqueued(w) /\ Fault /\ Drop(w)

\* WorkflowQueueError: the run is marked failed next.
EnqueueRefused(w) ==
    /\ task[w].at = "enqueue"
    /\ Fault
    /\ Goto(w, "unqueued")
    /\ UNCHANGED <<runTable, jobTable, running, asks>>

MarkUnqueued(w) ==
    /\ task[w].at = "unqueued"
    /\ SetStatus(task[w].run, "failed")
    /\ Drop(w)
    /\ UNCHANGED <<jobTable, running, asks, faults>>

\* Any other error of the insert is not caught: the run stays queued.
EnqueueRaised(w) ==
    /\ task[w].at = "enqueue"
    /\ Fault
    /\ Drop(w)
    /\ UNCHANGED <<runTable, jobTable, running, asks>>

-----------------------------------------------------------------------------
(* _drain_workflow_queue and _execute_workflow_job                          *)

\* Mutant: the claim takes running jobs again.
ClaimableAgain(r) == job[r] \in Active /\ status[r] \in Active

Claimable(r) == job[r] = "queued" /\ status[r] \in Active

\* claim_next_workflow_job takes the oldest claimable job, of any project.
ClaimJob(w) ==
    \E i \in 1..Len(queue) :
        LET r == queue[i] IN
        /\ task[w].at = "drain"
        /\ Claimable(r)
        /\ \A j \in 1..(i - 1) : ~Claimable(queue[j])
        /\ job' = [job EXCEPT ![r] = "running"]
        /\ running' = [running EXCEPT ![Home[w]] = @ \cup {project[r]}]
        /\ task' = [task EXCEPT ![w] = [at |-> "claimed", project |-> project[r],
                                        run |-> r, excluded |-> {}]]
        /\ UNCHANGED <<runTable, queue, asks, faults>>

\* No job to claim, or the claim itself fails: the drain is over either way.
ClaimNothing(w) ==
    /\ task[w].at = "drain"
    /\ IF \A i \in 1..Len(queue) : ~Claimable(queue[i]) THEN UNCHANGED faults ELSE Fault
    /\ Drop(w)
    /\ UNCHANGED <<runTable, jobTable, running, asks>>

\* The unique index rejects a second active run; _safe_mark swallows the error.
WouldCollide(r) == ActiveRuns(project[r]) \ {r} # {}

\* mark_run_running: no test of the status it overwrites.
MarkRunning(w) ==
    LET r == task[w].run IN
    /\ task[w].at = "claimed"
    /\ IF WouldCollide(r) THEN UNCHANGED runTable ELSE SetStatus(r, "running")
    /\ Goto(w, "executing")
    /\ UNCHANGED <<jobTable, running, asks, faults>>

MarkRunningLost(w) ==
    /\ task[w].at = "claimed"
    /\ Fault
    /\ Goto(w, "executing")
    /\ UNCHANGED <<runTable, jobTable, running, asks>>

\* mark_run_phase between two phases touches the heartbeat only.
Heartbeat(w) ==
    /\ task[w].at = "executing"
    /\ task[w].run \in stale
    /\ stale' = stale \ {task[w].run}
    /\ UNCHANGED <<status, project, jobTable, running, task, asks, faults>>

\* The last mark of a run, then the inner `running.discard`: succeeded when
\* every phase completed and was accepted, failed otherwise or when the project
\* vanished before the first phase.
Finish(w, s) ==
    /\ \/ task[w].at = "executing" /\ s \in Terminal
       \/ task[w].at = "claimed" /\ s = "failed"
    /\ SetStatus(task[w].run, s)
    /\ Discard(w)
    /\ Goto(w, "settle")
    /\ UNCHANGED <<jobTable, asks, faults>>

FinishLost(w) ==
    /\ task[w].at = "executing"
    /\ Fault
    /\ Discard(w)
    /\ Goto(w, "settle")
    /\ UNCHANGED <<runTable, jobTable, asks>>

\* Mutant: the job's outcome does not come from the run.
SettleSucceeded(w) ==
    /\ task[w].at = "settle"
    /\ Goto(w, "succeeded")
    /\ UNCHANGED <<runTable, jobTable, running, asks, faults>>

\* get_workflow_run: the job repeats the run's outcome.
Settle(w) ==
    /\ task[w].at = "settle"
    /\ Goto(w, IF status[task[w].run] \in Terminal THEN status[task[w].run] ELSE "refail")
    /\ UNCHANGED <<runTable, jobTable, running, asks, faults>>

\* The read itself fails: the run is marked failed whatever it was.
SettleRaised(w) ==
    /\ task[w].at = "settle"
    /\ Fault
    /\ Goto(w, "refail")
    /\ UNCHANGED <<runTable, jobTable, running, asks>>

\* "Workflow job finished without a terminal run state."
MarkUnsettled(w) ==
    /\ task[w].at = "refail"
    /\ SetStatus(task[w].run, "failed")
    /\ Goto(w, "failed")
    /\ UNCHANGED <<jobTable, running, asks, faults>>

\* mark_job_*, then the outer `running.discard`.
CloseJob(w) ==
    /\ task[w].at \in Terminal
    /\ job' = [job EXCEPT ![task[w].run] = task[w].at]
    /\ Discard(w)
    /\ Drop(w)
    /\ UNCHANGED <<runTable, queue, asks, faults>>

CloseJobLost(w) ==
    /\ task[w].at \in Terminal
    /\ Fault
    /\ Discard(w)
    /\ Drop(w)
    /\ UNCHANGED <<runTable, jobTable, asks>>

-----------------------------------------------------------------------------
(* GET /runtime/preflight, time and crashes                                 *)

\* build_runtime_preflight copies `running` before it awaits anything.
Survey(w) ==
    /\ task[w].at = "idle"
    /\ task' = [task EXCEPT ![w] = [Idle EXCEPT !.at = "surveyed", !.excluded = running[Home[w]]]]
    /\ UNCHANGED <<runTable, jobTable, running, asks, faults>>

\* Mutants: fresh heartbeats are not spared; queued runs are not recovered.
SweepFresh(w) ==
    /\ task[w].at = "surveyed"
    /\ Abandon({r \in Run : status[r] \in Active /\ project[r] \notin task[w].excluded})
    /\ Drop(w)
    /\ UNCHANGED <<jobTable, running, asks, faults>>

SweepRunningOnly(w) ==
    /\ task[w].at = "surveyed"
    /\ Abandon({r \in stale : status[r] = "running" /\ project[r] \notin task[w].excluded})
    /\ Drop(w)
    /\ UNCHANGED <<jobTable, running, asks, faults>>

\* recover_stale_active_runs with that copy (its LIMIT of 100 is not reached).
Sweep(w) ==
    /\ task[w].at = "surveyed"
    /\ Abandon({r \in stale : status[r] \in Active /\ project[r] \notin task[w].excluded})
    /\ Drop(w)
    /\ UNCHANGED <<jobTable, running, asks, faults>>

\* A task whose step on run r takes far less than the threshold of 300 s or more.
Attends(w, r) ==
    \/ task[w].project = project[r] /\ task[w].at \in (Requesting \cup Closing) \ {"asked"}
    \/ task[w].run = r /\ task[w].at \in {"claimed", "unqueued"}
    \/ task[w].at = "drain" /\ job[r] = "queued"
    \/ task[w].run = r /\ task[w].at = "executing" /\ ~LongPhases

\* The threshold passes without a heartbeat.
Age(r) ==
    /\ status[r] \in Active
    /\ r \notin stale
    /\ ~\E w \in Task : Attends(w, r)
    /\ stale' = stale \cup {r}
    /\ UNCHANGED <<status, project, jobTable, running, task, asks, faults>>

Crash(k) ==
    /\ \E w \in Task : Home[w] = k /\ task[w].at # "idle"
    /\ Fault
    /\ running' = [running EXCEPT ![k] = {}]
    /\ task' = [w \in Task |-> IF Home[w] = k THEN Idle ELSE task[w]]
    /\ UNCHANGED <<runTable, jobTable, asks>>

-----------------------------------------------------------------------------
Request(w) ==
    \/ RecoverProject(w) \/ EnsureNotRunning(w)
    \/ (\E r \in Run : InsertRun(w, r)) \/ InsertConflict(w) \/ RecoverContended(w)
    \/ EnqueueJob(w) \/ MarkUnqueued(w)

Execute(w) ==
    \/ ClaimJob(w) \/ ClaimNothing(w) \/ MarkRunning(w)
    \/ (\E s \in Terminal : Finish(w, s))
    \/ Settle(w) \/ MarkUnsettled(w) \/ CloseJob(w)

Faulty(w) ==
    \/ EnqueueUndrained(w) \/ EnqueueRefused(w) \/ EnqueueRaised(w)
    \/ MarkRunningLost(w) \/ FinishLost(w) \/ SettleRaised(w) \/ CloseJobLost(w)

TaskNext(w) ==
    \/ \E p \in Project : Ask(w, p)
    \/ Refuse(w) \/ Request(w) \/ Execute(w) \/ Heartbeat(w) \/ Faulty(w)
    \/ Survey(w) \/ Sweep(w)

Next ==
    \/ \E w \in Task : TaskNext(w)
    \/ \E r \in Run : Age(r)
    \/ \E k \in Process : Crash(k)

Spec == Init /\ [][Next]_vars

\* The event loop serves every task and phases end; time passes; and somebody
\* asks for the preflight again and again, which nothing in the code does.
Fairness ==
    /\ \A w \in Task : /\ WF_vars(Request(w)) /\ WF_vars(Execute(w))
                       /\ SF_vars(Survey(w)) /\ WF_vars(Sweep(w))
    /\ \A r \in Run : WF_vars(Age(r))
FairSpec == Spec /\ Fairness

-----------------------------------------------------------------------------
TypeOK ==
    /\ status \in [Run -> {"none"} \cup Active \cup Terminal]
    /\ project \in [Run -> Project \cup {None}]
    /\ \A r \in Run : status[r] = "none" <=> project[r] = None
    /\ stale \subseteq Run
    /\ job \in [Run -> {"none"} \cup Active \cup Terminal]
    /\ queue \in Seq(Run)
    /\ running \in [Process -> SUBSET Project]
    /\ task \in [Task -> [at : Stage, project : Project \cup {None},
                          run : Run \cup {None}, excluded : SUBSET Project]]
    /\ asks \in 0..MaxAsks
    /\ faults \in 0..MaxFaults

(* A project never has two queued or running rows, although a mark that     *)
(* arrives late brings a recovered run back to life (the partial unique     *)
(* index, and the update it rejects).                                       *)
OneActiveRun == \A r, s \in Run :
    /\ project[r] = project[s] /\ status[r] \in Active /\ status[s] \in Active
    => r = s

Executing(w, p) == task[w].project = p /\ task[w].at \in {"claimed", "executing"}

(* The workflow of a project is never executed by two tasks at once.        *)
OneExecutor == \A p \in Project : \A v, w \in Task :
    Executing(v, p) /\ Executing(w, p) => v = w

(* A job is only recorded as succeeded when its run is: a recovery or a     *)
(* lost mark in between never leaves a succeeded job with a failed run.     *)
JobSucceededWithRun == \A r \in Run : job[r] = "succeeded" => status[r] = "succeeded"

(* A job is executed by the one task that claimed it: no attempt is made    *)
(* twice, whatever is recovered, resurrected or refused in between          *)
(* (max_attempts 1, "automatic retries are disabled").                      *)
OneAttempt == \A v, w \in Task :
    /\ v # w /\ task[v].at \in {"claimed", "executing"} \cup Closing
    /\ task[w].at \in {"claimed", "executing"} \cup Closing
    => task[v].run # task[w].run

(* The local guard never outlives the tasks it guards: after any outcome a  *)
(* project can be started again in this process.                            *)
NoLeakedGuard == \A k \in Process : \A p \in running[k] :
    \E w \in Task : Home[w] = k /\ task[w].project = p
                    /\ task[w].at \in {"claimed", "executing"} \cup Closing

(* A run that a task executes is never recovered as abandoned while its     *)
(* heartbeat is fresh: recovery takes only rows past the threshold.         *)
RecoveryOnlyTakesStale ==
    [][\A r \in Run : status[r] \in Active /\ status'[r] = "failed" /\ r \notin stale
          => \E w \in Task : task[w].run = r /\ task'[w] # task[w]]_vars

(* Every run is eventually over: a crash at any step, a lost mark or a run  *)
(* never enqueued ends in recovery, as long as preflight is asked for.      *)
RunsEnd == \A r \in Run : status[r] \in Active ~> status[r] \in Terminal

-----------------------------------------------------------------------------
(* What the repository says and the code does not keep.                     *)

(* Terminal statuses are terminal: a run recovered as failed, or finished,  *)
(* keeps its status.                                                        *)
TerminalIsFinal ==
    [][\A r \in Run : status[r] \in Terminal => status'[r] = status[r]]_vars

(* The queue returns to idle: every job is eventually succeeded or failed.  *)
QueueReturnsToIdle == \A r \in Run : job[r] \in Active ~> job[r] \in Terminal

(* While a workflow is executed in a process, the process counts it.        *)
ExecutingIsCounted == \A w \in Task :
    task[w].at \in {"claimed", "executing"} => task[w].project \in running[Home[w]]
=============================================================================
