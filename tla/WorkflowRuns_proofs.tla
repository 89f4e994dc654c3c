------------------------- MODULE WorkflowRuns_proofs -------------------------
(***************************************************************************)
(* Machine-checked proofs about WorkflowRuns, for any number of projects,  *)
(* processes, tasks and runs, with recoveries and faults at any step.      *)
(***************************************************************************)
EXTENDS WorkflowRuns, TLAPS

Holding == {"enqueue", "unqueued", "claimed", "executing"} \cup Closing

\* A task that has come to a project or a run really has one.
TasksHold == \A w \in Task :
    /\ task[w].at \in Requesting => task[w].project \in Project
    /\ task[w].at \in Holding => task[w].run \in Run /\ status[task[w].run] # "none"

\* Nobody else has the same run.
HeldOnce == \A v, w \in Task :
    /\ v # w /\ task[v].at \in Holding /\ task[w].at \in Holding
    => task[v].run # task[w].run

\* The job of a run is where the task that holds the run has left it.
JobsFollow ==
    /\ \A r \in Run : status[r] = "none" => job[r] = "none"
    /\ \A w \in Task :
          /\ task[w].at \in {"enqueue", "unqueued"} => job[task[w].run] = "none"
          /\ task[w].at \in {"claimed", "executing"} \cup Closing => job[task[w].run] = "running"
          /\ task[w].at = "succeeded" => status[task[w].run] = "succeeded"

TaskRecord == [at : Stage, project : Project \cup {None},
               run : Run \cup {None}, excluded : SUBSET Project]

IInv == TypeOK /\ TasksHold /\ HeldOnce /\ JobsFollow /\ OneActiveRun /\ JobSucceededWithRun

USE DEF Active, Terminal, Requesting, Closing, Stage, Holding

\* What the two ways to move a task leave of the others.
Elsewhere(w) == \A v \in Task \ {w} : task'[v] = task[v]

LEMMA GotoStep == ASSUME TypeOK, NEW w \in Task, NEW s \in Stage, Goto(w, s)
                  PROVE  /\ task' \in [Task -> TaskRecord] /\ Elsewhere(w)
                         /\ task'[w].at = s
                         /\ task'[w].project = task[w].project /\ task'[w].run = task[w].run
<1>1. [task[w] EXCEPT !.at = s] \in TaskRecord
  BY ZenonT(30) DEF TypeOK, TaskRecord
<1>2. task' = [task EXCEPT ![w] = [task[w] EXCEPT !.at = s]]
  BY DEF TypeOK, Goto
<1>3. task' \in [Task -> TaskRecord] /\ Elsewhere(w)
  BY <1>1, <1>2 DEF TypeOK, TaskRecord, Elsewhere
<1>4. task'[w] = [task[w] EXCEPT !.at = s]
  BY <1>2 DEF TypeOK
<1> QED
  BY <1>3, <1>4 DEF TypeOK, TaskRecord

LEMMA DropStep == ASSUME TypeOK, NEW w \in Task, Drop(w)
                  PROVE  /\ task' \in [Task -> TaskRecord] /\ Elsewhere(w)
                         /\ task'[w].at = "idle"
BY DEF TypeOK, Drop, Idle, TaskRecord, Elsewhere

LEMMA TakeStep ==
    ASSUME TypeOK, NEW w \in Task, NEW s \in Stage, NEW r \in Run, NEW p \in Project \cup {None},
           task' = [task EXCEPT ![w] = [at |-> s, project |-> p, run |-> r, excluded |-> {}]]
    PROVE  /\ task' \in [Task -> TaskRecord] /\ Elsewhere(w)
           /\ task'[w].at = s /\ task'[w].run = r /\ task'[w].project = p
BY DEF TypeOK, TaskRecord, Elsewhere

\* Recovery changes the status of active runs only.
LEMMA AbandonStep ==
    ASSUME TypeOK, NEW rs, \A r \in rs : r \in Run /\ status[r] \in Active, Abandon(rs)
    PROVE  \A r \in Run : status'[r] = status[r] \/ (status[r] \in Active /\ status'[r] = "failed")
BY DEF TypeOK, Abandon

LEMMA Initially == Init => IInv
<1> SUFFICES ASSUME Init PROVE IInv
  OBVIOUS
<1> QED
  BY ConstantsAssumption DEF Init, Idle, IInv, TypeOK, TasksHold, HeldOnce, JobsFollow, OneActiveRun, JobSucceededWithRun

LEMMA AskKeeps == ASSUME IInv, NEW w \in Task, NEW p \in Project, Ask(w, p) PROVE IInv'
<1> USE ConstantsAssumption DEF IInv, Ask, Idle, jobTable, runTable
<1>1. TypeOK'
  <2>1. task' \in [Task -> TaskRecord]
    BY DEF TypeOK, TasksHold, TaskRecord
  <2>2. QED
    BY <2>1 DEF TypeOK, TaskRecord, TasksHold
<1>2. TasksHold'
  BY DEF TasksHold, TypeOK
<1>3. HeldOnce'
  BY DEF HeldOnce, TasksHold, TypeOK
<1>4. JobsFollow'
  BY DEF JobsFollow, HeldOnce, TasksHold, TypeOK
<1>5. OneActiveRun'
  BY DEF OneActiveRun, TasksHold, TypeOK
<1>6. JobSucceededWithRun'
  BY DEF JobSucceededWithRun, JobsFollow, HeldOnce, TasksHold, TypeOK
<1> QED
  BY <1>1, <1>2, <1>3, <1>4, <1>5, <1>6

LEMMA RecoverProjectKeeps == ASSUME IInv, NEW w \in Task, RecoverProject(w) PROVE IInv'
<1> USE ConstantsAssumption DEF IInv, RecoverProject, Abandon, ActiveRuns, jobTable
<1>1. CASE task[w].project \in running[Home[w]]
  <2>0. task' \in [Task -> TaskRecord] /\ Elsewhere(w) /\ task'[w].at = "idle"
    BY <1>1, DropStep DEF TypeOK
  <2>a. \A r \in Run : status'[r] = status[r] \/ (status[r] \in Active /\ status'[r] = "failed")
    BY AbandonStep DEF TypeOK
  <2>1. TypeOK'
    BY <1>1, <2>0 DEF TypeOK, TasksHold, TaskRecord, Elsewhere
  <2>2. TasksHold'
    BY <1>1, <2>0 DEF TasksHold, TypeOK, TaskRecord, Elsewhere
  <2>3. HeldOnce'
    BY <1>1, <2>0 DEF HeldOnce, TasksHold, TypeOK, TaskRecord, Elsewhere
  <2>4. JobsFollow'
    <3>1. UNCHANGED job /\ \A v \in Task \ {w} : task'[v] = task[v]
      BY <2>0 DEF Elsewhere
    <3>2. \A r \in Run : status'[r] = "none" => status[r] = "none"
      BY <2>a
    <3>3. \A r \in Run : status[r] = "succeeded" => status'[r] = "succeeded"
      BY <2>a
    <3> HIDE DEF RecoverProject, Abandon
    <3> QED
      BY <2>0, <3>1, <3>2, <3>3 DEF JobsFollow, TasksHold
  <2>5. OneActiveRun'
    BY <1>1, <2>0 DEF OneActiveRun, TasksHold, TypeOK, TaskRecord, Elsewhere
  <2>6. JobSucceededWithRun'
    BY <1>1, <2>0 DEF JobSucceededWithRun, JobsFollow, HeldOnce, TasksHold, TypeOK, TaskRecord, Elsewhere
  <2> QED
    BY <2>1, <2>2, <2>3, <2>4, <2>5, <2>6
<1>2. CASE ~(task[w].project \in running[Home[w]])
  <2>0. /\ task' \in [Task -> TaskRecord] /\ Elsewhere(w)
        /\ task'[w].at = "recovered" /\ task'[w].project = task[w].project /\ task'[w].run = task[w].run
    BY <1>2, GotoStep DEF TypeOK
  <2>a. \A r \in Run : status'[r] = status[r] \/ (status[r] \in Active /\ status'[r] = "failed")
    BY AbandonStep DEF TypeOK
  <2>1. TypeOK'
    BY <1>2, <2>0 DEF TypeOK, TasksHold, TaskRecord, Elsewhere
  <2>2. TasksHold'
    BY <1>2, <2>0 DEF TasksHold, TypeOK, TaskRecord, Elsewhere
  <2>3. HeldOnce'
    BY <1>2, <2>0, SMTT(30) DEF HeldOnce, TasksHold, TypeOK, TaskRecord, Elsewhere
  <2>4. JobsFollow'
    <3>1. UNCHANGED job /\ \A v \in Task \ {w} : task'[v] = task[v]
      BY <2>0 DEF Elsewhere
    <3>2. \A r \in Run : status'[r] = "none" => status[r] = "none"
      BY <2>a
    <3>3. \A r \in Run : status[r] = "succeeded" => status'[r] = "succeeded"
      BY <2>a
    <3> HIDE DEF RecoverProject, Abandon
    <3> QED
      BY <2>0, <3>1, <3>2, <3>3 DEF JobsFollow, TasksHold
  <2>5. OneActiveRun'
    BY <1>2, <2>0 DEF OneActiveRun, TasksHold, TypeOK, TaskRecord, Elsewhere
  <2>6. JobSucceededWithRun'
    BY <1>2, <2>0 DEF JobSucceededWithRun, JobsFollow, HeldOnce, TasksHold, TypeOK, TaskRecord, Elsewhere
  <2> QED
    BY <2>1, <2>2, <2>3, <2>4, <2>5, <2>6
<1> QED
  BY <1>1, <1>2

LEMMA EnsureNotRunningKeeps == ASSUME IInv, NEW w \in Task, EnsureNotRunning(w) PROVE IInv'
<1> USE ConstantsAssumption DEF IInv, EnsureNotRunning, ActiveRuns, jobTable, runTable
<1>1. CASE ActiveRuns(task[w].project) = {}
  <2>0. /\ task' \in [Task -> TaskRecord] /\ Elsewhere(w)
        /\ task'[w].at = "free" /\ task'[w].project = task[w].project /\ task'[w].run = task[w].run
    BY <1>1, GotoStep DEF TypeOK
  <2>1. TypeOK'
    BY <1>1, <2>0 DEF TypeOK, TasksHold, TaskRecord, Elsewhere
  <2>2. TasksHold'
    BY <1>1, <2>0 DEF TasksHold, TypeOK, TaskRecord, Elsewhere
  <2>3. HeldOnce'
    BY <1>1, <2>0 DEF HeldOnce, TasksHold, TypeOK, TaskRecord, Elsewhere
  <2>4. JobsFollow'
    BY <1>1, <2>0 DEF JobsFollow, HeldOnce, TasksHold, TypeOK, TaskRecord, Elsewhere
  <2>5. OneActiveRun'
    BY <1>1, <2>0 DEF OneActiveRun, TasksHold, TypeOK, TaskRecord, Elsewhere
  <2>6. JobSucceededWithRun'
    BY <1>1, <2>0 DEF JobSucceededWithRun, JobsFollow, HeldOnce, TasksHold, TypeOK, TaskRecord, Elsewhere
  <2> QED
    BY <2>1, <2>2, <2>3, <2>4, <2>5, <2>6
<1>2. CASE ActiveRuns(task[w].project) # {}
  <2>0. task' \in [Task -> TaskRecord] /\ Elsewhere(w) /\ task'[w].at = "idle"
    BY <1>2, DropStep DEF TypeOK
  <2>1. TypeOK'
    BY <1>2, <2>0 DEF TypeOK, TasksHold, TaskRecord, Elsewhere
  <2>2. TasksHold'
    BY <1>2, <2>0 DEF TasksHold, TypeOK, TaskRecord, Elsewhere
  <2>3. HeldOnce'
    BY <1>2, <2>0 DEF HeldOnce, TasksHold, TypeOK, TaskRecord, Elsewhere
  <2>4. JobsFollow'
    BY <1>2, <2>0 DEF JobsFollow, HeldOnce, TasksHold, TypeOK, TaskRecord, Elsewhere
  <2>5. OneActiveRun'
    BY <1>2, <2>0 DEF OneActiveRun, TasksHold, TypeOK, TaskRecord, Elsewhere
  <2>6. JobSucceededWithRun'
    BY <1>2, <2>0 DEF JobSucceededWithRun, JobsFollow, HeldOnce, TasksHold, TypeOK, TaskRecord, Elsewhere
  <2> QED
    BY <2>1, <2>2, <2>3, <2>4, <2>5, <2>6
<1> QED
  BY <1>1, <1>2

LEMMA RefuseKeeps == ASSUME IInv, NEW w \in Task, Refuse(w) PROVE IInv'
<1> USE ConstantsAssumption DEF IInv, Refuse, Drop, Idle, jobTable, runTable
<1> QED
  BY DEF TypeOK, TasksHold, HeldOnce, JobsFollow, OneActiveRun, JobSucceededWithRun

LEMMA InsertRunKeeps == ASSUME IInv, NEW w \in Task, NEW r \in Run, InsertRun(w, r) PROVE IInv'
<1> USE ConstantsAssumption DEF IInv, InsertRun, ActiveRuns, jobTable
<1>1. TypeOK'
  <2>1. task' \in [Task -> TaskRecord]
    <3>1. [task[w] EXCEPT !.at = "enqueue", !.run = r] \in TaskRecord
      BY ZenonT(30) DEF TypeOK, TaskRecord
    <3>2. task' = [task EXCEPT ![w] = [task[w] EXCEPT !.at = "enqueue", !.run = r]]
      BY DEF TypeOK, TaskRecord
    <3> QED
      BY <3>1, <3>2 DEF TypeOK, TaskRecord
  <2>2. QED
    BY <2>1 DEF TypeOK, TaskRecord, TasksHold
<1>2. TasksHold'
  BY DEF TasksHold, TypeOK
<1>3. HeldOnce'
  BY DEF HeldOnce, TasksHold, TypeOK
<1>4. JobsFollow'
  BY DEF JobsFollow, HeldOnce, TasksHold, TypeOK
<1>5. OneActiveRun'
  BY DEF OneActiveRun, TasksHold, TypeOK
<1>6. JobSucceededWithRun'
  BY DEF JobSucceededWithRun, JobsFollow, HeldOnce, TasksHold, TypeOK
<1> QED
  BY <1>1, <1>2, <1>3, <1>4, <1>5, <1>6

LEMMA InsertConflictKeeps == ASSUME IInv, NEW w \in Task, InsertConflict(w) PROVE IInv'
<1> USE ConstantsAssumption DEF IInv, InsertConflict, ActiveRuns, jobTable, runTable
<1>1. CASE task[w].at = "free"
  <2>0. /\ task' \in [Task -> TaskRecord] /\ Elsewhere(w)
        /\ task'[w].at = "contended" /\ task'[w].project = task[w].project /\ task'[w].run = task[w].run
    BY <1>1, GotoStep DEF TypeOK
  <2>1. TypeOK'
    BY <1>1, <2>0 DEF TypeOK, TasksHold, TaskRecord, Elsewhere
  <2>2. TasksHold'
    BY <1>1, <2>0 DEF TasksHold, TypeOK, TaskRecord, Elsewhere
  <2>3. HeldOnce'
    BY <1>1, <2>0 DEF HeldOnce, TasksHold, TypeOK, TaskRecord, Elsewhere
  <2>4. JobsFollow'
    BY <1>1, <2>0 DEF JobsFollow, HeldOnce, TasksHold, TypeOK, TaskRecord, Elsewhere
  <2>5. OneActiveRun'
    BY <1>1, <2>0 DEF OneActiveRun, TasksHold, TypeOK, TaskRecord, Elsewhere
  <2>6. JobSucceededWithRun'
    BY <1>1, <2>0 DEF JobSucceededWithRun, JobsFollow, HeldOnce, TasksHold, TypeOK, TaskRecord, Elsewhere
  <2> QED
    BY <2>1, <2>2, <2>3, <2>4, <2>5, <2>6
<1>2. CASE task[w].at # "free"
  <2>0. task' \in [Task -> TaskRecord] /\ Elsewhere(w) /\ task'[w].at = "idle"
    BY <1>2, DropStep DEF TypeOK
  <2>1. TypeOK'
    BY <1>2, <2>0 DEF TypeOK, TasksHold, TaskRecord, Elsewhere
  <2>2. TasksHold'
    BY <1>2, <2>0 DEF TasksHold, TypeOK, TaskRecord, Elsewhere
  <2>3. HeldOnce'
    BY <1>2, <2>0 DEF HeldOnce, TasksHold, TypeOK, TaskRecord, Elsewhere
  <2>4. JobsFollow'
    BY <1>2, <2>0 DEF JobsFollow, HeldOnce, TasksHold, TypeOK, TaskRecord, Elsewhere
  <2>5. OneActiveRun'
    BY <1>2, <2>0 DEF OneActiveRun, TasksHold, TypeOK, TaskRecord, Elsewhere
  <2>6. JobSucceededWithRun'
    BY <1>2, <2>0 DEF JobSucceededWithRun, JobsFollow, HeldOnce, TasksHold, TypeOK, TaskRecord, Elsewhere
  <2> QED
    BY <2>1, <2>2, <2>3, <2>4, <2>5, <2>6
<1> QED
  BY <1>1, <1>2

LEMMA RecoverContendedKeeps == ASSUME IInv, NEW w \in Task, RecoverContended(w) PROVE IInv'
<1> USE ConstantsAssumption DEF IInv, RecoverContended, Abandon, ActiveRuns, jobTable
<1>1. CASE ActiveRuns(task[w].project) \cap stale = {}
  <2>0. task' \in [Task -> TaskRecord] /\ Elsewhere(w) /\ task'[w].at = "idle"
    BY <1>1, DropStep DEF TypeOK
  <2>a. \A r \in Run : status'[r] = status[r] \/ (status[r] \in Active /\ status'[r] = "failed")
    BY AbandonStep DEF TypeOK
  <2>1. TypeOK'
    BY <1>1, <2>0 DEF TypeOK, TasksHold, TaskRecord, Elsewhere
  <2>2. TasksHold'
    BY <1>1, <2>0 DEF TasksHold, TypeOK, TaskRecord, Elsewhere
  <2>3. HeldOnce'
    BY <1>1, <2>0, SMTT(30) DEF HeldOnce, TasksHold, TypeOK, TaskRecord, Elsewhere
  <2>4. JobsFollow'
    <3>1. UNCHANGED job /\ \A v \in Task \ {w} : task'[v] = task[v]
      BY <2>0 DEF Elsewhere
    <3>2. \A r \in Run : status'[r] = "none" => status[r] = "none"
      BY <2>a
    <3>3. \A r \in Run : status[r] = "succeeded" => status'[r] = "succeeded"
      BY <2>a
    <3> HIDE DEF RecoverContended, Abandon
    <3> QED
      BY <2>0, <3>1, <3>2, <3>3 DEF JobsFollow, TasksHold
  <2>5. OneActiveRun'
    BY <1>1, <2>0 DEF OneActiveRun, TasksHold, TypeOK, TaskRecord, Elsewhere
  <2>6. JobSucceededWithRun'
    BY <1>1, <2>0 DEF JobSucceededWithRun, JobsFollow, HeldOnce, TasksHold, TypeOK, TaskRecord, Elsewhere
  <2> QED
    BY <2>1, <2>2, <2>3, <2>4, <2>5, <2>6
<1>2. CASE ActiveRuns(task[w].project) \cap stale # {}
  <2>0. /\ task' \in [Task -> TaskRecord] /\ Elsewhere(w)
        /\ task'[w].at = "retry" /\ task'[w].project = task[w].project /\ task'[w].run = task[w].run
    BY <1>2, GotoStep DEF TypeOK
  <2>a. \A r \in Run : status'[r] = status[r] \/ (status[r] \in Active /\ status'[r] = "failed")
    BY AbandonStep DEF TypeOK
  <2>1. TypeOK'
    BY <1>2, <2>0 DEF TypeOK, TasksHold, TaskRecord, Elsewhere
  <2>2. TasksHold'
    BY <1>2, <2>0 DEF TasksHold, TypeOK, TaskRecord, Elsewhere
  <2>3. HeldOnce'
    BY <1>2, <2>0 DEF HeldOnce, TasksHold, TypeOK, TaskRecord, Elsewhere
  <2>4. JobsFollow'
    <3>1. UNCHANGED job /\ \A v \in Task \ {w} : task'[v] = task[v]
      BY <2>0 DEF Elsewhere
    <3>2. \A r \in Run : status'[r] = "none" => status[r] = "none"
      BY <2>a
    <3>3. \A r \in Run : status[r] = "succeeded" => status'[r] = "succeeded"
      BY <2>a
    <3> HIDE DEF RecoverContended, Abandon
    <3> QED
      BY <2>0, <3>1, <3>2, <3>3 DEF JobsFollow, TasksHold
  <2>5. OneActiveRun'
    BY <1>2, <2>0 DEF OneActiveRun, TasksHold, TypeOK, TaskRecord, Elsewhere
  <2>6. JobSucceededWithRun'
    BY <1>2, <2>0 DEF JobSucceededWithRun, JobsFollow, HeldOnce, TasksHold, TypeOK, TaskRecord, Elsewhere
  <2> QED
    BY <2>1, <2>2, <2>3, <2>4, <2>5, <2>6
<1> QED
  BY <1>1, <1>2

LEMMA EnqueueJobKeeps == ASSUME IInv, NEW w \in Task, EnqueueJob(w) PROVE IInv'
<1> USE ConstantsAssumption DEF IInv, EnqueueJob, Enqueued, Goto, runTable
<1> QED
  BY DEF TypeOK, TasksHold, HeldOnce, JobsFollow, OneActiveRun, JobSucceededWithRun

LEMMA EnqueueUndrainedKeeps == ASSUME IInv, NEW w \in Task, EnqueueUndrained(w) PROVE IInv'
<1> USE ConstantsAssumption DEF IInv, EnqueueUndrained, Drop, Enqueued, Fault, Idle, runTable
<1> QED
  BY DEF TypeOK, TasksHold, HeldOnce, JobsFollow, OneActiveRun, JobSucceededWithRun

LEMMA EnqueueRefusedKeeps == ASSUME IInv, NEW w \in Task, EnqueueRefused(w) PROVE IInv'
<1> USE ConstantsAssumption DEF IInv, EnqueueRefused, Fault, Goto, jobTable, runTable
<1> QED
  BY DEF TypeOK, TasksHold, HeldOnce, JobsFollow, OneActiveRun, JobSucceededWithRun

LEMMA MarkUnqueuedKeeps == ASSUME IInv, NEW w \in Task, MarkUnqueued(w) PROVE IInv'
<1> USE ConstantsAssumption DEF IInv, MarkUnqueued, Drop, Idle, SetStatus, jobTable
<1> QED
  BY DEF TypeOK, TasksHold, HeldOnce, JobsFollow, OneActiveRun, JobSucceededWithRun

LEMMA EnqueueRaisedKeeps == ASSUME IInv, NEW w \in Task, EnqueueRaised(w) PROVE IInv'
<1> USE ConstantsAssumption DEF IInv, EnqueueRaised, Drop, Fault, Idle, jobTable, runTable
<1> QED
  BY DEF TypeOK, TasksHold, HeldOnce, JobsFollow, OneActiveRun, JobSucceededWithRun

LEMMA ClaimJobKeeps == ASSUME IInv, NEW w \in Task, ClaimJob(w) PROVE IInv'
<1> USE ConstantsAssumption DEF IInv, ClaimJob, Claimable, runTable
<1>1. PICK i \in 1 .. Len(queue) :
         /\ task[w].at = "drain" /\ job[queue[i]] = "queued" /\ status[queue[i]] \in Active
         /\ job' = [job EXCEPT ![queue[i]] = "running"]
         /\ running' = [running EXCEPT ![Home[w]] = @ \cup {project[queue[i]]}]
         /\ task' = [task EXCEPT ![w] = [at |-> "claimed", project |-> project[queue[i]],
                                         run |-> queue[i], excluded |-> {}]]
  OBVIOUS
<1> HIDE DEF ClaimJob
<1>2. queue[i] \in Run /\ project[queue[i]] \in Project
  BY <1>1 DEF TypeOK
<1>3. /\ task' \in [Task -> TaskRecord] /\ Elsewhere(w)
      /\ task'[w].at = "claimed" /\ task'[w].run = queue[i] /\ task'[w].project = project[queue[i]]
  BY <1>1, <1>2, TakeStep, ZenonT(30) DEF TypeOK
<1>4. UNCHANGED <<status, project, stale, queue, asks, faults>>
  BY DEF ClaimJob
<1>5. TypeOK'
  BY <1>1, <1>2, <1>3, <1>4 DEF TypeOK, TaskRecord
<1>6. TasksHold'
  BY <1>1, <1>2, <1>3, <1>4 DEF TasksHold, Elsewhere
<1>7. HeldOnce'
  BY <1>1, <1>2, <1>3 DEF HeldOnce, JobsFollow, Elsewhere
<1>8. JobsFollow'
  BY <1>1, <1>2, <1>3, <1>4 DEF JobsFollow, HeldOnce, TasksHold, TypeOK, Elsewhere
<1>9. OneActiveRun' /\ JobSucceededWithRun'
  BY <1>1, <1>2, <1>4 DEF OneActiveRun, JobSucceededWithRun, TypeOK
<1> QED
  BY <1>5, <1>6, <1>7, <1>8, <1>9

LEMMA ClaimNothingKeeps == ASSUME IInv, NEW w \in Task, ClaimNothing(w) PROVE IInv'
<1> USE ConstantsAssumption DEF IInv, ClaimNothing, Claimable, Fault, Drop, Idle, jobTable, runTable
<1> QED
  BY DEF TypeOK, TasksHold, HeldOnce, JobsFollow, OneActiveRun, JobSucceededWithRun

LEMMA MarkRunningKeeps == ASSUME IInv, NEW w \in Task, MarkRunning(w) PROVE IInv'
<1>0. task' \in [Task -> TaskRecord]
  BY GotoStep DEF MarkRunning, IInv
<1> USE ConstantsAssumption DEF IInv, MarkRunning, ActiveRuns, Goto, SetStatus, WouldCollide, jobTable, runTable
<1>1. TypeOK'
  <2>1. task' \in [Task -> TaskRecord]
    BY <1>0
  <2>2. QED
    BY <2>1 DEF TypeOK, TaskRecord, TasksHold
<1>2. TasksHold'
  BY DEF TasksHold, TypeOK
<1>3. HeldOnce'
  BY DEF HeldOnce, TasksHold, TypeOK
<1>4. JobsFollow'
  BY DEF JobsFollow, HeldOnce, TasksHold, TypeOK
<1>5. OneActiveRun'
  BY DEF OneActiveRun, TasksHold, TypeOK
<1>6. JobSucceededWithRun'
  BY DEF JobSucceededWithRun, JobsFollow, HeldOnce, TasksHold, TypeOK
<1> QED
  BY <1>1, <1>2, <1>3, <1>4, <1>5, <1>6

LEMMA MarkRunningLostKeeps == ASSUME IInv, NEW w \in Task, MarkRunningLost(w) PROVE IInv'
<1>0. task' \in [Task -> TaskRecord]
  BY GotoStep DEF MarkRunningLost, IInv
<1> USE ConstantsAssumption DEF IInv, MarkRunningLost, Fault, Goto, jobTable, runTable
<1>1. TypeOK'
  <2>1. task' \in [Task -> TaskRecord]
    BY <1>0
  <2>2. QED
    BY <2>1 DEF TypeOK, TaskRecord, TasksHold
<1>2. TasksHold'
  BY DEF TasksHold, TypeOK
<1>3. HeldOnce'
  BY DEF HeldOnce, TasksHold, TypeOK
<1>4. JobsFollow'
  BY DEF JobsFollow, HeldOnce, TasksHold, TypeOK
<1>5. OneActiveRun'
  BY DEF OneActiveRun, TasksHold, TypeOK
<1>6. JobSucceededWithRun'
  BY DEF JobSucceededWithRun, JobsFollow, HeldOnce, TasksHold, TypeOK
<1> QED
  BY <1>1, <1>2, <1>3, <1>4, <1>5, <1>6

LEMMA HeartbeatKeeps == ASSUME IInv, NEW w \in Task, Heartbeat(w) PROVE IInv'
<1> USE ConstantsAssumption DEF IInv, Heartbeat, jobTable
<1> QED
  BY DEF TypeOK, TasksHold, HeldOnce, JobsFollow, OneActiveRun, JobSucceededWithRun

LEMMA FinishKeeps == ASSUME IInv, NEW w \in Task, NEW s \in Terminal, Finish(w, s) PROVE IInv'
<1>0. task' \in [Task -> TaskRecord]
  BY GotoStep DEF Finish, IInv
<1> USE ConstantsAssumption DEF IInv, Finish, Discard, Goto, SetStatus, jobTable
<1>1. TypeOK'
  <2>1. task' \in [Task -> TaskRecord]
    BY <1>0
  <2>2. QED
    BY <2>1 DEF TypeOK, TaskRecord, TasksHold
<1>2. TasksHold'
  BY DEF TasksHold, TypeOK
<1>3. HeldOnce'
  BY DEF HeldOnce, TasksHold, TypeOK
<1>4. JobsFollow'
  BY DEF JobsFollow, HeldOnce, TasksHold, TypeOK
<1>5. OneActiveRun'
  BY DEF OneActiveRun, TasksHold, TypeOK
<1>6. JobSucceededWithRun'
  BY DEF JobSucceededWithRun, JobsFollow, HeldOnce, TasksHold, TypeOK
<1> QED
  BY <1>1, <1>2, <1>3, <1>4, <1>5, <1>6

LEMMA FinishLostKeeps == ASSUME IInv, NEW w \in Task, FinishLost(w) PROVE IInv'
<1>0. task' \in [Task -> TaskRecord]
  BY GotoStep DEF FinishLost, IInv
<1> USE ConstantsAssumption DEF IInv, FinishLost, Discard, Fault, Goto, jobTable, runTable
<1>1. TypeOK'
  <2>1. task' \in [Task -> TaskRecord]
    BY <1>0
  <2>2. QED
    BY <2>1, SMTT(30) DEF TypeOK, TaskRecord, TasksHold
<1>2. TasksHold'
  BY DEF TasksHold, TypeOK
<1>3. HeldOnce'
  BY DEF HeldOnce, TasksHold, TypeOK
<1>4. JobsFollow'
  BY DEF JobsFollow, HeldOnce, TasksHold, TypeOK
<1>5. OneActiveRun'
  BY DEF OneActiveRun, TasksHold, TypeOK
<1>6. JobSucceededWithRun'
  BY DEF JobSucceededWithRun, JobsFollow, HeldOnce, TasksHold, TypeOK
<1> QED
  BY <1>1, <1>2, <1>3, <1>4, <1>5, <1>6

LEMMA SettleKeeps == ASSUME IInv, NEW w \in Task, Settle(w) PROVE IInv'
<1> USE ConstantsAssumption DEF IInv, Settle, Goto, jobTable, runTable
<1> QED
  BY DEF TypeOK, TasksHold, HeldOnce, JobsFollow, OneActiveRun, JobSucceededWithRun

LEMMA SettleRaisedKeeps == ASSUME IInv, NEW w \in Task, SettleRaised(w) PROVE IInv'
<1>0. task' \in [Task -> TaskRecord]
  BY GotoStep DEF SettleRaised, IInv
<1> USE ConstantsAssumption DEF IInv, SettleRaised, Fault, Goto, jobTable, runTable
<1>1. TypeOK'
  <2>1. task' \in [Task -> TaskRecord]
    BY <1>0
  <2>2. QED
    BY <2>1 DEF TypeOK, TaskRecord, TasksHold
<1>2. TasksHold'
  BY DEF TasksHold, TypeOK
<1>3. HeldOnce'
  BY DEF HeldOnce, TasksHold, TypeOK
<1>4. JobsFollow'
  BY DEF JobsFollow, HeldOnce, TasksHold, TypeOK
<1>5. OneActiveRun'
  BY DEF OneActiveRun, TasksHold, TypeOK
<1>6. JobSucceededWithRun'
  BY DEF JobSucceededWithRun, JobsFollow, HeldOnce, TasksHold, TypeOK
<1> QED
  BY <1>1, <1>2, <1>3, <1>4, <1>5, <1>6

LEMMA MarkUnsettledKeeps == ASSUME IInv, NEW w \in Task, MarkUnsettled(w) PROVE IInv'
<1>0. task' \in [Task -> TaskRecord]
  BY GotoStep DEF MarkUnsettled, IInv
<1> USE ConstantsAssumption DEF IInv, MarkUnsettled, Goto, SetStatus, jobTable
<1>1. TypeOK'
  <2>1. task' \in [Task -> TaskRecord]
    BY <1>0
  <2>2. QED
    BY <2>1 DEF TypeOK, TaskRecord, TasksHold
<1>2. TasksHold'
  BY DEF TasksHold, TypeOK
<1>3. HeldOnce'
  BY DEF HeldOnce, TasksHold, TypeOK
<1>4. JobsFollow'
  BY DEF JobsFollow, HeldOnce, TasksHold, TypeOK
<1>5. OneActiveRun'
  BY DEF OneActiveRun, TasksHold, TypeOK
<1>6. JobSucceededWithRun'
  BY DEF JobSucceededWithRun, JobsFollow, HeldOnce, TasksHold, TypeOK
<1> QED
  BY <1>1, <1>2, <1>3, <1>4, <1>5, <1>6

LEMMA CloseJobKeeps == ASSUME IInv, NEW w \in Task, CloseJob(w) PROVE IInv'
<1>0. task' \in [Task -> TaskRecord]
  BY DropStep DEF CloseJob, IInv
<1> USE ConstantsAssumption DEF IInv, CloseJob, Discard, Drop, Idle, runTable
<1>1. TypeOK'
  <2>1. task' \in [Task -> TaskRecord]
    BY <1>0
  <2>2. QED
    BY <2>1 DEF TypeOK, TaskRecord, TasksHold
<1>2. TasksHold'
  BY DEF TasksHold, TypeOK
<1>3. HeldOnce'
  BY DEF HeldOnce, TasksHold, TypeOK
<1>4. JobsFollow'
  BY DEF JobsFollow, HeldOnce, TasksHold, TypeOK
<1>5. OneActiveRun'
  BY DEF OneActiveRun, TasksHold, TypeOK
<1>6. JobSucceededWithRun'
  BY DEF JobSucceededWithRun, JobsFollow, HeldOnce, TasksHold, TypeOK
<1> QED
  BY <1>1, <1>2, <1>3, <1>4, <1>5, <1>6

LEMMA CloseJobLostKeeps == ASSUME IInv, NEW w \in Task, CloseJobLost(w) PROVE IInv'
<1>0. task' \in [Task -> TaskRecord]
  BY DropStep DEF CloseJobLost, IInv
<1> USE ConstantsAssumption DEF IInv, CloseJobLost, Discard, Drop, Fault, Idle, jobTable, runTable
<1>1. TypeOK'
  <2>1. task' \in [Task -> TaskRecord]
    BY <1>0
  <2>2. QED
    BY <2>1 DEF TypeOK, TaskRecord, TasksHold
<1>2. TasksHold'
  BY DEF TasksHold, TypeOK
<1>3. HeldOnce'
  BY DEF HeldOnce, TasksHold, TypeOK
<1>4. JobsFollow'
  BY DEF JobsFollow, HeldOnce, TasksHold, TypeOK
<1>5. OneActiveRun'
  BY DEF OneActiveRun, TasksHold, TypeOK
<1>6. JobSucceededWithRun'
  BY DEF JobSucceededWithRun, JobsFollow, HeldOnce, TasksHold, TypeOK
<1> QED
  BY <1>1, <1>2, <1>3, <1>4, <1>5, <1>6

LEMMA SurveyKeeps == ASSUME IInv, NEW w \in Task, Survey(w) PROVE IInv'
<1> USE ConstantsAssumption DEF IInv, Survey, Idle, jobTable, runTable
<1>1. TypeOK'
  <2>1. task' \in [Task -> TaskRecord]
    BY DEF TypeOK, TasksHold, TaskRecord
  <2>2. QED
    BY <2>1 DEF TypeOK, TaskRecord, TasksHold
<1>2. TasksHold'
  BY DEF TasksHold, TypeOK
<1>3. HeldOnce'
  BY DEF HeldOnce, TasksHold, TypeOK
<1>4. JobsFollow'
  BY DEF JobsFollow, HeldOnce, TasksHold, TypeOK
<1>5. OneActiveRun'
  BY DEF OneActiveRun, TasksHold, TypeOK
<1>6. JobSucceededWithRun'
  BY DEF JobSucceededWithRun, JobsFollow, HeldOnce, TasksHold, TypeOK
<1> QED
  BY <1>1, <1>2, <1>3, <1>4, <1>5, <1>6

LEMMA SweepKeeps == ASSUME IInv, NEW w \in Task, Sweep(w) PROVE IInv'
<1> USE ConstantsAssumption DEF IInv, Sweep, Abandon, Drop, Idle, jobTable
<1> QED
  BY DEF TypeOK, TasksHold, HeldOnce, JobsFollow, OneActiveRun, JobSucceededWithRun

LEMMA AgeKeeps == ASSUME IInv, NEW r \in Run, Age(r) PROVE IInv'
BY DEF IInv, Age, jobTable, TypeOK, TasksHold, HeldOnce, JobsFollow, OneActiveRun, JobSucceededWithRun

LEMMA CrashKeeps == ASSUME IInv, NEW k \in Process, Crash(k) PROVE IInv'
<1> USE ConstantsAssumption DEF IInv, Crash, Fault, runTable, jobTable
<1>1. Idle \in TaskRecord /\ Idle.at = "idle"
  BY DEF Idle, TaskRecord
<1>2. task' \in [Task -> TaskRecord] /\ \A w \in Task : task'[w] = task[w] \/ task'[w].at = "idle"
  BY <1>1 DEF TypeOK, TaskRecord
<1>3. TypeOK'
  BY <1>2 DEF TypeOK, TaskRecord
<1>4. TasksHold' /\ HeldOnce' /\ JobsFollow'
  BY <1>2 DEF TasksHold, HeldOnce, JobsFollow
<1>5. OneActiveRun' /\ JobSucceededWithRun'
  BY DEF OneActiveRun, JobSucceededWithRun
<1> QED
  BY <1>3, <1>4, <1>5

LEMMA StutterKeeps == ASSUME IInv, UNCHANGED vars PROVE IInv'
BY DEF IInv, vars, TypeOK, TasksHold, HeldOnce, JobsFollow, OneActiveRun, JobSucceededWithRun

LEMMA TaskNextKeeps == ASSUME IInv, NEW w \in Task, TaskNext(w) PROVE IInv'
<1>1. ASSUME Request(w) PROVE IInv'
  BY <1>1, RecoverProjectKeeps, EnsureNotRunningKeeps, InsertRunKeeps,
       InsertConflictKeeps, RecoverContendedKeeps, EnqueueJobKeeps, MarkUnqueuedKeeps
     DEF Request
<1>2. ASSUME Execute(w) PROVE IInv'
  BY <1>2, ClaimJobKeeps, ClaimNothingKeeps, MarkRunningKeeps, FinishKeeps,
       SettleKeeps, MarkUnsettledKeeps, CloseJobKeeps
     DEF Execute
<1>3. ASSUME Faulty(w) PROVE IInv'
  BY <1>3, EnqueueUndrainedKeeps, EnqueueRefusedKeeps, EnqueueRaisedKeeps,
       MarkRunningLostKeeps, FinishLostKeeps, SettleRaisedKeeps, CloseJobLostKeeps
     DEF Faulty
<1> QED
  BY <1>1, <1>2, <1>3, AskKeeps, RefuseKeeps, HeartbeatKeeps, SurveyKeeps, SweepKeeps DEF TaskNext

\* The strengthened invariant holds in every reachable state.
THEOREM Inductive == Spec => []IInv
<1>1. IInv /\ [Next]_vars => IInv'
  BY TaskNextKeeps, AgeKeeps, CrashKeeps, StutterKeeps DEF Next
<1> QED
  BY Initially, <1>1, PTL DEF Spec

\* Rows, jobs, guards and tasks keep their types, and a row has a project
\* exactly when it exists (the INSERT writes both).
THEOREM TypeCorrect == Spec => []TypeOK
<1>1. IInv => TypeOK
  BY DEF IInv
<1> QED
  BY Inductive, <1>1, PTL

\* The partial unique index and the swallowed rejections: however late a mark
\* arrives, a project has at most one queued or running row.
THEOREM ProjectHasOneActiveRun == Spec => []OneActiveRun
<1>1. IInv => OneActiveRun
  BY DEF IInv
<1> QED
  BY Inductive, <1>1, PTL

\* A job is executed by the one task that claimed it, whatever is recovered,
\* resurrected or lost meanwhile: the claim takes queued jobs only, and no step
\* makes a claimed job queued again.
THEOREM ClaimedByOneTask == Spec => []OneAttempt
<1>1. IInv => OneAttempt
  BY DEF IInv, HeldOnce, OneAttempt
<1> QED
  BY Inductive, <1>1, PTL

\* The outcome of a job is the outcome its run keeps: nothing overwrites a run
\* whose job succeeded, neither recovery nor a late mark.
THEOREM JobOutcomeHonest == Spec => []JobSucceededWithRun
<1>1. IInv => JobSucceededWithRun
  BY DEF IInv
<1> QED
  BY Inductive, <1>1, PTL

\* A task's own failing marks move the task; every other way to fail an active
\* run is a recovery, which the heartbeat threshold holds back.
THEOREM FreshRunsAreSpared == Spec => RecoveryOnlyTakesStale
<1> DEFINE Spared(r) == status[r] \in Active /\ status'[r] = "failed" /\ r \notin stale
                           => \E w \in Task : task[w].run = r /\ task'[w] # task[w]
           Failing(w) == MarkUnqueued(w) \/ MarkUnsettled(w) \/ \E s \in Terminal : Finish(w, s)
<1>1. ASSUME IInv, NEW w \in Task, NEW r \in Run, Failing(w) PROVE Spared(r)
  <2>1. status' = [status EXCEPT ![task[w].run] = status'[task[w].run]]
    BY <1>1 DEF MarkUnqueued, MarkUnsettled, Finish, SetStatus, IInv, TypeOK, TasksHold
  <2>2. task'[w].at # task[w].at
    BY <1>1 DEF MarkUnqueued, MarkUnsettled, Finish, Goto, Drop, Idle, IInv, TypeOK
  <2> QED
    BY <1>1, <2>1, <2>2 DEF IInv, TypeOK
<1>2. ASSUME IInv, NEW w \in Task, NEW r \in Run, TaskNext(w), ~Failing(w) PROVE Spared(r)
  <2>1. CASE RecoverProject(w) \/ RecoverContended(w) \/ Sweep(w)
    BY <2>1, <1>2 DEF RecoverProject, RecoverContended, Sweep, Abandon, ActiveRuns, IInv, TypeOK
  <2>2. CASE \E s \in Run : InsertRun(w, s)
    BY <2>2, <1>2 DEF InsertRun, IInv, TypeOK
  <2>3. CASE MarkRunning(w)
    BY <2>3, <1>2 DEF MarkRunning, SetStatus, runTable, IInv, TypeOK
  <2>4. CASE UNCHANGED status
    BY <2>4
  <2>5. UNCHANGED runTable => UNCHANGED status
    BY DEF runTable
  <2>6. ASSUME Request(w), ~Failing(w), ~RecoverProject(w), ~RecoverContended(w),
               ~\E s \in Run : InsertRun(w, s)
        PROVE  UNCHANGED status
    BY <2>5, <2>6 DEF Request, EnsureNotRunning, InsertConflict, EnqueueJob, Enqueued
  <2>7. ASSUME Execute(w), ~Failing(w), ~MarkRunning(w) PROVE UNCHANGED status
    BY <2>5, <2>7 DEF Execute, ClaimJob, ClaimNothing, Settle, CloseJob
  <2>8. ASSUME Faulty(w) PROVE UNCHANGED status
    BY <2>5, <2>8 DEF Faulty, EnqueueUndrained, EnqueueRefused, EnqueueRaised, Enqueued,
                      MarkRunningLost, FinishLost, SettleRaised, CloseJobLost
  <2>9. ASSUME \/ \E p \in Project : Ask(w, p)
               \/ Refuse(w) \/ Heartbeat(w) \/ Survey(w)
        PROVE  UNCHANGED status
    BY <2>5, <2>9 DEF Ask, Refuse, Heartbeat, Survey
  <2> QED
    BY <1>2, <2>1, <2>2, <2>3, <2>4, <2>6, <2>7, <2>8, <2>9 DEF TaskNext
<1>3. ASSUME UNCHANGED status, NEW r \in Run PROVE Spared(r)
  BY <1>3
<1>4. IInv /\ [Next]_vars => \A r \in Run : Spared(r)
  <2>1. ASSUME NEW r \in Run, Age(r) PROVE UNCHANGED status
    BY <2>1 DEF Age
  <2>2. ASSUME NEW k \in Process, Crash(k) PROVE UNCHANGED status
    BY <2>2 DEF Crash, runTable
  <2>3. UNCHANGED vars => UNCHANGED status
    BY DEF vars
  <2> HIDE DEF Spared, Failing
  <2> QED
    BY <1>1, <1>2, <1>3, <2>1, <2>2, <2>3 DEF Next
<1>5. QED
  BY Inductive, <1>4, PTL DEF Spec, RecoveryOnlyTakesStale

-----------------------------------------------------------------------------
(* The guard of a process                                                  *)

\* From the claim to the end of the job a task is guarded by `running`.
Guards == {"claimed", "executing"} \cup Closing

\* What a step of w does to the guards: it enters nothing and keeps its place or
\* had none, or it claims, or it discards its project.
Unguarded(w) ==
    /\ UNCHANGED running
    /\ task[w].at \in Guards => task'[w].at \in Guards /\ task'[w].project = task[w].project
Claims(w) ==
    /\ task[w].at = "drain" /\ task'[w].at = "claimed"
    /\ running' = [running EXCEPT ![Home[w]] = @ \cup {task'[w].project}]
Discards(w) ==
    running' = [running EXCEPT ![Home[w]] = @ \ {task[w].project}]

LEMMA GuardMoves ==
    ASSUME IInv, NEW w \in Task, TaskNext(w)
    PROVE  Elsewhere(w) /\ (Unguarded(w) \/ Claims(w) \/ Discards(w))
<1>1. TypeOK
    BY DEF IInv
\* The task of w is dropped from a place without a guard.
<1>2. ASSUME Drop(w), UNCHANGED running, task[w].at \notin Guards
      PROVE  Elsewhere(w) /\ Unguarded(w)
    BY <1>1, <1>2, DropStep DEF Unguarded
\* The task of w goes on, to a place with a guard if it comes from one.
<1>3. ASSUME NEW s \in Stage, Goto(w, s), UNCHANGED running, task[w].at \in Guards => s \in Guards
      PROVE  Elsewhere(w) /\ Unguarded(w)
    BY <1>1, <1>3, GotoStep DEF Unguarded
<1>4. CASE \E p \in Project : Ask(w, p)
    BY <1>1, <1>4 DEF Ask, TypeOK, Idle, Unguarded, Guards, Elsewhere
<1>5. CASE Refuse(w)
    BY <1>2, <1>5 DEF Refuse, Guards
<1>6. CASE Request(w)
  <2>1. CASE RecoverProject(w)
      BY <1>2, <1>3, <2>1 DEF RecoverProject, Guards
  <2>2. CASE EnsureNotRunning(w)
      BY <1>2, <1>3, <2>2 DEF EnsureNotRunning, Guards
  <2>3. CASE \E r \in Run : InsertRun(w, r)
      BY <1>1, <2>3 DEF InsertRun, TypeOK, Unguarded, Guards, Elsewhere
  <2>4. CASE InsertConflict(w)
      BY <1>2, <1>3, <2>4 DEF InsertConflict, Guards
  <2>5. CASE RecoverContended(w)
      BY <1>2, <1>3, <2>5 DEF RecoverContended, Guards
  <2>6. CASE EnqueueJob(w)
      BY <1>3, <2>6 DEF EnqueueJob, Enqueued, Guards
  <2>7. CASE MarkUnqueued(w)
      BY <1>2, <2>7 DEF MarkUnqueued, Guards
  <2> QED BY <1>6, <2>1, <2>2, <2>3, <2>4, <2>5, <2>6, <2>7 DEF Request
<1>7. CASE Execute(w)
  <2>1. CASE ClaimJob(w)
    <3>1. PICK r : /\ task[w].at = "drain"
                   /\ running' = [running EXCEPT ![Home[w]] = @ \cup {project[r]}]
                   /\ task' = [task EXCEPT ![w] = [at |-> "claimed", project |-> project[r],
                                                   run |-> r, excluded |-> {}]]
        BY <2>1 DEF ClaimJob
    <3>2. task'[w].at = "claimed" /\ task'[w].project = project[r] /\ Elsewhere(w)
        BY <1>1, <3>1 DEF TypeOK, Elsewhere
    <3> QED BY <3>1, <3>2 DEF Claims
  <2>2. CASE ClaimNothing(w)
      BY <1>2, <2>2 DEF ClaimNothing, Guards
  <2>3. CASE MarkRunning(w)
      BY <1>3, <2>3 DEF MarkRunning, Guards
  <2>4. CASE \E s \in Terminal : Finish(w, s)
      BY <1>1, <2>4, GotoStep DEF Finish, Discard, Discards
  <2>5. CASE Settle(w)
    <3>1. \E s \in Closing : Goto(w, s)
        BY <1>1, <2>5 DEF Settle, IInv, TasksHold, TypeOK
    <3> QED BY <1>3, <2>5, <3>1 DEF Settle, Guards
  <2>6. CASE MarkUnsettled(w)
      BY <1>3, <2>6 DEF MarkUnsettled, Guards
  <2>7. CASE CloseJob(w)
      BY <1>1, <2>7, DropStep DEF CloseJob, Discard, Discards
  <2> QED BY <1>7, <2>1, <2>2, <2>3, <2>4, <2>5, <2>6, <2>7 DEF Execute
<1>8. CASE Heartbeat(w)
    BY <1>8 DEF Heartbeat, Unguarded, Elsewhere
<1>9. CASE Faulty(w)
  <2>1. CASE EnqueueUndrained(w)
      BY <1>2, <2>1 DEF EnqueueUndrained, Enqueued, Guards
  <2>2. CASE EnqueueRefused(w)
      BY <1>3, <2>2 DEF EnqueueRefused, Guards
  <2>3. CASE EnqueueRaised(w)
      BY <1>2, <2>3 DEF EnqueueRaised, Guards
  <2>4. CASE MarkRunningLost(w)
      BY <1>3, <2>4 DEF MarkRunningLost, Guards
  <2>5. CASE FinishLost(w)
      BY <1>1, <2>5, GotoStep DEF FinishLost, Discard, Discards
  <2>6. CASE SettleRaised(w)
      BY <1>3, <2>6 DEF SettleRaised, Guards
  <2>7. CASE CloseJobLost(w)
      BY <1>1, <2>7, DropStep DEF CloseJobLost, Discard, Discards
  <2> QED BY <1>9, <2>1, <2>2, <2>3, <2>4, <2>5, <2>6, <2>7 DEF Faulty
<1>10. CASE Survey(w)
    BY <1>1, <1>10 DEF Survey, TypeOK, Idle, Unguarded, Guards, Elsewhere
<1>11. CASE Sweep(w)
    BY <1>2, <1>11 DEF Sweep, Guards
<1> QED BY <1>4, <1>5, <1>6, <1>7, <1>8, <1>9, <1>10, <1>11 DEF TaskNext

LEMMA GuardsStep ==
    ASSUME IInv, NoLeakedGuard, [Next]_vars
    PROVE  NoLeakedGuard'
<1> SUFFICES ASSUME NEW k \in Process, NEW p \in running'[k]
             PROVE  \E w \in Task : Home[w] = k /\ task'[w].project = p /\ task'[w].at \in Guards
    BY DEF NoLeakedGuard, Guards
<1>1. running \in [Process -> SUBSET Project] /\ Home \in [Task -> Process]
    BY ConstantsAssumption DEF IInv, TypeOK
<1>2. ASSUME p \in running[k]
      PROVE  \E w \in Task : Home[w] = k /\ task[w].project = p /\ task[w].at \in Guards
    BY <1>2 DEF NoLeakedGuard, Guards
<1>3. ASSUME NEW w \in Task, TaskNext(w)
      PROVE  \E v \in Task : Home[v] = k /\ task'[v].project = p /\ task'[v].at \in Guards
  <2>1. \A v \in Task \ {w} : task'[v] = task[v]
      BY <1>3, GuardMoves DEF Elsewhere
  <2>2. CASE Unguarded(w)
      BY <1>2, <2>1, <2>2 DEF Unguarded
  <2>3. CASE Claims(w)
    <3>1. CASE p \in running[k]
      <4>1. PICK v \in Task : Home[v] = k /\ task[v].project = p /\ task[v].at \in Guards
          BY <1>2, <3>1
      <4>2. v # w
          BY <2>3, <4>1 DEF Claims, Guards
      <4> QED BY <2>1, <4>1, <4>2
    <3>2. CASE p \notin running[k]
      <4>1. k = Home[w] /\ p = task'[w].project
          BY <1>1, <2>3, <3>2 DEF Claims
      <4> QED BY <2>3, <4>1 DEF Claims, Guards
    <3> QED BY <3>1, <3>2
  <2>4. CASE Discards(w)
    <3>1. p \in running[k] /\ ~(k = Home[w] /\ p = task[w].project)
        BY <1>1, <2>4 DEF Discards
    <3>2. PICK v \in Task : Home[v] = k /\ task[v].project = p /\ task[v].at \in Guards
        BY <1>2, <3>1
    <3> QED BY <2>1, <3>1, <3>2
  <2> QED BY <1>3, <2>2, <2>3, <2>4, GuardMoves
<1>4. CASE \E r \in Run : Age(r)
    BY <1>2, <1>4 DEF Age
<1>5. ASSUME NEW j \in Process, Crash(j)
      PROVE  \E w \in Task : Home[w] = k /\ task'[w].project = p /\ task'[w].at \in Guards
  <2>1. k # j /\ p \in running[k]
      BY <1>1, <1>5 DEF Crash
  <2>2. \A w \in Task : Home[w] = k => task'[w] = task[w]
      BY <1>5, <2>1 DEF Crash
  <2> QED BY <1>2, <2>1, <2>2
<1>6. CASE UNCHANGED vars
    BY <1>2, <1>6 DEF vars
<1> QED BY <1>3, <1>4, <1>5, <1>6 DEF Next

\* The local guard never outlives the tasks it guards (NoLeakedGuard): only a
\* claim enters a project, and the claimant discards it before it goes away.
THEOREM GuardsAreReleased == Spec => []NoLeakedGuard
<1>1. Init => NoLeakedGuard
    BY DEF Init, NoLeakedGuard
<1>2. IInv /\ NoLeakedGuard /\ [Next]_vars => NoLeakedGuard'
    BY GuardsStep
<1> QED BY <1>1, <1>2, Inductive, PTL DEF Spec

-----------------------------------------------------------------------------
(* One executor                                                            *)
(*                                                                         *)
(* In one process, as long as no phase outlasts the threshold, a run goes  *)
(* stale only while nobody attends to it.  Whoever then claims it has the  *)
(* project in `running`, and nobody else has looked at the project since.  *)

OneProcess == \A v, w \in Task : Home[v] = Home[w]

Past == Requesting \ {"asked"}
Busy(v) == task[v].at \in {"claimed", "executing"}
Fresh(r) == status[r] \in Active /\ r \notin stale

\* A task that has claimed a job works on the project of its run.
OwnProject == \A w \in Task : task[w].at \in Guards => task[w].project = project[task[w].run]

StaleRows == \A r \in stale : status[r] # "none"

\* A request that has recovered its project leaves no stale active run of it.
RecoveredFresh == \A w \in Task : task[w].at \in Past =>
    \A r \in Run : project[r] = task[w].project /\ status[r] \in Active => r \notin stale

\* Nor does a task that closes a job, but for its own run.
ClosingFresh == \A w \in Task : task[w].at \in Closing =>
    \A r \in Run \ {task[w].run} :
        project[r] = task[w].project /\ status[r] \in Active => r \notin stale

\* Who executes a run that is over or stale is alone with the project.
Shadowed == \A v \in Task : Busy(v) /\ ~Fresh(task[v].run) =>
    /\ task[v].project \in running[Home[v]]
    /\ \A w \in Task \ {v} : task[w].project = task[v].project => task[w].at \notin Past \cup Guards
    /\ \A r \in Run \ {task[v].run} : project[r] = task[v].project => status[r] \notin Active

ExecInv == OwnProject /\ StaleRows /\ RecoveredFresh /\ ClosingFresh /\ Shadowed

\* Two tasks do not execute the same project: if both runs were fresh, they
\* would be the one active run of the project.
LEMMA Alone == ASSUME IInv, ExecInv PROVE OneExecutor
<1> SUFFICES ASSUME NEW v \in Task, NEW w \in Task, v # w, Busy(v), Busy(w),
                    task[v].project = task[w].project
             PROVE  FALSE
    BY DEF OneExecutor, Executing, Busy
<1>1. Fresh(task[v].run) /\ Fresh(task[w].run)
    BY DEF ExecInv, Shadowed, Busy, Guards
<1>2. /\ task[v].run \in Run /\ task[w].run \in Run /\ task[v].run # task[w].run
      /\ project[task[v].run] = project[task[w].run]
    BY DEF IInv, TasksHold, HeldOnce, ExecInv, OwnProject, Busy, Guards
<1> QED BY <1>1, <1>2 DEF IInv, OneActiveRun, Fresh

LEMMA TypedTask ==
    ASSUME IInv
    PROVE  /\ status \in [Run -> {"none"} \cup Active \cup Terminal] /\ project \in [Run -> Project \cup {None}]
           /\ stale \subseteq Run /\ running \in [Process -> SUBSET Project] /\ Home \in [Task -> Process]
           /\ task \in [Task -> TaskRecord]
BY ConstantsAssumption DEF IInv, TypeOK, TaskRecord

\* The step of a task that touches neither the runs nor the guards.
LEMMA QuietStep ==
    ASSUME IInv, ExecInv, NEW w \in Task, Elsewhere(w), UNCHANGED <<status, project, stale, running>>,
           \/ task'[w].at \notin Past \cup Guards
           \/ /\ task'[w].project = task[w].project
              /\ task[w].at \in Past /\ task'[w].at \in Past
           \/ /\ task'[w].project = task[w].project /\ task'[w].run = task[w].run
              /\ Busy(w) /\ Busy(w)'
    PROVE  ExecInv'
<1>1. \A v \in Task : \/ v = w
                      \/ task'[v] = task[v]
    BY DEF Elsewhere
<1>2. OwnProject'
    BY <1>1 DEF ExecInv, OwnProject, Guards, Busy, Past
<1>3. StaleRows'
    BY DEF ExecInv, StaleRows
<1>4. RecoveredFresh'
    BY <1>1 DEF ExecInv, RecoveredFresh, Guards, Busy, Past
<1>5. ClosingFresh'
    BY <1>1 DEF ExecInv, ClosingFresh, Guards, Busy, Past
<1>6. Shadowed'
    BY <1>1 DEF ExecInv, Shadowed, Fresh, Guards, Busy, Past
<1> QED BY <1>2, <1>3, <1>4, <1>5, <1>6 DEF ExecInv

\* The three recoveries.
LEMMA RecoveryStep ==
    ASSUME IInv, ExecInv, OneProcess, NEW w \in Task, Elsewhere(w), UNCHANGED running,
           NEW rs \in SUBSET stale, \A r \in rs : status[r] \in Active, Abandon(rs),
           \/ task'[w].at \notin Past \cup Guards
           \/ /\ task'[w].at \in Past /\ task'[w].project = task[w].project
              /\ ActiveRuns(task[w].project) \cap stale \subseteq rs
              /\ task[w].at \in Past \/ task[w].project \notin running[Home[w]]
    PROVE  ExecInv'
<1>1. \A v \in Task : v = w \/ task'[v] = task[v]
    BY DEF Elsewhere
<1>2. /\ \A r \in Run : r \in rs \/ status'[r] = status[r]
      /\ \A r \in rs : status'[r] = "failed"
      /\ stale' = stale \ rs /\ project' = project
    BY TypedTask DEF Abandon
<1>3. OwnProject'
    BY <1>1, <1>2 DEF ExecInv, OwnProject, Guards, Past
<1>4. StaleRows'
    BY <1>2, TypedTask DEF ExecInv, StaleRows
<1>5. RecoveredFresh'
  <2> SUFFICES ASSUME NEW v \in Task, task'[v].at \in Past, NEW r \in Run,
                      project[r] = task'[v].project, status'[r] \in Active, r \in stale'
               PROVE  FALSE
      BY <1>2 DEF RecoveredFresh
  <2>1. r \notin rs /\ status[r] \in Active /\ r \in stale
      BY <1>2
  <2>2. CASE v # w
      BY <1>1, <2>1, <2>2 DEF ExecInv, RecoveredFresh
  <2>3. CASE v = w
      BY <2>1, <2>3 DEF ActiveRuns
  <2> QED BY <2>2, <2>3
<1>6. ClosingFresh'
    BY <1>1, <1>2 DEF ExecInv, ClosingFresh, Guards, Past
<1>7. Shadowed'
  <2> SUFFICES ASSUME NEW v \in Task, Busy(v)', ~Fresh(task[v].run)'
               PROVE  /\ task'[v].project \in running'[Home[v]]
                      /\ \A x \in Task \ {v} : task'[x].project = task'[v].project => task'[x].at \notin Past \cup Guards
                      /\ \A r \in Run \ {task'[v].run} : project'[r] = task'[v].project => status'[r] \notin Active
      BY DEF Shadowed
  <2>1. v # w /\ task'[v] = task[v] /\ Busy(v)
      BY <1>1 DEF Busy, Past, Guards
  <2>2. task[v].run \in Run
      BY <2>1 DEF IInv, TasksHold, Busy
  <2>3. ~Fresh(task[v].run)
      BY <1>2, <2>1, <2>2 DEF Fresh
  <2>4. /\ task[v].project \in running[Home[v]]
        /\ \A x \in Task \ {v} : task[x].project = task[v].project => task[x].at \notin Past \cup Guards
        /\ \A r \in Run \ {task[v].run} : project[r] = task[v].project => status[r] \notin Active
      BY <2>1, <2>3 DEF ExecInv, Shadowed
  <2>5. task'[w].project = task[v].project => task'[w].at \notin Past \cup Guards
      BY <2>1, <2>4 DEF OneProcess
  <2> QED BY <1>1, <1>2, <2>1, <2>4, <2>5
<1> QED BY <1>3, <1>4, <1>5, <1>6, <1>7 DEF ExecInv

\* A run is marked as over, or its task lets go of the guard, or both.
LEMMA EndStep ==
    ASSUME IInv, ExecInv, NEW w \in Task, Elsewhere(w), task[w].at \in Holding,
           UNCHANGED runTable \/ \E s \in Terminal : SetStatus(task[w].run, s),
           UNCHANGED running \/ (Discards(w) /\ task[w].at \in Guards),
           \/ task'[w].at \notin Past \cup Guards
           \/ /\ task[w].at \in Guards /\ task'[w].at \in Closing
              /\ task'[w].project = task[w].project /\ task'[w].run = task[w].run
    PROVE  ExecInv'
<1>1. \A v \in Task : v = w \/ task'[v] = task[v]
    BY DEF Elsewhere
<1>2. /\ project' = project /\ stale' \subseteq stale /\ task[w].run \in Run
      /\ \A r \in Run \ {task[w].run} : status'[r] = status[r] /\ (r \in stale' <=> r \in stale)
      /\ \A r \in Run : status'[r] \in Active => status[r] \in Active /\ (r \in stale' <=> r \in stale)
      /\ \A r \in Run : status'[r] = "none" => status[r] = "none"
    BY TypedTask DEF SetStatus, runTable, IInv, TasksHold
<1>3. OwnProject'
    BY <1>1, <1>2 DEF ExecInv, OwnProject, Guards, Past
<1>4. StaleRows'
    BY <1>2, TypedTask DEF ExecInv, StaleRows
<1>5. RecoveredFresh'
    BY <1>1, <1>2 DEF ExecInv, RecoveredFresh, Guards, Past
<1>6. ClosingFresh'
  <2> SUFFICES ASSUME NEW v \in Task, task'[v].at \in Closing, NEW r \in Run \ {task'[v].run},
                      project[r] = task'[v].project, status'[r] \in Active, r \in stale'
               PROVE  FALSE
      BY <1>2 DEF ClosingFresh
  <2>1. status[r] \in Active /\ r \in stale
      BY <1>2
  <2>2. CASE v # w
      BY <1>1, <2>1, <2>2 DEF ExecInv, ClosingFresh
  <2>3. CASE v = w
    <3>1. /\ task[w].at \in Guards /\ r # task[w].run /\ project[r] = task[w].project
        BY <2>3 DEF Guards
    <3>2. CASE task[w].at \in Closing
        BY <2>1, <3>1, <3>2 DEF ExecInv, ClosingFresh
    <3>3. CASE Busy(w) /\ Fresh(task[w].run)
        BY <1>2, <2>1, <3>1, <3>3 DEF Fresh, IInv, OneActiveRun, ExecInv, OwnProject
    <3>4. CASE Busy(w) /\ ~Fresh(task[w].run)
        BY <2>1, <3>1, <3>4 DEF ExecInv, Shadowed
    <3> QED BY <3>1, <3>2, <3>3, <3>4 DEF Busy, Guards
  <2> QED BY <2>2, <2>3
<1>7. Shadowed'
  <2> SUFFICES ASSUME NEW v \in Task, Busy(v)', ~Fresh(task[v].run)'
               PROVE  /\ task'[v].project \in running'[Home[v]]
                      /\ \A x \in Task \ {v} : task'[x].project = task'[v].project => task'[x].at \notin Past \cup Guards
                      /\ \A r \in Run \ {task'[v].run} : project'[r] = task'[v].project => status'[r] \notin Active
      BY DEF Shadowed
  <2>1. v # w /\ task'[v] = task[v] /\ Busy(v)
      BY <1>1 DEF Busy, Past, Guards
  <2>2. task[v].run \in Run /\ task[v].run # task[w].run
      BY <2>1 DEF IInv, TasksHold, HeldOnce, Busy
  <2>3. ~Fresh(task[v].run)
      BY <1>2, <2>1, <2>2 DEF Fresh
  <2>4. /\ task[v].project \in running[Home[v]]
        /\ \A x \in Task \ {v} : task[x].project = task[v].project => task[x].at \notin Past \cup Guards
        /\ \A r \in Run \ {task[v].run} : project[r] = task[v].project => status[r] \notin Active
      BY <2>1, <2>3 DEF ExecInv, Shadowed
  <2>5. task[w].at \in Guards => task[w].project # task[v].project
      BY <2>1, <2>4
  <2>6. task[v].project \in running'[Home[v]]
      BY <2>4, <2>5, TypedTask DEF Discards
  <2>7. task'[w].project = task[v].project => task'[w].at \notin Past \cup Guards
      BY <2>5
  <2> QED BY <1>1, <1>2, <2>1, <2>4, <2>6, <2>7
<1> QED BY <1>3, <1>4, <1>5, <1>6, <1>7 DEF ExecInv

LEMMA InsertStep ==
    ASSUME IInv, ExecInv, NEW w \in Task, NEW r \in Run, InsertRun(w, r)
    PROVE  ExecInv'
<1>1. /\ \A v \in Task \ {w} : task'[v] = task[v]
      /\ task'[w].at = "enqueue" /\ task'[w].project = task[w].project
      /\ task[w].at \in Past
    BY TypedTask DEF InsertRun, TaskRecord, Past
<1>2. /\ status[r] = "none" /\ r \notin stale
      /\ \A q \in Run \ {r} : status'[q] = status[q] /\ project'[q] = project[q]
      /\ project'[r] = task[w].project /\ status'[r] = "queued"
      /\ stale' = stale /\ running' = running
    BY TypedTask DEF InsertRun, ExecInv, StaleRows
<1>3. \A v \in Task : task[v].at \in Guards => task[v].run \in Run /\ task[v].run # r
    BY <1>2 DEF IInv, TasksHold, Guards
<1>4. OwnProject'
    BY <1>1, <1>2, <1>3 DEF ExecInv, OwnProject, Guards, Past
<1>5. StaleRows'
    BY <1>2, TypedTask DEF ExecInv, StaleRows
<1>6. RecoveredFresh'
    BY <1>1, <1>2 DEF ExecInv, RecoveredFresh, Past
<1>7. ClosingFresh'
    BY <1>1, <1>2 DEF ExecInv, ClosingFresh, Past
<1>8. Shadowed'
  <2> SUFFICES ASSUME NEW v \in Task, Busy(v)', ~Fresh(task[v].run)'
               PROVE  /\ task'[v].project \in running'[Home[v]]
                      /\ \A x \in Task \ {v} : task'[x].project = task'[v].project => task'[x].at \notin Past \cup Guards
                      /\ \A q \in Run \ {task'[v].run} : project'[q] = task'[v].project => status'[q] \notin Active
      BY DEF Shadowed
  <2>1. v # w /\ task'[v] = task[v] /\ Busy(v)
      BY <1>1 DEF Busy
  <2>2. ~Fresh(task[v].run)
      BY <1>2, <1>3, <2>1 DEF Fresh, Busy, Guards
  <2>3. /\ task[v].project \in running[Home[v]]
        /\ \A x \in Task \ {v} : task[x].project = task[v].project => task[x].at \notin Past \cup Guards
        /\ \A q \in Run \ {task[v].run} : project[q] = task[v].project => status[q] \notin Active
      BY <2>1, <2>2 DEF ExecInv, Shadowed
  <2>4. task[w].project # task[v].project
      BY <1>1, <2>1, <2>3
  <2> QED BY <1>1, <1>2, <2>1, <2>3, <2>4
<1> QED BY <1>4, <1>5, <1>6, <1>7, <1>8 DEF ExecInv

\* The run that is claimed is the active one of its project: whoever executes or
\* closes another would leave it fresh, and so would a request.
LEMMA ClaimStep ==
    ASSUME IInv, ExecInv, NEW w \in Task, ClaimJob(w)
    PROVE  ExecInv'
<1>1. PICK i \in 1 .. Len(queue) :
         /\ task[w].at = "drain" /\ job[queue[i]] = "queued" /\ status[queue[i]] \in Active
         /\ running' = [running EXCEPT ![Home[w]] = @ \cup {project[queue[i]]}]
         /\ task' = [task EXCEPT ![w] = [at |-> "claimed", project |-> project[queue[i]],
                                         run |-> queue[i], excluded |-> {}]]
    BY DEF ClaimJob, Claimable
<1> DEFINE r == queue[i]
<1>2. r \in Run /\ job[r] = "queued" /\ status[r] \in Active
    BY <1>1 DEF IInv, TypeOK
<1>3. /\ \A v \in Task \ {w} : task'[v] = task[v]
      /\ task'[w].at = "claimed" /\ task'[w].project = project[r] /\ task'[w].run = r
      /\ task[w].at = "drain"
    BY <1>1, TypedTask DEF TaskRecord
<1>4. running' = [running EXCEPT ![Home[w]] = @ \cup {project[r]}]
    BY <1>1
<1> HIDE DEF r
<1>5. UNCHANGED <<status, project, stale>>
    BY DEF ClaimJob, runTable
<1>6. \A v \in Task : task[v].at \in Guards => task[v].run \in Run /\ task[v].run # r
    BY <1>2 DEF IInv, TasksHold, JobsFollow, Guards
<1>7. OwnProject'
    BY <1>3, <1>5 DEF ExecInv, OwnProject, Guards
<1>8. StaleRows' /\ RecoveredFresh' /\ ClosingFresh'
    BY <1>3, <1>5 DEF ExecInv, StaleRows, RecoveredFresh, ClosingFresh, Past
<1>9. Shadowed'
  <2> SUFFICES ASSUME NEW v \in Task, Busy(v)', ~Fresh(task[v].run)'
               PROVE  /\ task'[v].project \in running'[Home[v]]
                      /\ \A x \in Task \ {v} : task'[x].project = task'[v].project => task'[x].at \notin Past \cup Guards
                      /\ \A q \in Run \ {task'[v].run} : project'[q] = task'[v].project => status'[q] \notin Active
      BY DEF Shadowed
  <2>1. CASE v # w
    <3>1. task'[v] = task[v] /\ Busy(v) /\ ~Fresh(task[v].run)
        BY <1>3, <1>5, <2>1 DEF Busy, Fresh
    <3>2. /\ task[v].project \in running[Home[v]]
          /\ \A x \in Task \ {v} : task[x].project = task[v].project => task[x].at \notin Past \cup Guards
          /\ \A q \in Run \ {task[v].run} : project[q] = task[v].project => status[q] \notin Active
        BY <3>1 DEF ExecInv, Shadowed
    <3>3. project[r] # task[v].project
        BY <1>2, <1>6, <3>1, <3>2 DEF Busy, Guards
    <3>4. task[v].project \in running'[Home[v]]
        BY <1>4, <3>2, TypedTask
    <3> QED BY <1>3, <1>5, <3>1, <3>2, <3>3, <3>4
  <2>2. CASE v = w
    <3>1. r \in stale
        BY <1>2, <1>3, <1>5, <2>2 DEF Fresh
    <3>2. project[r] \in running'[Home[w]]
        BY <1>4, TypedTask
    <3>3. \A q \in Run \ {r} : project[q] = project[r] => status[q] \notin Active
        BY <1>2 DEF IInv, OneActiveRun
    <3>4. ASSUME NEW x \in Task \ {w}, task[x].project = project[r] PROVE task[x].at \notin Past \cup Guards
      <4>1. task[x].at \notin Past
          BY <1>2, <3>1, <3>4 DEF ExecInv, RecoveredFresh
      <4>2. task[x].at \notin Closing
          BY <1>2, <1>6, <3>1, <3>4 DEF ExecInv, ClosingFresh, Guards
      <4>3. ~Busy(x)
        <5>1. CASE ~Busy(x)
            BY <5>1
        <5>2. CASE Busy(x) /\ Fresh(task[x].run)
            BY <1>6, <3>3, <3>4, <5>2 DEF Fresh, ExecInv, OwnProject, Busy, Guards
        <5>3. CASE Busy(x) /\ ~Fresh(task[x].run)
            BY <1>2, <1>6, <3>4, <5>3 DEF ExecInv, Shadowed, Busy, Guards
        <5> QED BY <5>1, <5>2, <5>3
      <4> QED BY <4>1, <4>2, <4>3 DEF Guards, Busy
    <3> QED BY <1>3, <1>5, <2>2, <3>2, <3>3, <3>4
  <2> QED BY <2>1, <2>2
<1> QED BY <1>7, <1>8, <1>9 DEF ExecInv

\* The mark is rejected while another run of the project is active, and else
\* makes the run the active one, fresh.
LEMMA MarkRunningStep ==
    ASSUME IInv, ExecInv, NEW w \in Task, MarkRunning(w)
    PROVE  ExecInv'
<1> DEFINE r == task[w].run
<1>1. /\ \A v \in Task \ {w} : task'[v] = task[v]
      /\ task[w].at = "claimed" /\ task'[w].at = "executing"
      /\ task'[w].project = task[w].project /\ task'[w].run = r /\ running' = running
    BY GotoStep DEF MarkRunning, Elsewhere, IInv
<1>2. CASE WouldCollide(r)
  <2>1. UNCHANGED <<status, project, stale, running>>
      BY <1>2 DEF MarkRunning, runTable
  <2> QED BY <1>1, <2>1, QuietStep DEF Elsewhere, Busy
<1>3. CASE ~WouldCollide(r)
  <2>1. r \in Run /\ task[w].project = project[r] /\ status[r] # "none"
      BY <1>1 DEF IInv, TasksHold, ExecInv, OwnProject, Guards
  <2>2. /\ project' = project /\ stale' = stale \ {r} /\ status'[r] = "running"
        /\ \A q \in Run \ {r} : status'[q] = status[q]
    <3>1. SetStatus(r, "running") /\ status \in [Run -> {"none"} \cup Active \cup Terminal]
        BY <1>3, TypedTask DEF MarkRunning
    <3> HIDE DEF r
    <3> QED BY <2>1, <3>1 DEF SetStatus
  <2> HIDE DEF r
  <2>3. OwnProject'
      BY <1>1, <2>1, <2>2 DEF ExecInv, OwnProject, Guards
  <2>4. StaleRows'
      BY <2>2, TypedTask DEF ExecInv, StaleRows
  <2>5. RecoveredFresh' /\ ClosingFresh'
      BY <1>1, <2>2 DEF ExecInv, RecoveredFresh, ClosingFresh, Past
  <2>6. Shadowed'
    <3> SUFFICES ASSUME NEW v \in Task, Busy(v)', ~Fresh(task[v].run)'
                 PROVE  /\ task'[v].project \in running'[Home[v]]
                        /\ \A x \in Task \ {v} : task'[x].project = task'[v].project => task'[x].at \notin Past \cup Guards
                        /\ \A q \in Run \ {task'[v].run} : project'[q] = task'[v].project => status'[q] \notin Active
        BY DEF Shadowed
    <3>1. v # w /\ task'[v] = task[v] /\ Busy(v)
        BY <1>1, <2>2 DEF Busy, Fresh
    <3>2. task[v].run \in Run /\ task[v].run # r
        BY <1>1, <3>1 DEF IInv, TasksHold, HeldOnce, Busy, r
    <3>3. ~Fresh(task[v].run)
        BY <2>2, <3>1, <3>2 DEF Fresh
    <3>4. /\ task[v].project \in running[Home[v]]
          /\ \A x \in Task \ {v} : task[x].project = task[v].project => task[x].at \notin Past \cup Guards
          /\ \A q \in Run \ {task[v].run} : project[q] = task[v].project => status[q] \notin Active
        BY <3>1, <3>3 DEF ExecInv, Shadowed
    <3>5. project[r] # task[v].project
        BY <1>1, <2>1, <3>1, <3>4 DEF Guards
    <3> QED BY <1>1, <2>2, <3>1, <3>4, <3>5 DEF Guards
  <2> QED BY <2>3, <2>4, <2>5, <2>6 DEF ExecInv
<1> QED BY <1>2, <1>3

LEMMA HeartbeatStep ==
    ASSUME IInv, ExecInv, NEW w \in Task, Heartbeat(w)
    PROVE  ExecInv'
BY DEF Heartbeat, ExecInv, OwnProject, StaleRows, RecoveredFresh, ClosingFresh, Shadowed, Busy, Fresh

LEMMA AgeStep ==
    ASSUME IInv, ExecInv, ~LongPhases, NEW r \in Run, Age(r)
    PROVE  ExecInv'
<1>1. /\ UNCHANGED <<status, project, running, task>> /\ stale' = stale \cup {r} /\ status[r] \in Active
      /\ \A w \in Task : ~Attends(w, r)
    BY DEF Age
<1>2. \A w \in Task : /\ task[w].at \in Past \cup Closing => task[w].project # project[r]
                      /\ Busy(w) => task[w].run # r
    BY <1>1 DEF Attends, Past, Busy
<1>3. OwnProject' /\ StaleRows'
    BY <1>1 DEF ExecInv, OwnProject, StaleRows
<1>4. RecoveredFresh' /\ ClosingFresh'
    BY <1>1, <1>2 DEF ExecInv, RecoveredFresh, ClosingFresh
<1>5. Shadowed'
    BY <1>1, <1>2 DEF ExecInv, Shadowed, Busy, Fresh
<1> QED BY <1>3, <1>4, <1>5 DEF ExecInv

LEMMA CrashStep ==
    ASSUME IInv, ExecInv, OneProcess, NEW k \in Process, Crash(k)
    PROVE  ExecInv'
<1>1. \A v \in Task : task'[v].at = "idle"
    BY DEF Crash, OneProcess, Idle
<1>2. UNCHANGED <<status, project, stale>>
    BY DEF Crash, runTable
<1> QED BY <1>1, <1>2 DEF ExecInv, OwnProject, StaleRows, RecoveredFresh, ClosingFresh, Shadowed,
                          Busy, Guards, Past

LEMMA ExecTask ==
    ASSUME IInv, ExecInv, OneProcess, NEW w \in Task, TaskNext(w)
    PROVE  ExecInv'
<1>1. TypeOK /\ Elsewhere(w)
    BY GuardMoves DEF IInv
<1>2. ASSUME Drop(w) PROVE task'[w].at \notin Past \cup Guards
    BY <1>1, <1>2, DropStep DEF Past, Guards
<1>3. ASSUME UNCHANGED <<runTable, running>> PROVE UNCHANGED <<status, project, stale, running>>
    BY <1>3 DEF runTable
<1>4. CASE \/ \E p \in Project : Ask(w, p)
           \/ Refuse(w) \/ EnqueueJob(w) \/ ClaimNothing(w) \/ EnqueueUndrained(w)
           \/ EnqueueRefused(w) \/ EnqueueRaised(w) \/ Survey(w)
  <2>1. UNCHANGED <<runTable, running>>
      BY <1>4 DEF Ask, Refuse, EnqueueJob, Enqueued, ClaimNothing, EnqueueUndrained, EnqueueRefused,
             EnqueueRaised, Survey
  <2>2. task'[w].at \notin Past \cup Guards
    <3>1. CASE (\E p \in Project : Ask(w, p)) \/ Survey(w)
      <4>1. \/ \E p \in Project : task' = [task EXCEPT ![w] = [Idle EXCEPT !.at = "asked", !.project = p]]
            \/ task' = [task EXCEPT ![w] = [Idle EXCEPT !.at = "surveyed", !.excluded = running[Home[w]]]]
          BY <3>1 DEF Ask, Survey
      <4>2. task'[w].at \in {"asked", "surveyed"}
          BY <1>1, <4>1 DEF TypeOK, Idle
      <4> QED BY <4>2 DEF Past, Guards
    <3>2. CASE EnqueueJob(w)
        BY <1>1, <3>2, GotoStep DEF EnqueueJob, Past, Guards
    <3>3. CASE EnqueueRefused(w)
        BY <1>1, <3>3, GotoStep DEF EnqueueRefused, Past, Guards
    <3>4. CASE Refuse(w) \/ ClaimNothing(w) \/ EnqueueUndrained(w) \/ EnqueueRaised(w)
        BY <1>2, <3>4 DEF Refuse, ClaimNothing, EnqueueUndrained, EnqueueRaised
    <3> QED BY <1>4, <3>1, <3>2, <3>3, <3>4
  <2> QED BY <1>1, <1>3, <2>1, <2>2, QuietStep
<1>5. CASE EnsureNotRunning(w) \/ InsertConflict(w)
  <2>1. UNCHANGED <<runTable, running>>
      BY <1>5 DEF EnsureNotRunning, InsertConflict
  <2>2. \/ task'[w].at \notin Past \cup Guards
        \/ task'[w].project = task[w].project /\ task[w].at \in Past /\ task'[w].at \in Past
    <3>1. CASE Drop(w)
        BY <1>2, <3>1
    <3>2. CASE Goto(w, "free") \/ Goto(w, "contended")
        BY <1>1, <1>5, <3>2, GotoStep DEF EnsureNotRunning, InsertConflict, Past
    <3> QED BY <1>5, <3>1, <3>2 DEF EnsureNotRunning, InsertConflict
  <2> QED BY <1>1, <1>3, <2>1, <2>2, QuietStep
<1>6. CASE MarkRunningLost(w)
  <2>1. task'[w].project = task[w].project /\ task'[w].run = task[w].run /\ Busy(w) /\ Busy(w)'
      BY <1>1, <1>6, GotoStep DEF MarkRunningLost, Busy
  <2> QED BY <1>1, <1>3, <1>6, <2>1, QuietStep DEF MarkRunningLost
<1>7. CASE RecoverProject(w)
  <2> DEFINE rs == ActiveRuns(task[w].project) \cap stale
  <2>1. rs \in SUBSET stale /\ (\A r \in rs : status[r] \in Active) /\ Abandon(rs) /\ UNCHANGED running
      BY <1>7 DEF RecoverProject, ActiveRuns
  <2>2. CASE task[w].project \in running[Home[w]]
    <3>1. task'[w].at \notin Past \cup Guards
        BY <1>2, <1>7, <2>2 DEF RecoverProject
    <3> QED BY <1>1, <2>1, <3>1, RecoveryStep
  <2>3. CASE task[w].project \notin running[Home[w]]
    <3>1. task'[w].at \in Past /\ task'[w].project = task[w].project
        BY <1>1, <1>7, <2>3, GotoStep DEF RecoverProject, Past
    <3> QED BY <1>1, <2>1, <2>3, <3>1, RecoveryStep
  <2> QED BY <2>2, <2>3
<1>8. CASE RecoverContended(w)
  <2> DEFINE rs == ActiveRuns(task[w].project) \cap stale
  <2>1. rs \in SUBSET stale /\ (\A r \in rs : status[r] \in Active) /\ Abandon(rs) /\ UNCHANGED running
      BY <1>8 DEF RecoverContended, ActiveRuns
  <2>2. CASE rs = {}
    <3>1. task'[w].at \notin Past \cup Guards
        BY <1>2, <1>8, <2>2 DEF RecoverContended
    <3> QED BY <1>1, <2>1, <3>1, RecoveryStep
  <2>3. CASE rs # {}
    <3>1. task[w].at \in Past /\ task'[w].at \in Past /\ task'[w].project = task[w].project
        BY <1>1, <1>8, <2>3, GotoStep DEF RecoverContended, Past
    <3> QED BY <1>1, <2>1, <3>1, RecoveryStep
  <2> QED BY <2>2, <2>3
<1>9. CASE Sweep(w)
  <2> DEFINE rs == {r \in stale : status[r] \in Active /\ project[r] \notin task[w].excluded}
  <2>1. rs \in SUBSET stale /\ (\A r \in rs : status[r] \in Active) /\ Abandon(rs) /\ UNCHANGED running
      BY <1>9 DEF Sweep
  <2>2. task'[w].at \notin Past \cup Guards
      BY <1>2, <1>9 DEF Sweep
  <2> QED BY <1>1, <2>1, <2>2, RecoveryStep
<1>10. CASE MarkUnqueued(w)
    BY <1>1, <1>2, <1>10, EndStep DEF MarkUnqueued
<1>11. CASE MarkUnsettled(w) \/ Settle(w) \/ SettleRaised(w)
  <2>1. UNCHANGED running /\ task[w].at \in Closing
      BY <1>11 DEF MarkUnsettled, Settle, SettleRaised
  <2>2. UNCHANGED runTable \/ \E s \in Terminal : SetStatus(task[w].run, s)
      BY <1>11 DEF MarkUnsettled, Settle, SettleRaised
  <2>3. \E s \in Closing : Goto(w, s)
    <3>1. CASE Settle(w)
        BY <3>1 DEF Settle, IInv, TasksHold, TypeOK
    <3>2. CASE MarkUnsettled(w) \/ SettleRaised(w)
        BY <3>2 DEF MarkUnsettled, SettleRaised
    <3> QED BY <1>11, <3>1, <3>2
  <2>4. task'[w].at \in Closing /\ task'[w].project = task[w].project /\ task'[w].run = task[w].run
      BY <1>1, <2>3, GotoStep
  <2> QED BY <1>1, <2>1, <2>2, <2>4, EndStep DEF Guards
<1>12. CASE (\E s \in Terminal : Finish(w, s)) \/ FinishLost(w)
  <2>1. Discards(w) /\ task[w].at \in {"claimed", "executing"} /\ Goto(w, "settle")
      BY <1>12 DEF Finish, FinishLost, Discard, Discards
  <2>2. UNCHANGED runTable \/ \E s \in Terminal : SetStatus(task[w].run, s)
      BY <1>12 DEF Finish, FinishLost
  <2>3. task'[w].at \in Closing /\ task'[w].project = task[w].project /\ task'[w].run = task[w].run
      BY <1>1, <2>1, GotoStep
  <2> QED BY <1>1, <2>1, <2>2, <2>3, EndStep DEF Guards
<1>13. CASE CloseJob(w) \/ CloseJobLost(w)
  <2>1. Discards(w) /\ task[w].at \in Terminal /\ Drop(w) /\ UNCHANGED runTable
      BY <1>13 DEF CloseJob, CloseJobLost, Discard, Discards
  <2> QED BY <1>1, <1>2, <2>1, EndStep DEF Guards
<1> QED
    BY <1>4, <1>5, <1>6, <1>7, <1>8, <1>9, <1>10, <1>11, <1>12, <1>13,
       InsertStep, ClaimStep, MarkRunningStep, HeartbeatStep
    DEF TaskNext, Request, Execute, Faulty

\* In one process, and as long as no phase outlasts the threshold, the workflow
\* of a project is never executed by two tasks at once (OneExecutor), whatever
\* crashes, is recovered, or comes late.
THEOREM ExecutedOnce ==
    ASSUME OneProcess, ~LongPhases PROVE Spec => []OneExecutor
<1>1. Init => ExecInv
    BY DEF Init, Idle, ExecInv, OwnProject, StaleRows, RecoveredFresh, ClosingFresh, Shadowed, Busy,
           Guards, Past
<1>2. IInv /\ ExecInv /\ [Next]_vars => ExecInv'
  <2>1. ASSUME IInv, ExecInv, UNCHANGED vars PROVE ExecInv'
      BY <2>1 DEF vars, ExecInv, OwnProject, StaleRows, RecoveredFresh, ClosingFresh, Shadowed, Busy, Fresh
  <2> QED BY <2>1, ExecTask, AgeStep, CrashStep DEF Next
<1>3. IInv /\ ExecInv => OneExecutor
    BY Alone
<1> QED BY <1>1, <1>2, <1>3, Inductive, PTL DEF Spec

=============================================================================
