----------------------------- MODULE ProjectStore -----------------------------
(***************************************************************************)
(* The project store of one API process (mas/store.py) as one project sees *)
(* it: a row of state_snapshots, a cache of live ProjectState objects, and *)
(* the tasks that load, change and save those objects (mas/api.py,         *)
(* run_workflow_sequence).  A state is abstracted to the set of edits made *)
(* to it.  The event loop switches tasks only where the code awaits.       *)
(***************************************************************************)
CONSTANTS Task, Object,
          Request,     \* edits saved without a run check: kill, approvals, budget
          Patch,       \* edits refused while a workflow runs
          Kill,        \* the kill switch, one of Request
          Phase,       \* phase outputs, written by the workflow
          Lists,       \* is store.list_all called?
          Deletes,     \* is the project deleted?
          Restarts,    \* does the process start with an empty cache, and restart?
          Failures,    \* may a save's transaction fail?
          None

ASSUME ConstantsAssumption ==
    /\ {Lists, Deletes, Restarts, Failures} \subseteq BOOLEAN
    /\ Kill \in Request
    /\ Request \cap Phase = {} /\ Patch \cap (Request \cup Phase) = {}
    /\ None \notin Task \cup Object \cup Request \cup Patch \cup Phase
    /\ \A edits \in SUBSET (Request \cup Patch \cup Phase) : edits # None
    /\ Object # {}

Edit == Request \cup Patch \cup Phase

VARIABLES
    row,      \* state_snapshots.state_json: the edits it holds, None for no row
    heap,     \* the edits each ProjectState object holds
    mem,      \* _mem[project_id]
    lock,     \* the task whose transaction holds the row
    task,     \* what each task is doing
    acked,    \* edits whose save has returned, since the last deletion
    split     \* history: were two objects of the project ever in use, or an outdated one?

vars == <<row, heap, mem, lock, task, acked, split>>

Stage == {"idle", "fetching", "checking", "checked", "loaded", "phase",
          "saving", "writing", "committed", "listing", "deleting"}
Idle == [at |-> "idle", obj |-> None, read |-> {}, edit |-> None, workflow |-> FALSE]

Init ==
    /\ row  = {}
    /\ heap = [o \in Object |-> {}]
    /\ mem = IF Restarts THEN None ELSE CHOOSE o \in Object : TRUE
    /\ lock = None
    /\ task = [w \in Task |-> Idle]
    /\ acked = {}
    /\ split = FALSE

\* Python allocates: any object that neither the cache nor a task refers to.
Fresh == {o \in Object : o # mem /\ \A w \in Task : task[w].obj # o}
NewObject == CHOOSE o \in Fresh : TRUE

\* The objects h that are still referred to after this step; the others are freed.
Live(h) == [o \in Object |-> IF o = mem' \/ \E w \in Task : task'[w].obj = o THEN h[o] ELSE {}]

Goto(w, stage) == task' = [task EXCEPT ![w].at = stage]

\* An object installed now by w is not the only one, or not of the row as it is.
Forks(w) ==
    \/ mem # None \/ task[w].read # row
    \/ \E v \in Task \ {w} : task[v].obj # None

WorkflowActive == \E w \in Task : task[w].workflow

-----------------------------------------------------------------------------
(* store.load                                                               *)

\* A cache hit returns without awaiting; a request edits the object at once.
BeginRequest(w, e) ==
    /\ task[w].at = "idle" /\ mem # None
    /\ e \in Request \ (heap[mem] \cup acked)
    /\ heap' = [heap EXCEPT ![mem] = @ \cup {e}]
    /\ task' = [task EXCEPT ![w] = [Idle EXCEPT !.at = "saving", !.obj = mem, !.edit = e]]
    /\ UNCHANGED <<row, mem, lock, acked, split>>

\* A patch has to ask next whether a workflow runs.
BeginPatch(w, e) ==
    /\ task[w].at = "idle" /\ mem # None
    /\ e \in Patch \ (heap[mem] \cup acked)
    /\ task' = [task EXCEPT ![w] = [Idle EXCEPT !.at = "checking", !.obj = mem, !.edit = e]]
    /\ UNCHANGED <<row, heap, mem, lock, acked, split>>

\* The accepted run of the project (see WorkflowRuns) loads its state.
BeginWorkflow(w) ==
    /\ task[w].at = "idle" /\ mem # None
    /\ ~WorkflowActive
    /\ task' = [task EXCEPT ![w] = [Idle EXCEPT !.at = "loaded", !.obj = mem, !.workflow = TRUE]]
    /\ UNCHANGED <<row, heap, mem, lock, acked, split>>

\* A miss awaits SELECT state_json; no row answers 404.
BeginFetch(w, e) ==
    /\ task[w].at = "idle" /\ mem = None /\ row # None
    /\ \/ e \in (Request \cup Patch) \ (row \cup acked)
       \/ e = None /\ ~WorkflowActive
    /\ task' = [task EXCEPT ![w] =
          [Idle EXCEPT !.at = "fetching", !.read = row, !.edit = e, !.workflow = (e = None)]]
    /\ UNCHANGED <<row, heap, mem, lock, acked, split>>

\* The fetched state becomes the cached object, whatever is cached by now.
InstallFetched(w) ==
    /\ task[w].at = "fetching"
    /\ Fresh # {}
    /\ mem' = NewObject
    /\ task' = [task EXCEPT ![w].obj = mem', ![w].read = {},
                            ![w].at = CASE task[w].workflow         -> "loaded"
                                        [] task[w].edit \in Patch   -> "checking"
                                        [] task[w].edit \in Request -> "saving"]
    /\ split' = (split \/ Forks(w))
    /\ UNCHANGED <<row, lock, acked>>
    /\ heap' = Live([heap EXCEPT ![mem'] = task[w].read \cup (Request \cap {task[w].edit})])

\* has_active_project_run reads the runs; its connection is given back, and the
\* task resumed, only later.
CheckPatch(w) ==
    /\ task[w].at = "checking"
    /\ ~WorkflowActive
    /\ Goto(w, "checked")
    /\ UNCHANGED <<row, heap, mem, lock, acked, split>>

ApplyPatch(w) ==
    /\ task[w].at = "checked"
    /\ heap' = [heap EXCEPT ![task[w].obj] = @ \cup {task[w].edit}]
    /\ Goto(w, "saving")
    /\ UNCHANGED <<row, mem, lock, acked, split>>

RefusePatch(w) ==
    /\ task[w].at = "checking"
    /\ WorkflowActive
    /\ task' = [task EXCEPT ![w] = Idle]
    /\ UNCHANGED <<row, mem, lock, acked, split>>
    /\ heap' = Live(heap)

-----------------------------------------------------------------------------
(* run_workflow_sequence over the object it was given.  The save that marks *)
(* a phase RUNNING repeats the one before it and is folded into that.       *)

\* Mutant: the policy gate does not look at the kill switch.
StartPhaseUngated(w) ==
    /\ task[w].workflow /\ task[w].at = "loaded"
    /\ Phase \ heap[task[w].obj] # {}
    /\ Goto(w, "phase")
    /\ UNCHANGED <<row, heap, mem, lock, acked, split>>

\* policy_gate reads the kill switch of the object the workflow holds.
StartPhase(w) ==
    /\ task[w].workflow /\ task[w].at = "loaded"
    /\ Kill \notin heap[task[w].obj]
    /\ Phase \ heap[task[w].obj] # {}
    /\ Goto(w, "phase")
    /\ UNCHANGED <<row, heap, mem, lock, acked, split>>

\* The provider answered: the output is written and the state is saved.
EndPhase(w, f) ==
    /\ task[w].workflow /\ task[w].at = "phase"
    /\ f \in Phase \ heap[task[w].obj]
    /\ heap' = [heap EXCEPT ![task[w].obj] = @ \cup {f}]
    /\ task' = [task EXCEPT ![w].at = "saving", ![w].edit = f]
    /\ UNCHANGED <<row, mem, lock, acked, split>>

\* Blocked by the gate, or out of phases: the state is saved a last time.
StopWorkflow(w) ==
    /\ task[w].workflow /\ task[w].at = "loaded"
    /\ Kill \in heap[task[w].obj] \/ Phase \subseteq heap[task[w].obj]
    /\ task' = [task EXCEPT ![w].at = "saving", ![w].edit = None, ![w].workflow = FALSE]
    /\ UNCHANGED <<row, heap, mem, lock, acked, split>>

-----------------------------------------------------------------------------
(* store.save: one transaction, then the cache                              *)

\* Mutant: the state is serialised before the transaction has the row.
DumpUnlocked(w) ==
    /\ task[w].at = "saving"
    /\ task' = [task EXCEPT ![w].at = "writing", ![w].read = heap[task[w].obj]]
    /\ UNCHANGED <<row, heap, mem, lock, acked, split>>

\* The upsert of `projects` locks; state.model_dump copies the object.
Dump(w) ==
    /\ task[w].at = "saving"
    /\ lock = None
    /\ lock' = w
    /\ task' = [task EXCEPT ![w].at = "writing", ![w].read = heap[task[w].obj]]
    /\ UNCHANGED <<row, heap, mem, acked, split>>

Commit(w) ==
    /\ task[w].at = "writing"
    /\ row' = task[w].read
    /\ lock' = None
    /\ Goto(w, "committed")
    /\ UNCHANGED <<heap, mem, acked, split>>

\* Mutant: a failed save keeps its transaction open.
SaveFailsLocked(w) ==
    /\ Failures /\ task[w].at = "writing"
    /\ task' = [task EXCEPT ![w] = Idle]
    /\ UNCHANGED <<row, mem, lock, acked, split>>
    /\ heap' = Live(heap)

\* The transaction fails: it is rolled back and the exception ends the task.
SaveFails(w) ==
    /\ Failures /\ task[w].at = "writing"
    /\ lock' = None
    /\ task' = [task EXCEPT ![w] = Idle]
    /\ UNCHANGED <<row, mem, acked, split>>
    /\ heap' = Live(heap)

\* _mem[project_id] = state: the saver's object becomes the cached one.
InstallSaved(w) ==
    /\ task[w].at = "committed"
    /\ mem' = task[w].obj
    /\ acked' = acked \cup (IF task[w].edit = None THEN {} ELSE {task[w].edit})
    /\ task' = IF task[w].workflow
               THEN [task EXCEPT ![w].at = "loaded", ![w].edit = None, ![w].read = {}]
               ELSE [task EXCEPT ![w] = Idle]
    /\ UNCHANGED <<row, lock, split>>
    /\ heap' = Live(heap)

-----------------------------------------------------------------------------
(* store.list_all, store.delete, restarts                                   *)

BeginList(w) ==
    /\ Lists /\ task[w].at = "idle" /\ row # None
    /\ task' = [task EXCEPT ![w] = [Idle EXCEPT !.at = "listing", !.read = row]]
    /\ UNCHANGED <<row, heap, mem, lock, acked, split>>

\* Every listed row becomes a new cached object, also under a running workflow.
InstallListed(w) ==
    /\ task[w].at = "listing"
    /\ Fresh # {}
    /\ mem' = NewObject
    /\ task' = [task EXCEPT ![w] = Idle]
    /\ split' = (split \/ Forks(w))
    /\ UNCHANGED <<row, lock, acked>>
    /\ heap' = Live([heap EXCEPT ![mem'] = task[w].read])

\* The cache entry is popped at once; no run is asked about.
BeginDelete(w) ==
    /\ Deletes /\ task[w].at = "idle" /\ row # None
    /\ mem' = None
    /\ task' = [task EXCEPT ![w] = [Idle EXCEPT !.at = "deleting"]]
    /\ UNCHANGED <<row, lock, acked, split>>
    /\ heap' = Live(heap)

\* A save in progress that has not written the row yet puts it back.
DeleteRow(w) ==
    /\ task[w].at = "deleting"
    /\ row' = None
    /\ acked' = {}
    /\ task' = [task EXCEPT ![w] = Idle]
    /\ UNCHANGED <<heap, mem, lock, split>>

\* The process dies, the database rolls back what was not committed.
Restart ==
    /\ Restarts
    /\ mem' = None
    /\ lock' = None
    /\ task' = [w \in Task |-> Idle]
    /\ UNCHANGED <<row, acked, split>>
    /\ heap' = Live(heap)

-----------------------------------------------------------------------------
Begin(w) ==
    \/ \E e \in Request : BeginRequest(w, e)
    \/ \E e \in Patch : BeginPatch(w, e)
    \/ BeginWorkflow(w)
    \/ \E e \in Request \cup Patch \cup {None} : BeginFetch(w, e)
    \/ BeginList(w)
    \/ BeginDelete(w)

Proceed(w) ==
    \/ InstallFetched(w) \/ InstallListed(w)
    \/ CheckPatch(w) \/ ApplyPatch(w) \/ RefusePatch(w)
    \/ StartPhase(w)
    \/ \E f \in Phase : EndPhase(w, f)
    \/ StopWorkflow(w)
    \/ Dump(w) \/ Commit(w) \/ InstallSaved(w)
    \/ DeleteRow(w)

Next ==
    \/ \E w \in Task : Begin(w) \/ Proceed(w) \/ SaveFails(w)
    \/ Restart

Spec == Init /\ [][Next]_vars

\* The event loop resumes every task, phases end, and the row lock is granted
\* to every waiter in turn.
Fairness == \A w \in Task : WF_vars(Proceed(w)) /\ SF_vars(Dump(w))
FairSpec == Spec /\ Fairness

-----------------------------------------------------------------------------
TypeOK ==
    /\ row \in (SUBSET Edit) \cup {None}
    /\ heap \in [Object -> SUBSET Edit]
    /\ mem \in Object \cup {None}
    /\ lock \in Task \cup {None}
    /\ task \in [Task -> [at : Stage, obj : Object \cup {None}, read : SUBSET Edit,
                          edit : Edit \cup {None}, workflow : BOOLEAN]]
    /\ \A w \in Task : task[w].at \in {"checking", "checked", "loaded", "phase", "saving", "writing", "committed"}
                          => task[w].obj # None
    /\ acked \subseteq Edit
    /\ split \in BOOLEAN

(* An edit whose request was answered is in the row and stays there: saves  *)
(* of the same shared object by other tasks, and saves that fail, lose none *)
(* ("Last-write-wins, ACID via single-row upsert").                         *)
AcknowledgedIsDurable == row # None => acked \subseteq row

(* The same as long as only one object of the project was ever in use: with *)
(* one object, whatever fails, is deleted or restarts, no edit is lost.     *)
SharedEditsAreDurable == ~split => AcknowledgedIsDurable

(* Once a kill is acknowledged no further phase starts ("The orchestrator   *)
(* will halt on its next phase or LLM call check").                         *)
KillHaltsWorkflow ==
    [][\A w \in Task : task[w].at = "loaded" /\ task'[w].at = "phase" => Kill \notin acked]_vars

(* The same as long as only one object of the project was ever in use.      *)
KillHaltsSharedWorkflow ==
    [][\A w \in Task : ~split /\ task[w].at = "loaded" /\ task'[w].at = "phase"
                          => Kill \notin acked]_vars

(* Every save that waits for the row gets it and is answered, whatever      *)
(* failed, was deleted or replaced in between.                              *)
SavesEnd == \A w \in Task : task[w].at = "saving" ~> task[w].at # "saving"
=============================================================================
