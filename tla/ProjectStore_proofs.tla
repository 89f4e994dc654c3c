-------------------------- MODULE ProjectStore_proofs --------------------------
(***************************************************************************)
(* Machine-checked proofs about ProjectStore, for any number of tasks,     *)
(* objects, edits and phases, with lists, deletions, restarts and failing  *)
(* saves: while one object of the project is in use, it and the row hold   *)
(* every edit whose save has returned.                                     *)
(***************************************************************************)
EXTENDS ProjectStore, TLAPS

TaskRecord == [at : Stage, obj : Object \cup {None}, read : SUBSET Edit,
               edit : Edit \cup {None}, workflow : BOOLEAN]

\* A load that misses was asked for by a request, a patch or the workflow, and
\* has no object yet; what waits for the run check is a patch.
Asked == \A w \in Task :
    /\ task[w].at = "fetching" =>
          task[w].obj = None /\ (task[w].workflow \/ task[w].edit \in Request \cup Patch)
    /\ task[w].at \in {"checking", "checked"} => task[w].edit \in Patch

\* A transaction that has copied the object holds the row.
WritersLock == \A w \in Task : task[w].at = "writing" => lock = w

\* A save carries the edit it is about.
Carried == \A w \in Task : task[w].edit # None =>
    /\ task[w].at \in {"saving", "writing", "committed"} => task[w].edit \in heap[task[w].obj]
    /\ task[w].at = "writing" => task[w].edit \in task[w].read

\* Edits whose transaction has committed, answered or about to be.
Committed(e) == e \in acked \/ \E w \in Task : task[w].at = "committed" /\ task[w].edit = e /\ e # None

\* All who refer to an object refer to the same.
OneObject == \A v, w \in Task : task[v].obj # None =>
    /\ task[w].obj # None => task[v].obj = task[w].obj
    /\ mem # None => task[v].obj = mem

\* The object in use, every copy on its way to the row, and the row itself hold
\* what has been committed.
HoldsCommitted == \A e \in Edit : Committed(e) =>
    /\ row # None => e \in row
    /\ mem # None => e \in heap[mem]
    /\ \A w \in Task : task[w].obj # None => e \in heap[task[w].obj]
    /\ \A w \in Task : task[w].at = "writing" => e \in task[w].read

IInv == /\ TypeOK /\ Asked /\ WritersLock /\ Carried
        /\ ~split => OneObject /\ HoldsCommitted

USE DEF Stage

-----------------------------------------------------------------------------
LEMMA IdleType == Idle \in TaskRecord /\ Idle.at = "idle" /\ Idle.obj = None /\ Idle.edit = None
                  /\ Idle.workflow = FALSE /\ Idle.read = {}
BY DEF Idle, TaskRecord

LEMMA Initially == Init => IInv
<1> SUFFICES ASSUME Init PROVE IInv
    OBVIOUS
<1>1. TypeOK
    BY IdleType, ConstantsAssumption DEF Init, TypeOK, TaskRecord
<1>2. \A w \in Task : task[w].at = "idle" /\ task[w].obj = None /\ task[w].edit = None
    BY IdleType DEF Init
<1>3. acked = {}
    BY DEF Init
<1> QED BY <1>1, <1>2, <1>3 DEF IInv, Asked, WritersLock, Carried, OneObject, HoldsCommitted, Committed

-----------------------------------------------------------------------------
(* What the steps have in common                                           *)

Elsewhere(w) == \A v \in Task \ {w} : task'[v] = task[v]

LEMMA GotoStep == ASSUME TypeOK, NEW w \in Task, NEW s \in Stage, Goto(w, s)
                  PROVE  /\ task' \in [Task -> TaskRecord] /\ Elsewhere(w)
                         /\ task'[w].at = s
                         /\ task'[w].obj = task[w].obj /\ task'[w].read = task[w].read
                         /\ task'[w].edit = task[w].edit /\ task'[w].workflow = task[w].workflow
<1>1. [task[w] EXCEPT !.at = s] \in TaskRecord
    BY ZenonT(30) DEF TypeOK, TaskRecord
<1>2. task' = [task EXCEPT ![w] = [task[w] EXCEPT !.at = s]]
    BY DEF TypeOK, Goto
<1>3. task' \in [Task -> TaskRecord] /\ Elsewhere(w)
    BY <1>1, <1>2 DEF TypeOK, TaskRecord, Elsewhere
<1>4. task'[w] = [task[w] EXCEPT !.at = s]
    BY <1>2 DEF TypeOK
<1> QED BY <1>3, <1>4 DEF TypeOK, TaskRecord

LEMMA SetStep == ASSUME TypeOK, NEW w \in Task, NEW r \in TaskRecord, task' = [task EXCEPT ![w] = r]
                 PROVE  task' \in [Task -> TaskRecord] /\ Elsewhere(w) /\ task'[w] = r
BY DEF TypeOK, TaskRecord, Elsewhere

\* An object that a task or the cache refers to.
InUse(o) == o # None /\ (o = mem \/ \E w \in Task : task[w].obj = o)

LEMMA LiveStep == ASSUME NEW h \in [Object -> SUBSET Edit], heap' = Live(h)
                  PROVE  /\ heap' \in [Object -> SUBSET Edit]
                         /\ \A o \in Object : InUse(o)' => heap'[o] = h[o]
BY DEF Live, InUse

\* Steps that put no new object to use, write no row and commit nothing.
LEMMA SharedKeeps ==
    ASSUME TypeOK, OneObject, HoldsCommitted,
           \A o : InUse(o)' => InUse(o),
           \A o \in Object : InUse(o)' => heap[o] \subseteq heap'[o],
           \A e : Committed(e)' => Committed(e),
           row' \in {row, None},
           \A w \in Task : task'[w].at = "writing" =>
              \/ task[w].at = "writing" /\ task'[w].read = task[w].read
              \/ task[w].obj # None /\ task'[w].read = heap[task[w].obj],
           mem' \in Object \cup {None}, \A w \in Task : task'[w].obj \in Object \cup {None}
    PROVE  OneObject' /\ HoldsCommitted'
<1>1. \A o, q : InUse(o) /\ InUse(q) => o = q
    BY DEF InUse, OneObject
<1>2. \A e \in Edit : Committed(e) => \A o \in Object : InUse(o) => e \in heap[o]
    BY DEF HoldsCommitted, InUse
<1>3. OneObject'
  <2>1. \A o, q : InUse(o)' /\ InUse(q)' => o = q
      BY <1>1
  <2>2. \A v \in Task : task'[v].obj # None => InUse(task[v].obj)'
      BY DEF InUse
  <2>3. mem' # None => InUse(mem)'
      BY DEF InUse
  <2> QED BY <2>1, <2>2, <2>3 DEF OneObject
<1>4. ASSUME NEW e \in Edit, Committed(e)' PROVE
          /\ row' # None => e \in row'
          /\ mem' # None => e \in heap'[mem']
          /\ \A w \in Task : task'[w].obj # None => e \in heap'[task'[w].obj]
          /\ \A w \in Task : task'[w].at = "writing" => e \in task'[w].read
  <2>1. Committed(e)
      BY <1>4
  <2>2. row' # None => e \in row'
      BY <2>1 DEF HoldsCommitted
  <2>3. \A o \in Object : InUse(o)' => e \in heap'[o]
      BY <2>1, <1>2
  <2>4. mem' # None => e \in heap'[mem']
      BY <2>3 DEF InUse
  <2>5. \A w \in Task : task'[w].obj # None => e \in heap'[task'[w].obj]
      BY <2>3 DEF InUse
  <2>6. \A w \in Task : task'[w].at = "writing" => e \in task'[w].read
      BY <2>1 DEF HoldsCommitted
  <2> QED BY <2>2, <2>4, <2>5, <2>6
<1>5. HoldsCommitted'
    BY <1>4 DEF HoldsCommitted
<1> QED BY <1>3, <1>5

-----------------------------------------------------------------------------
(* store.load                                                              *)

LEMMA BeginRequestKeeps == ASSUME IInv, NEW w \in Task, NEW e \in Request, BeginRequest(w, e) PROVE IInv'
<1> USE ConstantsAssumption DEF IInv
<1> DEFINE r == [Idle EXCEPT !.at = "saving", !.obj = mem, !.edit = e]
<1>1. mem \in Object /\ e \in Edit /\ e # None
    BY DEF BeginRequest, TypeOK, Edit
<1>2. /\ r \in TaskRecord
      /\ r.at = "saving" /\ r.obj = mem /\ r.edit = e
    BY <1>1 DEF Idle, TaskRecord
<1>3. task' \in [Task -> TaskRecord] /\ Elsewhere(w) /\ task'[w] = r
    BY <1>2, SetStep DEF BeginRequest
<1> HIDE DEF r
<1>4. heap' \in [Object -> SUBSET Edit] /\ heap' = [heap EXCEPT ![mem] = @ \cup {e}]
    BY <1>1 DEF BeginRequest, TypeOK
<1>5. task[w].at = "idle" /\ UNCHANGED <<row, mem, lock, acked, split>>
    BY DEF BeginRequest
<1>6. TypeOK'
    BY <1>1, <1>2, <1>3, <1>4, <1>5 DEF TypeOK, TaskRecord, Elsewhere
<1>7. Asked' /\ WritersLock'
    BY <1>2, <1>3, <1>5 DEF Asked, WritersLock, Elsewhere
<1>8. Carried'
    BY <1>1, <1>2, <1>3, <1>4 DEF Carried, Elsewhere, TypeOK
<1>9. OneObject /\ HoldsCommitted => OneObject' /\ HoldsCommitted'
  <2> SUFFICES ASSUME OneObject, HoldsCommitted PROVE OneObject' /\ HoldsCommitted'
      OBVIOUS
  <2>1. \A o : InUse(o)' => InUse(o)
      BY <1>1, <1>2, <1>3, <1>5 DEF InUse, Elsewhere
  <2>2. \A o \in Object : heap[o] \subseteq heap'[o]
      BY <1>4 DEF TypeOK
  <2>3. \A c : Committed(c)' => Committed(c)
      BY <1>2, <1>3, <1>5 DEF Committed, Elsewhere
  <2>4. \A v \in Task : task'[v].at = "writing" => task[v].at = "writing" /\ task'[v].read = task[v].read
      BY <1>2, <1>3 DEF Elsewhere
  <2> QED BY <1>3, <1>5, <1>6, <2>1, <2>2, <2>3, <2>4, SharedKeeps DEF TypeOK, TaskRecord
<1> QED BY <1>5, <1>6, <1>7, <1>8, <1>9

LEMMA BeginPatchKeeps == ASSUME IInv, NEW w \in Task, NEW e \in Patch, BeginPatch(w, e) PROVE IInv'
<1> USE ConstantsAssumption DEF IInv
<1> DEFINE r == [Idle EXCEPT !.at = "checking", !.obj = mem, !.edit = e]
<1>1. mem \in Object /\ e \in Edit
    BY DEF BeginPatch, TypeOK, Asked, TaskRecord, Edit
<1>2. /\ r \in TaskRecord
      /\ r.at = "checking" /\ r.obj = mem /\ r.edit = e
    BY <1>1 DEF TypeOK, Idle, TaskRecord
<1>3. task' \in [Task -> TaskRecord] /\ Elsewhere(w) /\ task'[w] = r
    BY <1>2, SetStep DEF BeginPatch
<1> HIDE DEF r
<1>4. UNCHANGED heap
    BY DEF BeginPatch
<1>5. task[w].at = "idle" /\ UNCHANGED <<row, mem, lock, acked, split>>
    BY DEF BeginPatch
<1>6. TypeOK'
    BY <1>1, <1>2, <1>3, <1>4, <1>5 DEF TypeOK, TaskRecord, Elsewhere
<1>7. Asked' /\ WritersLock'
    BY <1>1, <1>2, <1>3, <1>5 DEF Asked, WritersLock, Elsewhere
<1>8. Carried'
    BY <1>1, <1>2, <1>3, <1>4 DEF Carried, Elsewhere, TypeOK
<1>9. OneObject /\ HoldsCommitted => OneObject' /\ HoldsCommitted'
  <2> SUFFICES ASSUME OneObject, HoldsCommitted PROVE OneObject' /\ HoldsCommitted'
      OBVIOUS
  <2>1. \A o : InUse(o)' => InUse(o)
      BY <1>1, <1>2, <1>3, <1>5 DEF InUse, Elsewhere, TypeOK
  <2>2. \A o \in Object : InUse(o)' => heap[o] \subseteq heap'[o]
      BY <1>4 DEF TypeOK
  <2>3. \A c : Committed(c)' => Committed(c)
      BY <1>2, <1>3, <1>5 DEF Committed, Elsewhere
  <2>4. \A v \in Task : task'[v].at = "writing" =>
           \/ task[v].at = "writing" /\ task'[v].read = task[v].read
           \/ task[v].obj # None /\ task'[v].read = heap[task[v].obj]
      BY <1>1, <1>2, <1>3 DEF Elsewhere, TypeOK
  <2> QED BY <1>3, <1>5, <1>6, <2>1, <2>2, <2>3, <2>4, SharedKeeps DEF TypeOK, TaskRecord
<1> QED BY <1>5, <1>6, <1>7, <1>8, <1>9

LEMMA BeginWorkflowKeeps == ASSUME IInv, NEW w \in Task, BeginWorkflow(w) PROVE IInv'
<1> USE ConstantsAssumption DEF IInv
<1> DEFINE r == [Idle EXCEPT !.at = "loaded", !.obj = mem, !.workflow = TRUE]
<1>1. mem \in Object
    BY DEF BeginWorkflow, TypeOK, Asked, TaskRecord, Edit
<1>2. /\ r \in TaskRecord
      /\ r.at = "loaded" /\ r.obj = mem /\ r.edit = None
    BY <1>1 DEF TypeOK, Idle, TaskRecord
<1>3. task' \in [Task -> TaskRecord] /\ Elsewhere(w) /\ task'[w] = r
    BY <1>2, SetStep DEF BeginWorkflow
<1> HIDE DEF r
<1>4. UNCHANGED heap
    BY DEF BeginWorkflow
<1>5. task[w].at = "idle" /\ UNCHANGED <<row, mem, lock, acked, split>>
    BY DEF BeginWorkflow
<1>6. TypeOK'
    BY <1>1, <1>2, <1>3, <1>4, <1>5 DEF TypeOK, TaskRecord, Elsewhere
<1>7. Asked' /\ WritersLock'
    BY <1>1, <1>2, <1>3, <1>5 DEF Asked, WritersLock, Elsewhere
<1>8. Carried'
    BY <1>1, <1>2, <1>3, <1>4 DEF Carried, Elsewhere, TypeOK
<1>9. OneObject /\ HoldsCommitted => OneObject' /\ HoldsCommitted'
  <2> SUFFICES ASSUME OneObject, HoldsCommitted PROVE OneObject' /\ HoldsCommitted'
      OBVIOUS
  <2>1. \A o : InUse(o)' => InUse(o)
      BY <1>1, <1>2, <1>3, <1>5 DEF InUse, Elsewhere, TypeOK
  <2>2. \A o \in Object : InUse(o)' => heap[o] \subseteq heap'[o]
      BY <1>4 DEF TypeOK
  <2>3. \A c : Committed(c)' => Committed(c)
      BY <1>2, <1>3, <1>5 DEF Committed, Elsewhere
  <2>4. \A v \in Task : task'[v].at = "writing" =>
           \/ task[v].at = "writing" /\ task'[v].read = task[v].read
           \/ task[v].obj # None /\ task'[v].read = heap[task[v].obj]
      BY <1>1, <1>2, <1>3 DEF Elsewhere, TypeOK
  <2> QED BY <1>3, <1>5, <1>6, <2>1, <2>2, <2>3, <2>4, SharedKeeps DEF TypeOK, TaskRecord
<1> QED BY <1>5, <1>6, <1>7, <1>8, <1>9

LEMMA BeginFetchKeeps == ASSUME IInv, NEW w \in Task, NEW e \in Request \cup Patch \cup {None}, BeginFetch(w, e) PROVE IInv'
<1> USE ConstantsAssumption DEF IInv
<1> DEFINE r == [Idle EXCEPT !.at = "fetching", !.read = row, !.edit = e, !.workflow = (e = None)]
<1>1. row \in SUBSET Edit /\ e \in Edit \cup {None}
    BY DEF BeginFetch, TypeOK, Asked, TaskRecord, Edit
<1>2. /\ r \in TaskRecord
      /\ r.at = "fetching" /\ r.obj = None /\ r.edit = e /\ (e = None => r.workflow = TRUE)
    BY <1>1 DEF TypeOK, Idle, TaskRecord
<1>3. task' \in [Task -> TaskRecord] /\ Elsewhere(w) /\ task'[w] = r
    BY <1>2, SetStep DEF BeginFetch
<1> HIDE DEF r
<1>4. UNCHANGED heap
    BY DEF BeginFetch
<1>5. task[w].at = "idle" /\ UNCHANGED <<row, mem, lock, acked, split>>
    BY DEF BeginFetch
<1>6. TypeOK'
    BY <1>1, <1>2, <1>3, <1>4, <1>5 DEF TypeOK, TaskRecord, Elsewhere
<1>7. Asked' /\ WritersLock'
    BY <1>1, <1>2, <1>3, <1>5 DEF Asked, WritersLock, Elsewhere
<1>8. Carried'
    BY <1>1, <1>2, <1>3, <1>4 DEF Carried, Elsewhere, TypeOK
<1>9. OneObject /\ HoldsCommitted => OneObject' /\ HoldsCommitted'
  <2> SUFFICES ASSUME OneObject, HoldsCommitted PROVE OneObject' /\ HoldsCommitted'
      OBVIOUS
  <2>1. \A o : InUse(o)' => InUse(o)
      BY <1>1, <1>2, <1>3, <1>5 DEF InUse, Elsewhere, TypeOK
  <2>2. \A o \in Object : InUse(o)' => heap[o] \subseteq heap'[o]
      BY <1>4 DEF TypeOK
  <2>3. \A c : Committed(c)' => Committed(c)
      BY <1>2, <1>3, <1>5 DEF Committed, Elsewhere
  <2>4. \A v \in Task : task'[v].at = "writing" =>
           \/ task[v].at = "writing" /\ task'[v].read = task[v].read
           \/ task[v].obj # None /\ task'[v].read = heap[task[v].obj]
      BY <1>1, <1>2, <1>3 DEF Elsewhere, TypeOK
  <2> QED BY <1>3, <1>5, <1>6, <2>1, <2>2, <2>3, <2>4, SharedKeeps DEF TypeOK, TaskRecord
<1> QED BY <1>5, <1>6, <1>7, <1>8, <1>9

LEMMA RefusePatchKeeps == ASSUME IInv, NEW w \in Task, RefusePatch(w) PROVE IInv'
<1> USE ConstantsAssumption DEF IInv
<1> DEFINE r == Idle
<1>1. task[w].at = "checking"
    BY DEF RefusePatch, TypeOK, Asked, TaskRecord, Edit
<1>2. /\ r \in TaskRecord
      /\ r.at = "idle" /\ r.obj = None /\ r.edit = None
    BY <1>1 DEF TypeOK, Idle, TaskRecord
<1>3. task' \in [Task -> TaskRecord] /\ Elsewhere(w) /\ task'[w] = r
    BY <1>2, SetStep DEF RefusePatch
<1> HIDE DEF r
<1>4. /\ heap' \in [Object -> SUBSET Edit]
      /\ \A o \in Object : InUse(o)' => heap'[o] = heap[o]
    BY LiveStep DEF RefusePatch, TypeOK
<1>5. task[w].at = "checking" /\ UNCHANGED <<row, mem, lock, acked, split>>
    BY DEF RefusePatch
<1>6. TypeOK'
    BY <1>1, <1>2, <1>3, <1>4, <1>5 DEF TypeOK, TaskRecord, Elsewhere
<1>7. Asked' /\ WritersLock'
    BY <1>1, <1>2, <1>3, <1>5 DEF Asked, WritersLock, Elsewhere
<1>8. Carried'
  <2>1. \A v \in Task : task'[v].obj # None => InUse(task[v].obj)'
      BY DEF InUse
  <2> QED BY <1>1, <1>2, <1>3, <1>4, <1>6, <2>1 DEF Carried, Elsewhere, TypeOK
<1>9. OneObject /\ HoldsCommitted => OneObject' /\ HoldsCommitted'
  <2> SUFFICES ASSUME OneObject, HoldsCommitted PROVE OneObject' /\ HoldsCommitted'
      OBVIOUS
  <2>1. \A o : InUse(o)' => InUse(o)
      BY <1>1, <1>2, <1>3, <1>5 DEF InUse, Elsewhere, TypeOK
  <2>2. \A o \in Object : InUse(o)' => heap[o] \subseteq heap'[o]
      BY <1>4 DEF TypeOK
  <2>3. \A c : Committed(c)' => Committed(c)
      BY <1>2, <1>3, <1>5 DEF Committed, Elsewhere
  <2>4. \A v \in Task : task'[v].at = "writing" =>
           \/ task[v].at = "writing" /\ task'[v].read = task[v].read
           \/ task[v].obj # None /\ task'[v].read = heap[task[v].obj]
      BY <1>1, <1>2, <1>3 DEF Elsewhere, TypeOK
  <2> QED BY <1>3, <1>5, <1>6, <2>1, <2>2, <2>3, <2>4, SharedKeeps DEF TypeOK, TaskRecord
<1> QED BY <1>5, <1>6, <1>7, <1>8, <1>9

LEMMA SaveFailsKeeps == ASSUME IInv, NEW w \in Task, SaveFails(w) PROVE IInv'
<1> USE ConstantsAssumption DEF IInv
<1> DEFINE r == Idle
<1>1. task[w].at = "writing"
    BY DEF SaveFails, TypeOK, Asked, TaskRecord, Edit
<1>2. /\ r \in TaskRecord
      /\ r.at = "idle" /\ r.obj = None /\ r.edit = None
    BY <1>1 DEF TypeOK, Idle, TaskRecord
<1>3. task' \in [Task -> TaskRecord] /\ Elsewhere(w) /\ task'[w] = r
    BY <1>2, SetStep DEF SaveFails
<1> HIDE DEF r
<1>4. /\ heap' \in [Object -> SUBSET Edit]
      /\ \A o \in Object : InUse(o)' => heap'[o] = heap[o]
    BY LiveStep DEF SaveFails, TypeOK
<1>5. task[w].at = "writing" /\ lock' = None /\ UNCHANGED <<row, mem, acked, split>>
    BY DEF SaveFails
<1>6. TypeOK'
    BY <1>1, <1>2, <1>3, <1>4, <1>5 DEF TypeOK, TaskRecord, Elsewhere
<1>7. Asked' /\ WritersLock'
    BY <1>1, <1>2, <1>3, <1>5 DEF Asked, WritersLock, Elsewhere
<1>8. Carried'
  <2>1. \A v \in Task : task'[v].obj # None => InUse(task[v].obj)'
      BY DEF InUse
  <2> QED BY <1>1, <1>2, <1>3, <1>4, <1>6, <2>1 DEF Carried, Elsewhere, TypeOK
<1>9. OneObject /\ HoldsCommitted => OneObject' /\ HoldsCommitted'
  <2> SUFFICES ASSUME OneObject, HoldsCommitted PROVE OneObject' /\ HoldsCommitted'
      OBVIOUS
  <2>1. \A o : InUse(o)' => InUse(o)
      BY <1>1, <1>2, <1>3, <1>5 DEF InUse, Elsewhere, TypeOK
  <2>2. \A o \in Object : InUse(o)' => heap[o] \subseteq heap'[o]
      BY <1>4 DEF TypeOK
  <2>3. \A c : Committed(c)' => Committed(c)
      BY <1>2, <1>3, <1>5 DEF Committed, Elsewhere
  <2>4. \A v \in Task : task'[v].at = "writing" =>
           \/ task[v].at = "writing" /\ task'[v].read = task[v].read
           \/ task[v].obj # None /\ task'[v].read = heap[task[v].obj]
      BY <1>1, <1>2, <1>3 DEF Elsewhere, TypeOK
  <2> QED BY <1>3, <1>5, <1>6, <2>1, <2>2, <2>3, <2>4, SharedKeeps DEF TypeOK, TaskRecord
<1> QED BY <1>5, <1>6, <1>7, <1>8, <1>9

LEMMA BeginListKeeps == ASSUME IInv, NEW w \in Task, BeginList(w) PROVE IInv'
<1> USE ConstantsAssumption DEF IInv
<1> DEFINE r == [Idle EXCEPT !.at = "listing", !.read = row]
<1>1. row \in SUBSET Edit
    BY DEF BeginList, TypeOK, Asked, TaskRecord, Edit
<1>2. /\ r \in TaskRecord
      /\ r.at = "listing" /\ r.obj = None /\ r.edit = None
    BY <1>1 DEF TypeOK, Idle, TaskRecord
<1>3. task' \in [Task -> TaskRecord] /\ Elsewhere(w) /\ task'[w] = r
    BY <1>2, SetStep DEF BeginList
<1> HIDE DEF r
<1>4. UNCHANGED heap
    BY DEF BeginList
<1>5. task[w].at = "idle" /\ UNCHANGED <<row, mem, lock, acked, split>>
    BY DEF BeginList
<1>6. TypeOK'
    BY <1>1, <1>2, <1>3, <1>4, <1>5 DEF TypeOK, TaskRecord, Elsewhere
<1>7. Asked' /\ WritersLock'
    BY <1>1, <1>2, <1>3, <1>5 DEF Asked, WritersLock, Elsewhere
<1>8. Carried'
    BY <1>1, <1>2, <1>3, <1>4 DEF Carried, Elsewhere, TypeOK
<1>9. OneObject /\ HoldsCommitted => OneObject' /\ HoldsCommitted'
  <2> SUFFICES ASSUME OneObject, HoldsCommitted PROVE OneObject' /\ HoldsCommitted'
      OBVIOUS
  <2>1. \A o : InUse(o)' => InUse(o)
      BY <1>1, <1>2, <1>3, <1>5 DEF InUse, Elsewhere, TypeOK
  <2>2. \A o \in Object : InUse(o)' => heap[o] \subseteq heap'[o]
      BY <1>4 DEF TypeOK
  <2>3. \A c : Committed(c)' => Committed(c)
      BY <1>2, <1>3, <1>5 DEF Committed, Elsewhere
  <2>4. \A v \in Task : task'[v].at = "writing" =>
           \/ task[v].at = "writing" /\ task'[v].read = task[v].read
           \/ task[v].obj # None /\ task'[v].read = heap[task[v].obj]
      BY <1>1, <1>2, <1>3 DEF Elsewhere, TypeOK
  <2> QED BY <1>3, <1>5, <1>6, <2>1, <2>2, <2>3, <2>4, SharedKeeps DEF TypeOK, TaskRecord
<1> QED BY <1>5, <1>6, <1>7, <1>8, <1>9

LEMMA BeginDeleteKeeps == ASSUME IInv, NEW w \in Task, BeginDelete(w) PROVE IInv'
<1> USE ConstantsAssumption DEF IInv
<1> DEFINE r == [Idle EXCEPT !.at = "deleting"]
<1>1. task[w].at = "idle"
    BY DEF BeginDelete, TypeOK, Asked, TaskRecord, Edit
<1>2. /\ r \in TaskRecord
      /\ r.at = "deleting" /\ r.obj = None /\ r.edit = None
    BY <1>1 DEF TypeOK, Idle, TaskRecord
<1>3. task' \in [Task -> TaskRecord] /\ Elsewhere(w) /\ task'[w] = r
    BY <1>2, SetStep DEF BeginDelete
<1> HIDE DEF r
<1>4. /\ heap' \in [Object -> SUBSET Edit]
      /\ \A o \in Object : InUse(o)' => heap'[o] = heap[o]
    BY LiveStep DEF BeginDelete, TypeOK
<1>5. task[w].at = "idle" /\ mem' = None /\ UNCHANGED <<row, lock, acked, split>>
    BY DEF BeginDelete
<1>6. TypeOK'
    BY <1>1, <1>2, <1>3, <1>4, <1>5 DEF TypeOK, TaskRecord, Elsewhere
<1>7. Asked' /\ WritersLock'
    BY <1>1, <1>2, <1>3, <1>5 DEF Asked, WritersLock, Elsewhere
<1>8. Carried'
  <2>1. \A v \in Task : task'[v].obj # None => InUse(task[v].obj)'
      BY DEF InUse
  <2> QED BY <1>1, <1>2, <1>3, <1>4, <1>6, <2>1 DEF Carried, Elsewhere, TypeOK
<1>9. OneObject /\ HoldsCommitted => OneObject' /\ HoldsCommitted'
  <2> SUFFICES ASSUME OneObject, HoldsCommitted PROVE OneObject' /\ HoldsCommitted'
      OBVIOUS
  <2>1. \A o : InUse(o)' => InUse(o)
      BY <1>1, <1>2, <1>3, <1>5 DEF InUse, Elsewhere, TypeOK
  <2>2. \A o \in Object : InUse(o)' => heap[o] \subseteq heap'[o]
      BY <1>4 DEF TypeOK
  <2>3. \A c : Committed(c)' => Committed(c)
      BY <1>2, <1>3, <1>5 DEF Committed, Elsewhere
  <2>4. \A v \in Task : task'[v].at = "writing" =>
           \/ task[v].at = "writing" /\ task'[v].read = task[v].read
           \/ task[v].obj # None /\ task'[v].read = heap[task[v].obj]
      BY <1>1, <1>2, <1>3 DEF Elsewhere, TypeOK
  <2> QED BY <1>3, <1>5, <1>6, <2>1, <2>2, <2>3, <2>4, SharedKeeps DEF TypeOK, TaskRecord
<1> QED BY <1>5, <1>6, <1>7, <1>8, <1>9

LEMMA DeleteRowKeeps == ASSUME IInv, NEW w \in Task, DeleteRow(w) PROVE IInv'
<1> USE ConstantsAssumption DEF IInv
<1> DEFINE r == Idle
<1>1. task[w].at = "deleting"
    BY DEF DeleteRow, TypeOK, Asked, TaskRecord, Edit
<1>2. /\ r \in TaskRecord
      /\ r.at = "idle" /\ r.obj = None /\ r.edit = None
    BY <1>1 DEF TypeOK, Idle, TaskRecord
<1>3. task' \in [Task -> TaskRecord] /\ Elsewhere(w) /\ task'[w] = r
    BY <1>2, SetStep DEF DeleteRow
<1> HIDE DEF r
<1>4. UNCHANGED heap
    BY DEF DeleteRow
<1>5. task[w].at = "deleting" /\ row' = None /\ acked' = {} /\ UNCHANGED <<mem, lock, split>>
    BY DEF DeleteRow
<1>6. TypeOK'
    BY <1>1, <1>2, <1>3, <1>4, <1>5 DEF TypeOK, TaskRecord, Elsewhere
<1>7. Asked' /\ WritersLock'
    BY <1>1, <1>2, <1>3, <1>5 DEF Asked, WritersLock, Elsewhere
<1>8. Carried'
    BY <1>1, <1>2, <1>3, <1>4 DEF Carried, Elsewhere, TypeOK
<1>9. OneObject /\ HoldsCommitted => OneObject' /\ HoldsCommitted'
  <2> SUFFICES ASSUME OneObject, HoldsCommitted PROVE OneObject' /\ HoldsCommitted'
      OBVIOUS
  <2>1. \A o : InUse(o)' => InUse(o)
      BY <1>1, <1>2, <1>3, <1>5 DEF InUse, Elsewhere, TypeOK
  <2>2. \A o \in Object : InUse(o)' => heap[o] \subseteq heap'[o]
      BY <1>4 DEF TypeOK
  <2>3. \A c : Committed(c)' => Committed(c)
      BY <1>2, <1>3, <1>5 DEF Committed, Elsewhere
  <2>4. \A v \in Task : task'[v].at = "writing" =>
           \/ task[v].at = "writing" /\ task'[v].read = task[v].read
           \/ task[v].obj # None /\ task'[v].read = heap[task[v].obj]
      BY <1>1, <1>2, <1>3 DEF Elsewhere, TypeOK
  <2> QED BY <1>3, <1>5, <1>6, <2>1, <2>2, <2>3, <2>4, SharedKeeps DEF TypeOK, TaskRecord
<1> QED BY <1>5, <1>6, <1>7, <1>8, <1>9

LEMMA StopWorkflowKeeps == ASSUME IInv, NEW w \in Task, StopWorkflow(w) PROVE IInv'
<1> USE ConstantsAssumption DEF IInv
<1> DEFINE r == [task[w] EXCEPT !.at = "saving", !.edit = None, !.workflow = FALSE]
<1>1. task[w].at = "loaded" /\ task[w] \in TaskRecord
    BY DEF StopWorkflow, TypeOK, Asked, TaskRecord, Edit
<1>2. /\ r \in TaskRecord
      /\ r.at = "saving" /\ r.obj = task[w].obj /\ r.edit = None
    BY <1>1 DEF TypeOK, Idle, TaskRecord
<1>3. task' \in [Task -> TaskRecord] /\ Elsewhere(w) /\ task'[w] = r
  <2>1. task' = [task EXCEPT ![w] = r]
      BY DEF StopWorkflow, Goto, TypeOK
  <2> QED BY <1>2, <2>1, SetStep
<1> HIDE DEF r
<1>4. UNCHANGED heap
    BY DEF StopWorkflow
<1>5. task[w].at = "loaded" /\ UNCHANGED <<row, mem, lock, acked, split>>
    BY DEF StopWorkflow
<1>6. TypeOK'
    BY <1>1, <1>2, <1>3, <1>4, <1>5 DEF TypeOK, TaskRecord, Elsewhere
<1>7. Asked' /\ WritersLock'
    BY <1>1, <1>2, <1>3, <1>5 DEF Asked, WritersLock, Elsewhere
<1>8. Carried'
    BY <1>1, <1>2, <1>3, <1>4 DEF Carried, Elsewhere, TypeOK
<1>9. OneObject /\ HoldsCommitted => OneObject' /\ HoldsCommitted'
  <2> SUFFICES ASSUME OneObject, HoldsCommitted PROVE OneObject' /\ HoldsCommitted'
      OBVIOUS
  <2>1. \A o : InUse(o)' => InUse(o)
      BY <1>1, <1>2, <1>3, <1>5 DEF InUse, Elsewhere, TypeOK
  <2>2. \A o \in Object : InUse(o)' => heap[o] \subseteq heap'[o]
      BY <1>4 DEF TypeOK
  <2>3. \A c : Committed(c)' => Committed(c)
      BY <1>2, <1>3, <1>5 DEF Committed, Elsewhere
  <2>4. \A v \in Task : task'[v].at = "writing" =>
           \/ task[v].at = "writing" /\ task'[v].read = task[v].read
           \/ task[v].obj # None /\ task'[v].read = heap[task[v].obj]
      BY <1>1, <1>2, <1>3 DEF Elsewhere, TypeOK
  <2> QED BY <1>3, <1>5, <1>6, <2>1, <2>2, <2>3, <2>4, SharedKeeps DEF TypeOK, TaskRecord
<1> QED BY <1>5, <1>6, <1>7, <1>8, <1>9

LEMMA DumpKeeps == ASSUME IInv, NEW w \in Task, Dump(w) PROVE IInv'
<1> USE ConstantsAssumption DEF IInv
<1> DEFINE r == [task[w] EXCEPT !.at = "writing", !.read = heap[task[w].obj]]
<1>1. task[w].at = "saving" /\ task[w] \in TaskRecord /\ task[w].obj \in Object /\ task[w].obj # None
    BY DEF Dump, TypeOK, Asked, TaskRecord, Edit
<1>2. /\ r \in TaskRecord
      /\ r.at = "writing" /\ r.obj = task[w].obj /\ r.edit = task[w].edit /\ r.read = heap[task[w].obj]
    BY <1>1 DEF TypeOK, Idle, TaskRecord
<1>3. task' \in [Task -> TaskRecord] /\ Elsewhere(w) /\ task'[w] = r
  <2>1. task' = [task EXCEPT ![w] = r]
      BY DEF Dump, Goto, TypeOK
  <2> QED BY <1>2, <2>1, SetStep
<1> HIDE DEF r
<1>4. UNCHANGED heap
    BY DEF Dump
<1>5. task[w].at = "saving" /\ lock = None /\ lock' = w /\ UNCHANGED <<row, mem, acked, split>>
    BY DEF Dump
<1>6. TypeOK'
    BY <1>1, <1>2, <1>3, <1>4, <1>5 DEF TypeOK, TaskRecord, Elsewhere
<1>7. Asked' /\ WritersLock'
    BY <1>1, <1>2, <1>3, <1>5 DEF Asked, WritersLock, Elsewhere
<1>8. Carried'
    BY <1>1, <1>2, <1>3, <1>4 DEF Carried, Elsewhere, TypeOK
<1>9. OneObject /\ HoldsCommitted => OneObject' /\ HoldsCommitted'
  <2> SUFFICES ASSUME OneObject, HoldsCommitted PROVE OneObject' /\ HoldsCommitted'
      OBVIOUS
  <2>1. \A o : InUse(o)' => InUse(o)
      BY <1>1, <1>2, <1>3, <1>5 DEF InUse, Elsewhere, TypeOK
  <2>2. \A o \in Object : InUse(o)' => heap[o] \subseteq heap'[o]
      BY <1>4 DEF TypeOK
  <2>3. \A c : Committed(c)' => Committed(c)
      BY <1>2, <1>3, <1>5 DEF Committed, Elsewhere
  <2>4. \A v \in Task : task'[v].at = "writing" =>
           \/ task[v].at = "writing" /\ task'[v].read = task[v].read
           \/ task[v].obj # None /\ task'[v].read = heap[task[v].obj]
      BY <1>1, <1>2, <1>3 DEF Elsewhere, TypeOK
  <2> QED BY <1>3, <1>5, <1>6, <2>1, <2>2, <2>3, <2>4, SharedKeeps DEF TypeOK, TaskRecord
<1> QED BY <1>5, <1>6, <1>7, <1>8, <1>9

LEMMA CheckPatchKeeps == ASSUME IInv, NEW w \in Task, CheckPatch(w) PROVE IInv'
<1> USE ConstantsAssumption DEF IInv
<1> DEFINE r == [task[w] EXCEPT !.at = "checked"]
<1>1. task[w].at = "checking" /\ task[w] \in TaskRecord
    BY DEF CheckPatch, TypeOK, Asked, TaskRecord, Edit
<1>2. /\ r \in TaskRecord
      /\ r.at = "checked" /\ r.obj = task[w].obj /\ r.edit = task[w].edit
    BY <1>1 DEF TypeOK, Idle, TaskRecord
<1>3. task' \in [Task -> TaskRecord] /\ Elsewhere(w) /\ task'[w] = r
  <2>1. task' = [task EXCEPT ![w] = r]
      BY DEF CheckPatch, Goto, TypeOK
  <2> QED BY <1>2, <2>1, SetStep
<1> HIDE DEF r
<1>4. UNCHANGED heap
    BY DEF CheckPatch
<1>5. task[w].at = "checking" /\ UNCHANGED <<row, mem, lock, acked, split>>
    BY DEF CheckPatch
<1>6. TypeOK'
    BY <1>1, <1>2, <1>3, <1>4, <1>5 DEF TypeOK, TaskRecord, Elsewhere
<1>7. Asked' /\ WritersLock'
    BY <1>1, <1>2, <1>3, <1>5 DEF Asked, WritersLock, Elsewhere
<1>8. Carried'
    BY <1>1, <1>2, <1>3, <1>4 DEF Carried, Elsewhere, TypeOK
<1>9. OneObject /\ HoldsCommitted => OneObject' /\ HoldsCommitted'
  <2> SUFFICES ASSUME OneObject, HoldsCommitted PROVE OneObject' /\ HoldsCommitted'
      OBVIOUS
  <2>1. \A o : InUse(o)' => InUse(o)
      BY <1>1, <1>2, <1>3, <1>5 DEF InUse, Elsewhere, TypeOK
  <2>2. \A o \in Object : InUse(o)' => heap[o] \subseteq heap'[o]
      BY <1>4 DEF TypeOK
  <2>3. \A c : Committed(c)' => Committed(c)
      BY <1>2, <1>3, <1>5 DEF Committed, Elsewhere
  <2>4. \A v \in Task : task'[v].at = "writing" =>
           \/ task[v].at = "writing" /\ task'[v].read = task[v].read
           \/ task[v].obj # None /\ task'[v].read = heap[task[v].obj]
      BY <1>1, <1>2, <1>3 DEF Elsewhere, TypeOK
  <2> QED BY <1>3, <1>5, <1>6, <2>1, <2>2, <2>3, <2>4, SharedKeeps DEF TypeOK, TaskRecord
<1> QED BY <1>5, <1>6, <1>7, <1>8, <1>9

LEMMA ApplyPatchKeeps == ASSUME IInv, NEW w \in Task, ApplyPatch(w) PROVE IInv'
<1> USE ConstantsAssumption DEF IInv
<1> DEFINE r == [task[w] EXCEPT !.at = "saving"]
<1>1. task[w].at = "checked" /\ task[w] \in TaskRecord /\ task[w].obj \in Object /\ task[w].edit \in Edit
    BY DEF ApplyPatch, TypeOK, Asked, TaskRecord, Edit
<1>2. /\ r \in TaskRecord
      /\ r.at = "saving" /\ r.obj = task[w].obj /\ r.edit = task[w].edit
    BY <1>1 DEF TypeOK, Idle, TaskRecord
<1>3. task' \in [Task -> TaskRecord] /\ Elsewhere(w) /\ task'[w] = r
  <2>1. task' = [task EXCEPT ![w] = r]
      BY DEF ApplyPatch, Goto, TypeOK
  <2> QED BY <1>2, <2>1, SetStep
<1> HIDE DEF r
<1>4. /\ heap' \in [Object -> SUBSET Edit]
      /\ heap' = [heap EXCEPT ![task[w].obj] = @ \cup {task[w].edit}]
    BY <1>1 DEF ApplyPatch, TypeOK
<1>5. task[w].at = "checked" /\ UNCHANGED <<row, mem, lock, acked, split>>
    BY DEF ApplyPatch
<1>6. TypeOK'
    BY <1>1, <1>2, <1>3, <1>4, <1>5 DEF TypeOK, TaskRecord, Elsewhere
<1>7. Asked' /\ WritersLock'
    BY <1>1, <1>2, <1>3, <1>5 DEF Asked, WritersLock, Elsewhere
<1>8. Carried'
    BY <1>1, <1>2, <1>3, <1>4 DEF Carried, Elsewhere, TypeOK
<1>9. OneObject /\ HoldsCommitted => OneObject' /\ HoldsCommitted'
  <2> SUFFICES ASSUME OneObject, HoldsCommitted PROVE OneObject' /\ HoldsCommitted'
      OBVIOUS
  <2>1. \A o : InUse(o)' => InUse(o)
      BY <1>1, <1>2, <1>3, <1>5 DEF InUse, Elsewhere, TypeOK
  <2>2. \A o \in Object : InUse(o)' => heap[o] \subseteq heap'[o]
      BY <1>4 DEF TypeOK
  <2>3. \A c : Committed(c)' => Committed(c)
      BY <1>2, <1>3, <1>5 DEF Committed, Elsewhere
  <2>4. \A v \in Task : task'[v].at = "writing" =>
           \/ task[v].at = "writing" /\ task'[v].read = task[v].read
           \/ task[v].obj # None /\ task'[v].read = heap[task[v].obj]
      BY <1>1, <1>2, <1>3 DEF Elsewhere, TypeOK
  <2> QED BY <1>3, <1>5, <1>6, <2>1, <2>2, <2>3, <2>4, SharedKeeps DEF TypeOK, TaskRecord
<1> QED BY <1>5, <1>6, <1>7, <1>8, <1>9

LEMMA StartPhaseKeeps == ASSUME IInv, NEW w \in Task, StartPhase(w) PROVE IInv'
<1> USE ConstantsAssumption DEF IInv
<1> DEFINE r == [task[w] EXCEPT !.at = "phase"]
<1>1. task[w].at = "loaded" /\ task[w] \in TaskRecord
    BY DEF StartPhase, TypeOK, Asked, TaskRecord, Edit
<1>2. /\ r \in TaskRecord
      /\ r.at = "phase" /\ r.obj = task[w].obj /\ r.edit = task[w].edit
    BY <1>1 DEF TypeOK, Idle, TaskRecord
<1>3. task' \in [Task -> TaskRecord] /\ Elsewhere(w) /\ task'[w] = r
  <2>1. task' = [task EXCEPT ![w] = r]
      BY DEF StartPhase, Goto, TypeOK
  <2> QED BY <1>2, <2>1, SetStep
<1> HIDE DEF r
<1>4. UNCHANGED heap
    BY DEF StartPhase
<1>5. task[w].at = "loaded" /\ UNCHANGED <<row, mem, lock, acked, split>>
    BY DEF StartPhase
<1>6. TypeOK'
    BY <1>1, <1>2, <1>3, <1>4, <1>5 DEF TypeOK, TaskRecord, Elsewhere
<1>7. Asked' /\ WritersLock'
    BY <1>1, <1>2, <1>3, <1>5 DEF Asked, WritersLock, Elsewhere
<1>8. Carried'
    BY <1>1, <1>2, <1>3, <1>4 DEF Carried, Elsewhere, TypeOK
<1>9. OneObject /\ HoldsCommitted => OneObject' /\ HoldsCommitted'
  <2> SUFFICES ASSUME OneObject, HoldsCommitted PROVE OneObject' /\ HoldsCommitted'
      OBVIOUS
  <2>1. \A o : InUse(o)' => InUse(o)
      BY <1>1, <1>2, <1>3, <1>5 DEF InUse, Elsewhere, TypeOK
  <2>2. \A o \in Object : InUse(o)' => heap[o] \subseteq heap'[o]
      BY <1>4 DEF TypeOK
  <2>3. \A c : Committed(c)' => Committed(c)
      BY <1>2, <1>3, <1>5 DEF Committed, Elsewhere
  <2>4. \A v \in Task : task'[v].at = "writing" =>
           \/ task[v].at = "writing" /\ task'[v].read = task[v].read
           \/ task[v].obj # None /\ task'[v].read = heap[task[v].obj]
      BY <1>1, <1>2, <1>3 DEF Elsewhere, TypeOK
  <2> QED BY <1>3, <1>5, <1>6, <2>1, <2>2, <2>3, <2>4, SharedKeeps DEF TypeOK, TaskRecord
<1> QED BY <1>5, <1>6, <1>7, <1>8, <1>9

LEMMA EndPhaseKeeps == ASSUME IInv, NEW w \in Task, NEW f \in Phase, EndPhase(w, f) PROVE IInv'
<1> USE ConstantsAssumption DEF IInv
<1> DEFINE r == [task[w] EXCEPT !.at = "saving", !.edit = f]
<1>1. task[w].at = "phase" /\ task[w] \in TaskRecord /\ task[w].obj \in Object /\ f \in Edit
    BY DEF EndPhase, TypeOK, Asked, TaskRecord, Edit
<1>2. /\ r \in TaskRecord
      /\ r.at = "saving" /\ r.obj = task[w].obj /\ r.edit = f
    BY <1>1 DEF TypeOK, Idle, TaskRecord
<1>3. task' \in [Task -> TaskRecord] /\ Elsewhere(w) /\ task'[w] = r
  <2>1. task' = [task EXCEPT ![w] = r]
      BY DEF EndPhase, Goto, TypeOK
  <2> QED BY <1>2, <2>1, SetStep
<1> HIDE DEF r
<1>4. /\ heap' \in [Object -> SUBSET Edit]
      /\ heap' = [heap EXCEPT ![task[w].obj] = @ \cup {f}]
    BY <1>1 DEF EndPhase, TypeOK
<1>5. task[w].at = "phase" /\ UNCHANGED <<row, mem, lock, acked, split>>
    BY DEF EndPhase
<1>6. TypeOK'
    BY <1>1, <1>2, <1>3, <1>4, <1>5 DEF TypeOK, TaskRecord, Elsewhere
<1>7. Asked' /\ WritersLock'
    BY <1>1, <1>2, <1>3, <1>5 DEF Asked, WritersLock, Elsewhere
<1>8. Carried'
    BY <1>1, <1>2, <1>3, <1>4 DEF Carried, Elsewhere, TypeOK
<1>9. OneObject /\ HoldsCommitted => OneObject' /\ HoldsCommitted'
  <2> SUFFICES ASSUME OneObject, HoldsCommitted PROVE OneObject' /\ HoldsCommitted'
      OBVIOUS
  <2>1. \A o : InUse(o)' => InUse(o)
      BY <1>1, <1>2, <1>3, <1>5 DEF InUse, Elsewhere, TypeOK
  <2>2. \A o \in Object : InUse(o)' => heap[o] \subseteq heap'[o]
      BY <1>4 DEF TypeOK
  <2>3. \A c : Committed(c)' => Committed(c)
      BY <1>2, <1>3, <1>5 DEF Committed, Elsewhere
  <2>4. \A v \in Task : task'[v].at = "writing" =>
           \/ task[v].at = "writing" /\ task'[v].read = task[v].read
           \/ task[v].obj # None /\ task'[v].read = heap[task[v].obj]
      BY <1>1, <1>2, <1>3 DEF Elsewhere, TypeOK
  <2> QED BY <1>3, <1>5, <1>6, <2>1, <2>2, <2>3, <2>4, SharedKeeps DEF TypeOK, TaskRecord
<1> QED BY <1>5, <1>6, <1>7, <1>8, <1>9

LEMMA CommitKeeps == ASSUME IInv, NEW w \in Task, Commit(w) PROVE IInv'
<1> USE ConstantsAssumption DEF IInv
<1>1. task[w].at = "writing" /\ task[w] \in TaskRecord /\ task[w].obj \in Object /\ task[w].obj # None
    BY DEF Commit, TypeOK, TaskRecord
<1>2. /\ task' \in [Task -> TaskRecord] /\ Elsewhere(w) /\ task'[w].at = "committed"
      /\ task'[w].obj = task[w].obj /\ task'[w].read = task[w].read
      /\ task'[w].edit = task[w].edit
    BY GotoStep DEF Commit
<1>3. row' = task[w].read /\ lock' = None /\ UNCHANGED <<heap, mem, acked, split>>
    BY DEF Commit
<1>4. \A v \in Task \ {w} : task[v].at # "writing"
    BY <1>1 DEF WritersLock
<1>5. TypeOK'
    BY <1>1, <1>2, <1>3 DEF TypeOK, TaskRecord, Elsewhere
<1>6. Asked' /\ WritersLock'
    BY <1>2, <1>3, <1>4 DEF Asked, WritersLock, Elsewhere
<1>7. Carried'
    BY <1>1, <1>2, <1>3 DEF Carried, Elsewhere
<1>8. OneObject /\ HoldsCommitted => OneObject' /\ HoldsCommitted'
  <2> SUFFICES ASSUME OneObject, HoldsCommitted PROVE OneObject' /\ HoldsCommitted'
      OBVIOUS
  <2>1. \A v \in Task : task'[v].obj = task[v].obj
      BY <1>2 DEF Elsewhere
  <2>2. OneObject'
      BY <1>3, <2>1 DEF OneObject
  <2>3. ASSUME NEW e \in Edit, Committed(e)'
        PROVE  /\ e \in row'
               /\ mem' # None => e \in heap'[mem']
               /\ \A v \in Task : task'[v].obj # None => e \in heap'[task'[v].obj]
    <3>1. CASE Committed(e)
        BY <3>1, <1>1, <1>3, <2>1 DEF HoldsCommitted
    <3>2. CASE ~Committed(e)
      <4>1. e = task[w].edit /\ e # None
          BY <3>2, <2>3, <1>2, <1>3 DEF Committed, Elsewhere
      <4>2. e \in heap[task[w].obj] /\ e \in task[w].read
          BY <4>1, <1>1 DEF Carried
      <4> QED BY <4>2, <1>1, <1>3, <2>1 DEF OneObject
    <3> QED BY <3>1, <3>2
  <2>4. \A v \in Task : task'[v].at # "writing"
      BY <1>2, <1>4 DEF Elsewhere
  <2> QED BY <2>2, <2>3, <2>4 DEF HoldsCommitted
<1> QED BY <1>3, <1>5, <1>6, <1>7, <1>8

LEMMA InstallSavedKeeps == ASSUME IInv, NEW w \in Task, InstallSaved(w) PROVE IInv'
<1> USE ConstantsAssumption DEF IInv
<1> DEFINE r == IF task[w].workflow THEN [task[w] EXCEPT !.at = "loaded", !.edit = None, !.read = {}]
                ELSE Idle
<1>1. task[w].at = "committed" /\ task[w] \in TaskRecord /\ task[w].obj \in Object /\ task[w].obj # None
    BY DEF InstallSaved, TypeOK, TaskRecord
<1>2. /\ r \in TaskRecord
      /\ r.at \in {"loaded", "idle"} /\ r.obj \in {task[w].obj, None} /\ r.edit = None
      /\ r.at = "loaded" => r.obj = task[w].obj
    BY <1>1 DEF Idle, TaskRecord
<1>3. task' \in [Task -> TaskRecord] /\ Elsewhere(w) /\ task'[w] = r
  <2>1. task' = [task EXCEPT ![w] = r]
      BY DEF InstallSaved, TypeOK
  <2> QED BY <1>2, <2>1, SetStep
<1> HIDE DEF r
<1>4. /\ heap' \in [Object -> SUBSET Edit]
      /\ \A o \in Object : InUse(o)' => heap'[o] = heap[o]
    BY LiveStep DEF InstallSaved, TypeOK
<1>5. /\ mem' = task[w].obj /\ UNCHANGED <<row, lock, split>>
      /\ acked' = acked \cup (IF task[w].edit = None THEN {} ELSE {task[w].edit})
    BY DEF InstallSaved
<1>6. TypeOK'
    BY <1>1, <1>2, <1>3, <1>4, <1>5 DEF TypeOK, TaskRecord, Elsewhere
<1>7. Asked' /\ WritersLock'
    BY <1>2, <1>3, <1>5 DEF Asked, WritersLock, Elsewhere
<1>8. Carried'
  <2>1. \A v \in Task : task'[v].obj # None => InUse(task[v].obj)'
      BY DEF InUse
  <2> QED BY <1>1, <1>2, <1>3, <1>4, <1>6, <2>1 DEF Carried, Elsewhere, TypeOK
<1>9. OneObject /\ HoldsCommitted => OneObject' /\ HoldsCommitted'
  <2> SUFFICES ASSUME OneObject, HoldsCommitted PROVE OneObject' /\ HoldsCommitted'
      OBVIOUS
  <2>1. \A o : InUse(o)' => InUse(o)
      BY <1>1, <1>2, <1>3, <1>5 DEF InUse, Elsewhere
  <2>2. \A o \in Object : InUse(o)' => heap[o] \subseteq heap'[o]
      BY <1>4
  <2>3. \A c : Committed(c)' => Committed(c)
      BY <1>1, <1>2, <1>3, <1>5 DEF Committed, Elsewhere
  <2>4. \A v \in Task : task'[v].at = "writing" => task[v].at = "writing" /\ task'[v].read = task[v].read
      BY <1>2, <1>3 DEF Elsewhere
  <2> QED BY <1>5, <1>6, <2>1, <2>2, <2>3, <2>4, SharedKeeps DEF TypeOK, TaskRecord
<1> QED BY <1>5, <1>6, <1>7, <1>8, <1>9

-----------------------------------------------------------------------------
(* New objects                                                             *)

LEMMA NewIsFresh == ASSUME Fresh # {}
                    PROVE  NewObject \in Object /\ NewObject # mem /\ \A v \in Task : task[v].obj # NewObject
BY DEF NewObject, Fresh

\* A new object that forks nothing is the only one, and is the row.
LEMMA InstallShares ==
    ASSUME IInv, OneObject, HoldsCommitted, NEW w \in Task, NEW n \in Object, ~Forks(w),
           task' \in [Task -> TaskRecord], Elsewhere(w), mem' = n, task'[w].obj \in {n, None},
           task'[w].at \notin {"writing", "committed"}, task[w].read \in SUBSET Edit,
           task[w].read \subseteq heap'[n], UNCHANGED <<row, acked>>
    PROVE  OneObject' /\ HoldsCommitted'
<1> USE ConstantsAssumption
<1>1. task[w].read = row /\ \A v \in Task \ {w} : task[v].obj = None
    BY DEF Forks
<1>2. \A v \in Task : task'[v].obj \in {n, None}
    BY <1>1 DEF Elsewhere
<1>3. OneObject'
    BY <1>2 DEF OneObject
<1>4. \A v \in Task : task'[v].at \notin {"writing", "committed"}
    BY <1>1 DEF Elsewhere, IInv, TypeOK
<1>5. row # None
    BY <1>1 DEF Edit
<1>6. \A e \in Edit : Committed(e)' => e \in row'
    BY <1>4, <1>5 DEF Committed, HoldsCommitted
<1>7. HoldsCommitted'
    BY <1>1, <1>2, <1>4, <1>6 DEF HoldsCommitted
<1> QED BY <1>3, <1>7

LEMMA InstallFetchedKeeps == ASSUME IInv, NEW w \in Task, InstallFetched(w) PROVE IInv'
<1> USE ConstantsAssumption DEF IInv
<1> DEFINE t == task[w]
           s == CASE t.workflow         -> "loaded"
                  [] t.edit \in Patch   -> "checking"
                  [] t.edit \in Request -> "saving"
           r == [t EXCEPT !.obj = mem', !.read = {}, !.at = s]
           h == [heap EXCEPT ![mem'] = t.read \cup (Request \cap {t.edit})]
<1>1. t \in TaskRecord /\ t.at = "fetching" /\ t.obj = None
    BY DEF InstallFetched, Asked, TypeOK, TaskRecord
<1>2. mem' \in Object /\ mem' # None /\ mem' # mem /\ \A v \in Task : task[v].obj # mem'
    BY NewIsFresh DEF InstallFetched
<1>3. /\ s \in {"loaded", "checking", "saving"}
      /\ s = "checking" => t.edit \in Patch
      /\ s = "saving" => t.edit \in Request
    BY <1>1 DEF Asked
<1> HIDE DEF s
<1>4. r \in TaskRecord /\ r.at = s /\ r.obj = mem' /\ r.edit = t.edit
    BY <1>1, <1>2, <1>3, ZenonT(30) DEF TaskRecord
<1>5. task' \in [Task -> TaskRecord] /\ Elsewhere(w) /\ task'[w] = r
  <2>1. task' = [task EXCEPT ![w].obj = mem', ![w].read = {}, ![w].at = s]
      BY DEF InstallFetched, s
  <2>2. task' = [task EXCEPT ![w] = r]
      BY <2>1 DEF TypeOK
  <2> QED BY <1>4, <2>2, SetStep
<1>6. h \in [Object -> SUBSET Edit] /\ t.read \subseteq h[mem'] /\ (s = "saving" => t.edit \in h[mem'])
      /\ \A o \in Object \ {mem'} : h[o] = heap[o]
  <2>1. t.read \cup (Request \cap {t.edit}) \in SUBSET Edit
      BY <1>1 DEF TaskRecord, Edit
  <2>2. heap \in [Object -> SUBSET Edit]
      BY DEF TypeOK
  <2> QED BY <1>2, <1>3, <2>1, <2>2
<1>7. heap' = Live(h) /\ split' = (split \/ Forks(w)) /\ UNCHANGED <<row, lock, acked>>
    BY DEF InstallFetched
<1> HIDE DEF r, h, t
<1>8. /\ heap' \in [Object -> SUBSET Edit]
      /\ \A o \in Object : InUse(o)' => heap'[o] = h[o]
    BY <1>6, <1>7, LiveStep
<1>9. InUse(mem)'
    BY <1>2 DEF InUse
<1>10. TypeOK'
  <2>1. split' \in BOOLEAN
      BY <1>7, Zenon DEF TypeOK, Forks
  <2> QED BY <1>2, <1>3, <1>4, <1>5, <1>7, <1>8, <2>1 DEF TypeOK, TaskRecord, Elsewhere
<1>11. Asked' /\ WritersLock'
    BY <1>1, <1>3, <1>4, <1>5, <1>7 DEF Asked, WritersLock, Elsewhere, t
<1>12. Carried'
  <2>1. \A v \in Task \ {w} : task[v].obj \in Object /\ task[v].obj # None => heap'[task[v].obj] = heap[task[v].obj]
    <3> SUFFICES ASSUME NEW v \in Task \ {w}, task[v].obj \in Object, task[v].obj # None
                 PROVE  heap'[task[v].obj] = heap[task[v].obj]
        OBVIOUS
    <3>1. task'[v] = task[v]
        BY <1>5 DEF Elsewhere
    <3>2. InUse(task[v].obj)'
        BY <3>1 DEF InUse
    <3> QED BY <1>2, <1>6, <1>8, <3>1, <3>2
  <2>2. \A v \in Task \ {w} : task[v].at \in {"saving", "writing", "committed"} => task[v].obj \in Object /\ task[v].obj # None
      BY DEF TypeOK
  <2>3. s = "saving" => t.edit \in heap'[mem']
      BY <1>2, <1>6, <1>8, <1>9
  <2> QED BY <1>3, <1>4, <1>5, <2>1, <2>2, <2>3 DEF Carried, Elsewhere
<1>13. ~split' => OneObject' /\ HoldsCommitted'
  <2> SUFFICES ASSUME ~split' PROVE OneObject' /\ HoldsCommitted'
      OBVIOUS
  <2>1. ~split /\ ~Forks(w)
      BY <1>7
  <2>2. task[w].read \in SUBSET Edit /\ task[w].read \subseteq heap'[mem']
      BY <1>1, <1>2, <1>6, <1>8, <1>9 DEF t, TaskRecord
  <2>3. UNCHANGED <<row, acked>> /\ task'[w].obj = mem' /\ task'[w].at \notin {"writing", "committed"}
      BY <1>3, <1>4, <1>5, <1>7
  <2> QED BY <1>2, <1>5, <2>1, <2>2, <2>3, InstallShares
<1> QED BY <1>10, <1>11, <1>12, <1>13

LEMMA InstallListedKeeps == ASSUME IInv, NEW w \in Task, InstallListed(w) PROVE IInv'
<1> USE ConstantsAssumption DEF IInv
<1> DEFINE h == [heap EXCEPT ![mem'] = task[w].read]
<1>1. task[w] \in TaskRecord /\ task[w].at = "listing"
    BY DEF InstallListed, TypeOK, TaskRecord
<1>2. mem' \in Object /\ mem' # None /\ mem' # mem /\ \A v \in Task : task[v].obj # mem'
    BY NewIsFresh DEF InstallListed
<1>3. task' \in [Task -> TaskRecord] /\ Elsewhere(w) /\ task'[w] = Idle
    BY IdleType, SetStep DEF InstallListed
<1>4. h \in [Object -> SUBSET Edit] /\ task[w].read \subseteq h[mem']
      /\ \A o \in Object \ {mem'} : h[o] = heap[o]
    BY <1>1, <1>2 DEF TypeOK, TaskRecord
<1>5. heap' = Live(h) /\ split' = (split \/ Forks(w)) /\ UNCHANGED <<row, lock, acked>>
    BY DEF InstallListed
<1> HIDE DEF h
<1>6. /\ heap' \in [Object -> SUBSET Edit]
      /\ \A o \in Object : InUse(o)' => heap'[o] = h[o]
    BY <1>4, <1>5, LiveStep
<1>7. InUse(mem)'
    BY <1>2 DEF InUse
<1>8. TypeOK'
  <2>1. split' \in BOOLEAN
      BY <1>5, Zenon DEF TypeOK, Forks
  <2> QED BY <1>2, <1>3, <1>5, <1>6, <2>1, IdleType DEF TypeOK, TaskRecord, Elsewhere
<1>9. Asked' /\ WritersLock'
    BY <1>1, <1>3, <1>5, IdleType DEF Asked, WritersLock, Elsewhere
<1>10. Carried'
  <2>1. \A v \in Task \ {w} : task[v].obj \in Object /\ task[v].obj # None => heap'[task[v].obj] = heap[task[v].obj]
    <3> SUFFICES ASSUME NEW v \in Task \ {w}, task[v].obj \in Object, task[v].obj # None
                 PROVE  heap'[task[v].obj] = heap[task[v].obj]
        OBVIOUS
    <3>1. task'[v] = task[v]
        BY <1>3 DEF Elsewhere
    <3>2. InUse(task[v].obj)'
        BY <3>1 DEF InUse
    <3> QED BY <1>2, <1>4, <1>6, <3>1, <3>2
  <2>2. \A v \in Task \ {w} : task[v].at \in {"saving", "writing", "committed"} => task[v].obj \in Object /\ task[v].obj # None
      BY DEF TypeOK
  <2> QED BY <1>3, <2>1, <2>2, IdleType DEF Carried, Elsewhere
<1>11. ~split' => OneObject' /\ HoldsCommitted'
  <2> SUFFICES ASSUME ~split' PROVE OneObject' /\ HoldsCommitted'
      OBVIOUS
  <2>1. ~split /\ ~Forks(w)
      BY <1>5
  <2>2. task[w].read \in SUBSET Edit /\ task[w].read \subseteq heap'[mem']
      BY <1>1, <1>2, <1>4, <1>6, <1>7 DEF TaskRecord
  <2>3. UNCHANGED <<row, acked>> /\ task'[w].obj = None /\ task'[w].at = "idle"
      BY <1>3, <1>5, IdleType
  <2> QED BY <1>2, <1>3, <2>1, <2>2, <2>3, InstallShares
<1> QED BY <1>8, <1>9, <1>10, <1>11

-----------------------------------------------------------------------------
LEMMA RestartKeeps == ASSUME IInv, Restart PROVE IInv'
<1> USE ConstantsAssumption DEF IInv
<1>1. \A w \in Task : task'[w] = Idle
    BY DEF Restart
<1>2. /\ heap' \in [Object -> SUBSET Edit]
      /\ mem' = None /\ lock' = None /\ UNCHANGED <<row, acked, split>>
    BY LiveStep DEF Restart, TypeOK
<1>3. TypeOK'
    BY <1>1, <1>2, IdleType DEF TypeOK, TaskRecord, Restart
<1>4. Asked' /\ WritersLock' /\ Carried'
    BY <1>1, IdleType DEF Asked, WritersLock, Carried
<1>5. OneObject /\ HoldsCommitted => OneObject' /\ HoldsCommitted'
    BY <1>1, <1>2, IdleType DEF OneObject, HoldsCommitted, Committed
<1> QED BY <1>2, <1>3, <1>4, <1>5

LEMMA StutterKeeps == ASSUME IInv, UNCHANGED vars PROVE IInv'
BY DEF IInv, vars, TypeOK, Asked, WritersLock, Carried, OneObject, HoldsCommitted, Committed

LEMMA TaskKeeps == ASSUME IInv, NEW w \in Task, Begin(w) \/ Proceed(w) \/ SaveFails(w) PROVE IInv'
<1>1. CASE Begin(w)
    BY <1>1, BeginRequestKeeps, BeginPatchKeeps, BeginWorkflowKeeps, BeginFetchKeeps,
       BeginListKeeps, BeginDeleteKeeps DEF Begin
<1>2. CASE Proceed(w)
    BY <1>2, InstallFetchedKeeps, InstallListedKeeps, CheckPatchKeeps, ApplyPatchKeeps,
       RefusePatchKeeps, StartPhaseKeeps, EndPhaseKeeps, StopWorkflowKeeps, DumpKeeps,
       CommitKeeps, InstallSavedKeeps, DeleteRowKeeps DEF Proceed
<1> QED BY <1>1, <1>2, SaveFailsKeeps

\* The strengthened invariant holds in every reachable state.
THEOREM Inductive == Spec => []IInv
<1>1. IInv /\ [Next]_vars => IInv'
    BY TaskKeeps, RestartKeeps, StutterKeeps DEF Next
<1> QED BY Initially, <1>1, PTL DEF Spec

\* The row, the objects, the cache, the lock and the tasks keep their types, and
\* whoever works on a state has an object.
THEOREM TypeCorrect == Spec => []TypeOK
<1>1. IInv => TypeOK
    BY DEF IInv
<1> QED BY Inductive, <1>1, PTL

\* store.save: while one object of the project is in use, no save, failure,
\* deletion or restart loses an edit whose save has returned.
THEOREM SharedEditsStay == Spec => []SharedEditsAreDurable
<1>1. IInv => SharedEditsAreDurable
    BY DEF IInv, TypeOK, SharedEditsAreDurable, AcknowledgedIsDurable, HoldsCommitted, Committed
<1> QED BY Inductive, <1>1, PTL

\* A task that starts a phase has looked at the kill switch of its object.
LEMMA OnlyStartPhase ==
    ASSUME IInv, [Next]_vars, NEW w \in Task, task[w].at = "loaded", task'[w].at = "phase"
    PROVE  StartPhase(w)
<1> USE DEF IInv, TypeOK
<1>1. CASE UNCHANGED vars
    BY <1>1 DEF vars
<1>2. CASE Restart
    BY <1>2, IdleType DEF Restart
<1>3. ASSUME NEW v \in Task, Begin(v) PROVE FALSE
    BY <1>3 DEF Begin, BeginRequest, BeginPatch, BeginWorkflow, BeginFetch, BeginList, BeginDelete, Idle
<1>4. ASSUME NEW v \in Task, Proceed(v), ~StartPhase(w) PROVE FALSE
  <2>1. CASE v # w
      BY <1>4, <2>1 DEF Proceed, InstallFetched, InstallListed, CheckPatch, ApplyPatch, RefusePatch,
                 StartPhase, EndPhase, StopWorkflow, Dump, Commit, InstallSaved, DeleteRow, Goto
  <2>2. CASE v = w
      BY <1>4, <2>2 DEF Proceed, InstallFetched, InstallListed, CheckPatch, ApplyPatch, RefusePatch,
                 StartPhase, EndPhase, StopWorkflow, Dump, Commit, InstallSaved, DeleteRow, Goto
  <2> QED BY <2>1, <2>2
<1>5. ASSUME NEW v \in Task, SaveFails(v) PROVE FALSE
    BY <1>5, IdleType DEF SaveFails
<1> QED BY <1>1, <1>2, <1>3, <1>4, <1>5 DEF Next

\* policy_gate: the workflow reads the switch of the object every request edits,
\* so a kill that was answered stops its next phase.
THEOREM SharedKillHalts == Spec => KillHaltsSharedWorkflow
<1>1. IInv /\ [Next]_vars =>
         \A w \in Task : ~split /\ task[w].at = "loaded" /\ task'[w].at = "phase" => Kill \notin acked
  <2> SUFFICES ASSUME IInv, [Next]_vars, NEW w \in Task, ~split, task[w].at = "loaded",
                      task'[w].at = "phase"
               PROVE  Kill \notin acked
      OBVIOUS
  <2>1. Kill \notin heap[task[w].obj]
      BY OnlyStartPhase DEF StartPhase
  <2>2. task[w].obj # None /\ Kill \in Edit
      BY ConstantsAssumption DEF IInv, TypeOK, Edit
  <2> QED BY <2>1, <2>2 DEF IInv, HoldsCommitted, Committed
<1> QED BY Inductive, <1>1, PTL DEF Spec, KillHaltsSharedWorkflow
=============================================================================
