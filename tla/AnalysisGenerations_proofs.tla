---------------------- MODULE AnalysisGenerations_proofs ----------------------
(***************************************************************************)
(* Proofs about AnalysisGenerations, for every set of projects, workers,   *)
(* candidates and contents and every number of faults.                     *)
(***************************************************************************)
EXTENDS AnalysisGenerations, TLAPS

\* What the rows of analysis_generations satisfy on their own.
RowsWellFormed ==
    \A g \in Id :
        /\ status[g] # "absent" => owner[g] \in Project /\ content[g] \in Analysis
        /\ status[g] = "absent" => owner[g] = None /\ g \notin validated
        /\ g \in validated => content[g] \in Valid
        /\ status[g] = "accepted" => g \in validated
        /\ g \in Candidate /\ status[g] # "absent" => g \in drawn

\* Baselines are accepted from the start, replace nothing and say what they hold.
BaselinesWellFormed ==
    \A p \in Project, a \in Analysis :
        LET g == Baseline(p, a) IN
        /\ base[g] = None
        /\ status[g] \in {"absent", "accepted"}
        /\ status[g] # "absent" => owner[g] = p /\ content[g] = a

\* The set A, linked by b, is one line that ends in c; an empty line has no end.
Line(c, A, b) ==
    /\ c = None => A = {}
    /\ c # None => c \in A
    /\ \A g \in A :
          /\ b[g] # c
          /\ b[g] # None => b[g] \in A
          /\ g = c \/ \E h \in A : b[h] = g
    /\ \A g, h \in A : b[g] = b[h] => g = h

\* The accepted generations of a project form one line that ends in current.
HistoryIsLine == \A p \in Project : Line(current[p], Accepted(p), base)

\* A generation that a task or a copy names holds that task's or copy's content.
NamesHonestly(g, p, a) ==
    /\ g \in Candidate => g \in drawn
    /\ g \in Id /\ status[g] # "absent" => owner[g] = p /\ content[g] = a

TasksHonest ==
    \A w \in Worker :
        Holding(task[w]) => NamesHonestly(task[w].id, task[w].project, task[w].analysis)

CopiesHonest ==
    \A p \in Project :
        /\ NamesHonestly(row[p].bound, p, row[p].analysis)
        /\ \A q \in Project, a \in Analysis :
              row[p].bound = Baseline(q, a) => q = p /\ row[p].analysis = a

IInv ==
    /\ TypeOK
    /\ RowsWellFormed
    /\ BaselinesWellFormed
    /\ HistoryIsLine
    /\ TasksHonest
    /\ CopiesHonest

-----------------------------------------------------------------------------
(* Every variable keeps its type: ids, contents and stages never leave the  *)
(* tables' domains, whatever the tasks do.                                  *)

LEMMA NoneIsOutside == None \notin Id /\ None \notin Analysis /\ None \notin Project
BY ConstantsAssumption DEF Id

LEMMA IdsApart ==
    /\ \A p \in Project, a \in Analysis : Baseline(p, a) \in Id /\ Baseline(p, a) \notin Candidate
    /\ Candidate \subseteq Id
    /\ \A g \in Id : g \notin Candidate => \E p \in Project, a \in Analysis : g = Baseline(p, a)
BY ConstantsAssumption DEF Id, Baseline

\* The task part of TypeOK, and the two ways in which actions change it.
TasksOK ==
    /\ task \in [Worker -> Task]
    /\ \A w \in Worker :
          /\ task[w].at # "idle" => task[w].project \in Project
          /\ Completed(task[w]) => task[w].analysis \in Analysis
          /\ Holding(task[w]) => task[w].id \in Candidate

TablesOK ==
    /\ projects \subseteq Project
    /\ row \in [Project -> Copy]
    /\ status \in [Id -> Status]
    /\ validated \subseteq Id
    /\ base \in [Id -> Id \cup {None}]
    /\ content \in [Id -> Analysis \cup {None}]
    /\ owner \in [Id -> Project \cup {None}]
    /\ current \in [Project -> Id \cup {None}]
    /\ drawn \subseteq Candidate
    /\ faults \in 0..MaxFaults

LEMMA TypeSplit == TypeOK <=> TablesOK /\ TasksOK
BY DEF TypeOK, TablesOK, TasksOK

LEMMA IdleIsTask == Idle \in Task /\ ~Completed(Idle) /\ ~Holding(Idle) /\ Idle.at = "idle"
BY DEF Idle, Task, Stage, Completed, Holding

LEMMA TaskDropped ==
    ASSUME TasksOK, NEW w \in Worker, task' = [task EXCEPT ![w] = Idle]
    PROVE  TasksOK'
BY IdleIsTask DEF TasksOK

LEMMA TaskAdvanced ==
    ASSUME TasksOK, NEW w \in Worker, NEW s \in Stage \ {"idle"},
           task' = [task EXCEPT ![w].at = s],
           s \in {"run", "phase"} \/ Completed(task[w]),
           s \in {"run", "phase", "complete"} \/ Holding(task[w]),
           task[w].at # "idle"
    PROVE  TasksOK'
<1>1. [task[w] EXCEPT !.at = s] \in Task
  BY DEF TasksOK, Task
<1>2. task' \in [Worker -> Task]
  BY <1>1 DEF TasksOK
<1>3. QED
  BY <1>1, <1>2 DEF TasksOK, Task, Completed, Holding

LEMMA TypeInit == Init => TypeOK
<1> SUFFICES ASSUME Init PROVE TypeOK
  OBVIOUS
<1>1. row \in [Project -> Copy]
  BY ConstantsAssumption DEF Init, Copy, Unfinished, Stored
<1>2. TasksOK
  BY IdleIsTask DEF Init, TasksOK
<1>3. TablesOK
  BY <1>1, ConstantsAssumption DEF Init, TablesOK, Status
<1>4. QED
  BY <1>2, <1>3, TypeSplit

\* Saving a well-typed copy of an existing project keeps the tables typed.
LEMMA CopySaved ==
    ASSUME TablesOK, NEW p \in Project, NEW c \in Copy, Save(p, c)
    PROVE  projects' \subseteq Project /\ row' \in [Project -> Copy]
BY DEF TablesOK, Save

LEMMA CopyTypes ==
    /\ Unfinished \in Copy
    /\ \A a \in Analysis, g \in Id \cup {None} : Stored(a, g) \in Copy
BY DEF Unfinished, Stored, Copy

LEMMA TypeStep == TypeOK /\ [Next]_vars => TypeOK'
<1> SUFFICES ASSUME TablesOK, TasksOK, [Next]_vars PROVE TablesOK' /\ TasksOK'
  BY DEF TypeOK, TablesOK, TasksOK
<1>1. ASSUME NEW w \in Worker, NEW p \in Project, NEW k \in {"run", "phase"}, Begin(w, p, k)
      PROVE  TablesOK' /\ TasksOK'
  <2> DEFINE t == [Idle EXCEPT !.at = k, !.project = p, !.base = current[p]]
  <2>1. t \in Task /\ t.at = k /\ t.project = p
    BY DEF TablesOK, Idle, Task, Stage
  <2>2. task' = [task EXCEPT ![w] = t]
    BY <1>1 DEF Begin
  <2>3. TasksOK'
    BY <2>1, <2>2 DEF TasksOK, Completed, Holding
  <2>4. TablesOK'
    BY <1>1 DEF Begin, TablesOK, ledger
  <2>5. QED
    BY <2>3, <2>4
<1>2. ASSUME NEW w \in Worker, PersistProgress(w) PROVE TablesOK' /\ TasksOK'
  <2>1. projects' \subseteq Project /\ row' \in [Project -> Copy]
    BY <1>2, CopySaved, CopyTypes DEF PersistProgress, TasksOK
  <2>2. QED
    BY <1>2, <2>1 DEF PersistProgress, TablesOK, TasksOK, ledger
<1>3. ASSUME NEW w \in Worker, StopUnfinished(w) PROVE TablesOK' /\ TasksOK'
  <2>1. projects' \subseteq Project /\ row' \in [Project -> Copy]
    BY <1>3, CopySaved, CopyTypes DEF StopUnfinished, TasksOK
  <2>2. TablesOK'
    BY <1>3, <2>1 DEF StopUnfinished, TablesOK, ledger
  <2>3. TasksOK'
    BY <1>3, TaskDropped DEF StopUnfinished
  <2>4. QED
    BY <2>2, <2>3
<1>4. ASSUME NEW w \in Worker, NEW a \in Analysis, SaveComplete(w, a) PROVE TablesOK' /\ TasksOK'
  <2> DEFINE t == [task[w] EXCEPT !.at = "complete", !.analysis = a]
  <2>1. projects' \subseteq Project /\ row' \in [Project -> Copy]
    BY <1>4, CopySaved, CopyTypes DEF SaveComplete, TasksOK
  <2>2. TablesOK'
    BY <1>4, <2>1 DEF SaveComplete, TablesOK, ledger
  <2>3. t \in Task /\ t.at = "complete" /\ t.analysis = a /\ t.project \in Project
    BY <1>4 DEF SaveComplete, TasksOK, Task, Stage
  <2>4. task' = [task EXCEPT ![w] = t]
    BY <1>4 DEF SaveComplete, TasksOK, Task
  <2>5. TasksOK'
    BY <2>3, <2>4 DEF TasksOK, Completed, Holding
  <2>6. QED
    BY <2>2, <2>5
<1>5. ASSUME NEW w \in Worker, CreateRefused(w) PROVE TablesOK' /\ TasksOK'
  BY <1>5, TaskDropped DEF CreateRefused, TablesOK, ledger
<1>6. ASSUME NEW w \in Worker, NEW g \in Candidate, CreateCandidate(w, g) PROVE TablesOK' /\ TasksOK'
  <2> DEFINE t == [task[w] EXCEPT !.at = "created", !.id = g]
  <2>1. g \in Id /\ task[w] \in Task /\ task[w].at = "complete"
    BY <1>6, IdsApart DEF CreateCandidate, TasksOK
  <2>2. task[w].project \in Project /\ task[w].analysis \in Analysis /\ task[w].base \in Id \cup {None}
    BY <2>1 DEF TasksOK, Task, Completed
  <2>3. t \in Task /\ t.at = "created" /\ t.id = g
           /\ t.project \in Project /\ t.analysis \in Analysis
    BY <2>1, <2>2 DEF Task, Stage
  <2>4. task' = [task EXCEPT ![w] = t]
    BY <1>6, <2>1 DEF CreateCandidate, TasksOK, Task
  <2>5. TasksOK'
    BY <2>3, <2>4 DEF TasksOK
  <2>6. TablesOK'
    BY <1>6, <2>1, <2>2 DEF CreateCandidate, TablesOK, Status
  <2>7. QED
    BY <2>5, <2>6
<1>7. ASSUME NEW w \in Worker, ValidateCandidate(w) PROVE TablesOK' /\ TasksOK'
  <2>1. Holding(task[w]) /\ Completed(task[w]) /\ task[w].at # "idle"
    BY <1>7 DEF ValidateCandidate, Holding, Completed
  <2>2. task[w].id \in Id
    BY <2>1, IdsApart DEF TasksOK
  <2>3. TasksOK'
    BY <1>7, <2>1, TaskAdvanced DEF ValidateCandidate, Stage
  <2>4. TablesOK'
    BY <1>7, <2>2 DEF ValidateCandidate, TablesOK
  <2>5. QED
    BY <2>3, <2>4
<1>8. ASSUME NEW w \in Worker, ValidateRefused(w) \/ PromoteRefused(w) PROVE TablesOK' /\ TasksOK'
  <2>1. Holding(task[w]) /\ Completed(task[w]) /\ task[w].at # "idle"
    BY <1>8 DEF ValidateRefused, PromoteRefused, Holding, Completed
  <2>2. TasksOK'
    BY <1>8, <2>1, TaskAdvanced DEF ValidateRefused, PromoteRefused, Stage
  <2>3. TablesOK'
    BY <1>8 DEF ValidateRefused, PromoteRefused, TablesOK, ledger
  <2>4. QED
    BY <2>2, <2>3
<1>9. ASSUME NEW w \in Worker, PromoteCandidate(w) \/ PromoteUnacknowledged(w) PROVE TablesOK' /\ TasksOK'
  <2>1. Holding(task[w]) /\ Completed(task[w]) /\ task[w].at # "idle"
    BY <1>9 DEF PromoteCandidate, PromoteUnacknowledged, Holding, Completed
  <2>2. task[w].id \in Id
    BY <2>1, IdsApart DEF TasksOK
  <2>3. TasksOK'
    BY <1>9, <2>1, TaskAdvanced DEF PromoteCandidate, PromoteUnacknowledged, Stage
  <2>4. TablesOK'
    BY <1>9, <2>2, ConstantsAssumption DEF PromoteCandidate, PromoteUnacknowledged, Promote, TablesOK, Status
  <2>5. QED
    BY <2>3, <2>4
<1>10. ASSUME NEW w \in Worker, AbandonCandidate(w) PROVE TablesOK' /\ TasksOK'
  BY <1>10, TaskDropped DEF AbandonCandidate, TablesOK, Status
<1>11. ASSUME NEW w \in Worker, SaveAccepted(w) \/ SaveByOtherRequest(w) PROVE TablesOK' /\ TasksOK'
  <2>1. Holding(task[w]) /\ Completed(task[w]) /\ task[w].at # "idle"
    BY <1>11 DEF SaveAccepted, SaveByOtherRequest, Holding, Completed
  <2>2. projects' \subseteq Project /\ row' \in [Project -> Copy]
    BY <1>11, <2>1, CopySaved, CopyTypes, IdsApart DEF SaveAccepted, SaveByOtherRequest, TasksOK
  <2>3. TablesOK'
    BY <1>11, <2>2 DEF SaveAccepted, SaveByOtherRequest, TablesOK, ledger
  <2>4. TasksOK'
    BY <1>11, TaskDropped DEF SaveAccepted, SaveByOtherRequest, TasksOK
  <2>5. QED
    BY <2>3, <2>4
<1>12. ASSUME NEW w \in Worker, Crash(w) PROVE TablesOK' /\ TasksOK'
  <2>1. TasksOK'
    BY <1>12, TaskDropped DEF Crash
  <2>2. faults' \in 0..MaxFaults
    BY <1>12, ConstantsAssumption DEF Crash, TablesOK
  <2>3. TablesOK'
    BY <1>12, <2>2 DEF Crash, TablesOK, ledger
  <2>4. QED
    BY <2>1, <2>3
<1>13. ASSUME NEW p \in Project, NEW a \in Analysis, Bootstrap(p, a) PROVE TablesOK' /\ TasksOK'
  <2>1. Baseline(p, a) \in Id /\ Stored(a, Baseline(p, a)) \in Copy
    BY IdsApart, CopyTypes
  <2>2. TablesOK'
    BY <1>13, <2>1 DEF Bootstrap, TablesOK, Status
  <2>3. QED
    BY <1>13, <2>2 DEF Bootstrap, TasksOK
<1>14. ASSUME NEW p \in Project, NEW a \in Analysis, Rebind(p, a) PROVE TablesOK' /\ TasksOK'
  <2>1. Stored(a, current[p]) \in Copy
    BY CopyTypes DEF TablesOK
  <2>2. QED
    BY <1>14, <2>1 DEF Rebind, TablesOK, TasksOK, ledger
<1>15. ASSUME NEW p \in Project, DeleteProject(p) PROVE TablesOK' /\ TasksOK'
  BY <1>15, CopyTypes DEF DeleteProject, TablesOK, TasksOK, Status
<1>16. CASE UNCHANGED vars
  BY <1>16 DEF vars, TablesOK, TasksOK
<1>17. QED
  BY <1>1, <1>2, <1>3, <1>4, <1>5, <1>6, <1>7, <1>8, <1>9, <1>10, <1>11, <1>12, <1>13, <1>14, <1>15, <1>16
     DEF Next, WorkerNext, ProjectNext, Work, Accepting, StartRun, StartPhase

THEOREM TypeCorrect == Spec => []TypeOK
BY TypeInit, TypeStep, PTL DEF Spec

-----------------------------------------------------------------------------
(* The history is a line.                                                   *)

LEMMA LineStarts == ASSUME NEW b PROVE Line(None, {}, b)
BY DEF Line

\* Appending g behind the end of a line.
LEMMA LineExtended ==
    ASSUME NEW c, NEW A, NEW b, NEW g, Line(c, A, b),
           g \notin A, g # None, None \notin A, b[g] = c
    PROVE  Line(g, A \cup {g}, b)
BY DEF Line

\* Only the links inside the set matter.
LEMMA LineKept ==
    ASSUME NEW c, NEW A, NEW b, NEW d, Line(c, A, b), \A g \in A : d[g] = b[g]
    PROVE  Line(c, A, d)
BY DEF Line

LEMMA InitIInv == Init => IInv
<1> SUFFICES ASSUME Init PROVE IInv
  OBVIOUS
<1>1. TypeOK
  BY TypeInit
<1>2. RowsWellFormed
  BY DEF Init, RowsWellFormed
<1>3. BaselinesWellFormed
  BY IdsApart DEF Init, BaselinesWellFormed
<1>4. \A p \in Project : Accepted(p) = {}
  BY DEF Init, Accepted
<1>5. HistoryIsLine
  BY <1>4, LineStarts DEF Init, HistoryIsLine
<1>6. TasksHonest
  BY IdleIsTask DEF Init, TasksHonest
<1>7. ASSUME NEW p \in Project PROVE row[p].bound = None
  <2>1. row[p] \in {Unfinished} \cup {Stored(a, None) : a \in Valid}
    BY DEF Init
  <2>2. CASE row[p] = Unfinished
    BY <2>2 DEF Unfinished
  <2>3. CASE row[p] \in {Stored(a, None) : a \in Valid}
    <3>1. PICK a \in Valid : row[p] = Stored(a, None)
      BY <2>3
    <3>2. QED
      BY <3>1 DEF Stored
  <2>4. QED
    BY <2>1, <2>2, <2>3
<1>8. CopiesHonest
  BY <1>7, NoneIsOutside, IdsApart DEF CopiesHonest, NamesHonestly
<1>9. QED
  BY <1>1, <1>2, <1>3, <1>5, <1>6, <1>8 DEF IInv

\* What the tables hold survives every step that does not touch them.
LEMMA LedgerKept ==
    ASSUME IInv, UNCHANGED ledger, UNCHANGED drawn
    PROVE  /\ RowsWellFormed' /\ BaselinesWellFormed' /\ HistoryIsLine'
           /\ \A g, p, a : NamesHonestly(g, p, a) => NamesHonestly(g, p, a)'
<1>1. RowsWellFormed' /\ BaselinesWellFormed'
  BY DEF IInv, ledger, RowsWellFormed, BaselinesWellFormed
<1>2. \A p \in Project : Accepted(p)' = Accepted(p)
  BY DEF ledger, Accepted
<1>3. HistoryIsLine'
  BY <1>2 DEF IInv, ledger, HistoryIsLine
<1>4. \A g, p, a : NamesHonestly(g, p, a) => NamesHonestly(g, p, a)'
  BY DEF ledger, NamesHonestly
<1>5. QED
  BY <1>1, <1>3, <1>4

\* So a step of the working copies and tasks alone only has to keep those honest.
LEMMA StepBesideLedger ==
    ASSUME IInv, TypeOK', UNCHANGED ledger, UNCHANGED drawn, TasksHonest', CopiesHonest'
    PROVE  IInv'
BY LedgerKept DEF IInv

\* A task that goes on with the same candidate, or drops it, stays honest.
LEMMA TaskKeepsItsName ==
    ASSUME IInv, UNCHANGED ledger, UNCHANGED drawn, NEW w \in Worker,
           \A v \in Worker : v # w => task'[v] = task[v],
           \/ ~Holding(task'[w])
           \/ /\ Holding(task[w])
              /\ task'[w].id = task[w].id /\ task'[w].project = task[w].project
              /\ task'[w].analysis = task[w].analysis
    PROVE  TasksHonest'
<1>1. \A g, p, a : NamesHonestly(g, p, a) => NamesHonestly(g, p, a)'
  BY LedgerKept
<1>2. QED
  BY <1>1 DEF IInv, TasksHonest

LEMMA CopiesUntouched ==
    ASSUME IInv, UNCHANGED ledger, UNCHANGED drawn, UNCHANGED row
    PROVE  CopiesHonest'
<1>1. \A g, p, a : NamesHonestly(g, p, a) => NamesHonestly(g, p, a)'
  BY LedgerKept
<1>2. QED
  BY <1>1 DEF IInv, CopiesHonest

\* Saving an unbound copy, or one that names a candidate honestly.
LEMMA CopySavedHonestly ==
    ASSUME IInv, UNCHANGED ledger, UNCHANGED drawn,
           NEW p \in Project, NEW a, NEW g \in Candidate \cup {None},
           NamesHonestly(g, p, a), row' = [row EXCEPT ![p] = Stored(a, g)]
    PROVE  CopiesHonest'
<1>1. \A h, q, b : NamesHonestly(h, q, b) => NamesHonestly(h, q, b)'
  BY LedgerKept
<1>2. row'[p].bound = g /\ row'[p].analysis = a /\ \A q \in Project : q # p => row'[q] = row[q]
  BY DEF Stored, IInv, TypeOK
<1>3. \A q \in Project, b \in Analysis : g # Baseline(q, b)
  BY IdsApart, NoneIsOutside
<1>4. QED
  BY <1>1, <1>2, <1>3 DEF IInv, CopiesHonest

LEMMA NoneNamesNothing == \A p, a : NamesHonestly(None, p, a)
BY NoneIsOutside, IdsApart DEF NamesHonestly

LEMMA WorkSteps ==
    ASSUME IInv, TypeOK', NEW w \in Worker,
           \/ \E p \in Project : StartRun(w, p) \/ StartPhase(w, p)
           \/ PersistProgress(w) \/ StopUnfinished(w) \/ \E a \in Analysis : SaveComplete(w, a)
           \/ CreateRefused(w) \/ ValidateRefused(w) \/ PromoteRefused(w) \/ Crash(w)
           \/ SaveAccepted(w) \/ SaveByOtherRequest(w)
    PROVE  IInv'
<1>0. task \in [Worker -> Task] /\ TasksOK
  BY DEF IInv, TypeOK, TasksOK
<1>1. ASSUME NEW p \in Project, NEW k \in {"run", "phase"}, Begin(w, p, k) PROVE IInv'
  <2>1. ~Holding(task'[w]) /\ \A v \in Worker : v # w => task'[v] = task[v]
    BY <1>0, <1>1 DEF Begin, Holding, Idle
  <2>2. QED
    BY <1>1, <2>1, TaskKeepsItsName, CopiesUntouched, StepBesideLedger DEF Begin
<1>2. CASE PersistProgress(w)
  <2>1. task[w].project \in Project
    BY <1>0, <1>2 DEF PersistProgress, TasksOK
  <2>2. TasksHonest'
    BY <1>2, LedgerKept DEF IInv, PersistProgress, TasksHonest
  <2>3. CopiesHonest'
    BY <1>2, <2>1, CopySavedHonestly, NoneNamesNothing DEF PersistProgress, Save, Unfinished, Stored
  <2>4. QED
    BY <1>2, <2>2, <2>3, StepBesideLedger DEF PersistProgress
<1>3. CASE StopUnfinished(w)
  <2>1. task[w].project \in Project
    BY <1>0, <1>3 DEF StopUnfinished, TasksOK
  <2>2. ~Holding(task'[w]) /\ \A v \in Worker : v # w => task'[v] = task[v]
    BY <1>0, <1>3, IdleIsTask DEF StopUnfinished
  <2>3. CopiesHonest'
    BY <1>3, <2>1, CopySavedHonestly, NoneNamesNothing DEF StopUnfinished, Save, Unfinished, Stored
  <2>4. QED
    BY <1>3, <2>2, <2>3, TaskKeepsItsName, StepBesideLedger DEF StopUnfinished
<1>4. ASSUME NEW a \in Analysis, SaveComplete(w, a) PROVE IInv'
  <2>1. task[w].project \in Project
    BY <1>0, <1>4 DEF SaveComplete, TasksOK
  <2>2. task'[w].at = "complete" /\ \A v \in Worker : v # w => task'[v] = task[v]
    BY <1>0, <1>4 DEF SaveComplete, Task
  <2>3. CopiesHonest'
    BY <1>4, <2>1, CopySavedHonestly, NoneNamesNothing DEF SaveComplete, Save
  <2>4. ~Holding(task'[w])
    BY <2>2 DEF Holding
  <2>5. QED
    BY <1>4, <2>2, <2>3, <2>4, TaskKeepsItsName, StepBesideLedger DEF SaveComplete
<1>5. CASE CreateRefused(w) \/ Crash(w)
  <2>1. ~Holding(task'[w]) /\ \A v \in Worker : v # w => task'[v] = task[v]
    BY <1>0, <1>5, IdleIsTask DEF CreateRefused, Crash
  <2>2. QED
    BY <1>5, <2>1, TaskKeepsItsName, CopiesUntouched, StepBesideLedger DEF CreateRefused, Crash
<1>6. CASE ValidateRefused(w) \/ PromoteRefused(w)
  <2>1. task' = [task EXCEPT ![w].at = "failing"] /\ Holding(task[w])
    BY <1>6 DEF ValidateRefused, PromoteRefused, Holding
  <2>2. task'[w].id = task[w].id /\ task'[w].project = task[w].project
           /\ task'[w].analysis = task[w].analysis /\ \A v \in Worker : v # w => task'[v] = task[v]
    BY <1>0, <2>1 DEF Task
  <2>3. QED
    BY <1>6, <2>1, <2>2, TaskKeepsItsName, CopiesUntouched, StepBesideLedger DEF ValidateRefused, PromoteRefused
<1>7. CASE SaveAccepted(w) \/ SaveByOtherRequest(w)
  <2>1. Holding(task[w]) /\ task[w].at # "idle"
    BY <1>7 DEF SaveAccepted, SaveByOtherRequest, Holding
  <2>2. task[w].project \in Project /\ task[w].id \in Candidate
    BY <1>0, <2>1 DEF TasksOK
  <2>3. NamesHonestly(task[w].id, task[w].project, task[w].analysis)
    BY <2>1 DEF IInv, TasksHonest
  <2>4. CopiesHonest'
    BY <1>7, <2>2, <2>3, CopySavedHonestly DEF SaveAccepted, SaveByOtherRequest, Save
  <2>5. TasksHonest'
    <3>1. CASE SaveAccepted(w)
      <4>1. ~Holding(task'[w]) /\ \A v \in Worker : v # w => task'[v] = task[v]
        BY <1>0, <3>1, IdleIsTask DEF SaveAccepted
      <4>2. QED
        BY <3>1, <4>1, TaskKeepsItsName DEF SaveAccepted
    <3>2. CASE SaveByOtherRequest(w)
      BY <3>2, LedgerKept DEF IInv, SaveByOtherRequest, TasksHonest
    <3>3. QED
      BY <1>7, <3>1, <3>2
  <2>6. QED
    BY <1>7, <2>4, <2>5, StepBesideLedger DEF SaveAccepted, SaveByOtherRequest
<1>8. QED
  BY <1>1, <1>2, <1>3, <1>4, <1>5, <1>6, <1>7 DEF StartRun, StartPhase

LEMMA CreateStep ==
    ASSUME IInv, TypeOK', NEW w \in Worker, NEW g \in Candidate, CreateCandidate(w, g)
    PROVE  IInv'
<1>1. g \in Id /\ g \notin drawn /\ status[g] = "absent" /\ owner[g] = None /\ g \notin validated
  BY IdsApart DEF IInv, CreateCandidate, RowsWellFormed
<1>2. task[w].project \in Project /\ task[w].analysis \in Analysis
  BY DEF IInv, TypeOK, CreateCandidate, Completed
<1>3. /\ status'[g] = "candidate" /\ owner'[g] = task[w].project
      /\ content'[g] = task[w].analysis
      /\ \A h \in Id : h # g => /\ status'[h] = status[h] /\ owner'[h] = owner[h]
                                /\ content'[h] = content[h] /\ base'[h] = base[h]
  BY <1>1 DEF IInv, TypeOK, CreateCandidate
<1>4. RowsWellFormed'
  BY <1>1, <1>2, <1>3 DEF IInv, RowsWellFormed, CreateCandidate
<1>5. BaselinesWellFormed'
  BY <1>3, IdsApart DEF IInv, BaselinesWellFormed
<1>6. ASSUME NEW p \in Project PROVE Accepted(p)' = Accepted(p) /\ \A h \in Accepted(p) : h # g
  BY <1>1, <1>3 DEF Accepted
<1>7. HistoryIsLine'
  <2> SUFFICES ASSUME NEW p \in Project PROVE Line(current[p], Accepted(p), base')
    BY <1>6 DEF HistoryIsLine, CreateCandidate
  <2>1. \A h \in Accepted(p) : base'[h] = base[h]
    BY <1>3, <1>6 DEF Accepted
  <2>2. QED
    BY <2>1, LineKept DEF IInv, HistoryIsLine
<1>8. \A h, p, a : NamesHonestly(h, p, a) => NamesHonestly(h, p, a)'
  BY <1>1, <1>3 DEF NamesHonestly, CreateCandidate
<1>9. TasksHonest'
  <2>1. \A v \in Worker : v # w => task'[v] = task[v]
    BY DEF IInv, TypeOK, CreateCandidate
  <2>2. task'[w].id = g /\ task'[w].project = task[w].project /\ task'[w].analysis = task[w].analysis
    BY DEF IInv, TypeOK, Task, CreateCandidate
  <2>3. NamesHonestly(task[w].id, task[w].project, task[w].analysis)'
    BY <1>1, <1>3, <2>2 DEF NamesHonestly, CreateCandidate
  <2>4. ASSUME NEW v \in Worker, v # w, Holding(task[v])
        PROVE  NamesHonestly(task[v].id, task[v].project, task[v].analysis)'
    <3>1. NamesHonestly(task[v].id, task[v].project, task[v].analysis)
      BY <2>4 DEF IInv, TasksHonest
    <3>2. QED
      BY <1>8, <2>1, <2>4, <3>1
  <2>5. QED
    BY <2>1, <2>3, <2>4 DEF TasksHonest
<1>10. CopiesHonest'
  BY <1>8 DEF IInv, CopiesHonest, CreateCandidate
<1>11. QED
  BY <1>4, <1>5, <1>7, <1>9, <1>10 DEF IInv

LEMMA ValidateStep ==
    ASSUME IInv, TypeOK', NEW w \in Worker, ValidateCandidate(w)
    PROVE  IInv'
<1>1. task[w].id \in Id /\ Holding(task[w])
  BY IdsApart DEF IInv, TypeOK, ValidateCandidate, Holding
<1>2. RowsWellFormed' /\ BaselinesWellFormed'
  BY <1>1 DEF IInv, RowsWellFormed, BaselinesWellFormed, ValidateCandidate
<1>3. \A p \in Project : Accepted(p)' = Accepted(p)
  BY DEF Accepted, ValidateCandidate
<1>4. HistoryIsLine'
  BY <1>3 DEF IInv, HistoryIsLine, ValidateCandidate
<1>5. \A h, p, a : NamesHonestly(h, p, a) => NamesHonestly(h, p, a)'
  BY DEF NamesHonestly, ValidateCandidate
<1>6. /\ \A v \in Worker : v # w => task'[v] = task[v]
      /\ task'[w].id = task[w].id /\ task'[w].project = task[w].project
      /\ task'[w].analysis = task[w].analysis
  BY DEF IInv, TypeOK, Task, ValidateCandidate
<1>7. TasksHonest'
  BY <1>1, <1>5, <1>6 DEF IInv, TasksHonest
<1>8. CopiesHonest'
  BY <1>5 DEF IInv, CopiesHonest, ValidateCandidate
<1>9. QED
  BY <1>2, <1>4, <1>7, <1>8 DEF IInv

\* The acceptance itself: the candidate becomes the end of its project's line.
LEMMA PromoteExtends ==
    ASSUME IInv, NEW g \in Candidate, NEW e, Promotable(g, e), Promote(g),
           UNCHANGED <<validated, base, content, owner, drawn>>
    PROVE  /\ RowsWellFormed' /\ BaselinesWellFormed' /\ HistoryIsLine'
           /\ \A h, p, a : NamesHonestly(h, p, a) => NamesHonestly(h, p, a)'
<1> DEFINE o == owner[g]
<1>1. g \in Id /\ g # None /\ status[g] = "candidate" /\ g \in validated /\ o \in Project
        /\ base[g] = current[o]
  BY IdsApart, NoneIsOutside DEF IInv, RowsWellFormed, Promotable
<1>2. /\ status'[g] = "accepted" /\ \A h \in Id : h # g => status'[h] = status[h]
      /\ current'[o] = g /\ \A p \in Project : p # o => current'[p] = current[p]
  BY <1>1 DEF IInv, TypeOK, Promote
<1>3. RowsWellFormed'
  BY <1>1, <1>2 DEF IInv, RowsWellFormed
<1>4. BaselinesWellFormed'
  BY <1>2, IdsApart DEF IInv, BaselinesWellFormed
<1>5. \A h, p, a : NamesHonestly(h, p, a) => NamesHonestly(h, p, a)'
  BY <1>1, <1>2 DEF NamesHonestly
<1>6. HistoryIsLine'
  <2> SUFFICES ASSUME NEW p \in Project PROVE Line(current'[p], Accepted(p)', base)
    BY DEF HistoryIsLine
  <2>1. Line(current[p], Accepted(p), base)
    BY DEF IInv, HistoryIsLine
  <2>2. CASE p = o
    <3>1. Accepted(p)' = Accepted(p) \cup {g} /\ g \notin Accepted(p)
      BY <1>1, <1>2, <2>2 DEF Accepted
    <3>2. None \notin Accepted(p)
      BY NoneIsOutside DEF Accepted
    <3>3. QED
      BY <1>1, <1>2, <2>1, <2>2, <3>1, <3>2, LineExtended
  <2>3. CASE p # o
    <3>1. Accepted(p)' = Accepted(p)
      BY <1>1, <1>2, <2>3 DEF Accepted
    <3>2. QED
      BY <1>2, <2>1, <2>3, <3>1
  <2>4. QED
    BY <2>2, <2>3
<1>7. QED
  BY <1>3, <1>4, <1>5, <1>6

LEMMA PromoteStep ==
    ASSUME IInv, TypeOK', NEW w \in Worker, PromoteCandidate(w) \/ PromoteUnacknowledged(w)
    PROVE  IInv'
<1>1. task[w].id \in Candidate /\ Holding(task[w])
  BY DEF IInv, TypeOK, PromoteCandidate, PromoteUnacknowledged, Holding
<1>2. /\ RowsWellFormed' /\ BaselinesWellFormed' /\ HistoryIsLine'
      /\ \A h, p, a : NamesHonestly(h, p, a) => NamesHonestly(h, p, a)'
  BY <1>1, PromoteExtends DEF PromoteCandidate, PromoteUnacknowledged
<1>3. /\ \A v \in Worker : v # w => task'[v] = task[v]
      /\ task'[w].id = task[w].id /\ task'[w].project = task[w].project
      /\ task'[w].analysis = task[w].analysis
  BY DEF IInv, TypeOK, Task, PromoteCandidate, PromoteUnacknowledged
<1>4. TasksHonest'
  BY <1>1, <1>2, <1>3 DEF IInv, TasksHonest
<1>5. CopiesHonest'
  BY <1>2 DEF IInv, CopiesHonest, PromoteCandidate, PromoteUnacknowledged
<1>6. QED
  BY <1>2, <1>4, <1>5 DEF IInv

LEMMA AbandonStep ==
    ASSUME IInv, TypeOK', NEW w \in Worker, AbandonCandidate(w)
    PROVE  IInv'
<1> DEFINE g == task[w].id
<1>1. g \in Id /\ g \in Candidate
  BY IdsApart DEF IInv, TypeOK, AbandonCandidate, Holding
<1>2. /\ status[g] = "candidate" => status'[g] = "failed"
      /\ status[g] # "candidate" => status'[g] = status[g]
      /\ \A h \in Id : h # g => status'[h] = status[h]
  BY <1>1 DEF IInv, TypeOK, AbandonCandidate
<1>3. RowsWellFormed' /\ BaselinesWellFormed'
  BY <1>1, <1>2, IdsApart DEF IInv, RowsWellFormed, BaselinesWellFormed, AbandonCandidate
<1>4. \A p \in Project : Accepted(p)' = Accepted(p)
  BY <1>1, <1>2 DEF Accepted, AbandonCandidate
<1>5. HistoryIsLine'
  BY <1>4 DEF IInv, HistoryIsLine, AbandonCandidate
<1>6. \A h, p, a : NamesHonestly(h, p, a) => NamesHonestly(h, p, a)'
  BY <1>1, <1>2 DEF NamesHonestly, AbandonCandidate
<1>7. ~Holding(task'[w]) /\ \A v \in Worker : v # w => task'[v] = task[v]
  BY IdleIsTask DEF IInv, TypeOK, AbandonCandidate
<1>8. TasksHonest'
  BY <1>6, <1>7 DEF IInv, TasksHonest
<1>9. CopiesHonest'
  BY <1>6 DEF IInv, CopiesHonest, AbandonCandidate
<1>10. QED
  BY <1>3, <1>5, <1>8, <1>9 DEF IInv

\* A baseline is the first point of a line that was empty.
LEMMA BootstrapStep ==
    ASSUME IInv, TypeOK', NEW p \in Project, NEW a \in Analysis, Bootstrap(p, a)
    PROVE  IInv'
<1> DEFINE g == Baseline(p, a)
<1>1. g \in Id /\ g \notin Candidate /\ g # None
  BY IdsApart, NoneIsOutside
<1>2. Accepted(p) = {}
  BY DEF IInv, HistoryIsLine, Line, Bootstrap
<1>3. status[g] = "absent" /\ base[g] = None
  BY <1>1, <1>2 DEF IInv, BaselinesWellFormed, Accepted
<1>4. /\ status'[g] = "accepted" /\ content'[g] = a /\ owner'[g] = p /\ base' = base
      /\ \A h \in Id : h # g => /\ status'[h] = status[h] /\ owner'[h] = owner[h]
                                /\ content'[h] = content[h]
      /\ validated' = validated \cup {g} /\ drawn' = drawn
      /\ current'[p] = g /\ \A q \in Project : q # p => current'[q] = current[q]
  BY <1>1 DEF IInv, TypeOK, Bootstrap
<1>5. a \in Valid
  BY DEF Bootstrap, ReadsUnbound
<1>6. RowsWellFormed'
  BY <1>1, <1>4, <1>5 DEF IInv, RowsWellFormed
<1>7. ASSUME NEW q \in Project, NEW b \in Analysis, Baseline(q, b) = g PROVE q = p /\ b = a
  BY <1>7 DEF Baseline
<1>8. BaselinesWellFormed'
  <2> SUFFICES ASSUME NEW q \in Project, NEW b \in Analysis, NEW h, h = Baseline(q, b)
               PROVE  /\ base'[h] = None /\ status'[h] \in {"absent", "accepted"}
                      /\ status'[h] # "absent" => owner'[h] = q /\ content'[h] = b
    BY DEF BaselinesWellFormed
  <2>1. h \in Id
    BY IdsApart
  <2>2. CASE h = g
    BY <1>3, <1>4, <1>7, <2>2
  <2>3. CASE h # g
    BY <1>4, <2>1, <2>3 DEF IInv, BaselinesWellFormed
  <2>4. QED
    BY <2>2, <2>3
<1>9. HistoryIsLine'
  <2> SUFFICES ASSUME NEW q \in Project PROVE Line(current'[q], Accepted(q)', base)
    BY <1>4 DEF HistoryIsLine
  <2>1. Line(current[q], Accepted(q), base)
    BY DEF IInv, HistoryIsLine
  <2>2. CASE q = p
    <3>1. Accepted(q)' = {g}
      BY <1>1, <1>2, <1>4, <2>2 DEF Accepted
    <3>2. QED
      BY <1>1, <1>3, <1>4, <2>2, <3>1 DEF Line
  <2>3. CASE q # p
    <3>1. Accepted(q)' = Accepted(q)
      BY <1>1, <1>3, <1>4, <2>3 DEF Accepted
    <3>2. QED
      BY <1>4, <2>1, <2>3, <3>1
  <2>4. QED
    BY <2>2, <2>3
<1>10. ASSUME NEW h, NEW q, NEW b, NamesHonestly(h, q, b), h # g PROVE NamesHonestly(h, q, b)'
  BY <1>4, <1>10 DEF NamesHonestly
<1>11. TasksHonest'
  <2>1. ASSUME NEW v \in Worker, Holding(task[v]) PROVE task[v].id # g
    BY <1>1, <2>1 DEF IInv, TypeOK
  <2>2. QED
    BY <1>10, <2>1 DEF IInv, TasksHonest, Bootstrap
<1>12. CopiesHonest'
  <2>1. row'[p].bound = g /\ row'[p].analysis = a /\ \A q \in Project : q # p => row'[q] = row[q]
    BY DEF IInv, TypeOK, Bootstrap, Stored
  <2>2. NamesHonestly(g, p, a)'
    BY <1>1, <1>4 DEF NamesHonestly
  <2>3. \A q \in Project : q # p => row[q].bound # g
    BY DEF IInv, CopiesHonest
  <2>4. \A q \in Project : NamesHonestly(row[q].bound, q, row[q].analysis)'
    BY <1>10, <2>1, <2>2, <2>3 DEF IInv, CopiesHonest
  <2>5. \A q, r \in Project, b \in Analysis :
           row'[q].bound = Baseline(r, b) => r = q /\ row'[q].analysis = b
    BY <1>7, <2>1 DEF IInv, CopiesHonest
  <2>6. QED
    BY <2>4, <2>5 DEF CopiesHonest
<1>13. QED
  BY <1>6, <1>8, <1>9, <1>11, <1>12 DEF IInv

LEMMA RebindStep ==
    ASSUME IInv, TypeOK', NEW p \in Project, NEW a \in Analysis, Rebind(p, a)
    PROVE  IInv'
<1> DEFINE g == current[p]
<1>1. g \in Id /\ status[g] = "accepted" /\ owner[g] = p /\ content[g] = a
  BY DEF IInv, HistoryIsLine, Line, Accepted, Rebind
<1>2. NamesHonestly(g, p, a)
  BY <1>1 DEF IInv, RowsWellFormed, NamesHonestly
<1>3. \A q \in Project, b \in Analysis : g = Baseline(q, b) => q = p /\ b = a
  BY <1>1 DEF IInv, BaselinesWellFormed
<1>4. \A h, q, b : NamesHonestly(h, q, b) => NamesHonestly(h, q, b)'
  BY LedgerKept DEF Rebind
<1>5. row'[p].bound = g /\ row'[p].analysis = a /\ \A q \in Project : q # p => row'[q] = row[q]
  BY DEF IInv, TypeOK, Rebind, Stored
<1>6. CopiesHonest'
  BY <1>2, <1>3, <1>4, <1>5 DEF IInv, CopiesHonest
<1>7. TasksHonest'
  BY <1>4 DEF IInv, TasksHonest, Rebind
<1>8. QED
  BY <1>6, <1>7, StepBesideLedger DEF Rebind

\* A deletion takes the whole line away and leaves every other one alone.
LEMMA DeleteStep ==
    ASSUME IInv, TypeOK', NEW p \in Project, DeleteProject(p)
    PROVE  IInv'
<1>1. \A h \in Id :
        /\ owner[h] = p => status'[h] = "absent" /\ owner'[h] = None /\ h \notin validated'
                             /\ base'[h] = None
        /\ owner[h] # p => /\ status'[h] = status[h] /\ owner'[h] = owner[h]
                           /\ content'[h] = content[h] /\ base'[h] = base[h]
                           /\ (h \in validated' <=> h \in validated)
  BY DEF DeleteProject
<1>2. current'[p] = None /\ \A q \in Project : q # p => current'[q] = current[q]
  BY DEF IInv, TypeOK, DeleteProject
<1>3. RowsWellFormed'
  BY <1>1 DEF IInv, RowsWellFormed, DeleteProject
<1>4. BaselinesWellFormed'
  BY <1>1, IdsApart, ZenonT(30) DEF IInv, BaselinesWellFormed
<1>5. Accepted(p)' = {} /\ \A q \in Project : q # p => Accepted(q)' = Accepted(q)
  BY <1>1, NoneIsOutside DEF Accepted
<1>6. HistoryIsLine'
  <2> SUFFICES ASSUME NEW q \in Project PROVE Line(current'[q], Accepted(q)', base')
    BY DEF HistoryIsLine
  <2>1. CASE q = p
    BY <1>2, <1>5, <2>1 DEF Line
  <2>2. CASE q # p
    <3>1. Line(current[q], Accepted(q), base)
      BY DEF IInv, HistoryIsLine
    <3>2. \A h \in Accepted(q) : base'[h] = base[h]
      BY <1>1, <2>2 DEF Accepted
    <3>3. QED
      BY <1>2, <1>5, <2>2, <3>1, <3>2, LineKept
  <2>3. QED
    BY <2>1, <2>2
<1>7. \A h, q, b : NamesHonestly(h, q, b) => NamesHonestly(h, q, b)'
  BY <1>1 DEF NamesHonestly, DeleteProject
<1>8. TasksHonest'
  BY <1>7 DEF IInv, TasksHonest, DeleteProject
<1>9. row'[p].bound = None /\ \A q \in Project : q # p => row'[q] = row[q]
  BY DEF IInv, TypeOK, DeleteProject, Unfinished
<1>10. \A b : NamesHonestly(None, p, b)'
  BY NoneIsOutside, IdsApart DEF NamesHonestly
<1>11. CopiesHonest'
  <2>1. \A q \in Project : NamesHonestly(row[q].bound, q, row[q].analysis)'
    BY <1>7, <1>9, <1>10 DEF IInv, CopiesHonest
  <2>2. \A q, r \in Project, b \in Analysis :
           row'[q].bound = Baseline(r, b) => r = q /\ row'[q].analysis = b
    <3> SUFFICES ASSUME NEW q \in Project, NEW r \in Project, NEW b \in Analysis,
                        row'[q].bound = Baseline(r, b)
                 PROVE  r = q /\ row'[q].analysis = b
      OBVIOUS
    <3>1. q # p
      BY <1>9, NoneIsOutside, IdsApart
    <3>2. row'[q] = row[q]
      BY <1>9, <3>1
    <3>3. QED
      BY <3>2 DEF IInv, CopiesHonest
  <2>3. QED
    BY <2>1, <2>2 DEF CopiesHonest
<1>12. QED
  BY <1>3, <1>4, <1>6, <1>8, <1>11 DEF IInv

LEMMA StepIInv == IInv /\ [Next]_vars => IInv'
<1> SUFFICES ASSUME IInv, [Next]_vars PROVE IInv'
  OBVIOUS
<1>1. TypeOK'
  BY TypeStep DEF IInv
<1>2. ASSUME NEW w \in Worker, WorkerNext(w) PROVE IInv'
  BY <1>1, <1>2, WorkSteps, CreateStep, ValidateStep, PromoteStep, AbandonStep
     DEF WorkerNext, Work, Accepting
<1>3. ASSUME NEW p \in Project, ProjectNext(p) PROVE IInv'
  BY <1>1, <1>3, BootstrapStep, RebindStep, DeleteStep DEF ProjectNext
<1>4. CASE UNCHANGED vars
  <2>1. TasksHonest' /\ CopiesHonest'
    BY <1>4, LedgerKept DEF vars, ledger, IInv, TasksHonest, CopiesHonest
  <2>2. QED
    BY <1>1, <1>4, <2>1, StepBesideLedger DEF vars, ledger
<1>5. QED
  BY <1>2, <1>3, <1>4 DEF Next

LEMMA Inductive == Spec => []IInv
BY InitIInv, StepIInv, PTL DEF Spec

(* Whatever a project shows as its current analysis was accepted for it and *)
(* is complete (promote_analysis_generation).                               *)
THEOREM CurrentIsAlwaysAccepted == Spec => []CurrentIsAccepted
<1>1. IInv => CurrentIsAccepted
  BY DEF IInv, HistoryIsLine, Line, RowsWellFormed, Accepted, CurrentIsAccepted
<1>2. QED
  BY Inductive, <1>1, PTL

(* The compare-and-swap on the expected base loses no acceptance: no two    *)
(* accepted generations of a project replaced the same one.                 *)
THEOREM HistoryNeverForks == Spec => []NoForkedHistory
<1>1. IInv => NoForkedHistory
  BY DEF IInv, HistoryIsLine, Line, NoForkedHistory
<1>2. QED
  BY Inductive, <1>1, PTL

(* Every accepted generation is current or was replaced by an accepted one. *)
THEOREM HistoryAlwaysEndsInCurrent == Spec => []HistoryEndsInCurrent
<1>1. IInv => HistoryEndsInCurrent
  BY DEF IInv, HistoryIsLine, Line, HistoryEndsInCurrent
<1>2. QED
  BY Inductive, <1>1, PTL

(* A persisted copy never names an accepted generation of other content     *)
(* (bind_effective_input, _accept_completed_analysis).                      *)
THEOREM AttributionStaysHonest == Spec => []AttributionIsHonest
<1>1. IInv => AttributionIsHonest
  BY DEF IInv, CopiesHonest, NamesHonestly, Accepted, AttributionIsHonest
<1>2. QED
  BY Inductive, <1>1, PTL

(* What was accepted or refused stays on record as it was, short of the     *)
(* deletion of its project (decision_state_guard_generation_mutation).      *)
THEOREM TerminalStaysFrozen == Spec => TerminalIsFrozen
<1> DEFINE Kept(g) == /\ status'[g] = status[g] /\ content'[g] = content[g]
                      /\ base'[g] = base[g] /\ owner'[g] = owner[g]
<1>1. IInv /\ [Next]_vars =>
        [\A g \in Id : status[g] \in {"accepted", "failed"} => StaysOnRecord(g)]_vars
  <2> SUFFICES ASSUME IInv, [Next]_vars, NEW g \in Id, status[g] \in {"accepted", "failed"}
               PROVE  Kept(g) \/ owner[g] \notin projects'
    BY DEF StaysOnRecord
  <2>1. ASSUME UNCHANGED ledger PROVE Kept(g)
    BY <2>1 DEF ledger
  <2>2. ASSUME NEW w \in Worker, NEW h \in Candidate, CreateCandidate(w, h) PROVE Kept(g)
    <3>1. h # g
      BY <2>2 DEF IInv, RowsWellFormed, CreateCandidate
    <3>2. QED
      BY <2>2, <3>1 DEF IInv, TypeOK, CreateCandidate
  <2>3. ASSUME NEW w \in Worker, ValidateCandidate(w) PROVE Kept(g)
    BY <2>3 DEF ValidateCandidate
  <2>4. ASSUME NEW w \in Worker, PromoteCandidate(w) \/ PromoteUnacknowledged(w) PROVE Kept(g)
    <3>1. task[w].id # g
      BY <2>4 DEF PromoteCandidate, PromoteUnacknowledged, Promotable
    <3>2. QED
      BY <2>4, <3>1 DEF IInv, TypeOK, PromoteCandidate, PromoteUnacknowledged, Promote
  <2>5. ASSUME NEW w \in Worker, AbandonCandidate(w) PROVE Kept(g)
    BY <2>5 DEF IInv, TypeOK, AbandonCandidate
  <2>6. ASSUME NEW p \in Project, NEW a \in Analysis, Bootstrap(p, a) PROVE Kept(g)
    <3>1. Accepted(p) = {}
      BY <2>6 DEF IInv, HistoryIsLine, Line, Bootstrap
    <3>2. g # Baseline(p, a)
      BY <3>1 DEF IInv, BaselinesWellFormed, Accepted
    <3>3. QED
      BY <2>6, <3>2 DEF IInv, TypeOK, Bootstrap
  <2>7. ASSUME NEW p \in Project, DeleteProject(p) PROVE Kept(g) \/ owner[g] \notin projects'
    BY <2>7 DEF DeleteProject
  <2>8. CASE UNCHANGED vars
    BY <2>1, <2>8 DEF vars, ledger
  <2>9. QED
    BY <2>1, <2>2, <2>3, <2>4, <2>5, <2>6, <2>7, <2>8
       DEF Next, WorkerNext, ProjectNext, Work, Accepting, StartRun, StartPhase, Begin,
           PersistProgress, StopUnfinished, SaveComplete, CreateRefused, ValidateRefused,
           PromoteRefused, SaveAccepted, SaveByOtherRequest, Rebind, Crash
<1>2. QED
  BY Inductive, <1>1, PTL DEF Spec, TerminalIsFrozen

(* The tables implement one atomic current analysis per project: promotion  *)
(* and bootstrap are Accept, deletion is Forget, all else is a stutter.     *)
THEOREM Refinement == Spec => ImplementsCurrentAnalysis
<1> DEFINE acc == [p \in Project |-> Accepted(p)]
           link == [g \in Id |-> IF status[g] = "accepted" THEN base[g] ELSE None]
<1>1. Init => Abstract!Init
  <2> SUFFICES ASSUME Init PROVE Abstract!Init
    OBVIOUS
  <2>1. acc = [p \in Project |-> {}]
    BY DEF Init, Accepted
  <2>2. link = [g \in Id |-> None]
    BY DEF Init
  <2>3. QED
    BY <2>1, <2>2 DEF Init, Abstract!Init
<1>2. IInv /\ IInv' /\ [Next]_vars => [Abstract!Next]_(Abstract!vars)
  <2> SUFFICES ASSUME IInv, IInv', [Next]_vars PROVE [Abstract!Next]_(Abstract!vars)
    OBVIOUS
  <2>1. ASSUME UNCHANGED <<status, owner, base, current>> PROVE UNCHANGED Abstract!vars
    BY <2>1 DEF Abstract!vars, Accepted
  <2>2. ASSUME NEW g \in Candidate, NEW e, Promotable(g, e), Promote(g), UNCHANGED <<base, owner>>
        PROVE  Abstract!Next
    <3>1. g \in Id /\ status[g] = "candidate" /\ owner[g] \in Project /\ base[g] = current[owner[g]]
      BY <2>2, IdsApart DEF IInv, RowsWellFormed, Promotable
    <3>2. /\ status'[g] = "accepted" /\ \A h \in Id : h # g => status'[h] = status[h]
          /\ current' = [current EXCEPT ![owner[g]] = g]
      BY <2>2, <3>1 DEF IInv, TypeOK, Promote
    <3>3. \A q \in Project : g \notin acc[q]
      BY <3>1 DEF Accepted
    <3>4. acc' = [acc EXCEPT ![owner[g]] = @ \cup {g}]
      BY <2>2, <3>1, <3>2 DEF Accepted
    <3>5. link' = [link EXCEPT ![g] = current[owner[g]]]
      BY <2>2, <3>1, <3>2
    <3>6. Abstract!Accept(owner[g], g)
      BY <3>2, <3>3, <3>4, <3>5 DEF Abstract!Accept
    <3>7. QED
      BY <3>1, <3>6 DEF Abstract!Next
  <2>3. ASSUME NEW w \in Worker, PromoteCandidate(w) \/ PromoteUnacknowledged(w) PROVE Abstract!Next
    <3>1. task[w].id \in Candidate
      BY <2>3 DEF IInv, TypeOK, PromoteCandidate, PromoteUnacknowledged, Holding
    <3>2. QED
      BY <2>2, <2>3, <3>1 DEF PromoteCandidate, PromoteUnacknowledged
  <2>4. ASSUME NEW w \in Worker, NEW g \in Candidate, CreateCandidate(w, g) PROVE UNCHANGED Abstract!vars
    <3>1. g \in Id /\ status[g] = "absent"
      BY <2>4, IdsApart DEF IInv, RowsWellFormed, CreateCandidate
    <3>2. \A h \in Id : /\ status'[h] = "accepted" <=> status[h] = "accepted"
                        /\ status[h] = "accepted" => owner'[h] = owner[h] /\ base'[h] = base[h]
      BY <2>4, <3>1 DEF IInv, TypeOK, CreateCandidate
    <3>3. acc' = acc
      BY <3>2 DEF Accepted
    <3>4. link' = link
      BY <3>2
    <3>5. QED
      BY <2>4, <3>3, <3>4 DEF Abstract!vars, CreateCandidate
  <2>5. ASSUME NEW w \in Worker, AbandonCandidate(w) PROVE UNCHANGED Abstract!vars
    <3>1. \A h \in Id : status'[h] = "accepted" <=> status[h] = "accepted"
      BY <2>5 DEF IInv, TypeOK, AbandonCandidate
    <3>2. acc' = acc
      BY <2>5, <3>1 DEF Accepted, AbandonCandidate
    <3>3. link' = link
      BY <2>5, <3>1 DEF AbandonCandidate
    <3>4. QED
      BY <2>5, <3>2, <3>3 DEF Abstract!vars, AbandonCandidate
  <2>6. ASSUME NEW p \in Project, NEW a \in Analysis, Bootstrap(p, a) PROVE Abstract!Next
    <3> DEFINE g == Baseline(p, a)
    <3>1. g \in Id /\ Accepted(p) = {} /\ base[g] = None /\ current[p] = None
      BY <2>6, IdsApart DEF IInv, HistoryIsLine, Line, BaselinesWellFormed, Bootstrap
    <3>2. status[g] = "absent" /\ owner[g] = None
      BY <3>1 DEF IInv, BaselinesWellFormed, RowsWellFormed, Accepted
    <3>3. /\ status'[g] = "accepted" /\ owner'[g] = p /\ base' = base
          /\ \A h \in Id : h # g => status'[h] = status[h] /\ owner'[h] = owner[h]
          /\ current' = [current EXCEPT ![p] = g]
      BY <2>6, <3>1 DEF IInv, TypeOK, Bootstrap
    <3>4. \A q \in Project : g \notin acc[q]
      BY <3>2 DEF Accepted
    <3>5. acc' = [acc EXCEPT ![p] = @ \cup {g}]
      BY <3>1, <3>2, <3>3 DEF Accepted
    <3>6. link' = [link EXCEPT ![g] = current[p]]
      BY <3>1, <3>2, <3>3
    <3>7. Abstract!Accept(p, g)
      BY <3>3, <3>4, <3>5, <3>6 DEF Abstract!Accept
    <3>8. QED
      BY <3>1, <3>7 DEF Abstract!Next
  <2>7. ASSUME NEW p \in Project, DeleteProject(p) PROVE Abstract!Next
    <3>1. \A h \in Id :
            /\ owner[h] = p => status'[h] = "absent" /\ owner'[h] = None
            /\ owner[h] # p => status'[h] = status[h] /\ owner'[h] = owner[h] /\ base'[h] = base[h]
      BY <2>7 DEF DeleteProject
    <3>2. acc' = [acc EXCEPT ![p] = {}]
      BY <3>1, NoneIsOutside DEF Accepted
    <3>3. link' = [g \in Id |-> IF g \in acc[p] THEN None ELSE link[g]]
      BY <3>1 DEF Accepted
    <3>4. Abstract!Forget(p)
      BY <2>7, <3>2, <3>3 DEF Abstract!Forget, DeleteProject
    <3>5. QED
      BY <3>4 DEF Abstract!Next
  <2>8. CASE UNCHANGED vars
    BY <2>1, <2>8 DEF vars
  <2>9. QED
    BY <2>1, <2>3, <2>4, <2>5, <2>6, <2>7, <2>8
       DEF Next, WorkerNext, ProjectNext, Work, Accepting, StartRun, StartPhase, Begin, ledger,
           PersistProgress, StopUnfinished, SaveComplete, CreateRefused, ValidateRefused,
           ValidateCandidate, PromoteRefused, SaveAccepted, SaveByOtherRequest, Rebind, Crash
<1>3. QED
  BY Inductive, <1>1, <1>2, PTL DEF Spec, ImplementsCurrentAnalysis, Abstract!Spec

=============================================================================
