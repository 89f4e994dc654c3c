------------------------- MODULE AnalysisGenerations -------------------------
(***************************************************************************)
(* Decision-state coherence: how a completed run becomes the one current   *)
(* analysis of its project.  The tables and triggers are those of          *)
(* mas/sql/v64_decision_state_coherence_foundation.sql, the transactions   *)
(* those of mas/state_coherence.py, and the tasks that issue them are the  *)
(* API's workflow runs and manual phases (mas/api.py).  Each action is one *)
(* database transaction together with the in-memory steps up to the next   *)
(* await, so tasks interleave exactly where the event loop lets them.      *)
(***************************************************************************)
EXTENDS Naturals

CONSTANTS Project,    \* projects; primary_decision_id makes the scope one per project
          Worker,     \* API tasks that execute a run or a manual phase
          Candidate,  \* the uuid4 identities create_candidate may draw
          Analysis,   \* complete analysis contents, told apart by analysis_state_sha256
          Valid,      \* those that are still complete after ProjectState.model_validate
          None,       \* SQL NULL, the empty string, no content
          MaxFaults   \* bound on crashes and lost acknowledgements

ASSUME ConstantsAssumption ==
    /\ Valid \subseteq Analysis
    /\ MaxFaults \in Nat
    /\ None \notin Candidate \cup (Project \X Analysis) \cup Analysis \cup Project
    /\ Candidate \cap (Project \X Analysis) = {}

\* bootstrap_current_analysis derives its identity (uuid5) from project and content.
Baseline(p, a) == <<p, a>>
Id == Candidate \cup (Project \X Analysis)

VARIABLES
    projects,   \* rows of projects
    row,        \* state_snapshots: the persisted working copy of each project
    status,     \* analysis_generations.lifecycle_status, "absent" for no row
    validated,  \* generations with validated_at set
    base,       \* analysis_generations.expected_base_generation_id
    content,    \* analysis_generations.analysis_state_json
    owner,      \* analysis_generations.project_id
    current,    \* current_analysis_generations
    drawn,      \* uuid4s already used: never drawn again
    task,       \* what each worker holds in memory
    faults      \* crashes and lost acknowledgements so far

vars == <<projects, row, status, validated, base, content, owner, current,
          drawn, task, faults>>

ledger == <<status, validated, base, content, owner, current>>

\* A working copy: its complete content (None while some phase is unfinished)
\* and the generation it says it belongs to (analysis_generation_id).
Copy == [analysis : Analysis \cup {None}, bound : Id \cup {None}]
Unfinished == [analysis |-> None, bound |-> None]
Stored(a, g) == [analysis |-> a, bound |-> g]

Stage == {"idle", "run", "phase", "complete", "created", "validated", "promoted", "failing"}
Task == [at : Stage, project : Project \cup {None}, base : Id \cup {None},
         analysis : Analysis \cup {None}, id : Id \cup {None}]
Idle == [at |-> "idle", project |-> None, base |-> None, analysis |-> None, id |-> None]

\* The run is complete; a candidate of it has been created.
Completed(t) == t.at \notin {"idle", "run", "phase"}
Holding(t) == t.at \in {"created", "validated", "promoted", "failing"}

Status == {"absent", "candidate", "accepted", "failed"}

Init ==
    /\ projects  = Project
    /\ row \in [Project -> {Unfinished} \cup {Stored(a, None) : a \in Valid}]
    /\ status    = [g \in Id |-> "absent"]
    /\ validated = {}
    /\ base      = [g \in Id |-> None]
    /\ content   = [g \in Id |-> None]
    /\ owner     = [g \in Id |-> None]
    /\ current   = [p \in Project |-> None]
    /\ drawn     = {}
    /\ task      = [w \in Worker |-> Idle]
    /\ faults    = 0

-----------------------------------------------------------------------------
(* The run or phase itself, up to the last store.save of its phases.        *)

Begin(w, p, kind) ==
    /\ task[w].at = "idle"
    /\ p \in projects
    /\ task' = [task EXCEPT ![w] = [Idle EXCEPT !.at = kind, !.project = p, !.base = current[p]]]
    /\ UNCHANGED <<projects, row, ledger, drawn, faults>>

\* POST /run: refused when the working copy is complete; the expected base is
\* read before the first phase.
StartRun(w, p) == row[p].analysis = None /\ Begin(w, p, "run")

\* POST /phase: any project, no run row, the expected base read the same way.
StartPhase(w, p) == Begin(w, p, "phase")

\* store.save upserts the projects row, so it brings a deleted project back.
Save(p, copy) ==
    /\ projects' = projects \cup {p}
    /\ row' = [row EXCEPT ![p] = copy]

\* persist_workflow_state between phases.
PersistProgress(w) ==
    /\ task[w].at = "run"
    /\ Save(task[w].project, Unfinished)
    /\ UNCHANGED <<ledger, drawn, task, faults>>

\* A phase did not complete: the last state is saved and nothing is accepted.
StopUnfinished(w) ==
    /\ task[w].at \in {"run", "phase"}
    /\ Save(task[w].project, Unfinished)
    /\ task' = [task EXCEPT ![w] = Idle]
    /\ UNCHANGED <<ledger, drawn, faults>>

\* Mutant: the binding to the replaced analysis is not cleared.
SaveCompleteStillBound(w, a) ==
    /\ task[w].at \in {"run", "phase"}
    /\ Save(task[w].project, Stored(a, row[task[w].project].bound))
    /\ task' = [task EXCEPT ![w].at = "complete", ![w].analysis = a]
    /\ UNCHANGED <<ledger, drawn, faults>>

\* Every phase is complete: saved with no generation, acceptance comes next.
SaveComplete(w, a) ==
    /\ task[w].at \in {"run", "phase"}
    /\ Save(task[w].project, Stored(a, None))
    /\ task' = [task EXCEPT ![w].at = "complete", ![w].analysis = a]
    /\ UNCHANGED <<ledger, drawn, faults>>

-----------------------------------------------------------------------------
(* _accept_completed_analysis: create, validate, promote, save.             *)

\* The foreign keys of the row create_candidate inserts.
ReferencesExist(t) ==
    /\ t.project \in projects
    /\ t.base # None => status[t.base] # "absent" /\ owner[t.base] = t.project

\* The insert is refused after a deletion: the exception leaves before the
\* try block, so nothing is abandoned.
CreateRefused(w) ==
    /\ task[w].at = "complete"
    /\ ~ReferencesExist(task[w])
    /\ task' = [task EXCEPT ![w] = Idle]
    /\ UNCHANGED <<projects, row, ledger, drawn, faults>>

CreateCandidate(w, g) ==
    /\ task[w].at = "complete"
    /\ g \in Candidate \ drawn
    /\ ReferencesExist(task[w])
    /\ status'  = [status  EXCEPT ![g] = "candidate"]
    /\ base'    = [base    EXCEPT ![g] = task[w].base]
    /\ content' = [content EXCEPT ![g] = task[w].analysis]
    /\ owner'   = [owner   EXCEPT ![g] = task[w].project]
    /\ drawn'   = drawn \cup {g}
    /\ task'    = [task EXCEPT ![w].at = "created", ![w].id = g]
    /\ UNCHANGED <<projects, row, validated, current, faults>>

\* Mutant: the stored content is not checked for completeness.
ValidateAnything(w) ==
    /\ task[w].at = "created"
    /\ status[task[w].id] = "candidate"
    /\ validated' = validated \cup {task[w].id}
    /\ task' = [task EXCEPT ![w].at = "validated"]
    /\ UNCHANGED <<projects, row, status, base, content, owner, current, drawn, faults>>

\* validate_candidate re-reads the stored content under a row lock.
ValidateCandidate(w) ==
    LET g == task[w].id IN
    /\ task[w].at = "created"
    /\ status[g] = "candidate"
    /\ content[g] \in Valid
    /\ validated' = validated \cup {g}
    /\ task' = [task EXCEPT ![w].at = "validated"]
    /\ UNCHANGED <<projects, row, status, base, content, owner, current, drawn, faults>>

ValidateRefused(w) ==
    LET g == task[w].id IN
    /\ task[w].at = "created"
    /\ status[g] # "candidate" \/ content[g] \notin Valid
    /\ task' = [task EXCEPT ![w].at = "failing"]
    /\ UNCHANGED <<projects, row, ledger, drawn, faults>>

\* Mutant: the current analysis is not compared with the expected base.
PromotableOverAnyBase(g, expected) ==
    /\ status[g] = "candidate"
    /\ g \in validated
    /\ base[g] = expected

\* The checks of promote_analysis_generation, made under the scope's lock.
Promotable(g, expected) ==
    /\ status[g] = "candidate"
    /\ g \in validated
    /\ base[g] = expected
    /\ current[owner[g]] = expected

\* Mutant: the lifecycle advances and the current row is not written.
PromoteWithoutCurrent(g) ==
    /\ status'  = [status EXCEPT ![g] = "accepted"]
    /\ UNCHANGED current

Promote(g) ==
    /\ status'  = [status  EXCEPT ![g] = "accepted"]
    /\ current' = [current EXCEPT ![owner[g]] = g]

PromoteCandidate(w) ==
    /\ task[w].at = "validated"
    /\ Promotable(task[w].id, task[w].base)
    /\ Promote(task[w].id)
    /\ task' = [task EXCEPT ![w].at = "promoted"]
    /\ UNCHANGED <<projects, row, validated, base, content, owner, drawn, faults>>

\* The commit happened and its acknowledgement was lost: the task sees an error.
PromoteUnacknowledged(w) ==
    /\ task[w].at = "validated"
    /\ faults < MaxFaults
    /\ Promotable(task[w].id, task[w].base)
    /\ Promote(task[w].id)
    /\ faults' = faults + 1
    /\ task' = [task EXCEPT ![w].at = "failing"]
    /\ UNCHANGED <<projects, row, validated, base, content, owner, drawn>>

PromoteRefused(w) ==
    /\ task[w].at = "validated"
    /\ ~Promotable(task[w].id, task[w].base)
    /\ task' = [task EXCEPT ![w].at = "failing"]
    /\ UNCHANGED <<projects, row, ledger, drawn, faults>>

\* Mutants: the wrong terminal status; no test of the lifecycle; no update at all.
AbandonAs(w, next) ==
    /\ task[w].at = "failing"
    /\ status' = [status EXCEPT ![task[w].id] = next]
    /\ task' = [task EXCEPT ![w] = Idle]
    /\ UNCHANGED <<projects, row, validated, base, content, owner, current, drawn, faults>>

AbandonAborted(w) ==
    /\ task[w].at = "failing"
    /\ status[task[w].id] = "candidate"
    /\ AbandonAs(w, "aborted")
AbandonAnyStatus(w) == AbandonAs(w, "failed")
AbandonNothing(w) == AbandonAs(w, status[task[w].id])

\* abandon_candidate: an accepted or vanished generation is left as it is.
AbandonCandidate(w) ==
    LET g == task[w].id IN
    /\ task[w].at = "failing"
    /\ status' = IF status[g] = "candidate" THEN [status EXCEPT ![g] = "failed"] ELSE status
    /\ task' = [task EXCEPT ![w] = Idle]
    /\ UNCHANGED <<projects, row, validated, base, content, owner, current, drawn, faults>>

\* The last store.save binds the working copy to its generation.
SaveAccepted(w) ==
    /\ task[w].at = "promoted"
    /\ Save(task[w].project, Stored(task[w].analysis, task[w].id))
    /\ task' = [task EXCEPT ![w] = Idle]
    /\ UNCHANGED <<ledger, drawn, faults>>

-----------------------------------------------------------------------------
(* Everything else that touches these tables.                               *)

\* A request without a run guard (kill, approval, budget, risk...) saves the
\* ProjectState the task shares with the cache; create_candidate has already
\* written its identity into that object.
SaveByOtherRequest(w) ==
    /\ Holding(task[w])
    /\ task[w].project \in projects
    /\ Save(task[w].project, Stored(task[w].analysis, task[w].id))
    /\ UNCHANGED <<ledger, drawn, task, faults>>

\* store.load and store.list_all read a complete, unbound copy.
ReadsUnbound(p, a) == p \in projects /\ row[p] = Stored(a, None) /\ a \in Valid

\* Mutant: a baseline is made although the scope already has a current analysis.
BootstrapOverCurrent(p, a) ==
    LET g == Baseline(p, a) IN
    /\ ReadsUnbound(p, a)
    /\ status'    = [status  EXCEPT ![g] = "accepted"]
    /\ validated' = validated \cup {g}
    /\ content'   = [content EXCEPT ![g] = a]
    /\ owner'     = [owner   EXCEPT ![g] = p]
    /\ current'   = [current EXCEPT ![p] = g]
    /\ row'       = [row EXCEPT ![p] = Stored(a, g)]
    /\ UNCHANGED <<projects, base, drawn, task, faults>>

\* bootstrap_analysis_generation when the scope has no current analysis.
Bootstrap(p, a) ==
    LET g == Baseline(p, a) IN
    /\ ReadsUnbound(p, a)
    /\ current[p] = None
    /\ status'    = [status  EXCEPT ![g] = "accepted"]
    /\ validated' = validated \cup {g}
    /\ content'   = [content EXCEPT ![g] = a]
    /\ owner'     = [owner   EXCEPT ![g] = p]
    /\ current'   = [current EXCEPT ![p] = g]
    /\ row'       = [row EXCEPT ![p] = Stored(a, g)]
    /\ UNCHANGED <<projects, base, drawn, task, faults>>

\* It finds the current analysis to be this very content and binds to it.
Rebind(p, a) ==
    /\ ReadsUnbound(p, a)
    /\ current[p] # None
    /\ content[current[p]] = a
    /\ row' = [row EXCEPT ![p] = Stored(a, current[p])]
    /\ UNCHANGED <<projects, ledger, drawn, task, faults>>

\* DELETE FROM projects cascades; nothing asks whether a run is in flight.
DeleteProject(p) ==
    /\ p \in projects
    /\ projects'  = projects \ {p}
    /\ row'       = [row EXCEPT ![p] = Unfinished]
    /\ status'    = [g \in Id |-> IF owner[g] = p THEN "absent" ELSE status[g]]
    /\ validated' = {g \in validated : owner[g] # p}
    /\ base'      = [g \in Id |-> IF owner[g] = p THEN None ELSE base[g]]
    /\ content'   = [g \in Id |-> IF owner[g] = p THEN None ELSE content[g]]
    /\ owner'     = [g \in Id |-> IF owner[g] = p THEN None ELSE owner[g]]
    /\ current'   = [current EXCEPT ![p] = None]
    /\ UNCHANGED <<drawn, task, faults>>

\* The process dies: its task is lost, the tables stay.
Crash(w) ==
    /\ task[w].at # "idle"
    /\ faults < MaxFaults
    /\ faults' = faults + 1
    /\ task' = [task EXCEPT ![w] = Idle]
    /\ UNCHANGED <<projects, row, ledger, drawn>>

-----------------------------------------------------------------------------
Work(w) ==
    \/ StopUnfinished(w)
    \/ \E a \in Analysis : SaveComplete(w, a)

Accepting(w) ==
    \/ CreateRefused(w)
    \/ \E g \in Candidate : CreateCandidate(w, g)
    \/ ValidateCandidate(w) \/ ValidateRefused(w)
    \/ PromoteCandidate(w) \/ PromoteRefused(w)
    \/ AbandonCandidate(w) \/ SaveAccepted(w)

WorkerNext(w) ==
    \/ \E p \in Project : StartRun(w, p) \/ StartPhase(w, p)
    \/ PersistProgress(w) \/ Work(w) \/ Accepting(w)
    \/ PromoteUnacknowledged(w) \/ SaveByOtherRequest(w) \/ Crash(w)

ProjectNext(p) ==
    \/ \E a \in Analysis : Bootstrap(p, a) \/ Rebind(p, a)
    \/ DeleteProject(p)

Next == (\E w \in Worker : WorkerNext(w)) \/ (\E p \in Project : ProjectNext(p))

Spec == Init /\ [][Next]_vars

\* The event loop runs every task that can take a step, and the phases of a
\* run end (each provider call has a timeout).
Fairness == \A w \in Worker : WF_vars(Work(w)) /\ WF_vars(Accepting(w))
FairSpec == Spec /\ Fairness

-----------------------------------------------------------------------------
TypeOK ==
    /\ projects \subseteq Project
    /\ row \in [Project -> Copy]
    /\ status \in [Id -> Status]
    /\ validated \subseteq Id
    /\ base \in [Id -> Id \cup {None}]
    /\ content \in [Id -> Analysis \cup {None}]
    /\ owner \in [Id -> Project \cup {None}]
    /\ current \in [Project -> Id \cup {None}]
    /\ drawn \subseteq Candidate
    /\ task \in [Worker -> Task]
    /\ \A w \in Worker :
          /\ task[w].at # "idle" => task[w].project \in Project
          /\ Completed(task[w]) => task[w].analysis \in Analysis
          /\ Holding(task[w]) => task[w].id \in Candidate
    /\ faults \in 0..MaxFaults

Accepted(p) == {g \in Id : status[g] = "accepted" /\ owner[g] = p}

(* Whatever a project shows as its current analysis was accepted for that   *)
(* same project and is complete: no interleaving of runs, manual phases,    *)
(* bootstraps, deletions and crashes makes unfinished or foreign work       *)
(* current (promote_analysis_generation and decision_state_guard_current_-  *)
(* binding).                                                                *)
CurrentIsAccepted ==
    \A p \in Project : current[p] # None =>
        /\ current[p] \in Accepted(p)
        /\ content[current[p]] \in Valid

(* Two accepted generations of a project never replaced the same one: the   *)
(* compare-and-swap on the expected base loses no acceptance, even when a   *)
(* run and a manual phase started from the same base.                       *)
NoForkedHistory ==
    \A p \in Project : \A g, h \in Accepted(p) : base[g] = base[h] => g = h

(* Every accepted generation is current or was replaced by an accepted one: *)
(* the history of a project is a line that ends in its current analysis.    *)
HistoryEndsInCurrent ==
    \A p \in Project : \A g \in Accepted(p) :
        g = current[p] \/ \E h \in Accepted(p) : base[h] = g

StaysOnRecord(g) ==
    \/ /\ status'[g] = status[g] /\ content'[g] = content[g]
       /\ base'[g] = base[g] /\ owner'[g] = owner[g]
    \/ owner[g] \notin projects'

(* A generation whose lifecycle is over never changes again, short of the   *)
(* deletion of its project: what was accepted or refused stays on record    *)
(* (decision_state_guard_generation_mutation).                              *)
TerminalIsFrozen ==
    [][\A g \in Id : status[g] \in {"accepted", "failed"} => StaysOnRecord(g)]_vars

(* A persisted copy that names an accepted generation holds that            *)
(* generation's content: outputs of one analysis are never attributed to    *)
(* another (bind_effective_input, _accept_completed_analysis).              *)
AttributionIsHonest ==
    \A p \in Project : row[p].bound \in Accepted(p) => row[p].analysis = content[row[p].bound]

(* No candidate is left undecided by a task that lives: it is accepted,     *)
(* failed, or gone with its project, unless a task crashed or the database  *)
(* failed in between.                                                       *)
CandidatesAreSettled ==
    \A g \in Candidate : status[g] = "candidate" ~> status[g] # "candidate" \/ faults > 0

(* The promise of CurrentAnalysis: the tables behave like one atomic        *)
(* current analysis per project.                                            *)
Abstract == INSTANCE CurrentAnalysis WITH
    cur      <- current,
    accepted <- [p \in Project |-> Accepted(p)],
    pred     <- [g \in Id |-> IF status[g] = "accepted" THEN base[g] ELSE None]

ImplementsCurrentAnalysis == Abstract!Spec

-----------------------------------------------------------------------------
(* What the code says and does not keep.                                    *)

(* "Lazily create one deterministic baseline for a completed pre-W8         *)
(* project" (bootstrap_current_analysis): a legacy baseline is never made   *)
(* of the copy that a run in flight has just completed and is about to      *)
(* accept.  When it is, that run's own promotion finds its base changed and *)
(* the run is recorded as failed.                                           *)
BaselineOnlyForLegacyProject ==
    [][\A p \in Project :
          (current[p] = None /\ current'[p] \in Project \X Analysis)
              => ~\E w \in Worker :
                    task[w].project = p /\ Completed(task[w])]_vars

(* A project with no task in flight is bound to accepted work or to none:   *)
(* the module keeps candidate work apart from "the one authoritative        *)
(* current analysis".                                                       *)
SettledCopyIsAccepted ==
    \A p \in Project : (\A w \in Worker : task[w].project # p)
        => row[p].bound \in Accepted(p) \cup {None}
=============================================================================
