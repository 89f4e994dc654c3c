----------------------------- MODULE PhaseWorkflow -----------------------------
(***************************************************************************)
(* The phases of one analysis (mas/orchestrator.py): the sequential runner *)
(* that resumes at the first unfinished phase, phases run by hand, and the *)
(* edits, kill and resets of an operator, all on one ProjectState object.  *)
(* Outputs are abstracted to whether they rest on what precedes them now.  *)
(* The object lives in ProjectStore, the run guard in WorkflowRuns.        *)
(***************************************************************************)
EXTENDS Naturals, Sequences

CONSTANTS Sequence,      \* the phases of the project's template, in order
          Exec,          \* tasks that may execute phases
          Manual,        \* may phases be run one by one (POST /phase)?
          MaxCalls,      \* budget_caps.max_llm_calls
          MaxFails,      \* budget_caps.max_consecutive_failures
          MaxEdits,      \* bound: operator requests
          MaxCrashes     \* bound: process crashes

Phase == {Sequence[i] : i \in 1 .. Len(Sequence)}

ASSUME SequenceAssumption ==
    /\ Len(Sequence) \in Nat \ {0}
    /\ \A i, j \in 1 .. Len(Sequence) : Sequence[i] = Sequence[j] => i = j
ASSUME BoundsAssumption ==
    /\ Manual \in BOOLEAN
    /\ MaxCalls \in Nat /\ MaxFails \in Nat \ {0} /\ MaxEdits \in Nat /\ MaxCrashes \in Nat

VARIABLES
    st,       \* the ProjectState object the tasks share
    saved,    \* state_snapshots.state_json
    exec,     \* what each task is doing
    made,     \* history: calls of the provider, counted up to one beyond the cap
    edits, crashes,
    raced     \* history: was anything edited while a phase was run by hand?

vars == <<st, saved, exec, made, edits, crashes, raced>>

Status == {"pending", "running", "completed", "failed", "stale"}
\* "outdated": something the phase read has been replaced or cleared since.
Output == {"none", "current", "outdated"}
State  == [status : [Phase -> Status], out : [Phase -> Output],
           kill : BOOLEAN, calls : Nat, fails : Nat]

Idle == [at |-> "idle", workflow |-> FALSE, phase |-> Sequence[1],
         outdated |-> FALSE, repaired |-> FALSE]

Index(p)  == CHOOSE i \in 1 .. Len(Sequence) : Sequence[i] = p
Before(p) == {q \in Phase : Index(q) < Index(p)}
After(p)  == {q \in Phase : Index(q) > Index(p)}

\* The templates (workflow_templates.py): after strategy come only the phases
\* derived from it, and nothing comes after the report.
ASSUME TemplateAssumption ==
    /\ "strategy" \in Phase => After("strategy") = Phase \cap {"sqi", "monitor", "report"}
    /\ "report" \in Phase => After("report") = {}

-----------------------------------------------------------------------------
(* Finished phases, prerequisites, the policy gate                          *)

Done(s, p) == s.status[p] = "completed" /\ s.out[p] # "none"

Unfinished(s) == {p \in Phase : ~Done(s, p)}
Complete(s)   == Unfinished(s) = {}

\* Mutant: a run starts over.
FirstOfAll(s) == Sequence[1]

FirstUnfinished(s) == CHOOSE p \in Unfinished(s) : Before(p) \cap Unfinished(s) = {}

Prerequisites(p) ==
    Phase \cap CASE p \in {"sqi", "monitor"} -> {"strategy"}
                 [] p = "report"             -> {"strategy", "monitor"}
                 [] OTHER                    -> {}

\* Mutant: the predecessors of a phase are not asked for.
PrerequisitesIgnored(s, p) == TRUE

PrerequisitesMet(s, p) == \A q \in Prerequisites(p) : Done(s, q)

\* Mutant: one call beyond the cap.
GateOpenOff(s) == ~s.kill /\ s.calls <= MaxCalls /\ s.fails < MaxFails

\* Approvals and phase breakers are left out: no phase asks for an approval, and
\* nothing ever opens a phase breaker.
GateOpen(s) == ~s.kill /\ s.calls < MaxCalls /\ s.fails < MaxFails

-----------------------------------------------------------------------------
(* Replacing and clearing outputs                                           *)

\* The outputs in cleared are gone, those in replaced are new: outputs that are
\* kept, and phases that have been asked, rest on what was there before.
Rewrite(s, cleared, replaced, output) ==
    [s EXCEPT !.out = [q \in Phase |->
        CASE q \in replaced -> output
          [] q \in cleared  -> "none"
          [] OTHER -> IF s.out[q] = "current" /\ Before(q) \cap (cleared \cup replaced) # {}
                      THEN "outdated" ELSE s.out[q]]]

\* exec after the outputs in changed changed and x moved on to e.
Reread(changed, x, e) ==
    exec' = [[y \in Exec |->
                IF exec[y].at \in {"calling", "sent"} /\ Before(exec[y].phase) \cap changed # {}
                THEN [exec[y] EXCEPT !.outdated = TRUE] ELSE exec[y]] EXCEPT ![x] = e]

HasOutput(s, P) == {q \in P : s.out[q] # "none"}

Staled(s, P) ==
    [s EXCEPT !.status = [q \in Phase |->
        IF q \in P /\ (s.status[q] # "pending" \/ s.out[q] # "none") THEN "stale" ELSE s.status[q]]]

\* invalidate_downstream
Invalidate(s, p) == Rewrite(Staled(s, After(p)), HasOutput(s, After(p)), {}, "none")

\* invalidate_strategy_dependency_cone: the same for the three derived phases,
\* and Strategy loses its output but not its status.
Cone == Phase \cap {"sqi", "monitor", "report"}
InvalidateStrategy(s) ==
    Rewrite(Staled(s, Cone), HasOutput(s, Cone \cup (Phase \cap {"strategy"})), {}, "none")

\* What run_phase_node does to the state before it looks at anything.
Entered(s, p) == IF p = "strategy" THEN InvalidateStrategy(s) ELSE s

WithStatus(s, p, status) == [s EXCEPT !.status[p] = status]

\* Mutant: only calls that succeed are counted.
CountedIfOk(s, ok) == IF ok THEN [s EXCEPT !.calls = @ + 1, !.fails = 0] ELSE s


\* record_consumption_to_state
Counted(s, ok) == [s EXCEPT !.calls = @ + 1, !.fails = IF ok THEN 0 ELSE @ + 1]

\* The state becomes s, and x goes on as e.
Become(s, x, e) ==
    /\ st' = s
    /\ Reread({q \in Phase : s.out[q] # st.out[q]}, x, e)

-----------------------------------------------------------------------------
Init ==
    /\ st = [status |-> [p \in Phase |-> "pending"], out |-> [p \in Phase |-> "none"],
             kill |-> FALSE, calls |-> 0, fails |-> 0]
    /\ saved = st
    /\ exec = [x \in Exec |-> Idle]
    /\ made = 0
    /\ edits = 0 /\ crashes = 0 /\ raced = FALSE

\* What _ensure_project_not_running knows of; a phase run by hand is not in it.
WorkflowActive == \E x \in Exec : exec[x].workflow

StartWorkflow(x) ==
    /\ exec[x].at = "idle" /\ ~WorkflowActive
    /\ ~Complete(st)
    /\ LET p == FirstUnfinished(st) IN
           Become(Invalidate(st, p), x, [Idle EXCEPT !.at = "next", !.workflow = TRUE, !.phase = p])
    /\ saved' = st'
    /\ UNCHANGED <<made, edits, crashes, raced>>

StartManual(x, p) ==
    /\ Manual
    /\ exec[x].at = "idle" /\ ~WorkflowActive
    /\ Become(Invalidate(st, p), x, [Idle EXCEPT !.at = "entering", !.phase = p])
    /\ UNCHANGED <<saved, made, edits, crashes, raced>>

\* The phase of x is over: on to the next one.
Onward(x) ==
    IF After(exec[x].phase) = {} THEN Idle
    ELSE [exec[x] EXCEPT !.at = "next", !.phase = Sequence[Index(exec[x].phase) + 1]]

\* A finished phase, as a phase run by hand beside the workflow can leave one, is
\* skipped; of any other RUNNING is persisted before the phase is entered.
NextPhase(x) ==
    /\ exec[x].at = "next"
    /\ IF Done(st, exec[x].phase)
       THEN /\ exec' = [exec EXCEPT ![x] = Onward(x)]
            /\ UNCHANGED <<st, saved>>
       ELSE /\ Become(WithStatus(st, exec[x].phase, "running"), x, [exec[x] EXCEPT !.at = "entering"])
            /\ saved' = st'
    /\ UNCHANGED <<made, edits, crashes, raced>>

-----------------------------------------------------------------------------
(* run_phase_node                                                           *)

\* _record_prerequisite_failure
EnterUnprepared(x) ==
    LET p == exec[x].phase
        s == Entered(st, p)
    IN  /\ exec[x].at = "entering"
        /\ ~PrerequisitesMet(s, p)
        /\ Become(WithStatus(Rewrite(Invalidate(s, p), HasOutput(s, {p}), {}, "none"), p, "failed"), x,
                  [exec[x] EXCEPT !.at = "saving"])
        /\ UNCHANGED <<saved, made, edits, crashes, raced>>

\* The gate denies, or, for audit and strategy, the research evidence cannot be
\* read: the phase fails and keeps what output it had.
EnterDenied(x) ==
    LET p == exec[x].phase
        s == Entered(st, p)
    IN  /\ exec[x].at = "entering"
        /\ PrerequisitesMet(s, p)
        /\ ~GateOpen(s) \/ p \in {"audit", "strategy"}
        /\ Become(WithStatus(s, p, "failed"), x, [exec[x] EXCEPT !.at = "saving"])
        /\ UNCHANGED <<saved, made, edits, crashes, raced>>

\* The prompt is built from the outputs before the phase.
EnterCall(x) ==
    LET p == exec[x].phase
        s == Entered(st, p)
    IN  /\ exec[x].at = "entering"
        /\ PrerequisitesMet(s, p) /\ GateOpen(s)
        /\ Become(WithStatus(s, p, "running"), x,
                  [exec[x] EXCEPT !.at = "calling", !.outdated = FALSE, !.repaired = FALSE])
        /\ UNCHANGED <<saved, made, edits, crashes, raced>>

\* _pre_attempt_governance asks the gate once more.
Send(x) ==
    /\ exec[x].at = "calling" /\ GateOpen(st)
    /\ exec' = [exec EXCEPT ![x].at = "sent"]
    /\ made' = IF made > MaxCalls THEN made ELSE made + 1
    /\ UNCHANGED <<st, saved, edits, crashes, raced>>

\* A refused call is counted as a call and as a failure.
Refused(x) ==
    /\ exec[x].at = "calling" /\ ~GateOpen(st)
    /\ Become(WithStatus(Counted(st, FALSE), exec[x].phase, "failed"), x,
              [exec[x] EXCEPT !.at = "saving"])
    /\ UNCHANGED <<saved, made, edits, crashes, raced>>

\* Strict telemetry could not record the call: nothing is caught or saved.
Raises(x) ==
    /\ exec[x].at = "calling"
    /\ exec' = [exec EXCEPT ![x] = Idle]
    /\ UNCHANGED <<st, saved, made, edits, crashes, raced>>

Answered(x) ==
    LET p == exec[x].phase
        s == WithStatus(Counted(st, TRUE), p, "completed")
    IN  /\ exec[x].at = "sent"
        /\ st' = Rewrite(s, {}, {p}, IF exec[x].outdated THEN "outdated" ELSE "current")
        /\ Reread({p}, x, [exec[x] EXCEPT !.at = "saving"])
        /\ UNCHANGED <<saved, made, edits, crashes, raced>>

\* The answer cannot be parsed: it is asked for once more.
AskAgain(x) ==
    /\ exec[x].at = "sent" /\ ~exec[x].repaired /\ exec[x].phase # "report"
    /\ st' = Counted(st, TRUE)
    /\ exec' = [exec EXCEPT ![x].at = "calling", ![x].repaired = TRUE]
    /\ UNCHANGED <<saved, made, edits, crashes, raced>>

\* The provider fails (ok = FALSE), or the answer cannot be stored.
Failed(x, ok) ==
    /\ exec[x].at = "sent" /\ (ok => exec[x].phase # "report")
    /\ Become(WithStatus(Counted(st, ok), exec[x].phase, "failed"), x,
              [exec[x] EXCEPT !.at = "saving"])
    /\ UNCHANGED <<saved, made, edits, crashes, raced>>

-----------------------------------------------------------------------------
(* After the phase: the state is saved, the runner goes on or stops         *)

Ungated == {"gauntlet", "sqi"}

SaveAndEnd(x) ==
    /\ exec[x].at = "saving"
    /\ exec[x].workflow => st.status[exec[x].phase] # "completed"
    /\ saved' = st
    /\ exec' = [exec EXCEPT ![x] = Idle]
    /\ UNCHANGED <<st, made, edits, crashes, raced>>

SaveAndGoOn(x) ==
    /\ exec[x].at = "saving" /\ exec[x].workflow
    /\ st.status[exec[x].phase] = "completed"
    /\ saved' = st
    /\ exec' = [exec EXCEPT ![x] = Onward(x)]
    /\ UNCHANGED <<st, made, edits, crashes, raced>>

\* check_gate finds the output empty or a required field missing.
SaveAndBlock(x) ==
    /\ exec[x].at = "saving" /\ exec[x].workflow
    /\ st.status[exec[x].phase] = "completed" /\ exec[x].phase \notin Ungated
    /\ st' = WithStatus(st, exec[x].phase, "failed")
    /\ saved' = st'
    /\ exec' = [exec EXCEPT ![x] = Idle]
    /\ UNCHANGED <<made, edits, crashes, raced>>

-----------------------------------------------------------------------------
(* The operator, and crashes                                                *)

Request ==
    /\ edits < MaxEdits
    /\ edits' = edits + 1
    /\ UNCHANGED <<made, crashes>>

\* A patch is refused while a workflow runs, not while a phase is run by hand.
Patch ==
    /\ Request /\ ~WorkflowActive
    /\ raced' = (raced \/ \E x \in Exec : exec[x].at # "idle")

KillProject ==
    /\ Request /\ raced' = raced
    /\ st' = [st EXCEPT !.kill = TRUE]
    /\ saved' = st'
    /\ UNCHANGED exec

ResetBreakers ==
    /\ Request /\ raced' = raced
    /\ st' = [st EXCEPT !.fails = 0]
    /\ saved' = st'
    /\ UNCHANGED exec

\* A changed brief restarts the analysis, changed observations the monitoring.
InputOf == {Sequence[1]} \cup (Phase \cap {"monitor"})

\* The phases that read the input, p and all after p, are invalidated; a call of
\* such a phase has read the input as it was before.
PatchInput(p) ==
    /\ Patch
    /\ st' = Rewrite(Staled(Invalidate(st, p), {p}), HasOutput(st, {p}), {}, "none")
    /\ exec' = [y \in Exec |->
          IF exec[y].at \in {"calling", "sent"} /\ exec[y].phase \in {p} \cup After(p)
          THEN [exec[y] EXCEPT !.outdated = TRUE] ELSE exec[y]]
    /\ saved' = st'

\* Another language or mode: the report is kept, and is stale.
PatchConfiguration ==
    /\ Patch
    /\ "report" \in Phase /\ st.out["report"] # "none"
    /\ st' = WithStatus(st, "report", "stale")
    /\ saved' = st'
    /\ UNCHANGED exec

\* Mutant: an edited output leaves what was derived from it alone.
PatchOutputOnly(p) ==
    LET s == IF p = "strategy" THEN InvalidateStrategy(st) ELSE st
    IN  /\ Patch
        /\ st' = Rewrite(WithStatus(s, p, "completed"), {}, {p}, "current")
        /\ exec' = [y \in Exec |->
              IF exec[y].at \in {"calling", "sent"} /\ exec[y].phase \in After(p)
              THEN [exec[y] EXCEPT !.outdated = TRUE] ELSE exec[y]]
        /\ saved' = st'

\* What the operator writes counts as current: it is his to judge.
PatchOutput(p) ==
    LET s == IF p = "strategy" THEN InvalidateStrategy(st) ELSE Invalidate(st, p)
    IN  /\ Patch
        /\ st' = Rewrite(WithStatus(s, p, "completed"), {}, {p}, "current")
        /\ exec' = [y \in Exec |->
              IF exec[y].at \in {"calling", "sent"} /\ exec[y].phase \in After(p)
              THEN [exec[y] EXCEPT !.outdated = TRUE] ELSE exec[y]]
        /\ saved' = st'

Crash ==
    /\ crashes < MaxCrashes
    /\ crashes' = crashes + 1
    /\ st' = saved
    /\ exec' = [x \in Exec |-> Idle]
    /\ UNCHANGED <<saved, made, edits, raced>>

-----------------------------------------------------------------------------
Proceed(x) ==
    \/ NextPhase(x)
    \/ EnterUnprepared(x) \/ EnterDenied(x) \/ EnterCall(x)
    \/ Send(x) \/ Refused(x) \/ Raises(x)
    \/ Answered(x) \/ AskAgain(x) \/ \E ok \in BOOLEAN : Failed(x, ok)
    \/ SaveAndEnd(x) \/ SaveAndGoOn(x) \/ SaveAndBlock(x)

Operate ==
    \/ KillProject \/ ResetBreakers \/ PatchConfiguration
    \/ \E p \in InputOf : PatchInput(p)
    \/ \E p \in Phase : PatchOutput(p)

Next ==
    \/ \E x \in Exec : StartWorkflow(x) \/ Proceed(x) \/ \E p \in Phase : StartManual(x, p)
    \/ Operate
    \/ Crash

Spec == Init /\ [][Next]_vars

\* Tasks proceed, the operator starts an unfinished analysis again, and neither
\* the evidence store nor the telemetry store is out for ever.
Fairness ==
    \A x \in Exec : /\ WF_vars(Proceed(x)) /\ SF_vars(StartWorkflow(x))
                    /\ SF_vars(EnterCall(x)) /\ SF_vars(Send(x))
FairSpec == Spec /\ Fairness

-----------------------------------------------------------------------------
TypeOK ==
    /\ st \in State /\ saved \in State
    /\ exec \in [Exec -> [at : {"idle", "next", "entering", "calling", "sent", "saving"},
                          workflow : BOOLEAN, phase : Phase,
                          outdated : BOOLEAN, repaired : BOOLEAN]]
    /\ made \in 0 .. MaxCalls + 1 /\ edits \in 0 .. MaxEdits /\ crashes \in 0 .. MaxCrashes
    /\ raced \in BOOLEAN

(* Every output of an analysis that counts as complete, and so is promoted, *)
(* rests on the outputs and inputs before it as they are: "stale completed  *)
(* outputs can never make a partial rerun appear complete".                 *)
CompleteIsCoherent == Complete(st) => \A p \in Phase : st.out[p] = "current"

(* The same as long as nothing is edited while a phase is run by hand:      *)
(* runs, phases run again in any order, edits between them, crashes and     *)
(* failures never leave a complete analysis that rests on something else.   *)
UndisturbedIsCoherent == ~raced => CompleteIsCoherent

(* A phase that completes by execution finds its predecessors completed     *)
(* also when its answer arrives, not only when it was asked, as long as     *)
(* nothing is edited while a phase is run by hand.                          *)
CompletedOnPrerequisites ==
    [][\A x \in Exec : ~raced /\ exec[x].at = "sent" /\ exec'[x].at = "saving"
            /\ st'.status[exec[x].phase] = "completed"
          => \A q \in Prerequisites(exec[x].phase) : Done(st, q)]_vars

(* No more calls reach the provider than the budget allows, though a call   *)
(* is counted only when it has been answered; a crash forgets calls that    *)
(* were not saved yet.                                                      *)
CallsWithinCap == crashes = 0 => made <= MaxCalls

(* Work that is finished and saved, and all before it, is done only once:   *)
(* neither a crash, nor a restart of the run, nor a failure later on loses  *)
(* it.  Only an edit of the operator does, a phase run by hand, or the gate *)
(* at its own exit.                                                         *)
Settled(s, p) == \A q \in {p} \cup Before(p) : Done(s, q)
Leaving(p) == \E x \in Exec : exec[x].at = "saving" /\ exec[x].phase = p
ByHand == \E x \in Exec : exec'[x].at # "idle" /\ ~exec'[x].workflow
FinishedWorkSurvives ==
    [][edits' = edits /\ ~ByHand =>
          \A p \in Phase : Settled(st, p) /\ Settled(saved, p) /\ ~Leaving(p)
                            => Settled(st', p) /\ Settled(saved', p)]_vars

(* An analysis that is left alone is completed, whatever crashed or failed  *)
(* in it, unless the policy gate has closed.                                *)
EndsCompleteOrGated == <>[](Complete(st) \/ ~GateOpen(st))
=============================================================================
