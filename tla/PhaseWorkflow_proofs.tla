------------------------- MODULE PhaseWorkflow_proofs -------------------------
(***************************************************************************)
(* Machine-checked proofs about PhaseWorkflow, for every template, budget  *)
(* and number of edits and crashes.  The safety theorems are about one     *)
(* execution at a time: either phases are only run by workflows, or one    *)
(* task runs workflows and phases by hand in any order.                    *)
(***************************************************************************)
EXTENDS PhaseWorkflow, WellFoundedInduction, TLAPS

OneAtATime == Manual => \A x, y \in Exec : x = y

Stage == {"idle", "next", "entering", "calling", "sent", "saving"}
ExecRecord == [at : Stage, workflow : BOOLEAN, phase : Phase, outdated : BOOLEAN, repaired : BOOLEAN]

-----------------------------------------------------------------------------
(* The order of the phases                                                 *)

LEMMA IndexOf ==
    /\ \A p \in Phase : Index(p) \in 1 .. Len(Sequence) /\ Sequence[Index(p)] = p
    /\ \A i \in 1 .. Len(Sequence) : Sequence[i] \in Phase /\ Index(Sequence[i]) = i
<1>1. ASSUME NEW p \in Phase PROVE Index(p) \in 1 .. Len(Sequence) /\ Sequence[Index(p)] = p
    BY <1>1 DEF Phase, Index
<1>2. ASSUME NEW i \in 1 .. Len(Sequence) PROVE Sequence[i] \in Phase /\ Index(Sequence[i]) = i
  <2>1. Sequence[i] \in Phase
      BY <1>2 DEF Phase
  <2> QED BY <1>1, <1>2, <2>1, SequenceAssumption
<1> QED BY <1>1, <1>2

\* Before and After are a strict order and its inverse.
LEMMA Order ==
    /\ \A p \in Phase : Before(p) \subseteq Phase /\ After(p) \subseteq Phase
    /\ \A p, q \in Phase : q \in After(p) <=> p \in Before(q)
    /\ \A p, q \in Phase : q \in Before(p) \/ q \in After(p) \/ q = p
    /\ \A p \in Phase : p \notin Before(p) /\ p \notin After(p) /\ Before(p) \cap After(p) = {}
    /\ \A p, q, r \in Phase : q \in Before(p) /\ r \in Before(q) => r \in Before(p)
<1>1. \A p \in Phase : Index(p) \in Int
    BY IndexOf, SequenceAssumption
<1>2. \A p, q \in Phase : Index(p) = Index(q) => p = q
    BY IndexOf
<1> QED BY <1>1, <1>2 DEF Before, After

LEMMA First == Sequence[1] \in Phase
BY IndexOf, SequenceAssumption

\* The phase after one that is not the last.
LEMMA Successor ==
    ASSUME NEW p \in Phase, After(p) # {}
    PROVE  /\ Sequence[Index(p) + 1] \in Phase
           /\ After(Sequence[Index(p) + 1]) \subseteq After(p)
<1>1. PICK q \in After(p) : TRUE
    OBVIOUS
<1>2. Index(p) \in 1 .. Len(Sequence) /\ Index(q) \in 1 .. Len(Sequence) /\ Index(p) < Index(q)
    BY <1>1, IndexOf DEF After
<1>3. Index(p) + 1 \in 1 .. Len(Sequence)
    BY <1>2, SequenceAssumption
<1>4. Sequence[Index(p) + 1] \in Phase /\ Index(Sequence[Index(p) + 1]) = Index(p) + 1
    BY <1>3, IndexOf
<1> QED BY <1>2, <1>4, IndexOf, SequenceAssumption DEF After

\* What a phase asks for comes before it.
LEMMA PrerequisitesBefore == ASSUME NEW p \in Phase PROVE Prerequisites(p) \subseteq Before(p)
<1>1. "strategy" \in Phase /\ p \in {"sqi", "monitor", "report"} => "strategy" \in Before(p)
    BY Order, TemplateAssumption
<1>2. "monitor" \in Phase /\ p = "report" => "monitor" \in Before(p)
    BY Order, TemplateAssumption
<1> QED BY <1>1, <1>2 DEF Prerequisites

Less == {pair \in Nat \X Nat : pair[1] < pair[2]}

\* The runner resumes at a phase that is not finished.
LEMMA FirstUnfinishedIs ==
    ASSUME NEW s, ~Complete(s)
    PROVE  FirstUnfinished(s) \in Unfinished(s) /\ FirstUnfinished(s) \in Phase
<1> DEFINE I == {Index(p) : p \in Unfinished(s)}
<1>1. Unfinished(s) # {} /\ Unfinished(s) \subseteq Phase
    BY DEF Complete, Unfinished
<1>2. I \subseteq Nat /\ I # {}
    BY <1>1, IndexOf, SequenceAssumption
<1>3. IsWellFoundedOn(Less, Nat)
    BY NatLessThanWellFounded DEF OpToRel, Less
<1>4. PICK i \in I : \A j \in I : ~(j < i)
  <2>1. PICK i \in I : \A j \in I : <<j, i>> \notin Less
      BY <1>2, <1>3, WFMin
  <2> QED BY <1>2, <2>1 DEF Less
<1>5. PICK p \in Unfinished(s) : i = Index(p)
    BY <1>4
<1>6. Before(p) \cap Unfinished(s) = {}
    BY <1>4, <1>5 DEF Before
<1>7. FirstUnfinished(s) \in Unfinished(s)
    BY <1>5, <1>6 DEF FirstUnfinished
<1> QED BY <1>1, <1>7

-----------------------------------------------------------------------------
(* What rewriting, invalidating and entering leave                         *)

LEMMA Rewritten ==
    ASSUME NEW s \in State, NEW cleared, NEW replaced, NEW output \in Output,
           cleared \cap replaced = {}
    PROVE  LET t == Rewrite(s, cleared, replaced, output)
           IN  /\ t \in State
               /\ t.status = s.status /\ t.kill = s.kill /\ t.calls = s.calls /\ t.fails = s.fails
               /\ \A q \in Phase :
                    /\ q \in replaced => t.out[q] = output
                    /\ q \in cleared => t.out[q] = "none"
                    /\ q \notin cleared \cup replaced =>
                         t.out[q] = IF s.out[q] = "current" /\ Before(q) \cap (cleared \cup replaced) # {}
                                    THEN "outdated" ELSE s.out[q]
<1> DEFINE kept(q) == IF s.out[q] = "current" /\ Before(q) \cap (cleared \cup replaced) # {}
                      THEN "outdated" ELSE s.out[q]
           new(q) == CASE q \in replaced -> output
                       [] q \in cleared  -> "none"
                       [] OTHER          -> kept(q)
<1>1. ASSUME NEW q \in Phase
      PROVE  /\ q \in replaced => new(q) = output
             /\ q \in cleared => new(q) = "none"
             /\ q \notin cleared \cup replaced => new(q) = kept(q)
  <2> HIDE DEF kept
  <2>1. CASE q \in replaced
    <3>1. q \notin cleared
        BY <2>1
    <3> QED BY <2>1, <3>1, Zenon DEF new
  <2>2. CASE q \in cleared
    <3>1. q \notin replaced
        BY <2>2
    <3> QED BY <2>2, <3>1, Zenon DEF new
  <2>3. CASE q \notin cleared /\ q \notin replaced
      BY <2>3, Zenon DEF new
  <2> QED BY <2>1, <2>2, <2>3
<1>2. \A q \in Phase : kept(q) \in Output
    BY DEF State, Output
<1>3. \A q \in Phase : new(q) \in Output
  <2> HIDE DEF kept, new
  <2> QED BY <1>1, <1>2 DEF Output
<1>4. Rewrite(s, cleared, replaced, output) = [s EXCEPT !.out = [q \in Phase |-> new(q)]]
    BY DEF Rewrite
<1> HIDE DEF new
<1> QED BY <1>1, <1>3, <1>4 DEF State

LEMMA StaledIs ==
    ASSUME NEW s \in State, NEW P
    PROVE  LET t == Staled(s, P)
           IN  /\ t \in State
               /\ t.out = s.out /\ t.kill = s.kill /\ t.calls = s.calls /\ t.fails = s.fails
               /\ \A q \in Phase : q \notin P => t.status[q] = s.status[q]
BY DEF Staled, State, Status

LEMMA WithStatusIs ==
    ASSUME NEW s \in State, NEW p \in Phase, NEW status \in Status
    PROVE  LET t == WithStatus(s, p, status)
           IN  /\ t \in State
               /\ t.out = s.out /\ t.kill = s.kill /\ t.calls = s.calls /\ t.fails = s.fails
               /\ t.status[p] = status
               /\ \A q \in Phase : q # p => t.status[q] = s.status[q]
BY DEF WithStatus, State

LEMMA CountedIs ==
    ASSUME NEW s \in State, NEW ok \in BOOLEAN
    PROVE  LET t == Counted(s, ok)
           IN  /\ t \in State
               /\ t.out = s.out /\ t.status = s.status /\ t.kill = s.kill /\ t.calls = s.calls + 1
<1> DEFINE f == IF ok THEN 0 ELSE s.fails + 1
           u == [s EXCEPT !.calls = s.calls + 1]
           t == [u EXCEPT !.fails = f]
<1>1. s.calls \in Nat /\ f \in Nat
    BY DEF State
<1>2. /\ u \in State
      /\ u.out = s.out /\ u.status = s.status /\ u.kill = s.kill /\ u.calls = s.calls + 1
    BY <1>1 DEF State
<1> HIDE DEF f
<1>3. Counted(s, ok) = t
    BY DEF Counted, f, State
<1> HIDE DEF u
<1>4. t \in State /\ t.out = u.out /\ t.status = u.status /\ t.kill = u.kill /\ t.calls = u.calls
    BY <1>1, <1>2 DEF State
<1> QED BY <1>2, <1>3, <1>4

\* t is s with some outputs cleared, and nothing before p touched.
Cleared(s, t, p) ==
    /\ t \in State
    /\ t.kill = s.kill /\ t.calls = s.calls /\ t.fails = s.fails
    /\ \A q \in Phase : t.out[q] \in {s.out[q], "none"}
    /\ \A q \in Before(p) : t.out[q] = s.out[q] /\ t.status[q] = s.status[q]

LEMMA Invalidated ==
    ASSUME NEW s \in State, NEW p \in Phase
    PROVE  /\ Cleared(s, Invalidate(s, p), p)
           /\ \A q \in After(p) : Invalidate(s, p).out[q] = "none"
           /\ Invalidate(s, p).out[p] = s.out[p] /\ Invalidate(s, p).status[p] = s.status[p]
<1> DEFINE u == Staled(s, After(p))
           gone == HasOutput(s, After(p))
           t == Rewrite(u, gone, {}, "none")
<1>1. /\ u \in State
      /\ u.out = s.out /\ u.kill = s.kill /\ u.calls = s.calls /\ u.fails = s.fails
      /\ \A q \in Phase : q \notin After(p) => u.status[q] = s.status[q]
    BY StaledIs
<1>2. gone \subseteq After(p) /\ \A q \in After(p) : q \notin gone => s.out[q] = "none"
    BY DEF HasOutput
<1>3. \A q \in Phase : q \notin After(p) => Before(q) \cap (gone \cup {}) = {}
    BY <1>2, Order
<1> HIDE DEF u, gone
<1>4. /\ t \in State
      /\ t.status = u.status /\ t.kill = u.kill /\ t.calls = u.calls /\ t.fails = u.fails
      /\ \A q \in Phase :
           /\ q \in gone => t.out[q] = "none"
           /\ q \notin gone =>
                t.out[q] = IF u.out[q] = "current" /\ Before(q) \cap (gone \cup {}) # {}
                           THEN "outdated" ELSE u.out[q]
  <2>1. "none" \in Output
      BY DEF Output
  <2> QED BY <1>1, <2>1, Rewritten
<1>5. Invalidate(s, p) = t
    BY DEF Invalidate, t, u, gone
<1> HIDE DEF t
<1>6. \A q \in After(p) : t.out[q] = "none"
    BY <1>1, <1>2, <1>4, Order
<1>7. \A q \in Phase : q \notin After(p) => t.out[q] = s.out[q] /\ t.status[q] = s.status[q]
    BY <1>1, <1>2, <1>3, <1>4
<1> QED BY <1>1, <1>4, <1>5, <1>6, <1>7, Order DEF Cleared

LEMMA StrategyInvalidated ==
    ASSUME NEW s \in State, "strategy" \in Phase
    PROVE  /\ Cleared(s, InvalidateStrategy(s), "strategy")
           /\ \A q \in After("strategy") : InvalidateStrategy(s).out[q] = "none"
<1> DEFINE all == Cone \cup (Phase \cap {"strategy"})
           u == Staled(s, Cone)
           gone == HasOutput(s, all)
           t == Rewrite(u, gone, {}, "none")
<1>1. /\ u \in State
      /\ u.out = s.out /\ u.kill = s.kill /\ u.calls = s.calls /\ u.fails = s.fails
      /\ \A q \in Phase : q \notin Cone => u.status[q] = s.status[q]
    BY StaledIs
<1>2. Cone = After("strategy") /\ all = After("strategy") \cup {"strategy"}
    BY TemplateAssumption DEF Cone
<1>3. gone \subseteq all /\ \A q \in all : q \notin gone => s.out[q] = "none"
    BY DEF HasOutput
<1> HIDE DEF all, gone, u
<1>4. \A q \in Phase : q \notin all => Before(q) \cap (gone \cup {}) = {}
    BY <1>2, <1>3, Order
<1>5. /\ t \in State
      /\ t.status = u.status /\ t.kill = u.kill /\ t.calls = u.calls /\ t.fails = u.fails
      /\ \A q \in Phase :
           /\ q \in gone => t.out[q] = "none"
           /\ q \notin gone =>
                t.out[q] = IF u.out[q] = "current" /\ Before(q) \cap (gone \cup {}) # {}
                           THEN "outdated" ELSE u.out[q]
  <2>1. "none" \in Output
      BY DEF Output
  <2> QED BY <1>1, <2>1, Rewritten
<1>6. InvalidateStrategy(s) = t
    BY DEF InvalidateStrategy, t, u, gone, all
<1> HIDE DEF t
<1>7. \A q \in Phase : q \in all => t.out[q] = "none"
    BY <1>1, <1>3, <1>5
<1>8. \A q \in Phase : q \notin all => t.out[q] = s.out[q] /\ t.status[q] = s.status[q]
    BY <1>1, <1>2, <1>3, <1>4, <1>5
<1>9. \A q \in Before("strategy") : q \in Phase /\ q \notin all
    BY <1>2, Order
<1> QED BY <1>1, <1>2, <1>5, <1>6, <1>7, <1>8, <1>9, Order DEF Cleared

LEMMA EnteredIs ==
    ASSUME NEW s \in State, NEW p \in Phase
    PROVE  Cleared(s, Entered(s, p), p)
<1>1. CASE p = "strategy"
    BY <1>1, StrategyInvalidated DEF Entered
<1>2. CASE p # "strategy"
  <2>1. Entered(s, p) = s
      BY <1>2 DEF Entered
  <2> QED BY <2>1 DEF Cleared
<1> QED BY <1>1, <1>2

\* Clearing twice is clearing.
LEMMA ClearedTwice ==
    ASSUME NEW s, NEW t, NEW u, NEW p \in Phase, Cleared(s, t, p), Cleared(t, u, p)
    PROVE  Cleared(s, u, p)
BY DEF Cleared

\* Clearing the output of p itself, when nothing after it has one.
LEMMA OneCleared ==
    ASSUME NEW s \in State, NEW u \in State, NEW p \in Phase, \A q \in After(p) : s.out[q] = "none"
    PROVE  LET t == Rewrite(s, HasOutput(u, {p}), {}, "none")
           IN  Cleared(s, t, p) /\ (u.out[p] # "none" => t.out[p] = "none") /\ t.status = s.status
<1> DEFINE gone == HasOutput(u, {p})
           t == Rewrite(s, gone, {}, "none")
<1>1. gone \subseteq {p} /\ (u.out[p] # "none" => p \in gone)
    BY DEF HasOutput
<1>2. \A q \in Phase : q \notin After(p) => Before(q) \cap (gone \cup {}) = {}
    BY <1>1, Order
<1> HIDE DEF gone
<1>3. /\ t \in State
      /\ t.status = s.status /\ t.kill = s.kill /\ t.calls = s.calls /\ t.fails = s.fails
      /\ \A q \in Phase :
           /\ q \in gone => t.out[q] = "none"
           /\ q \notin gone =>
                t.out[q] = IF s.out[q] = "current" /\ Before(q) \cap (gone \cup {}) # {}
                           THEN "outdated" ELSE s.out[q]
  <2>1. "none" \in Output
      BY DEF Output
  <2> QED BY <2>1, Rewritten
<1> HIDE DEF t
<1>4. \A q \in Phase : q # p => t.out[q] = s.out[q]
    BY <1>1, <1>2, <1>3
<1>5. t.out[p] \in {s.out[p], "none"} /\ (p \in gone => t.out[p] = "none")
    BY <1>1, <1>2, <1>3, Order
<1>6. Cleared(s, t, p)
    BY <1>3, <1>4, <1>5, Order DEF Cleared
<1> QED BY <1>1, <1>3, <1>5, <1>6 DEF t, gone

\* Replacing the output of p, when nothing after it has one.
LEMMA OneReplaced ==
    ASSUME NEW s \in State, NEW p \in Phase, NEW output \in Output, \A q \in After(p) : s.out[q] = "none"
    PROVE  LET t == Rewrite(s, {}, {p}, output)
           IN  /\ t \in State
               /\ t.status = s.status /\ t.kill = s.kill /\ t.calls = s.calls /\ t.fails = s.fails
               /\ t.out[p] = output
               /\ \A q \in Phase : q # p => t.out[q] = s.out[q]
<1> DEFINE t == Rewrite(s, {}, {p}, output)
<1>1. \A q \in Phase : q \notin After(p) => Before(q) \cap ({} \cup {p}) = {}
    BY Order
<1>2. /\ t \in State
      /\ t.status = s.status /\ t.kill = s.kill /\ t.calls = s.calls /\ t.fails = s.fails
      /\ \A q \in Phase :
           /\ q \in {p} => t.out[q] = output
           /\ q \notin {} \cup {p} =>
                t.out[q] = IF s.out[q] = "current" /\ Before(q) \cap ({} \cup {p}) # {}
                           THEN "outdated" ELSE s.out[q]
    BY Rewritten
<1> HIDE DEF t
<1>3. \A q \in Phase : q # p => t.out[q] = s.out[q]
    BY <1>1, <1>2
<1> QED BY <1>2, <1>3 DEF t

LEMMA ClearedMarked ==
    ASSUME NEW s \in State, NEW t, NEW p \in Phase, NEW status \in Status, Cleared(s, t, p)
    PROVE  Cleared(s, WithStatus(t, p, status), p) /\ WithStatus(t, p, status).status[p] = status
<1>1. t \in State
    BY DEF Cleared
<1> DEFINE u == WithStatus(t, p, status)
<1>2. /\ u \in State
      /\ u.out = t.out /\ u.kill = t.kill /\ u.calls = t.calls /\ u.fails = t.fails
      /\ u.status[p] = status
      /\ \A q \in Phase : q # p => u.status[q] = t.status[q]
    BY <1>1, WithStatusIs
<1> HIDE DEF u
<1>3. Cleared(s, u, p)
    BY <1>2, Order DEF Cleared
<1> QED BY <1>2, <1>3 DEF u

\* What is finished before p is finished afterwards as well.
LEMMA ClearedDone ==
    ASSUME NEW s, NEW t, NEW p \in Phase, Cleared(s, t, p)
    PROVE  /\ \A q \in Before(p) : Done(t, q) = Done(s, q)
           /\ PrerequisitesMet(t, p) = PrerequisitesMet(s, p)
<1>1. \A q \in Before(p) : Done(t, q) = Done(s, q)
    BY DEF Cleared, Done
<1> QED BY <1>1, PrerequisitesBefore DEF PrerequisitesMet

-----------------------------------------------------------------------------
(* What the steps do to the tasks                                          *)

\* x goes on as e: of a busy task no more than its outdated mark changes.
Moved(x, e) ==
    /\ exec' \in [Exec -> ExecRecord]
    /\ exec'[x] = e
    /\ \A y \in Exec \ {x} :
         /\ exec'[y].at = exec[y].at /\ exec'[y].workflow = exec[y].workflow
         /\ exec'[y].phase = exec[y].phase
         /\ exec[y].at = "idle" => exec'[y] = exec[y]

LEMMA MovesAlone ==
    ASSUME exec \in [Exec -> ExecRecord], NEW x \in Exec, NEW e \in ExecRecord,
           exec' = [exec EXCEPT ![x] = e]
    PROVE  Moved(x, e)
BY DEF Moved

LEMMA MovesReread ==
    ASSUME exec \in [Exec -> ExecRecord], NEW x \in Exec, NEW e \in ExecRecord, NEW changed,
           Reread(changed, x, e)
    PROVE  Moved(x, e)
<1> DEFINE next(y) == IF exec[y].at \in {"calling", "sent"} /\ Before(exec[y].phase) \cap changed # {}
                      THEN [exec[y] EXCEPT !.outdated = TRUE] ELSE exec[y]
<1>1. ASSUME NEW y \in Exec
      PROVE  /\ next(y) \in ExecRecord
             /\ next(y).at = exec[y].at /\ next(y).workflow = exec[y].workflow
             /\ next(y).phase = exec[y].phase
             /\ exec[y].at = "idle" => next(y) = exec[y]
  <2>1. exec[y] \in ExecRecord
      BY <1>1
  <2> QED BY <2>1 DEF ExecRecord
<1>2. exec' = [[y \in Exec |-> next(y)] EXCEPT ![x] = e]
    BY DEF Reread
<1> HIDE DEF next
<1>3. exec' \in [Exec -> ExecRecord] /\ exec'[x] = e /\ \A y \in Exec \ {x} : exec'[y] = next(y)
    BY <1>1, <1>2
<1> QED BY <1>1, <1>3 DEF Moved

LEMMA MovesBecome ==
    ASSUME exec \in [Exec -> ExecRecord], NEW x \in Exec, NEW e \in ExecRecord, NEW s,
           Become(s, x, e)
    PROVE  st' = s /\ Moved(x, e)
BY MovesReread DEF Become

LEMMA IdleIs ==
    /\ Idle \in ExecRecord /\ Idle.at = "idle" /\ ~Idle.workflow /\ ~Idle.outdated
    /\ \A p \in Phase :
         LET e == [Idle EXCEPT !.at = "next", !.workflow = TRUE, !.phase = p]
         IN  /\ e \in ExecRecord
             /\ e.at = "next" /\ e.workflow /\ e.phase = p /\ ~e.outdated
    /\ \A p \in Phase :
         LET e == [Idle EXCEPT !.at = "entering", !.phase = p]
         IN  /\ e \in ExecRecord
             /\ e.at = "entering" /\ ~e.workflow /\ e.phase = p /\ ~e.outdated
BY First DEF Idle, ExecRecord, Stage

LEMMA AtIs ==
    ASSUME NEW e \in ExecRecord, NEW at \in Stage
    PROVE  LET f == [e EXCEPT !.at = at]
           IN  /\ f \in ExecRecord /\ f.at = at
               /\ f.workflow = e.workflow /\ f.phase = e.phase /\ f.outdated = e.outdated
BY DEF ExecRecord

LEMMA CallIs ==
    ASSUME NEW e \in ExecRecord
    PROVE  LET f == [e EXCEPT !.at = "calling", !.outdated = FALSE, !.repaired = FALSE]
           IN  /\ f \in ExecRecord /\ f.at = "calling"
               /\ f.workflow = e.workflow /\ f.phase = e.phase /\ ~f.outdated
BY DEF ExecRecord, Stage

LEMMA OnwardIs ==
    ASSUME exec \in [Exec -> ExecRecord], NEW x \in Exec
    PROVE  /\ Onward(x) \in ExecRecord
           /\ \/ Onward(x) = Idle
              \/ /\ Onward(x).at = "next" /\ Onward(x).workflow = exec[x].workflow
                 /\ Onward(x).outdated = exec[x].outdated
                 /\ After(Onward(x).phase) \subseteq After(exec[x].phase)
<1> DEFINE p == exec[x].phase
           q == Sequence[Index(p) + 1]
           f == [exec[x] EXCEPT !.at = "next", !.phase = q]
<1>1. exec[x] \in ExecRecord /\ p \in Phase
    BY DEF ExecRecord
<1>2. CASE After(p) = {}
    BY <1>2, IdleIs DEF Onward
<1>3. CASE After(p) # {}
  <2>1. q \in Phase /\ After(q) \subseteq After(p)
      BY <1>1, <1>3, Successor
  <2>2. Onward(x) = f
      BY <1>3 DEF Onward
  <2> HIDE DEF q
  <2>3. f \in ExecRecord /\ f.at = "next" /\ f.workflow = exec[x].workflow
        /\ f.outdated = exec[x].outdated /\ f.phase = q
      BY <1>1, <2>1 DEF ExecRecord, Stage
  <2> QED BY <2>1, <2>2, <2>3
<1> QED BY <1>2, <1>3

-----------------------------------------------------------------------------
(* What each step does                                                     *)

LEMMA Typed ==
    ASSUME TypeOK
    PROVE  /\ st \in State /\ saved \in State /\ exec \in [Exec -> ExecRecord]
           /\ \A x \in Exec : exec[x] \in ExecRecord /\ exec[x].phase \in Phase
BY DEF TypeOK, ExecRecord, Stage

LEMMA StartWorkflowDoes ==
    ASSUME TypeOK, NEW x \in Exec, StartWorkflow(x)
    PROVE  LET p == FirstUnfinished(st)
               e == [Idle EXCEPT !.at = "next", !.workflow = TRUE, !.phase = p]
           IN  /\ p \in Phase /\ ~Done(st, p)
               /\ Cleared(st, st', p) /\ \A q \in After(p) : st'.out[q] = "none"
               /\ Moved(x, e) /\ e \in ExecRecord
               /\ e.at = "next" /\ e.workflow /\ e.phase = p /\ ~e.outdated
               /\ saved' = st'
<1> DEFINE p == FirstUnfinished(st)
           e == [Idle EXCEPT !.at = "next", !.workflow = TRUE, !.phase = p]
<1>1. p \in Phase /\ ~Done(st, p)
    BY FirstUnfinishedIs DEF StartWorkflow, Unfinished
<1>2. e \in ExecRecord /\ e.at = "next" /\ e.workflow /\ e.phase = p /\ ~e.outdated
    BY <1>1, IdleIs
<1>3. Become(Invalidate(st, p), x, e) /\ saved' = st'
    BY DEF StartWorkflow
<1> HIDE DEF p, e
<1>4. st' = Invalidate(st, p) /\ Moved(x, e)
    BY <1>2, <1>3, Typed, MovesBecome
<1>5. Cleared(st, st', p) /\ \A q \in After(p) : st'.out[q] = "none"
    BY <1>1, <1>4, Typed, Invalidated
<1> QED BY <1>1, <1>2, <1>3, <1>4, <1>5 DEF p, e

LEMMA StartManualDoes ==
    ASSUME TypeOK, NEW x \in Exec, NEW p \in Phase, StartManual(x, p)
    PROVE  LET e == [Idle EXCEPT !.at = "entering", !.phase = p]
           IN  /\ Cleared(st, st', p) /\ \A q \in After(p) : st'.out[q] = "none"
               /\ Moved(x, e) /\ e \in ExecRecord
               /\ e.at = "entering" /\ ~e.workflow /\ e.phase = p /\ ~e.outdated
<1> DEFINE e == [Idle EXCEPT !.at = "entering", !.phase = p]
<1>1. e \in ExecRecord /\ e.at = "entering" /\ ~e.workflow /\ e.phase = p /\ ~e.outdated
    BY IdleIs
<1>2. Become(Invalidate(st, p), x, e)
    BY DEF StartManual
<1> HIDE DEF e
<1>3. st' = Invalidate(st, p) /\ Moved(x, e)
    BY <1>1, <1>2, Typed, MovesBecome
<1>4. Cleared(st, st', p) /\ \A q \in After(p) : st'.out[q] = "none"
    BY <1>3, Typed, Invalidated
<1> QED BY <1>1, <1>3, <1>4 DEF e

\* x, busy with phase p, marks it and stays busy with it.
Marks(x, at, status) ==
    /\ Cleared(st, st', exec[x].phase) /\ st'.status[exec[x].phase] = status
    /\ exec'[x] \in ExecRecord /\ Moved(x, exec'[x])
    /\ exec'[x].at = at /\ exec'[x].workflow = exec[x].workflow /\ exec'[x].phase = exec[x].phase
    /\ exec'[x].outdated => exec[x].outdated

\* The form in which those steps are written.
LEMMA MarksIs ==
    ASSUME TypeOK, NEW x \in Exec, NEW s, NEW at \in Stage, NEW status \in Status, NEW e \in ExecRecord,
           Cleared(st, s, exec[x].phase), Become(WithStatus(s, exec[x].phase, status), x, e),
           e.at = at, e.workflow = exec[x].workflow, e.phase = exec[x].phase,
           e.outdated => exec[x].outdated
    PROVE  Marks(x, at, status) /\ st' = WithStatus(s, exec[x].phase, status)
<1>1. st' = WithStatus(s, exec[x].phase, status) /\ Moved(x, e)
    BY Typed, MovesBecome
<1>2. Cleared(st, st', exec[x].phase) /\ st'.status[exec[x].phase] = status
    BY <1>1, Typed, ClearedMarked
<1>3. exec'[x] = e
    BY <1>1 DEF Moved
<1> QED BY <1>1, <1>2, <1>3 DEF Marks

LEMMA ClearedItself == ASSUME NEW s \in State, NEW p \in Phase PROVE Cleared(s, s, p)
BY DEF Cleared

LEMMA NextPhaseDoes ==
    ASSUME TypeOK, NEW x \in Exec, NextPhase(x)
    PROVE  \/ UNCHANGED <<st, saved>> /\ exec' = [exec EXCEPT ![x] = Onward(x)]
           \/ /\ ~Done(st, exec[x].phase)
              /\ Marks(x, "entering", "running") /\ saved' = st' /\ st'.out = st.out
<1>1. CASE Done(st, exec[x].phase)
    BY <1>1 DEF NextPhase
<1>2. CASE ~Done(st, exec[x].phase)
  <2> DEFINE e == [exec[x] EXCEPT !.at = "entering"]
  <2>1. e \in ExecRecord /\ e.at = "entering" /\ e.workflow = exec[x].workflow
        /\ e.phase = exec[x].phase /\ e.outdated = exec[x].outdated
      BY Typed, AtIs DEF Stage
  <2>2. Become(WithStatus(st, exec[x].phase, "running"), x, e) /\ saved' = st'
      BY <1>2 DEF NextPhase
  <2> HIDE DEF e
  <2>3. Cleared(st, st, exec[x].phase) /\ "entering" \in Stage /\ "running" \in Status
      BY Typed, ClearedItself DEF Stage, Status
  <2>4. Marks(x, "entering", "running") /\ st' = WithStatus(st, exec[x].phase, "running")
      BY <2>1, <2>2, <2>3, MarksIs
  <2>5. st'.out = st.out
      BY <2>3, <2>4, Typed, WithStatusIs
  <2> QED BY <1>2, <2>2, <2>4, <2>5
<1> QED BY <1>1, <1>2

LEMMA EnterUnpreparedDoes ==
    ASSUME TypeOK, NEW x \in Exec, EnterUnprepared(x)
    PROVE  Marks(x, "saving", "failed")
<1> DEFINE p == exec[x].phase
           s == Entered(st, p)
           i == Invalidate(s, p)
           t == Rewrite(i, HasOutput(s, {p}), {}, "none")
           e == [exec[x] EXCEPT !.at = "saving"]
<1>1. p \in Phase /\ st \in State
    BY Typed
<1>2. e \in ExecRecord /\ e.at = "saving" /\ e.workflow = exec[x].workflow
      /\ e.phase = exec[x].phase /\ e.outdated = exec[x].outdated
    BY Typed, AtIs DEF Stage
<1>3. Become(WithStatus(t, p, "failed"), x, e)
    BY DEF EnterUnprepared
<1> HIDE DEF p, e
<1>4. Cleared(st, s, p) /\ s \in State
    BY <1>1, EnteredIs DEF Cleared
<1> HIDE DEF s
<1>5. Cleared(s, i, p) /\ i \in State /\ \A q \in After(p) : i.out[q] = "none"
    BY <1>1, <1>4, Invalidated DEF Cleared
<1> HIDE DEF i
<1>6. Cleared(i, t, p)
    BY <1>1, <1>4, <1>5, OneCleared
<1> HIDE DEF t
<1>7. Cleared(st, t, p)
    BY <1>1, <1>4, <1>5, <1>6, ClearedTwice
<1>8. "saving" \in Stage /\ "failed" \in Status
    BY DEF Stage, Status
<1> QED BY <1>2, <1>3, <1>7, <1>8, MarksIs DEF p

LEMMA EnterDeniedDoes ==
    ASSUME TypeOK, NEW x \in Exec, EnterDenied(x)
    PROVE  Marks(x, "saving", "failed")
<1> DEFINE p == exec[x].phase
           s == Entered(st, p)
           e == [exec[x] EXCEPT !.at = "saving"]
<1>1. p \in Phase /\ st \in State
    BY Typed
<1>2. e \in ExecRecord /\ e.at = "saving" /\ e.workflow = exec[x].workflow
      /\ e.phase = exec[x].phase /\ e.outdated = exec[x].outdated
    BY Typed, AtIs DEF Stage
<1>3. Become(WithStatus(s, p, "failed"), x, e)
    BY DEF EnterDenied
<1> HIDE DEF p, e
<1>4. Cleared(st, s, p)
    BY <1>1, EnteredIs
<1> HIDE DEF s
<1>5. "saving" \in Stage /\ "failed" \in Status
    BY DEF Stage, Status
<1> QED BY <1>2, <1>3, <1>4, <1>5, MarksIs DEF p

LEMMA EnterCallDoes ==
    ASSUME TypeOK, NEW x \in Exec, EnterCall(x)
    PROVE  Marks(x, "calling", "running") /\ PrerequisitesMet(st', exec[x].phase) /\ ~exec'[x].outdated
<1> DEFINE p == exec[x].phase
           s == Entered(st, p)
           e == [exec[x] EXCEPT !.at = "calling", !.outdated = FALSE, !.repaired = FALSE]
<1>1. p \in Phase /\ st \in State
    BY Typed
<1>2. e \in ExecRecord /\ e.at = "calling" /\ e.workflow = exec[x].workflow
      /\ e.phase = exec[x].phase /\ ~e.outdated
    BY Typed, CallIs
<1>3. Become(WithStatus(s, p, "running"), x, e) /\ PrerequisitesMet(s, p)
    BY DEF EnterCall
<1> HIDE DEF p, e
<1>4. Cleared(st, s, p) /\ s \in State
    BY <1>1, EnteredIs DEF Cleared
<1> HIDE DEF s
<1>5. "calling" \in Stage /\ "running" \in Status
    BY DEF Stage, Status
<1>6. Marks(x, "calling", "running") /\ st' = WithStatus(s, p, "running")
    BY <1>2, <1>3, <1>4, <1>5, MarksIs DEF p
<1>7. Cleared(s, st', p)
    BY <1>1, <1>4, <1>5, <1>6, ClearedItself, ClearedMarked
<1>8. PrerequisitesMet(st', p)
    BY <1>1, <1>3, <1>7, ClearedDone
<1>9. exec'[x] = e
    BY <1>2, <1>3, Typed, MovesBecome DEF Moved
<1> QED BY <1>2, <1>6, <1>8, <1>9 DEF p

\* The task x goes on at at with the phase it has.
Goes(x, at) ==
    /\ exec'[x] \in ExecRecord /\ Moved(x, exec'[x])
    /\ exec'[x].at = at /\ exec'[x].workflow = exec[x].workflow /\ exec'[x].phase = exec[x].phase
    /\ exec'[x].outdated = exec[x].outdated

LEMMA GoesAlone ==
    ASSUME TypeOK, NEW x \in Exec, NEW at \in Stage, exec' = [exec EXCEPT ![x].at = at]
    PROVE  Goes(x, at)
<1> DEFINE e == [exec[x] EXCEPT !.at = at]
<1>1. e \in ExecRecord /\ e.at = at /\ e.workflow = exec[x].workflow
      /\ e.phase = exec[x].phase /\ e.outdated = exec[x].outdated
    BY Typed, AtIs
<1>2. exec' = [exec EXCEPT ![x] = e]
    OBVIOUS
<1> HIDE DEF e
<1>3. Moved(x, e)
    BY <1>1, <1>2, Typed, MovesAlone
<1>4. exec'[x] = e
    BY <1>3 DEF Moved
<1> QED BY <1>1, <1>3, <1>4 DEF Goes

LEMMA GoesReread ==
    ASSUME TypeOK, NEW x \in Exec, NEW at \in Stage, NEW changed,
           Reread(changed, x, [exec[x] EXCEPT !.at = at])
    PROVE  Goes(x, at)
<1> DEFINE e == [exec[x] EXCEPT !.at = at]
<1>1. e \in ExecRecord /\ e.at = at /\ e.workflow = exec[x].workflow
      /\ e.phase = exec[x].phase /\ e.outdated = exec[x].outdated
    BY Typed, AtIs
<1> HIDE DEF e
<1>2. Moved(x, e)
    BY <1>1, Typed, MovesReread DEF e
<1>3. exec'[x] = e
    BY <1>2 DEF Moved
<1> QED BY <1>1, <1>2, <1>3 DEF Goes

LEMMA SendDoes == ASSUME TypeOK, NEW x \in Exec, Send(x) PROVE Goes(x, "sent")
<1>1. exec' = [exec EXCEPT ![x].at = "sent"] /\ "sent" \in Stage
    BY DEF Send, Stage
<1> QED BY <1>1, GoesAlone

\* The call of x is over, and counted: its phase gets a status, and no other.
Counts(x, status) ==
    /\ st' \in State
    /\ st'.kill = st.kill /\ st'.calls = st.calls + 1
    /\ st'.status[exec[x].phase] = status
    /\ \A q \in Phase : q # exec[x].phase => st'.status[q] = st.status[q]

\* Refused and Failed.
LEMMA Fails ==
    ASSUME TypeOK, NEW x \in Exec, NEW ok \in BOOLEAN,
           Become(WithStatus(Counted(st, ok), exec[x].phase, "failed"), x, [exec[x] EXCEPT !.at = "saving"])
    PROVE  Counts(x, "failed") /\ st'.out = st.out /\ Goes(x, "saving")
<1> DEFINE p == exec[x].phase
           s == Counted(st, ok)
           t == WithStatus(s, p, "failed")
<1>1. p \in Phase /\ st \in State /\ "failed" \in Status /\ "saving" \in Stage
    BY Typed DEF Status, Stage
<1>2. /\ s \in State
      /\ s.out = st.out /\ s.status = st.status /\ s.kill = st.kill /\ s.calls = st.calls + 1
    BY <1>1, CountedIs
<1>3. Goes(x, "saving") /\ st' = t
    BY <1>1, GoesReread DEF Become
<1> HIDE DEF p, s
<1>4. /\ t \in State
      /\ t.out = s.out /\ t.kill = s.kill /\ t.calls = s.calls
      /\ t.status[p] = "failed" /\ \A q \in Phase : q # p => t.status[q] = s.status[q]
    BY <1>1, <1>2, WithStatusIs
<1> QED BY <1>2, <1>3, <1>4 DEF Counts, p

LEMMA RefusedDoes ==
    ASSUME TypeOK, NEW x \in Exec, Refused(x)
    PROVE  Counts(x, "failed") /\ st'.out = st.out /\ Goes(x, "saving")
BY Fails DEF Refused

LEMMA FailedDoes ==
    ASSUME TypeOK, NEW x \in Exec, NEW ok \in BOOLEAN, Failed(x, ok)
    PROVE  Counts(x, "failed") /\ st'.out = st.out /\ Goes(x, "saving")
BY Fails DEF Failed

LEMMA AnsweredDoes ==
    ASSUME TypeOK, NEW x \in Exec, Answered(x)
    PROVE  /\ Counts(x, "completed") /\ Goes(x, "saving")
           /\ (\A q \in After(exec[x].phase) : st.out[q] = "none") =>
                /\ st'.out[exec[x].phase] = IF exec[x].outdated THEN "outdated" ELSE "current"
                /\ \A q \in Phase : q # exec[x].phase => st'.out[q] = st.out[q]
<1> DEFINE p == exec[x].phase
           c == Counted(st, TRUE)
           s == WithStatus(c, p, "completed")
           output == IF exec[x].outdated THEN "outdated" ELSE "current"
           t == Rewrite(s, {}, {p}, output)
<1>1. p \in Phase /\ st \in State /\ "completed" \in Status /\ "saving" \in Stage /\ output \in Output
    BY Typed DEF Status, Stage, Output
<1>2. /\ c \in State
      /\ c.out = st.out /\ c.status = st.status /\ c.kill = st.kill /\ c.calls = st.calls + 1
    BY <1>1, CountedIs
<1>3. Goes(x, "saving") /\ st' = t
    BY <1>1, GoesReread DEF Answered
<1> HIDE DEF p, c, output
<1>4. /\ s \in State
      /\ s.out = c.out /\ s.kill = c.kill /\ s.calls = c.calls
      /\ s.status[p] = "completed" /\ \A q \in Phase : q # p => s.status[q] = c.status[q]
    BY <1>1, <1>2, WithStatusIs
<1> HIDE DEF s
<1>5. /\ t \in State
      /\ t.status = s.status /\ t.kill = s.kill /\ t.calls = s.calls
  <2>1. {} \cap {p} = {}
      OBVIOUS
  <2> QED BY <1>1, <1>4, <2>1, Rewritten
<1>6. (\A q \in After(p) : st.out[q] = "none") =>
        t.out[p] = output /\ \A q \in Phase : q # p => t.out[q] = st.out[q]
  <2> SUFFICES ASSUME \A q \in After(p) : st.out[q] = "none"
               PROVE  t.out[p] = output /\ \A q \in Phase : q # p => t.out[q] = st.out[q]
      OBVIOUS
  <2>1. s.out = st.out /\ \A q \in After(p) : s.out[q] = "none"
      BY <1>2, <1>4
  <2>2. t.out[p] = output /\ \A q \in Phase : q # p => t.out[q] = s.out[q]
      BY <1>1, <1>4, <2>1, OneReplaced
  <2> QED BY <2>1, <2>2
<1> HIDE DEF t
<1>7. Counts(x, "completed")
    BY <1>2, <1>3, <1>4, <1>5 DEF Counts, p
<1> QED BY <1>3, <1>6, <1>7 DEF p, output

LEMMA AskAgainDoes ==
    ASSUME TypeOK, NEW x \in Exec, AskAgain(x)
    PROVE  /\ st' \in State /\ st'.out = st.out /\ st'.status = st.status
           /\ st'.kill = st.kill /\ st'.calls = st.calls + 1
           /\ Goes(x, "calling")
<1> DEFINE e == [exec[x] EXCEPT !.at = "calling", !.repaired = TRUE]
<1>1. st' = Counted(st, TRUE) /\ exec' = [exec EXCEPT ![x] = e]
    BY Typed DEF AskAgain
<1>2. e \in ExecRecord /\ e.at = "calling" /\ e.workflow = exec[x].workflow
      /\ e.phase = exec[x].phase /\ e.outdated = exec[x].outdated
  <2>1. exec[x] \in ExecRecord
      BY Typed
  <2> QED BY <2>1 DEF ExecRecord, Stage
<1> HIDE DEF e
<1>3. Moved(x, e)
    BY <1>1, <1>2, Typed, MovesAlone
<1>4. exec'[x] = e
    BY <1>3 DEF Moved
<1>5. Goes(x, "calling")
    BY <1>2, <1>3, <1>4 DEF Goes
<1> QED BY <1>1, <1>5, Typed, CountedIs

LEMMA SaveAndBlockDoes ==
    ASSUME TypeOK, NEW x \in Exec, SaveAndBlock(x)
    PROVE  /\ Cleared(st, st', exec[x].phase) /\ st'.out = st.out
           /\ \A q \in Phase : q # exec[x].phase => st'.status[q] = st.status[q]
           /\ saved' = st' /\ exec' = [exec EXCEPT ![x] = Idle]
<1> DEFINE p == exec[x].phase
<1>1. p \in Phase /\ st \in State /\ "failed" \in Status
    BY Typed DEF Status
<1>2. st' = WithStatus(st, p, "failed") /\ saved' = st' /\ exec' = [exec EXCEPT ![x] = Idle]
    BY DEF SaveAndBlock
<1> HIDE DEF p
<1>3. Cleared(st, st', p)
    BY <1>1, <1>2, ClearedItself, ClearedMarked
<1>4. st'.out = st.out /\ \A q \in Phase : q # p => st'.status[q] = st.status[q]
    BY <1>1, <1>2, WithStatusIs
<1> QED BY <1>2, <1>3, <1>4 DEF p

\* A patch changes of a task no more than its outdated mark, and of an idle one nothing.
Noted ==
    /\ exec' \in [Exec -> ExecRecord]
    /\ \A y \in Exec :
         /\ exec'[y].at = exec[y].at /\ exec'[y].workflow = exec[y].workflow
         /\ exec'[y].phase = exec[y].phase
         /\ exec[y].at = "idle" => exec'[y] = exec[y]

LEMMA NotedIs ==
    ASSUME TypeOK, NEW P,
           exec' = [y \in Exec |-> IF exec[y].at \in {"calling", "sent"} /\ exec[y].phase \in P
                                   THEN [exec[y] EXCEPT !.outdated = TRUE] ELSE exec[y]]
    PROVE  Noted
<1>1. ASSUME NEW y \in Exec
      PROVE  /\ exec'[y] \in ExecRecord
             /\ exec'[y].at = exec[y].at /\ exec'[y].workflow = exec[y].workflow
             /\ exec'[y].phase = exec[y].phase
             /\ exec[y].at = "idle" => exec'[y] = exec[y]
  <2>1. exec[y] \in ExecRecord
      BY <1>1, Typed
  <2>2. exec'[y] = IF exec[y].at \in {"calling", "sent"} /\ exec[y].phase \in P
                   THEN [exec[y] EXCEPT !.outdated = TRUE] ELSE exec[y]
      BY <1>1
  <2> QED BY <2>1, <2>2 DEF ExecRecord
<1>2. exec' \in [Exec -> ExecRecord]
    BY <1>1
<1> QED BY <1>1, <1>2 DEF Noted

LEMMA PatchInputDoes ==
    ASSUME TypeOK, NEW p \in InputOf, PatchInput(p)
    PROVE  /\ st' \in State /\ saved' = st' /\ st'.calls = st.calls
           /\ \A q \in Phase : st'.out[q] \in {st.out[q], "none"}
           /\ Noted
<1> DEFINE i == Invalidate(st, p)
           s == Staled(i, {p})
           t == Rewrite(s, HasOutput(st, {p}), {}, "none")
<1>1. p \in Phase /\ st \in State
    BY Typed, First DEF InputOf
<1>2. st' = t /\ saved' = st'
    BY DEF PatchInput
<1>3. /\ Cleared(st, i, p) /\ i \in State
      /\ \A q \in After(p) : i.out[q] = "none"
    BY <1>1, Invalidated DEF Cleared
<1> HIDE DEF i
<1>4. s \in State /\ s.out = i.out /\ s.calls = i.calls
    BY <1>3, StaledIs
<1> HIDE DEF s
<1>5. Cleared(s, t, p)
    BY <1>1, <1>3, <1>4, OneCleared
<1>6. Noted
    BY NotedIs DEF PatchInput
<1> HIDE DEF t
<1> QED BY <1>2, <1>3, <1>4, <1>5, <1>6 DEF Cleared

LEMMA PatchOutputDoes ==
    ASSUME TypeOK, NEW p \in Phase, PatchOutput(p)
    PROVE  /\ st' \in State /\ saved' = st' /\ st'.calls = st.calls
           /\ \A q \in Phase : st'.out[q] \in {st.out[q], "none", "current"}
           /\ Noted
<1> DEFINE i == IF p = "strategy" THEN InvalidateStrategy(st) ELSE Invalidate(st, p)
           s == WithStatus(i, p, "completed")
           t == Rewrite(s, {}, {p}, "current")
<1>1. st \in State /\ "completed" \in Status /\ "current" \in Output
    BY Typed DEF Status, Output
<1>2. st' = t /\ saved' = st'
    BY DEF PatchOutput
<1>3. Cleared(st, i, p) /\ \A q \in After(p) : i.out[q] = "none"
  <2>1. CASE p = "strategy"
      BY <1>1, <2>1, StrategyInvalidated
  <2>2. CASE p # "strategy"
      BY <1>1, <2>2, Invalidated
  <2> QED BY <2>1, <2>2
<1> HIDE DEF i
<1>4. s \in State /\ s.out = i.out /\ s.calls = i.calls
    BY <1>1, <1>3, WithStatusIs DEF Cleared
<1> HIDE DEF s
<1>5. /\ t \in State /\ t.calls = s.calls /\ t.out[p] = "current"
      /\ \A q \in Phase : q # p => t.out[q] = s.out[q]
  <2>1. \A q \in After(p) : s.out[q] = "none"
      BY <1>3, <1>4
  <2> DEFINE output == "current"
             r == Rewrite(s, {}, {p}, output)
  <2>2. output \in Output /\ t = r
      BY <1>1
  <2> HIDE DEF output, t
  <2>3. /\ r \in State /\ r.calls = s.calls /\ r.out[p] = output
        /\ \A q \in Phase : q # p => r.out[q] = s.out[q]
      BY <1>4, <2>1, <2>2, OneReplaced
  <2> QED BY <2>2, <2>3 DEF output
<1>6. Noted
    BY NotedIs DEF PatchOutput
<1> HIDE DEF t
<1> QED BY <1>2, <1>3, <1>4, <1>5, <1>6 DEF Cleared

\* The three requests that change no output.
LEMMA OtherRequests ==
    ASSUME TypeOK, KillProject \/ ResetBreakers \/ PatchConfiguration
    PROVE  /\ st' \in State /\ saved' = st' /\ st'.out = st.out /\ st'.calls = st.calls
           /\ exec' = exec
           /\ KillProject \/ ResetBreakers => st'.status = st.status
<1>1. st \in State
    BY Typed
<1>2. CASE KillProject
    BY <1>1, <1>2 DEF KillProject, State
<1>3. CASE ResetBreakers
    BY <1>1, <1>3 DEF ResetBreakers, State
<1>4. CASE PatchConfiguration
  <2>1. "report" \in Phase /\ "stale" \in Status /\ st' = WithStatus(st, "report", "stale")
        /\ saved' = st' /\ exec' = exec
      BY <1>4 DEF PatchConfiguration, Status
  <2>2. st' \in State /\ st'.out = st.out /\ st'.calls = st.calls
      BY <1>1, <2>1, WithStatusIs
  <2>3. CASE KillProject \/ ResetBreakers
      BY <1>2, <1>3, <2>3
  <2> QED BY <2>1, <2>2, <2>3
<1> QED BY <1>2, <1>3, <1>4

-----------------------------------------------------------------------------
(* Types                                                                   *)

LEMMA RequestTypes ==
    ASSUME TypeOK, Request PROVE edits' \in 0 .. MaxEdits /\ crashes' = crashes /\ made' = made
BY BoundsAssumption DEF Request, TypeOK

LEMMA TypeIs ==
    ASSUME st \in State, saved \in State, exec \in [Exec -> ExecRecord], made \in 0 .. MaxCalls + 1,
           edits \in 0 .. MaxEdits, crashes \in 0 .. MaxCrashes, raced \in BOOLEAN
    PROVE  TypeOK
BY DEF TypeOK, ExecRecord, Stage

LEMMA TypeInit == ASSUME Init PROVE TypeOK
<1>1. st \in State /\ saved = st
    BY DEF Init, State, Status, Output
<1>2. exec \in [Exec -> ExecRecord]
    BY IdleIs DEF Init
<1>3. /\ made \in 0 .. MaxCalls + 1 /\ edits \in 0 .. MaxEdits /\ crashes \in 0 .. MaxCrashes
      /\ raced \in BOOLEAN
  <2>1. made = 0 /\ edits = 0 /\ crashes = 0
      BY DEF Init
  <2>2. MaxCalls \in Nat /\ MaxEdits \in Nat /\ MaxCrashes \in Nat
      BY BoundsAssumption
  <2>3. made \in 0 .. MaxCalls + 1 /\ edits \in 0 .. MaxEdits /\ crashes \in 0 .. MaxCrashes
      BY <2>1, <2>2
  <2>4. raced \in BOOLEAN
      BY DEF Init
  <2> QED BY <2>3, <2>4
<1> QED BY <1>1, <1>2, <1>3, TypeIs

LEMMA ProceedTypes ==
    ASSUME TypeOK, NEW x \in Exec, Proceed(x)
    PROVE  /\ st' \in State /\ saved' \in State /\ exec' \in [Exec -> ExecRecord]
           /\ made' \in 0 .. MaxCalls + 1
           /\ UNCHANGED <<edits, crashes, raced>>
<1>1. UNCHANGED <<edits, crashes, raced>>
    BY DEF Proceed, NextPhase, EnterUnprepared, EnterDenied, EnterCall, Send, Refused, Raises, Answered,
           AskAgain, Failed, SaveAndEnd, SaveAndGoOn, SaveAndBlock
<1>2. made' \in 0 .. MaxCalls + 1
  <2>1. made \in 0 .. MaxCalls + 1 /\ MaxCalls \in Nat
      BY BoundsAssumption DEF TypeOK
  <2>2. CASE Send(x)
      BY <2>1, <2>2 DEF Send
  <2>3. CASE ~Send(x)
    <3>1. made' = made
        BY <2>3 DEF Proceed, NextPhase, EnterUnprepared, EnterDenied, EnterCall, Refused, Raises, Answered,
                    AskAgain, Failed, SaveAndEnd, SaveAndGoOn, SaveAndBlock
    <3> QED BY <2>1, <3>1
  <2> QED BY <2>2, <2>3
<1>3. st \in State /\ saved \in State /\ exec \in [Exec -> ExecRecord]
    BY Typed
<1>4. ASSUME exec' = [exec EXCEPT ![x] = Idle] PROVE exec' \in [Exec -> ExecRecord]
    BY <1>3, <1>4, IdleIs
<1>5. ASSUME exec' = [exec EXCEPT ![x] = Onward(x)] PROVE exec' \in [Exec -> ExecRecord]
  <2>1. Onward(x) \in ExecRecord
      BY <1>3, OnwardIs
  <2> QED BY <1>3, <1>5, <2>1
<1>6. st' \in State /\ saved' \in State /\ exec' \in [Exec -> ExecRecord]
  <2>1. CASE NextPhase(x)
    <3>1. CASE UNCHANGED <<st, saved>> /\ exec' = [exec EXCEPT ![x] = Onward(x)]
        BY <1>3, <1>5, <3>1
    <3>2. CASE Marks(x, "entering", "running") /\ saved' = st'
        BY <3>2 DEF Marks, Cleared, Moved
    <3> QED BY <2>1, <3>1, <3>2, NextPhaseDoes
  <2>2. CASE EnterUnprepared(x)
      BY <1>3, <2>2, EnterUnpreparedDoes DEF Marks, Cleared, Moved, EnterUnprepared
  <2>3. CASE EnterDenied(x)
      BY <1>3, <2>3, EnterDeniedDoes DEF Marks, Cleared, Moved, EnterDenied
  <2>4. CASE EnterCall(x)
      BY <1>3, <2>4, EnterCallDoes DEF Marks, Cleared, Moved, EnterCall
  <2>5. CASE Send(x)
      BY <1>3, <2>5, SendDoes DEF Goes, Moved, Send
  <2>6. CASE Refused(x)
      BY <1>3, <2>6, RefusedDoes DEF Goes, Moved, Counts, Refused
  <2>7. CASE Raises(x)
      BY <1>3, <1>4, <2>7 DEF Raises
  <2>8. CASE Answered(x)
      BY <1>3, <2>8, AnsweredDoes DEF Goes, Moved, Counts, Answered
  <2>9. CASE AskAgain(x)
      BY <1>3, <2>9, AskAgainDoes DEF Goes, Moved, AskAgain
  <2>10. CASE \E ok \in BOOLEAN : Failed(x, ok)
      BY <1>3, <2>10, FailedDoes DEF Goes, Moved, Counts, Failed
  <2>11. CASE SaveAndEnd(x)
      BY <1>3, <1>4, <2>11 DEF SaveAndEnd
  <2>12. CASE SaveAndGoOn(x)
      BY <1>3, <1>5, <2>12 DEF SaveAndGoOn
  <2>13. CASE SaveAndBlock(x)
      BY <1>4, <2>13, SaveAndBlockDoes DEF Cleared
  <2> QED BY <2>1, <2>2, <2>3, <2>4, <2>5, <2>6, <2>7, <2>8, <2>9, <2>10, <2>11, <2>12, <2>13 DEF Proceed
<1> QED BY <1>1, <1>2, <1>6

LEMMA TypeNext == ASSUME TypeOK, [Next]_vars PROVE TypeOK'
<1>1. /\ st \in State /\ saved \in State /\ exec \in [Exec -> ExecRecord]
      /\ made \in 0 .. MaxCalls + 1 /\ edits \in 0 .. MaxEdits /\ crashes \in 0 .. MaxCrashes
      /\ raced \in BOOLEAN
    BY Typed DEF TypeOK
<1> SUFFICES /\ st' \in State /\ saved' \in State /\ exec' \in [Exec -> ExecRecord]
             /\ made' \in 0 .. MaxCalls + 1 /\ edits' \in 0 .. MaxEdits /\ crashes' \in 0 .. MaxCrashes
             /\ raced' \in BOOLEAN
    BY DEF TypeOK, ExecRecord, Stage, State
<1>2. CASE \E x \in Exec : StartWorkflow(x)
    BY <1>1, <1>2, StartWorkflowDoes DEF Cleared, Moved, StartWorkflow
<1>3. CASE \E x \in Exec : \E p \in Phase : StartManual(x, p)
    BY <1>1, <1>3, StartManualDoes DEF Cleared, Moved, StartManual
<1>4. CASE \E x \in Exec : Proceed(x)
    BY <1>1, <1>4, ProceedTypes
<1>5. CASE KillProject \/ ResetBreakers \/ PatchConfiguration
  <2>1. raced' \in BOOLEAN /\ Request
      BY <1>1, <1>5 DEF KillProject, ResetBreakers, PatchConfiguration, Patch
  <2> QED BY <1>1, <1>5, <2>1, OtherRequests, RequestTypes
<1>6. CASE \E p \in InputOf : PatchInput(p)
  <2>1. raced' \in BOOLEAN /\ Request
      BY <1>1, <1>6 DEF PatchInput, Patch
  <2> QED BY <1>1, <1>6, <2>1, PatchInputDoes, RequestTypes DEF Noted
<1>7. CASE \E p \in Phase : PatchOutput(p)
  <2>1. raced' \in BOOLEAN /\ Request
      BY <1>1, <1>7 DEF PatchOutput, Patch
  <2> QED BY <1>1, <1>7, <2>1, PatchOutputDoes, RequestTypes DEF Noted
<1>8. CASE Crash
  <2>1. exec' \in [Exec -> ExecRecord]
      BY <1>8, IdleIs DEF Crash
  <2> QED BY <1>1, <1>8, <2>1, BoundsAssumption DEF Crash
<1>9. CASE UNCHANGED vars
    BY <1>1, <1>9 DEF vars
<1> QED BY <1>2, <1>3, <1>4, <1>5, <1>6, <1>7, <1>8, <1>9 DEF Next, Operate

\* The state, its snapshot and the tasks keep their types, and no more than one
\* call beyond the cap is ever counted.
THEOREM TypeCorrect == Spec => []TypeOK
<1>1. Init => TypeOK
    BY TypeInit
<1>2. TypeOK /\ [Next]_vars => TypeOK'
    BY TypeNext
<1> QED BY <1>1, <1>2, PTL DEF Spec

-----------------------------------------------------------------------------
(* One execution at a time: the invariant                                  *)

\* Nothing after a phase under way has an output: a start clears it, and patches
\* are refused while a workflow runs.
Ahead(e, s, r) == e.at # "idle" /\ (e.workflow \/ ~r) => \A q \in After(e.phase) : s.out[q] = "none"

\* The runner has marked the phase it executes.
Marked(e, s) == e.workflow /\ e.at \in {"entering", "calling", "sent"} => s.status[e.phase] = "running"

\* What a phase was admitted on is still there.
Prepared(e, s, r) == ~r /\ e.at \in {"calling", "sent"} => PrerequisitesMet(s, e.phase)

\* A task e beside the state s, which is raced or not.
Sound(e, s, r) ==
    /\ e.at = "idle" => ~e.workflow
    /\ e.at # "idle" => e.workflow \/ Manual
    /\ Ahead(e, s, r) /\ Marked(e, s) /\ Prepared(e, s, r)
    /\ ~r => ~e.outdated

Alone      == \A x, y \in Exec : x # y => exec[x].at = "idle" \/ exec[y].at = "idle"
TasksSound == \A x \in Exec : Sound(exec[x], st, raced)

\* Nothing rests on what has been replaced.
Coherent == ~raced => \A p \in Phase : st.out[p] # "outdated" /\ saved.out[p] # "outdated"

\* A call that is out has been allowed for.
Budgeted == crashes = 0 =>
    /\ made <= MaxCalls /\ made <= st.calls + 1
    /\ \A x \in Exec : exec[x].at = "sent" => st.calls < MaxCalls
    /\ made <= st.calls \/ \E x \in Exec : exec[x].at = "sent"

IInv == TypeOK /\ Alone /\ TasksSound /\ Coherent /\ Budgeted

LEMMA StartsAlone ==
    ASSUME OneAtATime, IInv, NEW x \in Exec, exec[x].at = "idle", ~WorkflowActive
    PROVE  \A y \in Exec : exec[y].at = "idle"
BY DEF OneAtATime, IInv, TasksSound, Sound, WorkflowActive

LEMMA WorksAlone ==
    ASSUME IInv, NEW x \in Exec, exec[x].at # "idle"
    PROVE  \A y \in Exec \ {x} : exec[y].at = "idle"
BY DEF IInv, Alone

\* The step of a task that is alone.
LEMMA TaskStep ==
    ASSUME IInv, NEW x \in Exec, \A y \in Exec \ {x} : exec[y].at = "idle",
           NEW e, Moved(x, e), Sound(e, st', raced), raced' = raced
    PROVE  Alone' /\ TasksSound'
<1>1. exec'[x] = e /\ \A y \in Exec \ {x} : exec'[y] = exec[y] /\ exec'[y].at = "idle"
    BY DEF Moved
<1>2. Alone'
    BY <1>1 DEF Alone
<1>3. ASSUME NEW y \in Exec PROVE Sound(exec'[y], st', raced')
  <2>1. CASE y = x
      BY <1>1, <2>1
  <2>2. CASE y # x
    <3>1. exec[y].at = "idle" /\ Sound(exec[y], st, raced) /\ exec'[y] = exec[y]
        BY <1>1, <2>2 DEF IInv, TasksSound
    <3>2. ~exec[y].workflow /\ (~raced => ~exec[y].outdated)
        BY <3>1 DEF Sound
    <3> QED BY <3>1, <3>2 DEF Sound, Ahead, Marked, Prepared
  <2> QED BY <2>1, <2>2
<1>4. TasksSound'
    BY <1>3 DEF TasksSound
<1> QED BY <1>2, <1>4

\* Idle tasks are sound whatever the state is.
LEMMA IdleSound ==
    ASSUME NEW e, e.at = "idle", ~e.workflow, NEW r, r \/ ~e.outdated, NEW s
    PROVE  Sound(e, s, r)
BY DEF Sound, Ahead, Marked, Prepared

\* So the steps of x after which it is idle, or waits for the next phase.
LEMMA EndStep ==
    ASSUME IInv, NEW x \in Exec, exec[x].at # "idle", exec' = [exec EXCEPT ![x] = Idle], raced' = raced
    PROVE  Alone' /\ TasksSound'
<1>1. exec \in [Exec -> ExecRecord]
    BY Typed DEF IInv
<1>2. Moved(x, Idle)
    BY <1>1, IdleIs, MovesAlone
<1>3. Sound(Idle, st', raced)
    BY IdleIs, IdleSound
<1> QED BY <1>2, <1>3, WorksAlone, TaskStep

LEMMA OnwardStep ==
    ASSUME IInv, NEW x \in Exec, exec[x].at # "idle", exec' = [exec EXCEPT ![x] = Onward(x)],
           st' = st, raced' = raced
    PROVE  Alone' /\ TasksSound'
<1>1. exec \in [Exec -> ExecRecord]
    BY Typed DEF IInv
<1>2. Onward(x) \in ExecRecord /\ Moved(x, Onward(x))
    BY <1>1, OnwardIs, MovesAlone
<1>3. CASE Onward(x) = Idle
    BY <1>3, EndStep
<1>4. CASE Onward(x) # Idle
  <2>1. /\ Onward(x).at = "next" /\ Onward(x).workflow = exec[x].workflow
        /\ Onward(x).outdated = exec[x].outdated
        /\ After(Onward(x).phase) \subseteq After(exec[x].phase)
      BY <1>1, <1>4, OnwardIs
  <2>2. Sound(exec[x], st, raced)
      BY DEF IInv, TasksSound
  <2>3. Sound(Onward(x), st, raced)
      BY <2>1, <2>2 DEF Sound, Ahead, Marked, Prepared
  <2> QED BY <1>2, <2>3, WorksAlone, TaskStep
<1> QED BY <1>3, <1>4

\* The steps in which x marks the phase it is busy with.
LEMMA MarkStep ==
    ASSUME IInv, NEW x \in Exec, exec[x].at # "idle", NEW at \in {"entering", "calling", "saving"},
           NEW status, Marks(x, at, status), raced' = raced,
           at \in {"entering", "calling"} => status = "running",
           at = "calling" => PrerequisitesMet(st', exec[x].phase)
    PROVE  Alone' /\ TasksSound'
<1>1. exec[x].phase \in Phase /\ Sound(exec[x], st, raced)
    BY Typed DEF IInv, TasksSound
<1>2. /\ Cleared(st, st', exec[x].phase) /\ st'.status[exec[x].phase] = status
      /\ Moved(x, exec'[x]) /\ exec'[x].at = at
      /\ exec'[x].workflow = exec[x].workflow /\ exec'[x].phase = exec[x].phase
      /\ exec'[x].outdated => exec[x].outdated
    BY DEF Marks
<1>3. Ahead(exec'[x], st', raced)
    BY <1>1, <1>2, Order DEF Sound, Ahead, Cleared
<1>4. Marked(exec'[x], st')
    BY <1>2 DEF Marked
<1>5. Prepared(exec'[x], st', raced)
    BY <1>2 DEF Prepared
<1>6. Sound(exec'[x], st', raced)
    BY <1>1, <1>2, <1>3, <1>4, <1>5 DEF Sound
<1> QED BY <1>2, <1>6, WorksAlone, TaskStep

\* The steps in which the phase of x, and the outputs after it, do not change.
LEMMA GoStep ==
    ASSUME IInv, NEW x \in Exec, exec[x].at # "idle", NEW at \in {"calling", "sent", "saving"},
           Goes(x, at), raced' = raced,
           exec[x].workflow \/ ~raced =>
               \A q \in After(exec[x].phase) : st'.out[q] = st.out[q] \/ st'.out[q] = "none",
           at \in {"calling", "sent"} =>
               exec[x].at \in {"calling", "sent"} /\ st'.out = st.out /\ st'.status = st.status
    PROVE  Alone' /\ TasksSound'
<1>1. exec[x].phase \in Phase /\ Sound(exec[x], st, raced)
    BY Typed DEF IInv, TasksSound
<1>2. /\ Moved(x, exec'[x]) /\ exec'[x].at = at
      /\ exec'[x].workflow = exec[x].workflow /\ exec'[x].phase = exec[x].phase
      /\ exec'[x].outdated = exec[x].outdated
    BY DEF Goes
<1>3. Ahead(exec'[x], st', raced)
    BY <1>1, <1>2 DEF Sound, Ahead
<1>4. Marked(exec'[x], st')
    BY <1>1, <1>2 DEF Sound, Marked
<1>5. Prepared(exec'[x], st', raced)
    BY <1>1, <1>2 DEF Sound, Prepared, PrerequisitesMet, Done
<1>6. Sound(exec'[x], st', raced)
    BY <1>1, <1>2, <1>3, <1>4, <1>5 DEF Sound
<1> QED BY <1>2, <1>6, WorksAlone, TaskStep

LEMMA StartStep ==
    ASSUME OneAtATime, IInv, NEW x \in Exec,
           StartWorkflow(x) \/ \E p \in Phase : StartManual(x, p)
    PROVE  Alone' /\ TasksSound'
<1>1. \A y \in Exec : exec[y].at = "idle"
    BY StartsAlone DEF StartWorkflow, StartManual
<1>2. raced' = raced
    BY DEF StartWorkflow, StartManual
<1>3. CASE StartWorkflow(x)
  <2> DEFINE e == [Idle EXCEPT !.at = "next", !.workflow = TRUE, !.phase = FirstUnfinished(st)]
  <2>1. /\ \A q \in After(FirstUnfinished(st)) : st'.out[q] = "none"
        /\ Moved(x, e) /\ e.at = "next" /\ e.workflow /\ e.phase = FirstUnfinished(st) /\ ~e.outdated
      BY <1>3, StartWorkflowDoes DEF IInv
  <2> HIDE DEF e
  <2>2. Sound(e, st', raced)
      BY <2>1 DEF Sound, Ahead, Marked, Prepared
  <2> QED BY <1>1, <1>2, <2>1, <2>2, TaskStep
<1>4. ASSUME NEW p \in Phase, StartManual(x, p) PROVE Alone' /\ TasksSound'
  <2> DEFINE e == [Idle EXCEPT !.at = "entering", !.phase = p]
  <2>1. /\ \A q \in After(p) : st'.out[q] = "none"
        /\ Moved(x, e) /\ e.at = "entering" /\ ~e.workflow /\ e.phase = p /\ ~e.outdated
      BY <1>4, StartManualDoes DEF IInv
  <2>2. Manual
      BY <1>4 DEF StartManual
  <2> HIDE DEF e
  <2>3. Sound(e, st', raced)
      BY <2>1, <2>2 DEF Sound, Ahead, Marked, Prepared
  <2> QED BY <1>1, <1>2, <2>1, <2>3, TaskStep
<1> QED BY <1>3, <1>4

LEMMA ProceedStep ==
    ASSUME IInv, NEW x \in Exec, Proceed(x)
    PROVE  Alone' /\ TasksSound'
<1>1. TypeOK /\ exec[x].at # "idle" /\ raced' = raced
    BY DEF IInv, Proceed, NextPhase, EnterUnprepared, EnterDenied, EnterCall, Send, Refused, Raises,
           Answered, AskAgain, Failed, SaveAndEnd, SaveAndGoOn, SaveAndBlock
<1>2. CASE NextPhase(x)
  <2>1. CASE UNCHANGED <<st, saved>> /\ exec' = [exec EXCEPT ![x] = Onward(x)]
      BY <1>1, <2>1, OnwardStep
  <2>2. CASE Marks(x, "entering", "running")
      BY <1>1, <2>2, MarkStep
  <2> QED BY <1>1, <1>2, <2>1, <2>2, NextPhaseDoes
<1>3. CASE EnterUnprepared(x)
    BY <1>1, <1>3, EnterUnpreparedDoes, MarkStep
<1>4. CASE EnterDenied(x)
    BY <1>1, <1>4, EnterDeniedDoes, MarkStep
<1>5. CASE EnterCall(x)
    BY <1>1, <1>5, EnterCallDoes, MarkStep
<1>6. CASE Send(x)
  <2>1. Goes(x, "sent") /\ exec[x].at = "calling" /\ st' = st
      BY <1>1, <1>6, SendDoes DEF Send
  <2> QED BY <1>1, <2>1, GoStep
<1>7. CASE Refused(x)
    BY <1>1, <1>7, RefusedDoes, GoStep
<1>8. CASE Raises(x)
    BY <1>1, <1>8, EndStep DEF Raises
<1>9. CASE Answered(x)
  <2>1. Goes(x, "saving")
      BY <1>1, <1>9, AnsweredDoes
  <2>2. ASSUME exec[x].workflow \/ ~raced
        PROVE  \A q \in After(exec[x].phase) : st'.out[q] = st.out[q]
    <3>1. exec[x].phase \in Phase /\ \A q \in After(exec[x].phase) : st.out[q] = "none"
        BY <1>1, <2>2, Typed DEF IInv, TasksSound, Sound, Ahead
    <3>2. \A q \in Phase : q # exec[x].phase => st'.out[q] = st.out[q]
        BY <1>1, <1>9, <3>1, AnsweredDoes
    <3> QED BY <3>1, <3>2, Order
  <2> QED BY <1>1, <2>1, <2>2, GoStep
<1>10. CASE AskAgain(x)
  <2>1. Goes(x, "calling") /\ exec[x].at = "sent" /\ st'.out = st.out /\ st'.status = st.status
      BY <1>1, <1>10, AskAgainDoes DEF AskAgain
  <2> QED BY <1>1, <2>1, GoStep
<1>11. CASE \E ok \in BOOLEAN : Failed(x, ok)
  <2>1. Goes(x, "saving") /\ st'.out = st.out
      BY <1>1, <1>11, FailedDoes
  <2> QED BY <1>1, <2>1, GoStep
<1>12. CASE SaveAndEnd(x)
    BY <1>1, <1>12, EndStep DEF SaveAndEnd
<1>13. CASE SaveAndGoOn(x)
    BY <1>1, <1>13, OnwardStep DEF SaveAndGoOn
<1>14. CASE SaveAndBlock(x)
    BY <1>1, <1>14, EndStep DEF SaveAndBlock
<1> QED BY <1>2, <1>3, <1>4, <1>5, <1>6, <1>7, <1>8, <1>9, <1>10, <1>11, <1>12, <1>13, <1>14 DEF Proceed

\* A task that is busy while something is edited was started by hand.
LEMMA PatchStep ==
    ASSUME IInv, Patch, Noted
    PROVE  Alone' /\ TasksSound'
<1>1. Alone'
    BY DEF IInv, Alone, Noted
<1>2. ASSUME NEW y \in Exec PROVE Sound(exec'[y], st', raced')
  <2>1. Sound(exec[y], st, raced) /\ ~exec[y].workflow
      BY DEF IInv, TasksSound, Patch, WorkflowActive
  <2>2. /\ exec'[y].at = exec[y].at /\ exec'[y].workflow = exec[y].workflow
        /\ exec[y].at = "idle" => exec'[y] = exec[y]
      BY DEF Noted
  <2>3. /\ raced => raced'
        /\ exec[y].at # "idle" => raced'
      BY DEF Patch
  <2>4. CASE exec[y].at = "idle"
      BY <2>1, <2>2, <2>3, <2>4, IdleSound DEF Sound
  <2>5. CASE exec[y].at # "idle"
      BY <2>1, <2>2, <2>3, <2>5 DEF Sound, Ahead, Marked, Prepared
  <2> QED BY <2>4, <2>5
<1>3. TasksSound'
    BY <1>2 DEF TasksSound
<1> QED BY <1>1, <1>3

LEMMA OperateStep ==
    ASSUME IInv, Operate
    PROVE  Alone' /\ TasksSound'
<1>1. TypeOK /\ \A x \in Exec : Sound(exec[x], st, raced)
    BY DEF IInv, TasksSound
<1>2. CASE KillProject \/ ResetBreakers
  <2>1. exec' = exec /\ raced' = raced /\ st'.out = st.out /\ st'.status = st.status
      BY <1>1, <1>2, OtherRequests DEF KillProject, ResetBreakers
  <2>2. ASSUME NEW y \in Exec PROVE Sound(exec'[y], st', raced')
      BY <1>1, <2>1 DEF Sound, Ahead, Marked, Prepared, PrerequisitesMet, Done
  <2>3. Alone'
      BY <2>1 DEF IInv, Alone
  <2> QED BY <2>2, <2>3 DEF TasksSound
<1>3. CASE PatchConfiguration
  <2>1. exec' = exec /\ exec \in [Exec -> ExecRecord] /\ Patch
      BY <1>1, <1>3, OtherRequests, Typed DEF PatchConfiguration
  <2>2. Noted
      BY <2>1 DEF Noted
  <2> QED BY <2>1, <2>2, PatchStep
<1>4. CASE \E p \in InputOf : PatchInput(p)
    BY <1>1, <1>4, PatchInputDoes, PatchStep DEF PatchInput
<1>5. CASE \E p \in Phase : PatchOutput(p)
    BY <1>1, <1>5, PatchOutputDoes, PatchStep DEF PatchOutput
<1> QED BY <1>2, <1>3, <1>4, <1>5 DEF Operate

LEMMA TasksStep ==
    ASSUME OneAtATime, IInv, [Next]_vars
    PROVE  Alone' /\ TasksSound'
<1>1. CASE Crash
  <2>1. \A y \in Exec : exec'[y] = Idle
      BY <1>1 DEF Crash
  <2>2. Alone'
      BY <2>1, IdleIs DEF Alone
  <2>3. Sound(Idle, st', raced')
      BY IdleIs, IdleSound
  <2>4. \A y \in Exec : Sound(exec'[y], st', raced')
      BY <2>1, <2>3
  <2> QED BY <2>2, <2>4 DEF TasksSound
<1>2. CASE UNCHANGED vars
    BY <1>2 DEF vars, IInv, Alone, TasksSound
<1> QED BY <1>1, <1>2, StartStep, ProceedStep, OperateStep DEF Next

-----------------------------------------------------------------------------
(* Coherence                                                               *)

LEMMA ClearedCoherent ==
    ASSUME NEW s, NEW t, NEW p, Cleared(s, t, p), \A q \in Phase : s.out[q] # "outdated"
    PROVE  \A q \in Phase : t.out[q] # "outdated"
BY DEF Cleared

LEMMA CoherentStep ==
    ASSUME IInv, [Next]_vars
    PROVE  Coherent'
<1> SUFFICES ASSUME ~raced'
             PROVE  \A q \in Phase : st'.out[q] # "outdated" /\ saved'.out[q] # "outdated"
    BY DEF Coherent
<1>1. ~raced
    BY DEF Next, StartWorkflow, StartManual, Proceed, NextPhase, EnterUnprepared, EnterDenied, EnterCall,
           Send, Refused, Raises, Answered, AskAgain, Failed, SaveAndEnd, SaveAndGoOn, SaveAndBlock,
           Operate, KillProject, ResetBreakers, PatchConfiguration, PatchInput, PatchOutput, Patch,
           Crash, vars
<1>2. TypeOK /\ \A q \in Phase : st.out[q] # "outdated" /\ saved.out[q] # "outdated"
    BY <1>1 DEF IInv, Coherent
<1>3. CASE \E x \in Exec : StartWorkflow(x)
    BY <1>2, <1>3, StartWorkflowDoes, ClearedCoherent
<1>4. CASE \E x \in Exec : \E p \in Phase : StartManual(x, p)
  <2>1. PICK x \in Exec, p \in Phase : StartManual(x, p)
      BY <1>4
  <2>2. saved' = saved
      BY <2>1 DEF StartManual
  <2>3. Cleared(st, st', p)
      BY <1>2, <2>1, StartManualDoes
  <2> QED BY <1>2, <2>2, <2>3, ClearedCoherent
<1>5. ASSUME NEW x \in Exec, Proceed(x)
      PROVE  \A q \in Phase : st'.out[q] # "outdated" /\ saved'.out[q] # "outdated"
  <2>1. CASE NextPhase(x)
      BY <1>2, <2>1, NextPhaseDoes
  <2>2. CASE EnterUnprepared(x)
    <3>1. saved' = saved
        BY <2>2 DEF EnterUnprepared
    <3>2. Cleared(st, st', exec[x].phase)
        BY <1>2, <2>2, EnterUnpreparedDoes DEF Marks
    <3> QED BY <1>2, <3>1, <3>2, ClearedCoherent
  <2>3. CASE EnterDenied(x)
    <3>1. saved' = saved
        BY <2>3 DEF EnterDenied
    <3>2. Cleared(st, st', exec[x].phase)
        BY <1>2, <2>3, EnterDeniedDoes DEF Marks
    <3> QED BY <1>2, <3>1, <3>2, ClearedCoherent
  <2>4. CASE EnterCall(x)
    <3>1. saved' = saved
        BY <2>4 DEF EnterCall
    <3>2. Cleared(st, st', exec[x].phase)
        BY <1>2, <2>4, EnterCallDoes DEF Marks
    <3> QED BY <1>2, <3>1, <3>2, ClearedCoherent
  <2>5. CASE Send(x)
      BY <1>2, <2>5 DEF Send
  <2>6. CASE Refused(x)
      BY <1>2, <2>6, RefusedDoes DEF Refused
  <2>7. CASE Raises(x)
      BY <1>2, <2>7 DEF Raises
  <2>8. CASE Answered(x)
    <3>1. exec[x].phase \in Phase /\ Sound(exec[x], st, raced) /\ exec[x].at = "sent"
        BY <1>2, <2>8, Typed DEF IInv, TasksSound, Answered
    <3>2. ~exec[x].outdated /\ \A q \in After(exec[x].phase) : st.out[q] = "none"
        BY <1>1, <3>1 DEF Sound, Ahead
    <3>3. st'.out[exec[x].phase] = "current" /\ \A q \in Phase : q # exec[x].phase => st'.out[q] = st.out[q]
        BY <1>2, <2>8, <3>2, AnsweredDoes
    <3> QED BY <1>2, <2>8, <3>3 DEF Answered
  <2>9. CASE AskAgain(x)
      BY <1>2, <2>9, AskAgainDoes DEF AskAgain
  <2>10. CASE \E ok \in BOOLEAN : Failed(x, ok)
      BY <1>2, <2>10, FailedDoes DEF Failed
  <2>11. CASE SaveAndEnd(x)
      BY <1>2, <2>11 DEF SaveAndEnd
  <2>12. CASE SaveAndGoOn(x)
      BY <1>2, <2>12 DEF SaveAndGoOn
  <2>13. CASE SaveAndBlock(x)
      BY <1>2, <2>13, SaveAndBlockDoes
  <2> QED BY <1>5, <2>1, <2>2, <2>3, <2>4, <2>5, <2>6, <2>7, <2>8, <2>9, <2>10, <2>11, <2>12, <2>13 DEF Proceed
<1>6. CASE KillProject \/ ResetBreakers \/ PatchConfiguration
    BY <1>2, <1>6, OtherRequests
<1>7. CASE \E p \in InputOf : PatchInput(p)
    BY <1>2, <1>7, PatchInputDoes
<1>8. CASE \E p \in Phase : PatchOutput(p)
    BY <1>2, <1>8, PatchOutputDoes
<1>9. CASE Crash
    BY <1>2, <1>9 DEF Crash
<1>10. CASE UNCHANGED vars
    BY <1>2, <1>10 DEF vars
<1> QED BY <1>3, <1>4, <1>5, <1>6, <1>7, <1>8, <1>9, <1>10 DEF Next, Operate

-----------------------------------------------------------------------------
(* The budget                                                              *)

\* What a step of the alone x may do: nothing, send a call the gate admits, or
\* count one.
LEMMA BudgetStep ==
    ASSUME IInv, [Next]_vars
    PROVE  Budgeted'
<1> SUFFICES ASSUME crashes' = 0
             PROVE  /\ made' <= MaxCalls /\ made' <= st'.calls + 1
                    /\ \A y \in Exec : exec'[y].at = "sent" => st'.calls < MaxCalls
                    /\ made' <= st'.calls \/ \E y \in Exec : exec'[y].at = "sent"
    BY DEF Budgeted
<1>1. /\ TypeOK /\ MaxCalls \in Nat /\ made \in 0 .. MaxCalls + 1 /\ st.calls \in Nat
      /\ crashes \in Nat
    BY Typed, BoundsAssumption DEF IInv, TypeOK, State
<1>2. ~Crash
    BY <1>1 DEF Crash
<1>3. crashes = 0
    BY <1>2 DEF Next, StartWorkflow, StartManual, Proceed, NextPhase, EnterUnprepared, EnterDenied,
           EnterCall, Send, Refused, Raises, Answered, AskAgain, Failed, SaveAndEnd, SaveAndGoOn,
           SaveAndBlock, Operate, KillProject, ResetBreakers, PatchConfiguration, PatchInput,
           PatchOutput, Patch, Request, vars
<1>4. /\ made <= MaxCalls /\ made <= st.calls + 1
      /\ \A y \in Exec : exec[y].at = "sent" => st.calls < MaxCalls
      /\ made <= st.calls \/ \E y \in Exec : exec[y].at = "sent"
    BY <1>3 DEF IInv, Budgeted
<1> DEFINE Goal == /\ made' <= MaxCalls /\ made' <= st'.calls + 1
                   /\ \A y \in Exec : exec'[y].at = "sent" => st'.calls < MaxCalls
                   /\ made' <= st'.calls \/ \E y \in Exec : exec'[y].at = "sent"
\* Nothing is sent or counted.
<1>5. ASSUME made' = made, st'.calls = st.calls,
             \A y \in Exec : exec[y].at = "sent" <=> exec'[y].at = "sent"
      PROVE  Goal
    BY <1>4, <1>5
\* The call of x is counted.
<1>6. ASSUME NEW x \in Exec, exec[x].at = "sent", made' = made, st'.calls = st.calls + 1,
             NEW at \in Stage \ {"sent"}, Goes(x, at)
      PROVE  Goal
  <2>1. \A y \in Exec : exec'[y].at # "sent"
      BY <1>6, WorksAlone DEF Goes, Moved
  <2> QED BY <1>1, <1>4, <1>6, <2>1
\* A call that is not out is counted.
<1>7. ASSUME NEW x \in Exec, exec[x].at = "calling", made' = made, st'.calls = st.calls + 1,
             Goes(x, "saving")
      PROVE  Goal
  <2>1. \A y \in Exec : exec[y].at # "sent" /\ exec'[y].at # "sent"
      BY <1>7, WorksAlone DEF Goes, Moved
  <2> QED BY <1>1, <1>4, <1>7, <2>1
<1>8. ASSUME NEW x \in Exec, NEW at \in {"entering", "calling", "saving"}, NEW status,
             exec[x].at # "sent", made' = made, Marks(x, at, status)
      PROVE  Goal
  <2>1. \A y \in Exec : exec[y].at = "sent" <=> exec'[y].at = "sent"
      BY <1>8 DEF Marks, Moved
  <2>2. st'.calls = st.calls
      BY <1>8 DEF Marks, Cleared
  <2> QED BY <1>5, <1>8, <2>1, <2>2
<1>9. ASSUME NEW x \in Exec, NEW e \in ExecRecord, exec[x].at # "sent", e.at # "sent",
             made' = made, st'.calls = st.calls, exec' = [exec EXCEPT ![x] = e]
      PROVE  Goal
  <2>1. \A y \in Exec : exec[y].at = "sent" <=> exec'[y].at = "sent"
      BY <1>1, <1>9, Typed
  <2> QED BY <1>5, <1>9, <2>1
<1>10. ASSUME NEW x \in Exec, Proceed(x) PROVE Goal
  <2>1. CASE NextPhase(x)
    <3>1. made' = made /\ exec[x].at = "next"
        BY <2>1 DEF NextPhase
    <3>2. CASE UNCHANGED <<st, saved>> /\ exec' = [exec EXCEPT ![x] = Onward(x)]
      <4>1. Onward(x) \in ExecRecord /\ Onward(x).at # "sent"
          BY <1>1, Typed, OnwardIs, IdleIs
      <4> QED BY <1>9, <3>1, <3>2, <4>1
    <3>3. CASE Marks(x, "entering", "running")
        BY <1>8, <3>1, <3>3
    <3> QED BY <1>1, <2>1, <3>2, <3>3, NextPhaseDoes
  <2>2. CASE EnterUnprepared(x)
    <3>1. made' = made /\ exec[x].at # "sent"
        BY <2>2 DEF EnterUnprepared
    <3> QED BY <1>1, <1>8, <2>2, <3>1, EnterUnpreparedDoes
  <2>3. CASE EnterDenied(x)
    <3>1. made' = made /\ exec[x].at # "sent"
        BY <2>3 DEF EnterDenied
    <3> QED BY <1>1, <1>8, <2>3, <3>1, EnterDeniedDoes
  <2>4. CASE EnterCall(x)
    <3>1. made' = made /\ exec[x].at # "sent"
        BY <2>4 DEF EnterCall
    <3> QED BY <1>1, <1>8, <2>4, <3>1, EnterCallDoes
  <2>5. CASE Send(x)
    <3>1. Goes(x, "sent") /\ exec[x].at = "calling" /\ st' = st /\ st.calls < MaxCalls
        BY <1>1, <2>5, SendDoes DEF Send, GateOpen
    <3>2. \A y \in Exec : exec[y].at # "sent"
        BY <3>1, WorksAlone
    <3>3. made <= st.calls
        BY <1>4, <3>2
    <3>4. made' = made + 1
        BY <1>1, <1>4, <2>5 DEF Send
    <3>5. exec'[x].at = "sent"
        BY <3>1 DEF Goes
    <3> QED BY <1>1, <3>1, <3>3, <3>4, <3>5
  <2>6. CASE Refused(x)
    <3>1. made' = made /\ exec[x].at = "calling"
        BY <2>6 DEF Refused
    <3> QED BY <1>1, <1>7, <2>6, <3>1, RefusedDoes DEF Counts
  <2>7. CASE Raises(x)
    <3>1. made' = made /\ st' = st /\ exec[x].at = "calling" /\ exec' = [exec EXCEPT ![x] = Idle]
        BY <2>7 DEF Raises
    <3> QED BY <1>9, <3>1, IdleIs
  <2>8. CASE Answered(x)
    <3>1. made' = made /\ exec[x].at = "sent" /\ "saving" \in Stage \ {"sent"}
        BY <2>8 DEF Answered, Stage
    <3> QED BY <1>1, <1>6, <2>8, <3>1, AnsweredDoes DEF Counts
  <2>9. CASE AskAgain(x)
    <3>1. made' = made /\ exec[x].at = "sent" /\ "calling" \in Stage \ {"sent"}
        BY <2>9 DEF AskAgain, Stage
    <3> QED BY <1>1, <1>6, <2>9, <3>1, AskAgainDoes
  <2>10. CASE \E ok \in BOOLEAN : Failed(x, ok)
    <3>1. PICK ok \in BOOLEAN : Failed(x, ok)
        BY <2>10
    <3>2. made' = made /\ exec[x].at = "sent" /\ "saving" \in Stage \ {"sent"}
        BY <3>1 DEF Failed, Stage
    <3> QED BY <1>1, <1>6, <3>1, <3>2, FailedDoes DEF Counts
  <2>11. CASE SaveAndEnd(x)
    <3>1. made' = made /\ st' = st /\ exec[x].at = "saving" /\ exec' = [exec EXCEPT ![x] = Idle]
        BY <2>11 DEF SaveAndEnd
    <3> QED BY <1>9, <3>1, IdleIs
  <2>12. CASE SaveAndGoOn(x)
    <3>1. made' = made /\ st' = st /\ exec[x].at = "saving" /\ exec' = [exec EXCEPT ![x] = Onward(x)]
        BY <2>12 DEF SaveAndGoOn
    <3>2. Onward(x) \in ExecRecord /\ Onward(x).at # "sent"
        BY <1>1, Typed, OnwardIs, IdleIs
    <3> QED BY <1>9, <3>1, <3>2
  <2>13. CASE SaveAndBlock(x)
    <3>1. made' = made /\ exec[x].at = "saving"
        BY <2>13 DEF SaveAndBlock
    <3>2. st'.calls = st.calls /\ exec' = [exec EXCEPT ![x] = Idle]
        BY <1>1, <2>13, SaveAndBlockDoes DEF Cleared
    <3> QED BY <1>9, <3>1, <3>2, IdleIs
  <2> QED BY <1>10, <2>1, <2>2, <2>3, <2>4, <2>5, <2>6, <2>7, <2>8, <2>9, <2>10, <2>11, <2>12, <2>13 DEF Proceed
<1>11. ASSUME NEW x \in Exec, StartWorkflow(x) PROVE Goal
  <2>1. made' = made /\ exec[x].at = "idle"
      BY <1>11 DEF StartWorkflow
  <2> DEFINE e == [Idle EXCEPT !.at = "next", !.workflow = TRUE, !.phase = FirstUnfinished(st)]
  <2>2. Moved(x, e) /\ e.at = "next" /\ st'.calls = st.calls
      BY <1>1, <1>11, StartWorkflowDoes DEF Cleared
  <2> HIDE DEF e
  <2>3. \A y \in Exec : exec[y].at = "sent" <=> exec'[y].at = "sent"
      BY <2>1, <2>2 DEF Moved
  <2> QED BY <1>5, <2>1, <2>2, <2>3
<1>12. ASSUME NEW x \in Exec, NEW p \in Phase, StartManual(x, p) PROVE Goal
  <2>1. made' = made /\ exec[x].at = "idle"
      BY <1>12 DEF StartManual
  <2> DEFINE e == [Idle EXCEPT !.at = "entering", !.phase = p]
  <2>2. Moved(x, e) /\ e.at = "entering" /\ st'.calls = st.calls
      BY <1>1, <1>12, StartManualDoes DEF Cleared
  <2> HIDE DEF e
  <2>3. \A y \in Exec : exec[y].at = "sent" <=> exec'[y].at = "sent"
      BY <2>1, <2>2 DEF Moved
  <2> QED BY <1>5, <2>1, <2>2, <2>3
<1>13. CASE Operate
  <2>1. made' = made
      BY <1>13 DEF Operate, KillProject, ResetBreakers, PatchConfiguration, PatchInput, PatchOutput,
             Patch, Request
  <2>2. st'.calls = st.calls /\ \A y \in Exec : exec'[y].at = exec[y].at
      BY <1>1, <1>13, OtherRequests, PatchInputDoes, PatchOutputDoes DEF Operate, Noted
  <2> QED BY <1>5, <2>1, <2>2
<1>14. CASE UNCHANGED vars
    BY <1>5, <1>14 DEF vars
<1> QED BY <1>2, <1>10, <1>11, <1>12, <1>13, <1>14 DEF Next

LEMMA Initial == ASSUME Init PROVE IInv
<1>1. TypeOK
    BY TypeInit
<1>2. \A x \in Exec : exec[x] = Idle
    BY DEF Init
<1>3. Sound(Idle, st, raced)
    BY IdleIs, IdleSound
<1>4. Alone /\ TasksSound
    BY <1>2, <1>3, IdleIs DEF Alone, TasksSound
<1>5. Coherent
    BY DEF Init, Coherent
<1>6. Budgeted
  <2>1. made = 0 /\ st.calls = 0 /\ MaxCalls \in Nat /\ \A x \in Exec : exec[x].at = "idle"
      BY <1>2, IdleIs, BoundsAssumption DEF Init
  <2> QED BY <2>1 DEF Budgeted
<1> QED BY <1>1, <1>4, <1>5, <1>6 DEF IInv

LEMMA Inductive == ASSUME OneAtATime, IInv, [Next]_vars PROVE IInv'
<1>1. TypeOK'
    BY TypeNext DEF IInv
<1> QED BY <1>1, TasksStep, CoherentStep, BudgetStep DEF IInv

LEMMA Always == ASSUME OneAtATime PROVE Spec => []IInv
<1>1. Init => IInv
    BY Initial
<1>2. IInv /\ [Next]_vars => IInv'
    BY Inductive
<1> QED BY <1>1, <1>2, PTL DEF Spec

(* As long as nothing is edited while a phase is run by hand, an analysis  *)
(* that counts as complete rests on its inputs and outputs as they are     *)
(* (UndisturbedIsCoherent): nothing under way can be overtaken, for what   *)
(* comes after it has been cleared.                                        *)
THEOREM Undisturbed == ASSUME OneAtATime PROVE Spec => []UndisturbedIsCoherent
<1>1. ASSUME IInv PROVE UndisturbedIsCoherent
  <2> SUFFICES ASSUME ~raced, Complete(st), NEW p \in Phase PROVE st.out[p] = "current"
      BY DEF UndisturbedIsCoherent, CompleteIsCoherent
  <2>1. st.out[p] \in Output /\ st.out[p] # "outdated"
      BY <1>1, Typed DEF IInv, Coherent, State
  <2>2. st.out[p] # "none"
      BY DEF Complete, Unfinished, Done
  <2> QED BY <2>1, <2>2 DEF Output
<1> QED BY <1>1, Always, PTL

(* No more calls are made than the budget allows, until a crash forgets    *)
(* one (CallsWithinCap): the gate is asked before each, and the one that   *)
(* is out, which is not counted yet, is alone.                             *)
THEOREM Capped == ASSUME OneAtATime PROVE Spec => []CallsWithinCap
<1>1. IInv => CallsWithinCap
    BY DEF IInv, Budgeted, CallsWithinCap
<1> QED BY <1>1, Always, PTL

(* A phase completes on the prerequisites it was admitted on               *)
(* (CompletedOnPrerequisites).                                             *)
THEOREM OnPrerequisites == ASSUME OneAtATime PROVE Spec => CompletedOnPrerequisites
<1>1. ASSUME IInv
      PROVE  \A x \in Exec : ~raced /\ exec[x].at = "sent" /\ exec'[x].at = "saving"
                 /\ st'.status[exec[x].phase] = "completed"
               => \A q \in Prerequisites(exec[x].phase) : Done(st, q)
    BY <1>1 DEF IInv, TasksSound, Sound, Prepared, PrerequisitesMet
<1> QED BY <1>1, Always, PTL DEF CompletedOnPrerequisites

-----------------------------------------------------------------------------
(* Finished work                                                           *)

\* A step at a phase that is not finished leaves all that is settled: it comes
\* before that phase.
LEMMA SettledBefore ==
    ASSUME NEW s, NEW t, NEW p \in Phase, NEW q \in Phase, ~Done(s, p), Settled(s, q),
           \A r \in Before(p) : Done(t, r) = Done(s, r)
    PROVE  Settled(t, q)
<1>1. q # p /\ p \notin Before(q)
    BY DEF Settled
<1>2. q \in Before(p)
    BY <1>1, Order
<1>3. Before(q) \subseteq Before(p)
    BY <1>2, Order
<1> QED BY <1>2, <1>3 DEF Settled

\* While a workflow runs phase p, nothing is settled that does not come before p.
LEMMA RunningUnfinished ==
    ASSUME IInv, NEW x \in Exec, exec[x].workflow, exec[x].at \in {"entering", "calling", "sent"}
    PROVE  ~Done(st, exec[x].phase)
BY DEF IInv, TasksSound, Sound, Marked, Done

LEMMA SurvivesStart ==
    ASSUME IInv, NEW x \in Exec, NEW q \in Phase, StartWorkflow(x), Settled(st, q)
    PROVE  Settled(st', q) /\ Settled(saved', q)
<1> DEFINE p == FirstUnfinished(st)
<1>1. p \in Phase /\ ~Done(st, p) /\ Cleared(st, st', p) /\ saved' = st'
    BY StartWorkflowDoes DEF IInv
<1> HIDE DEF p
<1>2. Settled(st', q)
    BY <1>1, ClearedDone, SettledBefore
<1> QED BY <1>1, <1>2

\* So a workflow's phase under way may be marked, counted or replaced.
LEMMA SurvivesMark ==
    ASSUME IInv, NEW x \in Exec, NEW q \in Phase, Settled(st, q), ~Done(st, exec[x].phase),
           NEW at, NEW status, Marks(x, at, status)
    PROVE  Settled(st', q)
<1>1. exec[x].phase \in Phase /\ Cleared(st, st', exec[x].phase)
    BY Typed DEF IInv, Marks
<1> QED BY <1>1, ClearedDone, SettledBefore

LEMMA SurvivesCount ==
    ASSUME IInv, NEW x \in Exec, NEW q \in Phase, Settled(st, q), ~Done(st, exec[x].phase),
           NEW status, Counts(x, status),
           \A r \in Phase : r # exec[x].phase => st'.out[r] = st.out[r]
    PROVE  Settled(st', q)
<1>1. exec[x].phase \in Phase
    BY Typed DEF IInv
<1>2. \A r \in Before(exec[x].phase) : Done(st', r) = Done(st, r)
    BY <1>1, Order DEF Counts, Done
<1> QED BY <1>1, <1>2, SettledBefore

LEMMA SurvivesProceed ==
    ASSUME IInv, NEW x \in Exec, NEW q \in Phase, Proceed(x), ~ByHand, ~Leaving(q),
           Settled(st, q), Settled(saved, q)
    PROVE  Settled(st', q) /\ Settled(saved', q)
<1>1. TypeOK /\ exec[x].phase \in Phase /\ Sound(exec[x], st, raced)
    BY Typed DEF IInv, TasksSound
\* A task that stays busy is a workflow's.
<1>2. ASSUME exec'[x].at # "idle", exec'[x].workflow = exec[x].workflow
      PROVE  exec[x].workflow
    BY <1>2 DEF ByHand
<1>3. ASSUME exec[x].at \in {"entering", "calling", "sent"}, exec'[x].at # "idle",
             exec'[x].workflow = exec[x].workflow
      PROVE  ~Done(st, exec[x].phase)
    BY <1>2, <1>3, RunningUnfinished
<1>4. CASE NextPhase(x)
  <2>1. CASE UNCHANGED <<st, saved>>
      BY <2>1
  <2>2. CASE ~Done(st, exec[x].phase) /\ Marks(x, "entering", "running") /\ saved' = st'
      BY <2>2, SurvivesMark
  <2> QED BY <1>1, <1>4, <2>1, <2>2, NextPhaseDoes
<1>5. ASSUME EnterUnprepared(x) \/ EnterDenied(x) \/ EnterCall(x)
      PROVE  Settled(st', q) /\ Settled(saved', q)
  <2>1. saved' = saved /\ exec[x].at = "entering"
      BY <1>5 DEF EnterUnprepared, EnterDenied, EnterCall
  <2>2. PICK at \in {"calling", "saving"}, status \in Status : Marks(x, at, status)
    <3>1. "failed" \in Status /\ "running" \in Status
        BY DEF Status
    <3> QED BY <1>1, <1>5, <3>1, EnterUnpreparedDoes, EnterDeniedDoes, EnterCallDoes
  <2>3. ~Done(st, exec[x].phase)
      BY <1>3, <2>1, <2>2 DEF Marks
  <2> QED BY <2>1, <2>2, <2>3, SurvivesMark
<1>6. CASE Send(x) \/ Raises(x)
    BY <1>6 DEF Send, Raises
<1>7. CASE Refused(x) \/ \E ok \in BOOLEAN : Failed(x, ok)
  <2>1. saved' = saved /\ exec[x].at \in {"calling", "sent"}
      BY <1>7 DEF Refused, Failed
  <2>2. Counts(x, "failed") /\ st'.out = st.out /\ Goes(x, "saving")
      BY <1>1, <1>7, RefusedDoes, FailedDoes
  <2>3. ~Done(st, exec[x].phase)
      BY <1>3, <2>1, <2>2 DEF Goes
  <2> QED BY <2>1, <2>2, <2>3, SurvivesCount
<1>8. CASE Answered(x)
  <2>1. saved' = saved /\ exec[x].at = "sent"
      BY <1>8 DEF Answered
  <2>2. Counts(x, "completed") /\ Goes(x, "saving")
      BY <1>1, <1>8, AnsweredDoes
  <2>3. exec[x].workflow
      BY <1>2, <2>2 DEF Goes
  <2>4. \A r \in After(exec[x].phase) : st.out[r] = "none"
      BY <1>1, <2>1, <2>3 DEF Sound, Ahead
  <2>5. \A r \in Phase : r # exec[x].phase => st'.out[r] = st.out[r]
      BY <1>1, <1>8, <2>4, AnsweredDoes
  <2>6. ~Done(st, exec[x].phase)
      BY <2>1, <2>3, RunningUnfinished
  <2> QED BY <2>1, <2>2, <2>5, <2>6, SurvivesCount
<1>9. CASE AskAgain(x)
  <2>1. saved' = saved /\ st'.out = st.out /\ st'.status = st.status
      BY <1>1, <1>9, AskAgainDoes DEF AskAgain
  <2> QED BY <2>1 DEF Settled, Done
<1>10. CASE SaveAndEnd(x) \/ SaveAndGoOn(x)
    BY <1>10 DEF SaveAndEnd, SaveAndGoOn
\* The gate fails the phase x leaves; what comes after it has no output.
<1>11. CASE SaveAndBlock(x)
  <2>1. exec[x].at = "saving" /\ exec[x].workflow
      BY <1>11 DEF SaveAndBlock
  <2>2. /\ st'.out = st.out /\ saved' = st'
        /\ \A r \in Phase : r # exec[x].phase => st'.status[r] = st.status[r]
      BY <1>1, <1>11, SaveAndBlockDoes
  <2>3. q # exec[x].phase
      BY <2>1 DEF Leaving
  <2>4. q \notin After(exec[x].phase)
    <3>1. \A r \in After(exec[x].phase) : st.out[r] = "none"
        BY <1>1, <2>1 DEF Sound, Ahead
    <3> QED BY <3>1 DEF Settled, Done
  <2>5. exec[x].phase \notin {q} \cup Before(q)
      BY <1>1, <2>3, <2>4, Order
  <2>6. \A r \in {q} \cup Before(q) : r \in Phase /\ r # exec[x].phase
      BY <2>5, Order
  <2> QED BY <2>2, <2>6 DEF Settled, Done
<1> QED BY <1>4, <1>5, <1>6, <1>7, <1>8, <1>9, <1>10, <1>11 DEF Proceed

LEMMA SurvivesNext ==
    ASSUME IInv, [Next]_vars, edits' = edits, ~ByHand, NEW q \in Phase,
           Settled(st, q), Settled(saved, q), ~Leaving(q)
    PROVE  Settled(st', q) /\ Settled(saved', q)
<1>1. ~Operate
  <2>1. edits \in Nat
      BY BoundsAssumption DEF IInv, TypeOK
  <2>2. Operate => edits' = edits + 1
      BY DEF Operate, KillProject, ResetBreakers, PatchConfiguration, PatchInput, PatchOutput, Patch, Request
  <2> QED BY <2>1, <2>2
<1>2. ASSUME NEW x \in Exec, NEW p \in Phase, StartManual(x, p) PROVE FALSE
  <2> DEFINE e == [Idle EXCEPT !.at = "entering", !.phase = p]
  <2>1. Moved(x, e) /\ e.at = "entering" /\ ~e.workflow
      BY <1>2, StartManualDoes DEF IInv
  <2> HIDE DEF e
  <2>2. exec'[x].at # "idle" /\ ~exec'[x].workflow
      BY <2>1 DEF Moved
  <2> QED BY <2>2 DEF ByHand
<1>3. CASE Crash
    BY <1>3 DEF Crash
<1>4. CASE UNCHANGED vars
    BY <1>4 DEF vars
<1> QED BY <1>1, <1>2, <1>3, <1>4, SurvivesStart, SurvivesProceed DEF Next

(* Work that is finished and saved, with all before it, is done only once  *)
(* (FinishedWorkSurvives): a run starts at the first unfinished phase,     *)
(* what it executes has been marked as running, and before the gate at a   *)
(* phase's exit nothing after the phase is there to be lost.               *)
THEOREM Survives == ASSUME OneAtATime PROVE Spec => FinishedWorkSurvives
<1>1. IInv /\ [Next]_vars =>
        [edits' = edits /\ ~ByHand =>
          \A p \in Phase : Settled(st, p) /\ Settled(saved, p) /\ ~Leaving(p)
                            => Settled(st', p) /\ Settled(saved', p)]_vars
    BY SurvivesNext
<1> QED BY <1>1, Always, PTL DEF Spec, FinishedWorkSurvives

=============================================================================
