--------------------------- MODULE CurrentAnalysis ---------------------------
(***************************************************************************)
(* What decision-state coherence promises of a project, whatever runs,     *)
(* retries and crashes happen underneath: the accepted analyses of a       *)
(* project form one line, each naming the analysis it replaced, and the    *)
(* current analysis is the end of that line.  AnalysisGenerations is the   *)
(* protocol that implements it.                                            *)
(***************************************************************************)
CONSTANTS Project,       \* projects: each has one primary decision
          Id,            \* identities of analysis generations
          None           \* no generation

VARIABLES cur,           \* the current generation of each project
          accepted,      \* the generations accepted for each project
          pred           \* the generation that an accepted one replaced

Init ==
    /\ cur      = [p \in Project |-> None]
    /\ accepted = [p \in Project |-> {}]
    /\ pred     = [g \in Id |-> None]

\* g replaces the current analysis of p, and nothing else changes.
Accept(p, g) ==
    /\ \A q \in Project : g \notin accepted[q]
    /\ cur'      = [cur EXCEPT ![p] = g]
    /\ accepted' = [accepted EXCEPT ![p] = @ \cup {g}]
    /\ pred'     = [pred EXCEPT ![g] = cur[p]]

\* Deleting a project forgets its analyses all at once.
Forget(p) ==
    /\ cur'      = [cur EXCEPT ![p] = None]
    /\ accepted' = [accepted EXCEPT ![p] = {}]
    /\ pred'     = [g \in Id |-> IF g \in accepted[p] THEN None ELSE pred[g]]

Next == \E p \in Project : Forget(p) \/ \E g \in Id : Accept(p, g)

vars == <<cur, accepted, pred>>

Spec == Init /\ [][Next]_vars
=============================================================================
