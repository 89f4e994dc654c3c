------------------------------ MODULE EvidenceUse ------------------------------
(***************************************************************************)
(* The analysis that consumes the pack of EvidenceLedger while operators   *)
(* go on recording (mas/research_evidence_context.py and run_phase_node):  *)
(* audit and strategy, run and run again, read what is authorized, are     *)
(* shown it, attest it as an input and log it; the report resolves its     *)
(* references in a register of what has been logged.  One phase at a time; *)
(* the prerequisites of audit are complete.                                *)
(***************************************************************************)
EXTENDS EvidenceLedger

CONSTANT ClaimLimit   \* _ATTESTATION_CLAIM_LIMIT

ASSUME ClaimLimitAssumption ==
    ClaimLimit \in Nat /\ None \notin {"audit", "strategy", "support", "qualification"}

VARIABLES
    phase,      \* the consuming phase whose provider call is out, None without
    shown,      \* the evidence in its prompt, {} without
    done,       \* completed consuming phases
    attested,   \* analysis_input_attestations[phase]["research_evidence"]
    behind,     \* history: the evidence in the prompt of a completed phase
    register    \* claims of the logged consumptions, each as first logged

analysis == <<phase, shown, done, attested, behind, register>>
vars == <<ledgerVars, analysis>>

Consumer == {"audit", "strategy"}

UseInit ==
    /\ Init
    /\ phase    = None
    /\ shown    = {}
    /\ done     = {}
    /\ attested = [c \in Consumer |-> {}]
    /\ behind   = [c \in Consumer |-> {}]
    /\ register = [c \in Claim |-> None]

Exhibit == [pair : Pair, says : {"support", "qualification"}]

\* The authorized pairs and what each is assessed to be.
Projection == {e \in Exhibit : e.pair \in Pack(rows, available)
                                /\ SaysNow(rows, Support(e.pair), {e.says})}

Cited(E) == {e.pair[1] : e \in E}

\* One record in support of a claim makes it supported.
Label(E, c) ==
    IF \E e \in E : e.pair[1] = c /\ e.says = "support" THEN "support" ELSE "qualification"

\* Mutant: the register is that of the last consumption.
LatestOnly(E, logged) == [c \in Claim |-> IF c \in logged THEN Label(E, c) ELSE None]

\* A claim that is logged again keeps the envelope it was first logged with.
Merged(E, logged) == [c \in Claim |->
    IF register[c] = None /\ c \in logged THEN Label(E, c) ELSE register[c]]

\* What is stale once phase c runs again, itself included.
Cone(c) == IF c = "audit" THEN Consumer ELSE {"strategy"}

Starts(c) ==
    /\ phase = None
    /\ done' = done \ Cone(c)
    /\ behind' = [x \in Consumer |-> IF x \in Cone(c) THEN {} ELSE behind[x]]
    /\ UNCHANGED ledgerVars

\* The projection is read in one statement; up to ClaimLimit of its claims are
\* logged; an empty one is attested too.
Consume(c) ==
    /\ Starts(c)
    /\ phase' = c
    /\ shown' = Projection
    /\ attested' = [attested EXCEPT ![c] = Projection]
    /\ \E logged \in SUBSET Cited(Projection) :
          /\ Cardinality(logged) <= ClaimLimit
          /\ \A more \in SUBSET Cited(Projection) :
                logged \subseteq more /\ Cardinality(more) <= ClaimLimit => more = logged
          /\ register' = Merged(Projection, logged)

\* Unavailable, malformed or too large a projection: no call is made.
Blocked(c) ==
    /\ Starts(c)
    /\ UNCHANGED <<phase, shown, attested, register>>

Complete ==
    /\ phase # None
    /\ done'   = done \cup {phase}
    /\ behind' = [behind EXCEPT ![phase] = shown]
    /\ phase'  = None
    /\ shown'  = {}
    /\ UNCHANGED <<ledgerVars, attested, register>>

Fail ==
    /\ phase # None
    /\ phase' = None
    /\ shown' = {}
    /\ UNCHANGED <<ledgerVars, done, attested, behind, register>>

Analysis ==
    \/ \E c \in Consumer : Consume(c) \/ Blocked(c)
    \/ Complete \/ Fail

Next ==
    \/ LedgerNext /\ UNCHANGED analysis
    \/ Analysis

Spec == UseInit /\ [][Next]_vars

-----------------------------------------------------------------------------
UseTypeOK ==
    /\ TypeOK
    /\ phase \in Consumer \cup {None}
    /\ done \subseteq Consumer
    /\ shown \subseteq Exhibit
    /\ attested \in [Consumer -> SUBSET Exhibit]
    /\ behind \in [Consumer -> SUBSET Exhibit]
    /\ register \in [Claim -> {None, "support", "qualification"}]

(* An output stands on what its attestation names, and every claim its      *)
(* prompt showed can be resolved by the report, whatever was revoked, run   *)
(* again, blocked or failed in between.                                     *)
ProvenanceIsKept == \A c \in done :
    /\ attested[c] = behind[c]
    /\ \A x \in Cited(behind[c]) : register[x] # None

-----------------------------------------------------------------------------
(* What the repository says and the code does not keep.                     *)

(* The report resolves nothing but what this analysis has consumed.         *)
RegisterIsOfThisRun == done = Consumer =>
    \A x \in Claim : register[x] # None => \E c \in Consumer : x \in Cited(behind[c])
=============================================================================
