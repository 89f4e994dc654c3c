---------------------------- MODULE EvidenceLedger ----------------------------
(***************************************************************************)
(* The append-only ledgers behind the research evidence of one project     *)
(* (mas/research_evidence): reviews of claims and of evidence, annotations *)
(* of claims, support assessments of pairs and the authorizations to use a *)
(* pair, in one usage scope.  Operators record them through the bridge     *)
(* (mas/tools/research_evidence_bridge.py), each command a transaction of  *)
(* its own at READ COMMITTED.  A trigger numbers the row under the lock of *)
(* its ledger's allocator; annotations and authorizations also lock the    *)
(* project.  One claim item per claim and one source per evidence item.    *)
(***************************************************************************)
EXTENDS Naturals, FiniteSets

CONSTANTS Operator,    \* bridge processes, one command each at a time
          Claim, Evidence,
          Ready,       \* claims annotated, supported and approved at the start
          Used,        \* pairs of them whose use is authorized at the start
          Request,     \* request ids of the commands
          MaxSources,  \* MAX_PACK_SOURCES
          MaxClaims,   \* MAX_PACK_CLAIMS
          MaxRows,     \* bound: rows on record and commands under way
          MaxRetired,  \* bound: items that become unavailable
          None

ASSUME ConstantsAssumption ==
    /\ Used \subseteq Ready \X Evidence /\ Ready \subseteq Claim /\ Claim \cap Evidence = {}
    /\ None \notin Operator \cup Request
    /\ {MaxSources, MaxClaims, MaxRows, MaxRetired} \subseteq Nat

\* What is in use at the start is within the limits.
ASSUME CapacityAssumption ==
    /\ IsFiniteSet(Claim) /\ IsFiniteSet(Evidence)
    /\ Cardinality({p[1] : p \in Used}) <= MaxClaims
    /\ Cardinality({p[2] : p \in Used}) <= MaxSources

Item == Claim \cup Evidence
Pair == Claim \X Evidence

Review(i)        == [kind |-> "review", of |-> i]
Annotation(c)    == [kind |-> "annotation", of |-> c]
Support(p)       == [kind |-> "support", of |-> p]
Authorization(p) == [kind |-> "authorization", of |-> p]

\* What a decision depends on: the ledgers a usage authorization is based on.
Inputs(p) == {Annotation(p[1]), Support(p), Review(p[1]), Review(p[2])}

\* The ledgers, each with a chain and an allocator of its own.
Scope == {Review(i) : i \in Item} \cup {Annotation(c) : c \in Claim}
         \cup {Support(p) : p \in Pair} \cup {Authorization(p) : p \in Pair}

\* A review that rejects or withdraws is "refused", an assessment that does not
\* make the pair eligible "other".
Says == [review        |-> {"approved", "refused"},
         annotation    |-> {"noted"},
         support       |-> {"support", "qualification", "other"},
         authorization |-> {"authorized", "revoked"}]

Say == UNION {Says.review, Says.annotation, Says.support, Says.authorization}

Row == [scope : Scope, seq : Nat, pred : Nat, request : Request \cup {None},
        say : Say, basis : SUBSET (Scope \X Nat)]

VARIABLES
    rows,       \* committed rows of all ledgers
    last,       \* last_sequence of each allocator, committed
    project,    \* the transaction that holds the row of the project
    cmd,        \* the command of each operator and how far it is
    available   \* items neither retired, superseded nor withdrawn

ledgers == <<rows, last>>
ledgerVars == <<ledgers, project, cmd, available>>

Idle == [at |-> "idle", scope |-> None, say |-> None, request |-> None, row |-> None]

First(s, say) == [scope |-> s, seq |-> 1, pred |-> 0, request |-> None,
                  say |-> say, basis |-> {}]

\* Recorded before the model starts.
Prior == {First(Annotation(c), "noted") : c \in Ready}
         \cup {First(Support(p), "support") : p \in Ready \X Evidence}
         \cup {First(Review(i), "approved") : i \in Ready \cup Evidence}
         \cup {[First(Authorization(p), "authorized") EXCEPT
                   !.basis = {<<s, 1>> : s \in Inputs(p)}] : p \in Used}

Of(R, s) == {r \in R : r.scope = s}

Init ==
    /\ rows      = Prior
    /\ last      = [s \in Scope |-> IF Of(Prior, s) = {} THEN 0 ELSE 1]
    /\ project   = None
    /\ cmd       = [o \in Operator |-> Idle]
    /\ available = Item

-----------------------------------------------------------------------------
(* Reading the ledgers                                                      *)

\* The row with the highest sequence, if there is one.
Head(R, s) == LET L == Of(R, s) IN {r \in L : \A q \in L : q.seq <= r.seq}

Basis(R, p) == {<<r.scope, r.seq>> : r \in UNION {Head(R, s) : s \in Inputs(p)}}

SaysNow(R, s, say) == \E r \in Head(R, s) : r.say \in say

\* Annotated, supported, and both endpoints approved, as of now.
Sound(R, p) ==
    /\ SaysNow(R, Annotation(p[1]), {"noted"})
    /\ SaysNow(R, Support(p), {"support", "qualification"})
    /\ \A i \in 1 .. 2 : SaysNow(R, Review(p[i]), {"approved"})

Available(A, p) == {p[1], p[2]} \subseteq A

\* Mutant: the basis need not be the current one.
SoundAgain(R, p, d) == Sound(R, p)

\* The basis an authorization was bound to is still the current one.
StillSound(R, p, d) == Sound(R, p) /\ d.basis = Basis(R, p)

\* The current pack: what is authorized, on its current basis, and available.
Pack(R, A) == {p \in Pair :
    /\ Available(A, p)
    /\ \E d \in Head(R, Authorization(p)) :
          d.say = "authorized" /\ StillSound(R, p, d)}

ClaimsOf(P)  == {p[1] : p \in P}
SourcesOf(P) == {p[2] : p \in P}

Fits(x, X, max) == x \in X \/ Cardinality(X) < max

\* The first decision authorizes, each later one turns the previous one round.
Alternates(s, say) ==
    IF Head(rows, s) = {} THEN say = "authorized"
    ELSE \A d \in Head(rows, s) : d.say # say

-----------------------------------------------------------------------------
(* A command                                                                *)

Doing(o, at) == cmd[o].at = at
Authorizes(o) == cmd[o].scope.kind = "authorization" /\ cmd[o].say = "authorized"

\* The request is on record: its row is the answer, or it is a conflict.
OnRecord(s, q) == \E r \in Of(rows, s) : r.request = q
Repeated(o) == OnRecord(cmd[o].scope, cmd[o].request)

\* The transaction is over, and so are its locks.
Release(o) ==
    /\ cmd'     = [cmd EXCEPT ![o] = Idle]
    /\ project' = IF project = o THEN None ELSE project

End(o) == Release(o) /\ UNCHANGED <<ledgers, available>>

LocksProject == {"annotation", "authorization"}

\* A request on record is answered at once, a positive review of something
\* unavailable refused; neither changes anything.
Begin(o, s, say, q) ==
    /\ Doing(o, "idle")
    /\ Cardinality(rows) + Cardinality({x \in Operator : ~Doing(x, "idle")}) < MaxRows
    /\ ~OnRecord(s, q)
    /\ s.kind = "review" /\ say = "approved" => s.of \in available
    /\ cmd' = [cmd EXCEPT ![o] =
          [at |-> IF s.kind \in LocksProject THEN "lock" ELSE "insert",
           scope |-> s, say |-> say, request |-> q, row |-> None]]
    /\ UNCHANGED <<ledgers, project, available>>

\* The four kinds of commands.
RecordReview(o, q) ==
    \E i \in Item, say \in Says.review : Begin(o, Review(i), say, q)
RecordAnnotation(o, q) ==
    \E c \in Claim, say \in Says.annotation : Begin(o, Annotation(c), say, q)
RecordSupport(o, q) ==
    \E p \in Pair, say \in Says.support : Begin(o, Support(p), say, q)
RecordAuthorization(o, q) ==
    \E p \in Pair, say \in Says.authorization : Begin(o, Authorization(p), say, q)

\* Mutants: the row lock of an allocator, of the project, is not waited for.
AllocatorIgnored(o) == TRUE
ProjectIgnored(o) == TRUE

\* An insert holds the row of its allocator until its transaction ends.
AllocatorFree(o) == \A x \in Operator : Doing(x, "commit") => cmd[x].scope # cmd[o].scope
ProjectFree(o) == project = None

\* Recorded by another transaction while this one waited.
Answer(o) ==
    /\ \/ Doing(o, "lock") /\ ProjectFree(o)
       \/ Doing(o, "insert") /\ AllocatorFree(o)
    /\ Repeated(o)
    /\ End(o)

\* Sound, available, and room for both members in the pack.
Eligible(p) ==
    LET P == Pack(rows, available) IN
    /\ Sound(rows, p) /\ Available(available, p)
    /\ Fits(p[2], SourcesOf(P), MaxSources)
    /\ Fits(p[1], ClaimsOf(P), MaxClaims)

\* The checks read what was committed when the project was locked, or later.
LockAndCheck(o) ==
    /\ Doing(o, "lock") /\ ProjectFree(o) /\ ~Repeated(o)
    /\ cmd[o].scope.kind = "authorization" => Alternates(cmd[o].scope, cmd[o].say)
    /\ Authorizes(o) => Eligible(cmd[o].scope.of)
    /\ project' = o
    /\ cmd' = [cmd EXCEPT ![o].at = "insert"]
    /\ UNCHANGED <<ledgers, available>>

\* The triggers: they read anew what was committed while they waited.
Admitted(o) ==
    LET s == cmd[o].scope IN
    /\ s.kind = "authorization" => Alternates(s, cmd[o].say)
    /\ Authorizes(o) => Sound(rows, s.of)

\* A revocation keeps the basis of the decision it revokes.
BasisOf(o) ==
    LET s == cmd[o].scope IN
    IF Authorizes(o) THEN Basis(rows, s.of)
    ELSE UNION {d.basis : d \in Head(rows, s)}

NewRow(o) ==
    [scope |-> cmd[o].scope, seq |-> last[cmd[o].scope] + 1, pred |-> last[cmd[o].scope],
     request |-> cmd[o].request, say |-> cmd[o].say, basis |-> BasisOf(o)]

Insert(o) ==
    /\ Doing(o, "insert") /\ AllocatorFree(o) /\ ~Repeated(o)
    /\ Admitted(o)
    /\ cmd'  = [cmd EXCEPT ![o].at = "commit", ![o].row = NewRow(o)]
    /\ UNCHANGED <<ledgers, project, available>>

Commit(o) ==
    /\ Doing(o, "commit")
    /\ rows' = rows \cup {cmd[o].row}
    /\ last' = [last EXCEPT ![cmd[o].scope] = cmd[o].row.seq]
    /\ Release(o)
    /\ UNCHANGED available

\* Refused, a dry run, a failure, or the process died: nothing is recorded.
RollBack(o) == ~Doing(o, "idle") /\ End(o)

\* A retention event, a successor or a withdrawal, all of them for good.
Retire(i) ==
    /\ Cardinality(Item \ available) < MaxRetired
    /\ available' = available \ {i}
    /\ UNCHANGED <<ledgers, project, cmd>>

Command(o) ==
    Answer(o) \/ LockAndCheck(o) \/ Insert(o) \/ Commit(o) \/ RollBack(o)

LedgerNext ==
    \/ \E o \in Operator :
          \/ \E q \in Request : \/ RecordReview(o, q) \/ RecordAnnotation(o, q)
                               \/ RecordSupport(o, q) \/ RecordAuthorization(o, q)
          \/ Command(o)
    \/ \E i \in available : Retire(i)

LedgerSpec == Init /\ [][LedgerNext]_ledgerVars

-----------------------------------------------------------------------------
Stage == {"idle", "lock", "insert", "commit"}

TypeOK ==
    /\ rows \subseteq Row
    /\ last \in [Scope -> Nat]
    /\ project \in Operator \cup {None}
    /\ cmd \in [Operator -> [at : Stage, scope : Scope \cup {None},
                             say : Say \cup {None},
                             request : Request \cup {None}, row : Row \cup {None}]]
    /\ available \subseteq Item

\* The rows R of a ledger are numbered 1 .. n without a gap or a fork, each
\* supersedes the one before it, no request is in it twice, and the decisions
\* on a use alternate.
Chained(R, s, n) ==
    /\ {r.seq : r \in R} = 1 .. n
    /\ \A q, r \in R : q.seq = r.seq \/ (q.request = r.request /\ q.request # None) => q = r
    /\ \A r \in R :
          /\ r.seq = r.pred + 1
          /\ s.kind = "authorization" => (r.say = "authorized" <=> r.seq % 2 = 1)

(* Concurrent, repeated, refused and abandoned commands leave every ledger  *)
(* one chain (the v54, v56 and v61 triggers and the retries of a request).  *)
OneChain == \A s \in Scope : Chained(Of(rows, s), s, last[s])

(* Authorizations granted concurrently never bring the pack above its       *)
(* limits (_require_authorization_eligibility under lock_project).          *)
WithinCapacity ==
    LET P == Pack(rows, available) IN
    /\ Cardinality(SourcesOf(P)) <= MaxSources
    /\ Cardinality(ClaimsOf(P)) <= MaxClaims

(* What has lost its authorization, through a revocation, a review, an      *)
(* assessment, an annotation or a retirement, only comes back into the pack *)
(* by a new decision to authorize it (_EFFECTIVE_AUTHORIZATION_SELECT).     *)
NeverRevived == [][\A p \in Pack(rows', available') \ Pack(rows, available) :
    \E r \in rows' \ rows : r.scope = Authorization(p) /\ r.say = "authorized"]_ledgerVars
=============================================================================
