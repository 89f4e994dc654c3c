--------------------------- MODULE EvidenceUse_proofs ---------------------------
(***************************************************************************)
(* Proofs about the research evidence, for every set of operators, claims, *)
(* evidence and requests and every capacity.                               *)
(*                                                                         *)
(* The ledgers (EvidenceLedger): a row that is being inserted is alone     *)
(* with its allocator, so it is newer than every row of its ledger; what   *)
(* is based on the old head then leaves the pack and nothing but its own   *)
(* authorization enters it; and whoever may authorize holds the project    *)
(* since it has seen that there is room.                                   *)
(*                                                                         *)
(* Their consumption (EvidenceUse): the analysis leaves the ledgers alone, *)
(* so what is proved of them holds beside it, and as long as the limit of  *)
(* the log admits a full pack every claim a prompt shows stays on the      *)
(* register.                                                               *)
(***************************************************************************)
EXTENDS EvidenceUse, FiniteSetTheorems, TLAPS

Ids(R) == {<<r.scope, r.seq>> : r \in R}

\* A row numbered after every row of its ledger.
Newest(R, w) == \A r \in R : r.scope = w.scope => r.seq < w.seq

AllBased(R) == \A r \in R : r.basis \subseteq Ids(R)

-----------------------------------------------------------------------------
(* What a new row does to the pack                                          *)

LEMMA ScopesDiffer ==
    /\ \A p, q \in Pair : Authorization(p) = Authorization(q) => p = q
    /\ \A p, q \in Pair : Authorization(p) \notin Inputs(q)
    /\ \A p \in Pair : Authorization(p) \in Scope /\ Inputs(p) \subseteq Scope
<1>1. \A p, q \in Pair : Authorization(p) = Authorization(q) => p = q
    BY DEF Authorization
<1>2. \A p, q \in Pair : Authorization(p) \notin Inputs(q)
    BY DEF Authorization, Inputs, Annotation, Support, Review
<1>3. ASSUME NEW p \in Pair PROVE Authorization(p) \in Scope /\ Inputs(p) \subseteq Scope
  <2>1. p[1] \in Claim /\ p[2] \in Evidence
      BY DEF Pair
  <2>2. Annotation(p[1]) \in Scope /\ Support(p) \in Scope /\ Authorization(p) \in Scope
      BY <2>1 DEF Scope
  <2>3. Review(p[1]) \in Scope /\ Review(p[2]) \in Scope
      BY <2>1 DEF Scope, Item
  <2> QED BY <2>2, <2>3 DEF Inputs
<1> QED BY <1>1, <1>2, <1>3

\* Another ledger's row leaves the head alone.
LEMMA OtherHead ==
    ASSUME NEW R, NEW w, NEW s, w.scope # s
    PROVE  Head(R \cup {w}, s) = Head(R, s)
BY DEF Head, Of

\* A newer row is the head.
LEMMA NewHead ==
    ASSUME NEW R \in SUBSET Row, NEW w \in Row, Newest(R, w)
    PROVE  Head(R \cup {w}, w.scope) = {w}
BY DEF Head, Of, Newest, Row

\* Nothing but its own authorization enters the pack.
LEMMA OnlyAuthorized ==
    ASSUME NEW R \in SUBSET Row, NEW w \in Row, NEW A, NEW p \in Pair,
           Newest(R, w), AllBased(R), p \in Pack(R \cup {w}, A),
           ~(w.scope = Authorization(p) /\ w.say = "authorized")
    PROVE  p \in Pack(R, A)
<1> DEFINE S == R \cup {w}
<1>1. PICK d \in Head(S, Authorization(p)) : d.say = "authorized" /\ StillSound(S, p, d)
    BY DEF Pack
<1>2. d \in R /\ d.scope = Authorization(p)
    BY <1>1 DEF Head, Of
<1>3. d \in Head(R, Authorization(p))
    BY <1>1, <1>2 DEF Head, Of
<1>4. w.scope \notin Inputs(p)
  <2> SUFFICES ASSUME w.scope \in Inputs(p) PROVE FALSE
      OBVIOUS
  <2>1. <<w.scope, w.seq>> \in Basis(S, p)
      BY NewHead DEF Basis
  <2>2. <<w.scope, w.seq>> \in Ids(R)
      BY <1>1, <1>2, <2>1 DEF StillSound, AllBased
  <2> QED BY <2>2 DEF Ids, Newest, Row
<1>5. \A s \in Inputs(p) : Head(S, s) = Head(R, s)
    BY <1>4, OtherHead
<1>6. Basis(S, p) = Basis(R, p)
    BY <1>5 DEF Basis
<1>7. Sound(R, p)
  <2>1. Sound(S, p)
      BY <1>1 DEF StillSound
  <2>2. Annotation(p[1]) \in Inputs(p) /\ Support(p) \in Inputs(p)
        /\ Review(p[1]) \in Inputs(p) /\ Review(p[2]) \in Inputs(p)
      BY DEF Inputs
  <2> QED BY <1>5, <2>1, <2>2 DEF Sound, SaysNow
<1>8. StillSound(R, p, d)
    BY <1>1, <1>6, <1>7 DEF StillSound
<1> QED BY <1>1, <1>3, <1>8 DEF Pack

LEMMA PackShrinks == ASSUME NEW R, NEW A, NEW B \in SUBSET A PROVE Pack(R, B) \subseteq Pack(R, A)
BY DEF Pack, Available

-----------------------------------------------------------------------------
(* The inductive invariant                                                  *)

\* A command under way has a ledger, a request and something to say.
Underway == \A o \in Operator : ~Doing(o, "idle") =>
    /\ cmd[o].scope \in Scope /\ cmd[o].say \in Says[cmd[o].scope.kind]
    /\ cmd[o].request \in Request

Decided == \A r \in rows : r.say \in Says[r.scope.kind]

\* The rows of every ledger are 1 .. last, each once, each request once.
Counted ==
    /\ \A r \in rows : r.seq \in 1 .. last[r.scope] /\ r.seq = r.pred + 1
    /\ \A s \in Scope : \A n \in 1 .. last[s] : \E r \in rows : r.scope = s /\ r.seq = n

OnceEach == \A q, r \in rows :
    q.scope = r.scope /\ (q.seq = r.seq \/ (q.request = r.request /\ q.request # None)) => q = r

Odd(r) == r.scope.kind = "authorization" => (r.say = "authorized" <=> r.seq % 2 = 1)

Turns == \A r \in rows : Odd(r)

Based == AllBased(rows)

ChainInv == Decided /\ Counted /\ OnceEach /\ Turns /\ Based

\* Whoever inserts into a ledger is alone with it.
OneInserter == \A o, x \in Operator :
    Doing(o, "commit") /\ Doing(x, "commit") /\ cmd[o].scope = cmd[x].scope => o = x

\* What it is going to commit continues the ledger.
Continues(o, w) ==
    /\ w \in Row
    /\ w.scope = cmd[o].scope /\ w.request = cmd[o].request /\ w.say = cmd[o].say
    /\ w.seq = last[w.scope] + 1 /\ w.pred = last[w.scope]
    /\ ~OnRecord(w.scope, w.request)
    /\ Odd(w) /\ w.basis \subseteq Ids(rows)

Pending == \A o \in Operator : Doing(o, "commit") => Continues(o, cmd[o].row)

InsertInv == Underway /\ OneInserter /\ Pending

\* Whoever may authorize has the project, and has had room since.
LockHeld == \A o \in Operator :
    ~Doing(o, "idle") /\ ~Doing(o, "lock") /\ Authorizes(o) => project = o

Room(P, p) ==
    /\ Cardinality(SourcesOf(P) \cup {p[2]}) <= MaxSources
    /\ Cardinality(ClaimsOf(P) \cup {p[1]}) <= MaxClaims

RoomKept == \A o \in Operator :
    ~Doing(o, "idle") /\ ~Doing(o, "lock") /\ Authorizes(o) =>
        Room(Pack(rows, available), cmd[o].scope.of)

CapacityInv == LockHeld /\ RoomKept /\ WithinCapacity

IInv == TypeOK /\ InsertInv /\ ChainInv /\ CapacityInv

-----------------------------------------------------------------------------
(* Types and commands                                                       *)

LEMMA ScopeKinds ==
    /\ \A i \in Item : Review(i) \in Scope
    /\ \A c \in Claim : Annotation(c) \in Scope
    /\ \A p \in Pair : Support(p) \in Scope /\ Authorization(p) \in Scope
    /\ \A s \in Scope : s.kind \in {"review", "annotation", "support", "authorization"}
    /\ \A s \in Scope : s.kind = "authorization" => s.of \in Pair /\ s = Authorization(s.of)
    /\ \A s \in Scope : Says[s.kind] \subseteq Say
<1>1. \A i \in Item : Review(i) \in Scope
    BY DEF Scope
<1>2. \A c \in Claim : Annotation(c) \in Scope
    BY DEF Scope
<1>3. \A p \in Pair : Support(p) \in Scope /\ Authorization(p) \in Scope
    BY DEF Scope
<1>4. \A s \in Scope : s.kind \in {"review", "annotation", "support", "authorization"}
    BY DEF Scope, Review, Annotation, Support, Authorization
<1>5. \A s \in Scope : s.kind = "authorization" => s.of \in Pair /\ s = Authorization(s.of)
    BY DEF Scope, Review, Annotation, Support, Authorization
<1>6. \A s \in Scope : Says[s.kind] \subseteq Say
    BY <1>4 DEF Says, Say
<1> QED BY <1>1, <1>2, <1>3, <1>4, <1>5, <1>6

LEMMA PriorRows == Prior \subseteq Row /\ \A r \in Prior :
    /\ r.seq = 1 /\ r.pred = 0 /\ r.request = None
    /\ r.say \in Says[r.scope.kind]
    /\ Odd(r) /\ r.basis \subseteq Ids(Prior)
<1> SUFFICES ASSUME NEW r \in Prior
             PROVE  /\ r \in Row /\ r.seq = 1 /\ r.pred = 0 /\ r.request = None
                    /\ r.say \in Says[r.scope.kind] /\ Odd(r) /\ r.basis \subseteq Ids(Prior)
    OBVIOUS
<1>1. CASE \E c \in Ready : r = First(Annotation(c), "noted")
  <2>1. PICK c \in Ready : r = First(Annotation(c), "noted")
      BY <1>1
  <2>2. Annotation(c) \in Scope
      BY ScopeKinds, ConstantsAssumption
  <2> QED BY <2>1, <2>2 DEF First, Row, Odd, Say, Says, Annotation
<1>2. CASE \E p \in Ready \X Evidence : r = First(Support(p), "support")
  <2>1. PICK p \in Ready \X Evidence : r = First(Support(p), "support")
      BY <1>2
  <2>2. Support(p) \in Scope
      BY ScopeKinds, ConstantsAssumption DEF Pair
  <2> QED BY <2>1, <2>2 DEF First, Row, Odd, Say, Says, Support
<1>3. CASE \E i \in Ready \cup Evidence : r = First(Review(i), "approved")
  <2>1. PICK i \in Ready \cup Evidence : r = First(Review(i), "approved")
      BY <1>3
  <2>2. Review(i) \in Scope
      BY ScopeKinds, ConstantsAssumption DEF Item
  <2> QED BY <2>1, <2>2 DEF First, Row, Odd, Say, Says, Review
<1>4. CASE \E p \in Used : r = [First(Authorization(p), "authorized") EXCEPT
                                    !.basis = {<<s, 1>> : s \in Inputs(p)}]
  <2>1. PICK p \in Used : r = [First(Authorization(p), "authorized") EXCEPT
                                    !.basis = {<<s, 1>> : s \in Inputs(p)}]
      BY <1>4
  <2>2. p \in Pair /\ p \in Ready \X Evidence /\ p[1] \in Ready /\ p[2] \in Evidence
      BY ConstantsAssumption DEF Pair
  <2>3. Authorization(p) \in Scope /\ Inputs(p) \subseteq Scope
      BY <2>2, ScopesDiffer
  <2>4. r = [scope |-> Authorization(p), seq |-> 1, pred |-> 0, request |-> None,
             say |-> "authorized", basis |-> {<<s, 1>> : s \in Inputs(p)}]
      BY <2>1 DEF First
  <2>5. r \in Row
      BY <2>3, <2>4 DEF Row, Say, Says
  <2>6. ASSUME NEW s \in Inputs(p) PROVE <<s, 1>> \in Ids(Prior)
    <3>1. \E say \in Say : First(s, say) \in Prior
        BY <2>2 DEF Inputs, Prior, Say, Says
    <3> QED BY <3>1 DEF Ids, First
  <2> QED BY <2>4, <2>5, <2>6 DEF Odd, Says, Authorization
<1> QED BY <1>1, <1>2, <1>3, <1>4 DEF Prior

LEMMA TypeInit == Init => TypeOK
BY PriorRows DEF Init, TypeOK, Idle, Stage

LEMMA RecordKind ==
    ASSUME NEW o \in Operator, NEW q \in Request,
           \/ RecordReview(o, q) \/ RecordAnnotation(o, q)
           \/ RecordSupport(o, q) \/ RecordAuthorization(o, q)
    PROVE  \E s \in Scope : \E say \in Says[s.kind] : Begin(o, s, say, q)
<1>1. CASE RecordReview(o, q)
  <2>1. PICK i \in Item, say \in Says.review : Begin(o, Review(i), say, q)
      BY <1>1 DEF RecordReview
  <2>2. Review(i) \in Scope /\ say \in Says[Review(i).kind]
      BY DEF Scope, Review, Says
  <2> QED BY <2>1, <2>2
<1>2. CASE RecordAnnotation(o, q)
  <2>1. PICK c \in Claim, say \in Says.annotation : Begin(o, Annotation(c), say, q)
      BY <1>2 DEF RecordAnnotation
  <2>2. Annotation(c) \in Scope /\ say \in Says[Annotation(c).kind]
      BY DEF Scope, Annotation, Says
  <2> QED BY <2>1, <2>2
<1>3. CASE RecordSupport(o, q)
  <2>1. PICK p \in Pair, say \in Says.support : Begin(o, Support(p), say, q)
      BY <1>3 DEF RecordSupport
  <2>2. Support(p) \in Scope /\ say \in Says[Support(p).kind]
      BY DEF Scope, Support, Says
  <2> QED BY <2>1, <2>2
<1>4. CASE RecordAuthorization(o, q)
  <2>1. PICK p \in Pair, say \in Says.authorization : Begin(o, Authorization(p), say, q)
      BY <1>4 DEF RecordAuthorization
  <2>2. Authorization(p) \in Scope /\ say \in Says[Authorization(p).kind]
      BY DEF Scope, Authorization, Says
  <2> QED BY <2>1, <2>2
<1> QED BY <1>1, <1>2, <1>3, <1>4

LEMMA StepKind == LedgerNext =>
    \/ \E o \in Operator, s \in Scope, q \in Request : \E say \in Says[s.kind] : Begin(o, s, say, q)
    \/ \E o \in Operator : Answer(o) \/ LockAndCheck(o) \/ Insert(o) \/ Commit(o) \/ RollBack(o)
    \/ \E i \in available : Retire(i)
<1> HAVE LedgerNext
<1>1. ASSUME NEW o \in Operator, NEW q \in Request,
             \/ RecordReview(o, q) \/ RecordAnnotation(o, q)
             \/ RecordSupport(o, q) \/ RecordAuthorization(o, q)
      PROVE  \E s \in Scope : \E say \in Says[s.kind] : Begin(o, s, say, q)
    BY <1>1, RecordKind
<1> QED BY <1>1 DEF LedgerNext, Command

LEMMA NewBasis ==
    ASSUME TypeOK, Underway, Based, NEW o \in Operator, Doing(o, "insert")
    PROVE  BasisOf(o) \subseteq Ids(rows)
<1>1. CASE Authorizes(o)
    BY <1>1 DEF BasisOf, Basis, Head, Of, Ids
<1>2. CASE ~Authorizes(o)
    BY <1>2 DEF BasisOf, Based, AllBased, Head, Of
<1> QED BY <1>1, <1>2

LEMMA NewRowTyped ==
    ASSUME TypeOK, Underway, Based, NEW o \in Operator, Doing(o, "insert")
    PROVE  NewRow(o) \in Row
<1>1. BasisOf(o) \subseteq Scope \X Nat
    BY NewBasis DEF Ids, TypeOK, Row
<1>2. cmd[o].scope \in Scope /\ cmd[o].request \in Request /\ cmd[o].say \in Say
    BY ScopeKinds DEF Underway, Doing
<1> QED BY <1>1, <1>2 DEF NewRow, Row, TypeOK

LEMMA TypeStep == IInv /\ [LedgerNext]_ledgerVars => TypeOK'
<1> SUFFICES ASSUME IInv, [LedgerNext]_ledgerVars PROVE TypeOK'
    OBVIOUS
<1> USE DEF IInv, TypeOK, ledgers
<1>1. ASSUME NEW o \in Operator, NEW s \in Scope, NEW q \in Request, NEW say \in Says[s.kind],
             Begin(o, s, say, q) PROVE TypeOK'
    BY <1>1, ScopeKinds DEF Begin, Stage
<1>2. ASSUME NEW o \in Operator, Release(o) PROVE
        /\ cmd' \in [Operator -> [at : Stage, scope : Scope \cup {None}, say : Say \cup {None},
                                  request : Request \cup {None}, row : Row \cup {None}]]
        /\ project' \in Operator \cup {None}
    BY <1>2 DEF Release, Idle, Stage
<1>3. ASSUME NEW o \in Operator, Answer(o) \/ RollBack(o) PROVE TypeOK'
    BY <1>2, <1>3 DEF Answer, RollBack, End
<1>4. ASSUME NEW o \in Operator, LockAndCheck(o) PROVE TypeOK'
    BY <1>4 DEF LockAndCheck, Stage
<1>5. ASSUME NEW o \in Operator, Insert(o) PROVE TypeOK'
  <2>1. NewRow(o) \in Row
      BY <1>5, NewRowTyped DEF Insert, ChainInv, InsertInv
  <2>2. UNCHANGED <<rows, last, project, available>>
      BY <1>5 DEF Insert
  <2>3. cmd' \in [Operator -> [at : Stage, scope : Scope \cup {None}, say : Say \cup {None},
                             request : Request \cup {None}, row : Row \cup {None}]]
      <3> HIDE DEF IInv
      <3>1. cmd \in [Operator -> [at : Stage, scope : Scope \cup {None}, say : Say \cup {None},
                                 request : Request \cup {None}, row : Row \cup {None}]]
          BY DEF IInv
      <3> HIDE DEF TypeOK, Row, Scope, Say
      <3> QED BY <1>5, <2>1, <3>1 DEF Insert, Stage
  <2> QED BY <2>2, <2>3
<1>6. ASSUME NEW o \in Operator, Commit(o) PROVE TypeOK'
  <2>1. Continues(o, cmd[o].row)
      BY <1>6 DEF Commit, InsertInv, Pending
  <2> QED BY <1>2, <1>6, <2>1 DEF Commit, Continues, Row
<1>7. ASSUME NEW i \in available, Retire(i) PROVE TypeOK'
    BY <1>7 DEF Retire
<1>8. CASE UNCHANGED ledgerVars
    BY <1>8 DEF ledgerVars
<1> QED BY <1>1, <1>3, <1>4, <1>5, <1>6, <1>7, <1>8, StepKind

LEMMA UnderwayStep == IInv /\ [LedgerNext]_ledgerVars => Underway'
<1> SUFFICES ASSUME IInv, [LedgerNext]_ledgerVars PROVE Underway'
    OBVIOUS
<1> USE DEF IInv, InsertInv, Underway, Doing, TypeOK
<1>1. ASSUME NEW o \in Operator, NEW s \in Scope, NEW q \in Request, NEW say \in Says[s.kind],
             Begin(o, s, say, q) PROVE Underway'
    BY <1>1 DEF Begin
<1>2. ASSUME NEW o \in Operator, Release(o) PROVE Underway'
    BY <1>2 DEF Release, Idle
<1>3. ASSUME NEW o \in Operator, LockAndCheck(o) \/ Insert(o) PROVE Underway'
    BY <1>3 DEF LockAndCheck, Insert
<1>4. CASE UNCHANGED cmd
    BY <1>4
<1> HIDE DEF IInv, InsertInv, Underway, Doing, TypeOK
<1> QED BY <1>1, <1>2, <1>3, <1>4, StepKind DEF Answer, RollBack, End, Commit, Retire, ledgerVars

-----------------------------------------------------------------------------
(* The chains                                                               *)

LEMMA NextNumber ==
    ASSUME IInv, NEW o \in Operator, NEW w, Continues(o, w)
    PROVE  Newest(rows, w)
BY DEF IInv, ChainInv, Counted, Continues, Newest, TypeOK, Row

\* The row a ledger starts with, if it has one.
FirstSay(k) == CASE k = "annotation" -> "noted" [] k = "support" -> "support"
                 [] k = "review" -> "approved" [] OTHER -> "authorized"

FirstBasis(s) ==
    IF s.kind = "authorization" THEN {<<x, 1>> : x \in Inputs(s.of)} ELSE {}

FirstRow(s) == [scope |-> s, seq |-> 1, pred |-> 0, request |-> None,
                say |-> FirstSay(s.kind), basis |-> FirstBasis(s)]

LEMMA FirstOfEach == \A r \in Prior : r = FirstRow(r.scope)
<1> SUFFICES ASSUME NEW r \in Prior PROVE r = FirstRow(r.scope)
    OBVIOUS
<1> USE DEF FirstRow, FirstSay, FirstBasis, First
<1>1. ASSUME NEW c \in Ready, r = First(Annotation(c), "noted") PROVE r = FirstRow(r.scope)
    BY <1>1 DEF Annotation
<1>2. ASSUME NEW p \in Ready \X Evidence, r = First(Support(p), "support")
      PROVE  r = FirstRow(r.scope)
    BY <1>2 DEF Support
<1>3. ASSUME NEW i \in Ready \cup Evidence, r = First(Review(i), "approved")
      PROVE  r = FirstRow(r.scope)
    BY <1>3 DEF Review
<1>4. ASSUME NEW p \in Used, r = [First(Authorization(p), "authorized") EXCEPT
                                    !.basis = {<<s, 1>> : s \in Inputs(p)}]
      PROVE  r = FirstRow(r.scope)
    BY <1>4 DEF Authorization
<1> QED BY <1>1, <1>2, <1>3, <1>4 DEF Prior

LEMMA ChainInit == Init => ChainInv
<1> SUFFICES ASSUME Init PROVE ChainInv
    OBVIOUS
<1> USE PriorRows DEF Init
<1>1. Decided /\ Turns /\ Based
    BY DEF Decided, Turns, Based, AllBased
<1>2. Counted
  <2>1. ASSUME NEW r \in rows PROVE r.seq \in 1 .. last[r.scope] /\ r.seq = r.pred + 1
      BY DEF Of, Row
  <2>2. ASSUME NEW s \in Scope, NEW n \in 1 .. last[s]
        PROVE  \E r \in rows : r.scope = s /\ r.seq = n
    <3>1. Of(Prior, s) # {} /\ n = 1
        BY <2>2
    <3> QED BY <3>1 DEF Of
  <2> QED BY <2>1, <2>2 DEF Counted
<1>3. OnceEach
    BY FirstOfEach DEF OnceEach
<1> QED BY <1>1, <1>2, <1>3 DEF ChainInv

LEMMA ChainCommit ==
    ASSUME IInv, NEW o \in Operator, Commit(o)
    PROVE  ChainInv'
<1> DEFINE w == cmd[o].row
<1>1. Continues(o, w) /\ rows' = rows \cup {w} /\ last' = [last EXCEPT ![w.scope] = w.seq]
    BY DEF Commit, IInv, InsertInv, Pending, Continues
<1>2. w \in Row /\ w.seq = last[w.scope] + 1 /\ w.pred = last[w.scope]
    BY <1>1 DEF Continues
<1>3. w.scope \in Scope /\ last \in [Scope -> Nat] /\ rows \subseteq Row
    BY <1>2 DEF Row, IInv, TypeOK
<1>4. w.say \in Says[w.scope.kind]
    BY <1>1 DEF Commit, Continues, IInv, InsertInv, Underway, Doing
<1> HIDE DEF w
<1> USE DEF IInv, ChainInv
<1>5. Decided'
    BY <1>1, <1>4 DEF Decided
<1>6. Turns'
    BY <1>1 DEF Turns, Continues, Odd
<1>7. Based'
    BY <1>1 DEF Based, AllBased, Continues, Ids
<1>8. OnceEach'
  <2> SUFFICES ASSUME NEW q \in rows', NEW r \in rows', q.scope = r.scope,
                      q.seq = r.seq \/ (q.request = r.request /\ q.request # None)
               PROVE  q = r
      BY DEF OnceEach
  <2>1. ASSUME NEW r1 \in rows, r1.scope = w.scope
        PROVE  r1.seq # w.seq /\ r1.request # w.request
    <3>1. r1.seq # w.seq
        BY <1>2, <1>3, <2>1 DEF Counted, Row
    <3>2. r1.request # w.request
        BY <1>1, <2>1 DEF Continues, OnRecord, Of
    <3> QED BY <3>1, <3>2
  <2> QED BY <1>1, <2>1 DEF OnceEach
<1>9. Counted'
  <2>1. ASSUME NEW r \in rows' PROVE r.seq \in 1 .. last'[r.scope] /\ r.seq = r.pred + 1
    <3>1. CASE r = w
        BY <1>1, <1>2, <1>3, <3>1
    <3>2. CASE r \in rows
      <4>1. r.seq \in 1 .. last[r.scope] /\ r.seq = r.pred + 1 /\ r.scope \in Scope
          BY <1>3, <3>2 DEF Counted, Row
      <4> QED BY <1>1, <1>2, <1>3, <4>1
    <3> QED BY <1>1, <3>1, <3>2
  <2>2. ASSUME NEW s \in Scope, NEW n \in 1 .. last'[s]
        PROVE  \E r \in rows' : r.scope = s /\ r.seq = n
    <3>1. CASE n \in 1 .. last[s]
        BY <1>1, <3>1 DEF Counted
    <3>2. CASE n \notin 1 .. last[s]
        BY <1>1, <1>2, <1>3, <3>2
    <3> QED BY <3>1, <3>2
  <2> QED BY <2>1, <2>2 DEF Counted
<1> QED BY <1>5, <1>6, <1>7, <1>8, <1>9

LEMMA ChainStep == IInv /\ [LedgerNext]_ledgerVars => ChainInv'
<1> SUFFICES ASSUME IInv, [LedgerNext]_ledgerVars PROVE ChainInv'
    OBVIOUS
<1>1. CASE UNCHANGED ledgers
    BY <1>1 DEF IInv, ledgers, ChainInv, Decided, Counted, OnceEach, Turns, Based
<1> QED BY <1>1, ChainCommit, StepKind
    DEF Begin, Answer, LockAndCheck, Insert, RollBack, End, Retire, ledgerVars

-----------------------------------------------------------------------------
(* The row that is being inserted                                           *)

LEMMA NewRowTurns ==
    ASSUME IInv, NEW o \in Operator, Insert(o)
    PROVE  Odd(NewRow(o))
<1> DEFINE s == cmd[o].scope
           say == cmd[o].say
<1> SUFFICES ASSUME s.kind = "authorization"
             PROVE  say = "authorized" <=> (last[s] + 1) % 2 = 1
    BY DEF Odd, NewRow
<1>1. Alternates(s, say)
    BY DEF Insert, Admitted
<1>2. s \in Scope /\ say \in {"authorized", "revoked"} /\ last[s] \in Nat
    BY DEF Insert, IInv, TypeOK, InsertInv, Underway, Doing, Says
<1>3. CASE last[s] = 0
  <2>1. Head(rows, s) = {}
      BY <1>3 DEF Head, Of, IInv, ChainInv, Counted
  <2> QED BY <1>1, <1>3, <2>1 DEF Alternates
<1>4. CASE last[s] # 0
  <2>1. PICK d \in rows : d.scope = s /\ d.seq = last[s]
      BY <1>2, <1>4 DEF IInv, ChainInv, Counted
  <2>2. d \in Head(rows, s)
      BY <2>1 DEF Head, Of, IInv, ChainInv, Counted
  <2>3. d.say # say
      BY <1>1, <2>2 DEF Alternates
  <2>4. d.say \in {"authorized", "revoked"}
      BY <2>1 DEF IInv, ChainInv, Decided, Says
  <2>5. d.say = "authorized" <=> last[s] % 2 = 1
      BY <2>1 DEF IInv, ChainInv, Turns, Odd
  <2> QED BY <1>2, <2>3, <2>4, <2>5
<1> QED BY <1>3, <1>4

LEMMA InsertContinues ==
    ASSUME IInv, NEW o \in Operator, Insert(o)
    PROVE  Continues(o, cmd[o].row)'
<1>1. NewRow(o) \in Row /\ Odd(NewRow(o)) /\ BasisOf(o) \subseteq Ids(rows)
    BY NewRowTyped, NewRowTurns, NewBasis DEF Insert, IInv, InsertInv, ChainInv
<1>2. /\ cmd'[o].row = NewRow(o) /\ cmd'[o].scope = cmd[o].scope
      /\ cmd'[o].request = cmd[o].request /\ cmd'[o].say = cmd[o].say
      /\ rows' = rows /\ last' = last
    BY DEF Insert, IInv, TypeOK, ledgers
<1>3. /\ NewRow(o).scope = cmd[o].scope /\ NewRow(o).request = cmd[o].request
      /\ NewRow(o).say = cmd[o].say /\ NewRow(o).seq = last[cmd[o].scope] + 1
      /\ NewRow(o).pred = last[cmd[o].scope] /\ NewRow(o).basis = BasisOf(o)
    BY DEF NewRow
<1>4. ~OnRecord(cmd[o].scope, cmd[o].request)
    BY DEF Insert, Repeated
<1>5. (\E r \in Of(rows', cmd'[o].scope) : r.request = cmd'[o].request)
      <=> OnRecord(cmd[o].scope, cmd[o].request)
    BY <1>2 DEF OnRecord
<1> QED BY <1>1, <1>2, <1>3, <1>4, <1>5 DEF Continues, OnRecord, Odd

\* What another operator commits goes to another ledger.
LEMMA PendingKept ==
    ASSUME IInv, [LedgerNext]_ledgerVars, NEW x \in Operator,
           Doing(x, "commit"), cmd'[x] = cmd[x]
    PROVE  Continues(x, cmd[x].row)'
<1>1. Continues(x, cmd[x].row)
    BY DEF IInv, InsertInv, Pending
<1>2. CASE UNCHANGED ledgers
    BY <1>1, <1>2 DEF Continues, OnRecord, ledgers
<1>3. ASSUME NEW o \in Operator, Commit(o) PROVE Continues(x, cmd[x].row)'
  <2> DEFINE w == cmd[o].row
             v == cmd[x].row
  <2>1. x # o
      BY <1>3 DEF Commit, Release, Idle, Doing, IInv, TypeOK
  <2>2. Continues(o, w) /\ w.scope # v.scope
      BY <1>1, <1>3, <2>1 DEF Commit, Continues, IInv, InsertInv, Pending, OneInserter
  <2>3. rows' = rows \cup {w} /\ last' = [last EXCEPT ![w.scope] = w.seq]
      BY <1>3, <2>2 DEF Commit, Continues
  <2>4. last'[v.scope] = last[v.scope] /\ Ids(rows) \subseteq Ids(rows')
      BY <1>1, <2>2, <2>3 DEF Continues, Row, IInv, TypeOK, Ids
  <2>5. ~OnRecord(v.scope, v.request)'
      BY <1>1, <2>2, <2>3 DEF Continues, OnRecord, Of
  <2> QED BY <1>1, <2>4, <2>5 DEF Continues
<1> QED BY <1>2, <1>3, StepKind
    DEF Begin, Answer, LockAndCheck, Insert, RollBack, End, Retire, ledgerVars

LEMMA InsertStep == IInv /\ [LedgerNext]_ledgerVars => OneInserter' /\ Pending'
<1> SUFFICES ASSUME IInv, [LedgerNext]_ledgerVars PROVE OneInserter' /\ Pending'
    OBVIOUS
<1> USE DEF Doing
<1>1. ASSUME NEW o \in Operator, Insert(o) PROVE OneInserter' /\ Pending'
  <2>1. \A x \in Operator \ {o} : cmd'[x] = cmd[x]
      BY <1>1 DEF Insert, IInv, TypeOK
  <2>2. cmd'[o].scope = cmd[o].scope
        /\ \A x \in Operator : Doing(x, "commit") => cmd[x].scope # cmd[o].scope
      BY <1>1 DEF Insert, AllocatorFree, IInv, TypeOK
  <2>3. OneInserter'
      BY <2>1, <2>2 DEF OneInserter, IInv, InsertInv
  <2>4. Pending'
      BY <1>1, <2>1, InsertContinues, PendingKept DEF Pending
  <2> QED BY <2>3, <2>4
<1>2. ASSUME NEW o \in Operator, cmd'[o].at # "commit",
             \A x \in Operator \ {o} : cmd'[x] = cmd[x]
      PROVE  OneInserter' /\ Pending'
    BY <1>2, PendingKept DEF OneInserter, Pending, IInv, InsertInv
<1>3. ASSUME NEW o \in Operator, NEW s \in Scope, NEW q \in Request, NEW say \in Says[s.kind],
             Begin(o, s, say, q) PROVE OneInserter' /\ Pending'
    BY <1>2, <1>3 DEF Begin, IInv, TypeOK
<1>4. ASSUME NEW o \in Operator, LockAndCheck(o) PROVE OneInserter' /\ Pending'
    BY <1>2, <1>4 DEF LockAndCheck, IInv, TypeOK
<1>5. ASSUME NEW o \in Operator, Release(o) PROVE OneInserter' /\ Pending'
    BY <1>2, <1>5 DEF Release, Idle, IInv, TypeOK
<1>6. CASE UNCHANGED cmd
    BY <1>6, PendingKept DEF OneInserter, Pending, IInv, InsertInv
<1> QED BY <1>1, <1>3, <1>4, <1>5, <1>6, StepKind
    DEF Answer, RollBack, End, Commit, Retire, ledgerVars

-----------------------------------------------------------------------------
(* The pack and its limits                                                  *)

LEMMA RoomShrinks ==
    ASSUME NEW Q \in SUBSET Pair, NEW P \in SUBSET Q, NEW p \in Pair, Room(Q, p)
    PROVE  Room(P, p)
<1>1. /\ IsFiniteSet(SourcesOf(Q) \cup {p[2]}) /\ IsFiniteSet(ClaimsOf(Q) \cup {p[1]})
  <2>1. SourcesOf(Q) \cup {p[2]} \subseteq Evidence /\ ClaimsOf(Q) \cup {p[1]} \subseteq Claim
      BY DEF SourcesOf, ClaimsOf, Pair
  <2> QED BY <2>1, FS_Subset, CapacityAssumption
<1>2. /\ SourcesOf(P) \cup {p[2]} \subseteq SourcesOf(Q) \cup {p[2]}
      /\ ClaimsOf(P) \cup {p[1]} \subseteq ClaimsOf(Q) \cup {p[1]}
    BY DEF SourcesOf, ClaimsOf
<1>3. /\ Cardinality(SourcesOf(P) \cup {p[2]}) <= Cardinality(SourcesOf(Q) \cup {p[2]})
      /\ Cardinality(ClaimsOf(P) \cup {p[1]}) <= Cardinality(ClaimsOf(Q) \cup {p[1]})
      /\ IsFiniteSet(SourcesOf(P) \cup {p[2]}) /\ IsFiniteSet(ClaimsOf(P) \cup {p[1]})
    BY <1>1, <1>2, FS_Subset
<1> QED BY <1>1, <1>3, FS_CardinalityType, ConstantsAssumption DEF Room

Limited(P) == Cardinality(SourcesOf(P)) <= MaxSources /\ Cardinality(ClaimsOf(P)) <= MaxClaims

LEMMA FinitePack ==
    ASSUME NEW P \in SUBSET Pair
    PROVE  IsFiniteSet(SourcesOf(P)) /\ IsFiniteSet(ClaimsOf(P))
<1>1. SourcesOf(P) \subseteq Evidence /\ ClaimsOf(P) \subseteq Claim
    BY DEF SourcesOf, ClaimsOf, Pair
<1> QED BY <1>1, FS_Subset, CapacityAssumption

LEMMA LimitedShrinks ==
    ASSUME NEW Q \in SUBSET Pair, NEW P \in SUBSET Q, Limited(Q)
    PROVE  Limited(P)
<1>1. SourcesOf(P) \subseteq SourcesOf(Q) /\ ClaimsOf(P) \subseteq ClaimsOf(Q)
    BY DEF SourcesOf, ClaimsOf
<1>2. /\ IsFiniteSet(SourcesOf(Q)) /\ IsFiniteSet(ClaimsOf(Q))
      /\ IsFiniteSet(SourcesOf(P)) /\ IsFiniteSet(ClaimsOf(P))
    BY FinitePack
<1>3. /\ Cardinality(SourcesOf(P)) <= Cardinality(SourcesOf(Q))
      /\ Cardinality(ClaimsOf(P)) <= Cardinality(ClaimsOf(Q))
    BY <1>1, <1>2, FS_Subset
<1> QED BY <1>2, <1>3, FS_CardinalityType, ConstantsAssumption DEF Limited

\* A member that fits has room.
LEMMA FitsIsRoom ==
    ASSUME NEW P \in SUBSET Pair, NEW p \in Pair, Limited(P),
           Fits(p[2], SourcesOf(P), MaxSources), Fits(p[1], ClaimsOf(P), MaxClaims)
    PROVE  Room(P, p)
<1>1. IsFiniteSet(SourcesOf(P)) /\ IsFiniteSet(ClaimsOf(P))
    BY FinitePack
<1>2. /\ Cardinality(SourcesOf(P) \cup {p[2]}) =
           IF p[2] \in SourcesOf(P) THEN Cardinality(SourcesOf(P))
           ELSE Cardinality(SourcesOf(P)) + 1
      /\ Cardinality(ClaimsOf(P) \cup {p[1]}) =
           IF p[1] \in ClaimsOf(P) THEN Cardinality(ClaimsOf(P))
           ELSE Cardinality(ClaimsOf(P)) + 1
    BY <1>1, FS_AddElement
<1>3. Cardinality(SourcesOf(P)) \in Nat /\ Cardinality(ClaimsOf(P)) \in Nat
    BY <1>1, FS_CardinalityType
<1> QED BY <1>2, <1>3, ConstantsAssumption DEF Fits, Limited, Room

\* With room for one more pair, the pack keeps its limits when it is added.
LEMMA RoomIsLimited ==
    ASSUME NEW Q \in SUBSET Pair, NEW p \in Pair, NEW P \in SUBSET (Q \cup {p}), Room(Q, p)
    PROVE  Limited(P)
<1>1. SourcesOf(Q \cup {p}) = SourcesOf(Q) \cup {p[2]} /\ ClaimsOf(Q \cup {p}) = ClaimsOf(Q) \cup {p[1]}
    BY DEF SourcesOf, ClaimsOf
<1>2. Limited(Q \cup {p})
    BY <1>1 DEF Limited, Room
<1> QED BY <1>2, LimitedShrinks

LEMMA CapacityInit == Init => CapacityInv
<1> SUFFICES ASSUME Init PROVE CapacityInv
    OBVIOUS
<1>1. Pack(rows, available) \subseteq Used
  <2> SUFFICES ASSUME NEW p \in Pair, NEW d \in Head(Prior, Authorization(p)) PROVE p \in Used
      BY DEF Init, Pack
  <2>1. d \in Prior /\ d.scope = Authorization(p)
      BY DEF Head, Of
  <2>2. \E q \in Used : d = [First(Authorization(q), "authorized") EXCEPT
                               !.basis = {<<s, 1>> : s \in Inputs(q)}]
    <3>1. d.scope.kind = "authorization"
        BY <2>1 DEF Authorization
    <3>2. d \notin {First(Annotation(c), "noted") : c \in Ready}
        BY <3>1 DEF First, Annotation
    <3>3. d \notin {First(Support(q), "support") : q \in Ready \X Evidence}
        BY <3>1 DEF First, Support
    <3>4. d \notin {First(Review(i), "approved") : i \in Ready \cup Evidence}
        BY <3>1 DEF First, Review
    <3> QED BY <2>1, <3>2, <3>3, <3>4 DEF Prior
  <2>3. PICK q \in Used : d.scope = Authorization(q)
      BY <2>2 DEF First
  <2>4. q \in Pair
      BY ConstantsAssumption DEF Pair
  <2> QED BY <2>1, <2>3, <2>4, ScopesDiffer
<1>2. Used \in SUBSET Pair
    BY ConstantsAssumption DEF Pair
<1>3. Limited(Used)
    BY CapacityAssumption DEF Limited, SourcesOf, ClaimsOf
<1>4. Limited(Pack(rows, available))
    BY <1>1, <1>2, <1>3, LimitedShrinks
<1>5. WithinCapacity
    BY <1>4 DEF WithinCapacity, Limited
<1>6. \A o \in Operator : Doing(o, "idle")
    BY DEF Init, Idle, Doing
<1> QED BY <1>5, <1>6 DEF CapacityInv, LockHeld, RoomKept

\* How a step changes the pack.
LEMMA PackStep ==
    ASSUME IInv, [LedgerNext]_ledgerVars, NEW p \in Pair,
           p \in Pack(rows', available') \ Pack(rows, available)
    PROVE  \E o \in Operator : /\ Commit(o) /\ Authorizes(o) /\ cmd[o].scope = Authorization(p)
                               /\ cmd[o].row \in rows' \ rows
                               /\ cmd[o].row.scope = Authorization(p)
                               /\ cmd[o].row.say = "authorized"
<1>1. available' \subseteq available
    BY StepKind DEF Begin, Answer, LockAndCheck, Insert, Commit, RollBack, End, Retire, ledgerVars
<1>2. p \in Pack(rows', available)
    BY <1>1, PackShrinks
<1>3. PICK o \in Operator : Commit(o)
    BY <1>2, StepKind
       DEF Begin, Answer, LockAndCheck, Insert, RollBack, End, Retire, ledgerVars, ledgers
<1> DEFINE w == cmd[o].row
<1>4. Continues(o, w)
    BY <1>3 DEF Commit, IInv, InsertInv, Pending
<1>5. rows' = rows \cup {w} /\ w \in Row /\ Newest(rows, w)
    BY <1>3, <1>4, NextNumber DEF Commit, Continues
<1>6. w.scope = Authorization(p) /\ w.say = "authorized"
    BY <1>2, <1>5, OnlyAuthorized DEF IInv, TypeOK, ChainInv, Based
<1>7. w \notin rows
    BY <1>4, <1>5 DEF Newest, Row
<1>8. Authorizes(o)
    BY <1>4, <1>6 DEF Continues, Authorizes, Authorization
<1> QED BY <1>3, <1>4, <1>5, <1>6, <1>7, <1>8 DEF Continues

LEMMA LockStep == IInv /\ [LedgerNext]_ledgerVars => LockHeld'
<1> SUFFICES ASSUME IInv, [LedgerNext]_ledgerVars PROVE LockHeld'
    OBVIOUS
<1> USE DEF IInv, CapacityInv, LockHeld, Doing, Authorizes, TypeOK
<1>1. ASSUME NEW o \in Operator, NEW s \in Scope, NEW q \in Request, NEW say \in Says[s.kind],
             Begin(o, s, say, q) PROVE LockHeld'
    BY <1>1 DEF Begin, LocksProject
<1>2. ASSUME NEW o \in Operator, Release(o) PROVE LockHeld'
    BY <1>2 DEF Release, Idle
<1>3. ASSUME NEW o \in Operator, LockAndCheck(o) PROVE LockHeld'
    BY <1>3, ConstantsAssumption DEF LockAndCheck, ProjectFree
<1>4. ASSUME NEW o \in Operator, Insert(o) PROVE LockHeld'
    BY <1>4 DEF Insert
<1>5. CASE UNCHANGED <<project, cmd>>
    BY <1>5
<1> QED BY <1>1, <1>2, <1>3, <1>4, <1>5, StepKind
    DEF Answer, RollBack, End, Commit, Retire, ledgerVars

LEMMA CapacityStep == IInv /\ [LedgerNext]_ledgerVars => RoomKept' /\ WithinCapacity'
<1> SUFFICES ASSUME IInv, [LedgerNext]_ledgerVars PROVE RoomKept' /\ WithinCapacity'
    OBVIOUS
<1> DEFINE P == Pack(rows, available)
           Q == Pack(rows', available')
<1>1. P \in SUBSET Pair /\ Q \in SUBSET Pair /\ Limited(P)
    BY DEF Pack, IInv, CapacityInv, WithinCapacity, Limited
<1> HIDE DEF P, Q
\* Who is authorizing has the project, hence is the only one to enlarge the pack.
<1>2. ASSUME NEW x \in Operator, ~Doing(x, "idle"), ~Doing(x, "lock"), Authorizes(x)
      PROVE  /\ cmd[x].scope.of \in Pair /\ cmd[x].scope = Authorization(cmd[x].scope.of)
             /\ project = x /\ Room(P, cmd[x].scope.of)
    BY <1>2, ScopeKinds DEF P, Authorizes, IInv, InsertInv, Underway, CapacityInv, LockHeld, RoomKept
<1>3. ASSUME NEW o \in Operator, Commit(o), Authorizes(o)
      PROVE  Q \subseteq P \cup {cmd[o].scope.of}
  <2> SUFFICES ASSUME NEW p \in Q, p \notin P PROVE p = cmd[o].scope.of
      OBVIOUS
  <2>1. PICK x \in Operator : Commit(x) /\ Authorizes(x) /\ cmd[x].scope = Authorization(p)
      BY <1>1, PackStep DEF P, Q
  <2>2. x = o
      BY <1>2, <1>3, <2>1 DEF Commit, Doing
  <2> QED BY <1>2, <1>3, <2>1, <2>2 DEF Commit, Doing, Authorization
<1>4. ASSUME \A o \in Operator : ~(Commit(o) /\ Authorizes(o)) PROVE Q \subseteq P
    BY <1>1, <1>4, PackStep DEF P, Q
<1>5. Limited(Q)
  <2>1. CASE \E o \in Operator : Commit(o) /\ Authorizes(o)
      BY <1>1, <1>2, <1>3, <2>1, RoomIsLimited DEF Commit, Doing
  <2>2. CASE \A o \in Operator : ~(Commit(o) /\ Authorizes(o))
      BY <1>1, <1>4, <2>2, LimitedShrinks
  <2> QED BY <2>1, <2>2
<1>6. WithinCapacity'
    BY <1>5 DEF WithinCapacity, Limited, Q
<1>7. RoomKept'
  <2> SUFFICES ASSUME NEW x \in Operator, cmd'[x].at \notin {"idle", "lock"}, Authorizes(x)'
               PROVE  Room(Q, cmd'[x].scope.of)
      BY DEF RoomKept, Doing, Q
  <2>1. ASSUME cmd'[x].scope = cmd[x].scope, cmd'[x].say = cmd[x].say, ~Doing(x, "idle"), ~Doing(x, "lock")
        PROVE  Room(Q, cmd'[x].scope.of)
    <3>1. Authorizes(x)
        BY <2>1 DEF Authorizes
    <3>2. CASE \E o \in Operator : Commit(o) /\ Authorizes(o)
      <4>1. PICK o \in Operator : Commit(o) /\ Authorizes(o)
          BY <3>2
      <4>2. o = x
          BY <1>2, <2>1, <3>1, <4>1 DEF Commit, Doing
      <4> QED BY <4>1, <4>2 DEF Commit, Release, Idle, IInv, TypeOK
    <3>3. CASE \A o \in Operator : ~(Commit(o) /\ Authorizes(o))
        BY <1>1, <1>2, <1>4, <2>1, <3>1, <3>3, RoomShrinks
    <3> QED BY <3>2, <3>3
  <2>2. ASSUME NEW o \in Operator, LockAndCheck(o) PROVE Room(Q, cmd'[x].scope.of)
    <3>1. CASE x # o
        BY <2>1, <2>2, <3>1 DEF LockAndCheck, Doing, IInv, TypeOK
    <3>2. CASE x = o
      <4>1. cmd'[x].scope = cmd[x].scope /\ cmd'[x].say = cmd[x].say
          BY <2>2, <3>2 DEF LockAndCheck, IInv, TypeOK
      <4>2. Authorizes(x)
          BY <4>1 DEF Authorizes
      <4>3. cmd[x].scope.of \in Pair
          BY <2>2, <3>2, <4>2, ScopeKinds
             DEF LockAndCheck, Authorizes, Doing, IInv, InsertInv, Underway
      <4>4. Room(P, cmd[x].scope.of)
          BY <1>1, <2>2, <3>2, <4>2, <4>3, FitsIsRoom DEF LockAndCheck, Eligible, P
      <4>5. Q = P
          BY <2>2 DEF LockAndCheck, ledgers, P, Q
      <4> QED BY <4>1, <4>4, <4>5
    <3> QED BY <3>1, <3>2
  <2>3. ASSUME NEW o \in Operator, Insert(o) PROVE Room(Q, cmd'[x].scope.of)
      BY <2>1, <2>3 DEF Insert, Doing, IInv, TypeOK
  <2>4. ASSUME NEW o \in Operator, Release(o) PROVE Room(Q, cmd'[x].scope.of)
      BY <2>1, <2>4 DEF Release, Idle, Doing, IInv, TypeOK
  <2>5. ASSUME NEW o \in Operator, NEW s \in Scope, NEW q \in Request, NEW say \in Says[s.kind],
               Begin(o, s, say, q) PROVE Room(Q, cmd'[x].scope.of)
      BY <2>1, <2>5 DEF Begin, Doing, Authorizes, LocksProject, IInv, TypeOK
  <2>6. CASE UNCHANGED cmd
      BY <2>1, <2>6 DEF Doing
  <2> QED BY <2>2, <2>3, <2>4, <2>5, <2>6, StepKind
      DEF Answer, RollBack, End, Commit, Retire, ledgerVars
<1> QED BY <1>6, <1>7

-----------------------------------------------------------------------------
(* The theorems                                                             *)

LEMMA Initial == Init => IInv
<1> SUFFICES ASSUME Init PROVE IInv
    OBVIOUS
<1>1. InsertInv
    BY DEF Init, Idle, InsertInv, Underway, OneInserter, Pending, Doing
<1> QED BY <1>1, TypeInit, ChainInit, CapacityInit DEF IInv

LEMMA Inductive == IInv /\ [LedgerNext]_ledgerVars => IInv'
BY TypeStep, UnderwayStep, ChainStep, InsertStep, LockStep, CapacityStep
   DEF IInv, InsertInv, CapacityInv

LEMMA Always == LedgerSpec => []IInv
BY Initial, Inductive, PTL DEF LedgerSpec

(* Every variable has its type (TypeOK of EvidenceLedger).                  *)
THEOREM Types == LedgerSpec => []TypeOK
BY Always, PTL DEF IInv

LEMMA ChainsFollow == IInv => OneChain
<1> SUFFICES ASSUME IInv, NEW s \in Scope PROVE Chained(Of(rows, s), s, last[s])
    BY DEF OneChain
<1> USE DEF IInv, ChainInv, Of
<1>1. {r.seq : r \in Of(rows, s)} = 1 .. last[s]
    BY DEF Counted
<1>2. \A q, r \in Of(rows, s) : q.seq = r.seq \/ (q.request = r.request /\ q.request # None) => q = r
    BY DEF OnceEach
<1>3. \A r \in Of(rows, s) :
        /\ r.seq = r.pred + 1
        /\ s.kind = "authorization" => (r.say = "authorized" <=> r.seq % 2 = 1)
    BY DEF Counted, Turns, Odd
<1> QED BY <1>1, <1>2, <1>3 DEF Chained

(* Concurrent, repeated and abandoned commands leave every ledger one chain *)
(* (the triggers of v54, v56 and v61).                                      *)
THEOREM Chains == LedgerSpec => []OneChain
BY Always, ChainsFollow, PTL

(* Concurrent authorizations never bring the pack above its limits          *)
(* (record_usage_authorization_decision).                                   *)
THEOREM Capacity == LedgerSpec => []WithinCapacity
BY Always, PTL DEF IInv, CapacityInv

LEMMA RevivalStep == IInv /\ [LedgerNext]_ledgerVars =>
    [\A p \in Pack(rows', available') \ Pack(rows, available) :
        \E r \in rows' \ rows : r.scope = Authorization(p) /\ r.say = "authorized"]_ledgerVars
BY PackStep DEF Pack

(* What has left the pack comes back by a new authorization only            *)
(* (_EFFECTIVE_AUTHORIZATION_SELECT).                                       *)
THEOREM NoRevival == LedgerSpec => NeverRevived
BY Always, RevivalStep, PTL DEF LedgerSpec, NeverRevived

-----------------------------------------------------------------------------
(* The consumption                                                         *)

\* The evidence E behind phase c is attested and on the register.
Kept(c, E) == attested[c] = E /\ \A x \in Cited(E) : register[x] # None

UseTypes ==
    /\ phase \in Consumer \cup {None}
    /\ done \subseteq Consumer
    /\ shown \subseteq Exhibit
    /\ attested \in [Consumer -> SUBSET Exhibit]
    /\ behind \in [Consumer -> SUBSET Exhibit]
    /\ register \in [Claim -> {None, "support", "qualification"}]

\* So it is for a phase that is out, which is not done, and for those done.
KeptInv ==
    /\ phase # None => Kept(phase, shown) /\ phase \notin done
    /\ \A c \in done : Kept(c, behind[c])

-----------------------------------------------------------------------------
LEMMA LedgerStep == [Next]_vars => [LedgerNext]_ledgerVars
BY DEF Next, Analysis, Consume, Blocked, Starts, Complete, Fail, vars

(* The ledgers beside an analysis are the ledgers without one: the          *)
(* consumption reads them and writes nothing (_enforce_read_only_posture).  *)
THEOREM LedgersAlone == Spec => LedgerSpec
<1>1. UseInit => Init
    BY DEF UseInit
<1> QED BY <1>1, LedgerStep, PTL DEF Spec, LedgerSpec

LEMMA UseTypesInit == UseInit => UseTypes
BY DEF UseInit, UseTypes

LEMMA UseTypesStep == UseTypes /\ [Next]_vars => UseTypes'
<1> SUFFICES ASSUME UseTypes, [Next]_vars PROVE UseTypes'
    OBVIOUS
<1> USE DEF UseTypes
<1>1. ASSUME NEW c \in Consumer, Consume(c) PROVE UseTypes'
    BY <1>1 DEF Consume, Starts, Projection, Merged, Label
<1>2. ASSUME NEW c \in Consumer, Blocked(c) PROVE UseTypes'
    BY <1>2 DEF Blocked, Starts
<1>3. CASE Complete
    BY <1>3 DEF Complete
<1>4. CASE Fail
    BY <1>4 DEF Fail
<1>5. CASE UNCHANGED analysis
    BY <1>5 DEF analysis
<1> QED BY <1>1, <1>2, <1>3, <1>4, <1>5 DEF Next, Analysis, vars

(* Every variable has its type (UseTypeOK of EvidenceUse).                  *)
THEOREM UseIsTyped == Spec => []UseTypeOK
<1>1. Spec => []UseTypes
    BY UseTypesInit, UseTypesStep, PTL DEF Spec
<1>2. TypeOK /\ UseTypes => UseTypeOK
    BY DEF UseTypes, UseTypeOK
<1> QED BY <1>1, <1>2, LedgersAlone, Types, PTL

\* What a phase is shown is no more than the pack, and is logged in full.
LEMMA AllLogged ==
    ASSUME MaxClaims <= ClaimLimit, IInv, NEW logged \in SUBSET Cited(Projection),
           \A more \in SUBSET Cited(Projection) :
              logged \subseteq more /\ Cardinality(more) <= ClaimLimit => more = logged
    PROVE  logged = Cited(Projection)
<1> DEFINE P == Pack(rows, available)
<1>1. P \in SUBSET Pair
    BY DEF Pack
<1>2. IsFiniteSet(ClaimsOf(P)) /\ Cardinality(ClaimsOf(P)) <= MaxClaims
    BY <1>1, FinitePack DEF IInv, CapacityInv, WithinCapacity
<1>3. Cited(Projection) \subseteq ClaimsOf(P)
    BY DEF Cited, Projection, ClaimsOf
<1>4. /\ Cardinality(Cited(Projection)) <= Cardinality(ClaimsOf(P))
      /\ IsFiniteSet(Cited(Projection))
    BY <1>2, <1>3, FS_Subset
<1>5. Cardinality(Cited(Projection)) <= ClaimLimit
    BY <1>2, <1>4, FS_CardinalityType, ConstantsAssumption, ClaimLimitAssumption
<1> QED BY <1>5

LEMMA KeptStep ==
    ASSUME MaxClaims <= ClaimLimit
    PROVE  IInv /\ UseTypes /\ KeptInv /\ [Next]_vars => KeptInv'
<1> SUFFICES ASSUME IInv, UseTypes, KeptInv, [Next]_vars PROVE KeptInv'
    OBVIOUS
<1> USE DEF KeptInv, Kept
<1>1. ASSUME NEW c \in Consumer, Consume(c) PROVE KeptInv'
  <2>1. PICK logged \in SUBSET Cited(Projection) :
           logged = Cited(Projection) /\ register' = Merged(Projection, logged)
      BY <1>1, AllLogged DEF Consume
  <2>2. \A x \in Claim : register[x] # None => register'[x] # None
      BY <2>1 DEF Merged
  <2>3. Cited(Projection) \subseteq Claim
      BY DEF Cited, Projection, Exhibit, Pair
  <2>4. \A x \in Cited(Projection) : register'[x] # None
      BY <2>1, <2>3, ClaimLimitAssumption DEF Merged, Label
  <2>5. /\ phase' = c /\ shown' = Projection /\ attested' = [attested EXCEPT ![c] = Projection]
        /\ done' = done \ Cone(c) /\ c \in Cone(c)
        /\ \A d \in done' : behind'[d] = behind[d] /\ attested'[d] = attested[d]
      BY <1>1 DEF Consume, Starts, Cone, Consumer, UseTypes
  <2>6. ASSUME NEW d \in done' PROVE Kept(d, behind[d])'
    <3>1. Cited(behind[d]) \subseteq Claim
        BY <2>5, <2>6 DEF UseTypes, Cited, Exhibit, Pair
    <3> QED BY <2>2, <2>5, <2>6, <3>1
  <2>7. attested'[c] = Projection
      BY <2>5 DEF UseTypes
  <2> QED BY <2>4, <2>5, <2>6, <2>7
<1>2. ASSUME NEW c \in Consumer, Blocked(c) PROVE KeptInv'
    BY <1>2 DEF Blocked, Starts, UseTypes
<1>3. CASE Complete
    BY <1>3 DEF Complete, UseTypes
<1>4. CASE Fail
    BY <1>4 DEF Fail
<1>5. CASE UNCHANGED analysis
    BY <1>5 DEF analysis
<1> QED BY <1>1, <1>2, <1>3, <1>4, <1>5 DEF Next, Analysis, vars

(* An output stands on what its attestation names, and every claim its      *)
(* prompt showed is on the register, if the log admits as many claims as    *)
(* the pack (_ATTESTATION_CLAIM_LIMIT and MAX_PACK_CLAIMS).                 *)
THEOREM Provenance ==
    ASSUME MaxClaims <= ClaimLimit
    PROVE  Spec => []ProvenanceIsKept
<1>1. UseInit => UseTypes /\ KeptInv
    BY UseTypesInit DEF UseInit, KeptInv
<1>2. IInv /\ UseTypes /\ KeptInv /\ [Next]_vars => UseTypes' /\ KeptInv'
    BY UseTypesStep, KeptStep
<1>3. KeptInv => ProvenanceIsKept
    BY DEF KeptInv, Kept, ProvenanceIsKept
<1> QED BY <1>1, <1>2, <1>3, LedgersAlone, Always, PTL DEF Spec

=============================================================================
