------------------------ MODULE ProviderGateway_proofs ------------------------
(***************************************************************************)
(* Machine-checked proofs about ProviderGateway, for any number of         *)
(* projects, candidates, retries and cache keys.                           *)
(***************************************************************************)
EXTENDS ProviderGateway, FiniteSetTheorems, TLAPS

\* A call between two candidates: one position beyond the last is possible.
Trying == [at : {"idle", "sent", "waiting"}, pos : 1 .. Len(Candidates) + 1,
           retry : 1 .. MaxRetries, usage : Nat, key : Key \cup {None},
           first : Errors, attempted : Errors, last : Errors, seen : SUBSET Category]

\* What has been charged is on the budget or on the ledger of the open call.
Accounted == \A p \in Project :
    /\ call[p].at = "idle" => call[p] = Fresh
    /\ billed[p] <= spent[p] + call[p].usage
    /\ Key = {} => billed[p] = spent[p] + call[p].usage

\* A call is opened within the cap and charged at most once per candidate it
\* has left behind.
Frugal == \A p \in Project :
    /\ call[p].at # "idle" => spent[p] <= Cap /\ call[p].usage < call[p].pos
    /\ billed[p] <= Cap + Len(Candidates)

IInv == TypeOK /\ Accounted /\ Frugal

USE DEF Retryable, Unusable, FallbackEligible, Category, Outcome, Errors, Position

\* The two ways a step of the loop can end.
Returned(p, usage) ==
    /\ call' = [call EXCEPT ![p] = Fresh]
    /\ spent' = [spent EXCEPT ![p] = @ + usage]
    /\ reply' \in [Project -> Reply]

Sent(p, t) ==
    /\ GateOpen(p)
    /\ \E u \in Call :
          /\ call' = [call EXCEPT ![p] = u]
          /\ u.at = "sent" /\ u.usage = t.usage /\ u.pos >= t.pos
    /\ UNCHANGED <<spent, reply>>

LEMMA Freshness == Fresh \in Call /\ Fresh \in Trying /\ Fresh.at = "idle" /\ Fresh.usage = 0
                   /\ Fresh.pos = 1
BY CandidatesAssumption, LimitsAssumption DEF Fresh, Call, Trying

LEMMA ModelOf == \A i \in Position : Candidates[i] \in Model
BY DEF Model

LEMMA ReturnStep ==
    ASSUME TypeOK, NEW p \in Project, NEW t \in Trying, NEW kind, NEW error,
           kind \in {"none", "ok", "hit", "refused", "error"}, error \in Errors \cup {"policy"},
           Return(p, kind, error, t)
    PROVE  Returned(p, t.usage)
BY DEF Return, Returned, TypeOK, Reply, Trying

LEMMA AttemptStep ==
    ASSUME TypeOK, NEW p \in Project, NEW t \in Call, NEW fails \in [Model -> Nat],
           Attempt(p, t, fails)
    PROVE  (Returned(p, t.usage) \/ Sent(p, t)) /\ pressed' \in [Model -> Nat]
<1>1. CASE GateOpen(p)
  <2> DEFINE u == [t EXCEPT !.at = "sent"]
  <2>1. u \in Call /\ u.at = "sent" /\ u.usage = t.usage /\ u.pos = t.pos /\ t.pos \in Nat
    BY DEF Call
  <2>2. /\ call' = [call EXCEPT ![p] = u]
        /\ Press(Candidates[t.pos], fails)
        /\ UNCHANGED <<spent, reply>>
    BY <1>1 DEF Attempt
  <2>3. pressed \in [Model -> Nat] /\ Candidates[t.pos] \in Model
    BY ModelOf DEF TypeOK, Call
  <2>4. pressed' \in [Model -> Nat]
    BY <2>2, <2>3 DEF Press, IsOpen
  <2> HIDE DEF u
  <2>5. u.pos >= t.pos
    BY <2>1
  <2>6. Sent(p, t)
    BY <1>1, <2>1, <2>2, <2>5 DEF Sent
  <2> QED
    BY <2>4, <2>6
<1>2. CASE ~GateOpen(p)
  <2>1. t \in Trying
    BY DEF Call, Trying
  <2>2. Return(p, "refused", "policy", t) /\ UNCHANGED pressed
    BY <1>2 DEF Attempt, Refuse
  <2> QED
    BY <2>1, <2>2, ReturnStep DEF TypeOK
<1> QED
  BY <1>1, <1>2

LEMMA SkippingType == ASSUME NEW t \in Trying
                      PROVE  /\ Skipping(t) \in Trying
                             /\ Skipping(t).usage = t.usage /\ Skipping(t).pos = t.pos
<1>1. FirstOf(t.first, "unavailable") \in Errors
  BY DEF FirstOf, Trying
<1> QED
  BY <1>1, ZenonT(30) DEF Skipping, Trying

LEMMA HeadlineType == ASSUME NEW t \in Trying PROVE Headline(t) \in Errors
BY DEF Headline, Trying

LEMMA PlacedType ==
    ASSUME NEW t \in Trying, NEW i \in Position, 1 \in 1 .. MaxRetries
    PROVE  LET v == [t EXCEPT !.pos = i, !.retry = 1]
           IN  v \in Call /\ v.usage = t.usage /\ v.pos = i
<1>1. [t EXCEPT !.pos = i, !.retry = 1] \in Call
  BY DEF Trying, Call
<1>2. [t EXCEPT !.pos = i, !.retry = 1].usage = t.usage
  BY DEF Trying
<1>3. [t EXCEPT !.pos = i, !.retry = 1].pos = i
  BY DEF Trying
<1> QED
  BY <1>1, <1>2, <1>3

LEMMA TryFromStep ==
    ASSUME TypeOK, NEW p \in Project, NEW t \in Trying, NEW fails \in [Model -> Nat],
           TryFrom(p, t, fails)
    PROVE  (Returned(p, t.usage) \/ Sent(p, t)) /\ pressed' \in [Model -> Nat]
<1> DEFINE open == {i \in t.pos .. Len(Candidates) : Passable(fails, i)}
<1>1. CASE open = {} /\ LET u == IF t.pos \in Position THEN Skipping(t) ELSE t
                        IN  Return(p, "error", Headline(u), u) /\ UNCHANGED pressed
  <2> DEFINE u == IF t.pos \in Position THEN Skipping(t) ELSE t
  <2>1. u \in Trying /\ u.usage = t.usage
    BY SkippingType
  <2>2. Headline(u) \in Errors
    BY <2>1, HeadlineType
  <2>3. Return(p, "error", Headline(u), u) /\ UNCHANGED pressed
    BY <1>1
  <2> HIDE DEF u
  <2> QED
    BY <2>1, <2>2, <2>3, ReturnStep DEF TypeOK
<1>2. ASSUME NEW i \in open,
             LET u == IF i > t.pos THEN Skipping(t) ELSE t
             IN  Attempt(p, [u EXCEPT !.pos = i, !.retry = 1], fails)
      PROVE  (Returned(p, t.usage) \/ Sent(p, t)) /\ pressed' \in [Model -> Nat]
  <2> DEFINE u == IF i > t.pos THEN Skipping(t) ELSE t
             v == [u EXCEPT !.pos = i, !.retry = 1]
  <2>1. u \in Trying /\ u.usage = t.usage
    BY SkippingType
  <2>2. i \in Position /\ i >= t.pos
    BY CandidatesAssumption DEF Trying
  <2>3. 1 \in 1 .. MaxRetries
    BY LimitsAssumption
  <2> HIDE DEF u
  <2>4. v \in Call /\ v.usage = t.usage /\ v.pos = i
    BY <2>1, <2>2, <2>3, PlacedType
  <2>5. Attempt(p, v, fails)
    BY <1>2 DEF u
  <2> HIDE DEF v
  <2>6. (Returned(p, v.usage) \/ Sent(p, v)) /\ pressed' \in [Model -> Nat]
    BY <2>4, <2>5, AttemptStep
  <2>7. Sent(p, v) => Sent(p, t)
    <3>1. \A j \in Position : j >= v.pos => j >= t.pos
      BY <2>2, <2>4, CandidatesAssumption DEF Trying
    <3>2. \A w \in Call : w.pos \in Position
      BY DEF Call
    <3> QED
      BY <2>4, <3>1, <3>2 DEF Sent
  <2> QED
    BY <2>4, <2>6, <2>7
<1> QED
  BY <1>1, <1>2 DEF TryFrom

-----------------------------------------------------------------------------
(* The ledger and the position of a call.                                   *)

Charged(p, c) == \A q \in Project : billed'[q] = IF q = p THEN billed[p] + c ELSE billed[q]

LEMMA CostRange == \A outcome : Cost(outcome) \in {0, 1}
BY DEF Cost

LEMMA RecordedType ==
    ASSUME NEW t \in Call, NEW outcome \in Outcome
    PROVE  LET u == Recorded(t, outcome)
           IN  u \in Call /\ u.usage = t.usage + Cost(outcome) /\ u.pos = t.pos /\ u.retry = t.retry
BY CostRange DEF Recorded, Call

LEMMA FailingType ==
    ASSUME NEW t \in Call, NEW category \in Category
    PROVE  LET u == Failing(t, category)
           IN  u \in Call /\ u.usage = t.usage /\ u.pos = t.pos /\ u.retry = t.retry
<1> DEFINE u == Failing(t, category)
<1>1. FirstOf(t.first, category) \in Errors /\ FirstOf(t.attempted, category) \in Errors
  BY DEF FirstOf, Call
<1>2. u \in Call
  BY <1>1, ZenonT(30) DEF Failing, Call
<1>3. u.usage = t.usage /\ u.pos = t.pos /\ u.retry = t.retry
  BY DEF Failing, Call
<1> QED
  BY <1>2, <1>3

LEMMA FailedType ==
    ASSUME NEW t \in Call, NEW category \in Category
    PROVE  LET u == Failing(Recorded(t, category), category)
           IN  /\ u \in Call /\ u.usage = t.usage + Cost(category)
               /\ u.pos = t.pos /\ u.retry = t.retry
BY RecordedType, FailingType

LEMMA OnwardType ==
    ASSUME NEW t \in Call
    PROVE  LET u == [t EXCEPT !.pos = @ + 1]
           IN  u \in Trying /\ u.usage = t.usage /\ u.pos = t.pos + 1
<1>1. t.pos + 1 \in 1 .. Len(Candidates) + 1
  BY CandidatesAssumption DEF Call
<1>2. [t EXCEPT !.pos = @ + 1] \in Trying
  BY <1>1 DEF Call, Trying
<1>3. [t EXCEPT !.pos = @ + 1].usage = t.usage /\ [t EXCEPT !.pos = @ + 1].pos = t.pos + 1
  BY DEF Call
<1> QED
  BY <1>2, <1>3

LEMMA Numbers ==
    ASSUME IInv, NEW p \in Project
    PROVE  /\ spent[p] \in Nat /\ billed[p] \in Nat /\ Cap \in Nat /\ Len(Candidates) \in Nat
           /\ call[p] \in Call /\ call[p].usage \in Nat /\ call[p].pos \in 1 .. Len(Candidates)
           /\ call[p].at = "idle" => call[p] = Fresh
           /\ billed[p] <= spent[p] + call[p].usage
           /\ Key = {} => billed[p] = spent[p] + call[p].usage
           /\ call[p].at # "idle" => spent[p] <= Cap
           /\ call[p].usage < call[p].pos
           /\ billed[p] <= Cap + Len(Candidates)
<1>1. call[p] \in Call
  BY DEF IInv, TypeOK
<1>2. call[p].usage < call[p].pos
  BY Freshness DEF IInv, Accounted, Frugal
<1> QED
  BY <1>1, <1>2, CandidatesAssumption, LimitsAssumption
  DEF IInv, TypeOK, Call, Accounted, Frugal

\* The same charge on both sides of the ledger.
LEMMA LedgerSums ==
    ASSUME NEW b \in Nat, NEW s \in Nat, NEW u \in Nat, NEW c \in {0, 1}
    PROVE  /\ b <= s + u => b + c <= s + (u + c)
           /\ b = s + u => b + c = s + (u + c)
OBVIOUS

\* What is charged before the answer of an open call, plus that answer.
LEMMA ChargedBound ==
    ASSUME IInv, NEW p \in Project, NEW c \in {0, 1}, c = 1 => call[p].at # "idle"
    PROVE  billed[p] + c <= Cap + Len(Candidates)
<1>1. CASE c = 0
  BY <1>1, Numbers
<1>2. CASE c = 1
  BY <1>2, Numbers
<1> QED
  BY <1>1, <1>2

\* The invariant of a project, for the other projects of a step and for its own.
LEMMA ByProject ==
    ASSUME IInv, NEW p \in Project,
           \A q \in Project \ {p} : /\ call'[q] = call[q] /\ spent'[q] = spent[q]
                                    /\ billed'[q] = billed[q],
           call'[p].at = "idle" => call'[p] = Fresh,
           billed'[p] <= spent'[p] + call'[p].usage,
           Key = {} => billed'[p] = spent'[p] + call'[p].usage,
           call'[p].at # "idle" => spent'[p] <= Cap /\ call'[p].usage < call'[p].pos,
           billed'[p] <= Cap + Len(Candidates)
    PROVE  Accounted' /\ Frugal'
<1>1. \A q \in Project \ {p} :
        /\ call'[q].at = "idle" => call'[q] = Fresh
        /\ billed'[q] <= spent'[q] + call'[q].usage
        /\ Key = {} => billed'[q] = spent'[q] + call'[q].usage
        /\ call'[q].at # "idle" => spent'[q] <= Cap /\ call'[q].usage < call'[q].pos
        /\ billed'[q] <= Cap + Len(Candidates)
  BY DEF IInv, Accounted, Frugal
<1>2. Accounted'
  BY <1>1 DEF Accounted, Fresh
<1>3. Frugal'
  BY <1>1 DEF Frugal
<1> QED
  BY <1>2, <1>3

\* A call returns the spend of its attempts, of which the last has cost c.
LEMMA ReturnedKeeps ==
    ASSUME IInv, NEW p \in Project, NEW c \in {0, 1}, c = 1 => call[p].at # "idle",
           Charged(p, c), Returned(p, call[p].usage + c)
    PROVE  Accounted' /\ Frugal'
<1>1. \A q \in Project \ {p} : /\ call'[q] = call[q] /\ spent'[q] = spent[q]
                               /\ billed'[q] = billed[q]
  BY DEF Returned, Charged, IInv, TypeOK
<1>2. /\ call'[p] = Fresh /\ spent'[p] = spent[p] + (call[p].usage + c)
      /\ billed'[p] = billed[p] + c
  BY DEF Returned, Charged, IInv, TypeOK
<1>3. /\ billed'[p] <= spent'[p] + call'[p].usage
      /\ Key = {} => billed'[p] = spent'[p] + call'[p].usage
  <2>1. /\ billed[p] + c <= spent[p] + (call[p].usage + c)
        /\ Key = {} => billed[p] + c = spent[p] + (call[p].usage + c)
    BY Numbers, LedgerSums
  <2>2. spent'[p] \in Nat /\ call'[p].usage = 0
    BY <1>2, Numbers, Freshness
  <2> QED
    BY <1>2, <2>1, <2>2
<1>4. billed'[p] <= Cap + Len(Candidates)
  BY <1>2, ChargedBound
<1>5. call'[p].at = "idle"
  BY <1>2, Freshness
<1> QED
  BY <1>1, <1>2, <1>3, <1>4, <1>5, ByProject

\* An attempt that has cost c is followed by another one, at a later candidate
\* if it has cost anything.
LEMMA MovedKeeps ==
    ASSUME IInv, NEW p \in Project, NEW c \in {0, 1}, c = 1 => call[p].at # "idle",
           Charged(p, c), NEW u \in Call, u.at # "idle",
           call' = [call EXCEPT ![p] = u], UNCHANGED spent, spent[p] <= Cap,
           u.usage = call[p].usage + c, u.pos >= call[p].pos + c
    PROVE  Accounted' /\ Frugal'
<1>1. \A q \in Project \ {p} : /\ call'[q] = call[q] /\ spent'[q] = spent[q]
                               /\ billed'[q] = billed[q]
  BY DEF Charged, IInv, TypeOK
<1>2. call'[p] = u /\ billed'[p] = billed[p] + c /\ spent'[p] = spent[p]
  BY DEF Charged, IInv, TypeOK
<1>3. /\ billed'[p] <= spent'[p] + call'[p].usage
      /\ Key = {} => billed'[p] = spent'[p] + call'[p].usage
  <2>1. /\ billed[p] + c <= spent[p] + (call[p].usage + c)
        /\ Key = {} => billed[p] + c = spent[p] + (call[p].usage + c)
    BY Numbers, LedgerSums, SMTT(30)
  <2> QED
    BY <1>2, <2>1
<1>4. u.usage \in Nat /\ u.pos \in Nat
  BY CandidatesAssumption DEF Call
<1>5. spent'[p] <= Cap /\ call'[p].usage < call'[p].pos
  BY <1>2, <1>4, Numbers
<1>6. billed'[p] <= Cap + Len(Candidates)
  BY <1>2, ChargedBound
<1> QED
  BY <1>1, <1>2, <1>3, <1>5, <1>6, ByProject

LEMMA SentKeeps ==
    ASSUME IInv, NEW p \in Project, NEW c \in {0, 1}, c = 1 => call[p].at # "idle",
           Charged(p, c), NEW t, t.usage = call[p].usage + c,
           t.pos \in Nat, t.pos >= call[p].pos + c, Sent(p, t)
    PROVE  /\ Accounted' /\ Frugal'
           /\ call' \in [Project -> Call] /\ UNCHANGED <<spent, reply>>
<1>1. PICK u \in Call : call' = [call EXCEPT ![p] = u] /\ u.at = "sent" /\ u.usage = t.usage
                         /\ u.pos >= t.pos
  BY DEF Sent
<1>2. spent[p] <= Cap /\ UNCHANGED <<spent, reply>>
  BY DEF Sent, GateOpen
<1>3. u.pos >= call[p].pos + c
  BY <1>1 DEF IInv, TypeOK, Call
<1>4. Accounted' /\ Frugal'
  BY <1>1, <1>2, <1>3, MovedKeeps
<1> QED
  BY <1>1, <1>2, <1>4 DEF IInv, TypeOK

-----------------------------------------------------------------------------
(* Each action keeps the invariant.                                         *)

\* A step of a call that has just been charged c and goes on as t, or ends.
LEMMA StepKeeps ==
    ASSUME IInv, NEW p \in Project, NEW c \in {0, 1}, c = 1 => call[p].at # "idle",
           billed' = [billed EXCEPT ![p] = @ + c],
           NEW t, t.usage = call[p].usage + c, t.pos \in Nat, t.pos >= call[p].pos + c,
           Returned(p, t.usage) \/ Sent(p, t), pressed' \in [Model -> Nat],
           UNCHANGED kill, failures' \in [Model -> Nat],
           cache' \in [Key -> Nat \cup {None}], asked' \in [Project -> 0 .. MaxCalls]
    PROVE  IInv'
<1>1. Charged(p, c) /\ billed' \in [Project -> Nat]
  BY DEF Charged, IInv, TypeOK
<1>2. CASE Returned(p, t.usage)
  <2>1. Accounted' /\ Frugal'
    BY <1>1, <1>2, ReturnedKeeps
  <2>2. t.usage \in Nat
    BY Numbers
  <2>3. call' \in [Project -> Call] /\ spent' \in [Project -> Nat] /\ reply' \in [Project -> Reply]
    BY <1>2, <2>2, Freshness DEF Returned, IInv, TypeOK
  <2> QED
    BY <1>1, <2>1, <2>3 DEF IInv, TypeOK
<1>3. CASE Sent(p, t)
  BY <1>1, <1>3, SentKeeps DEF IInv, TypeOK
<1> QED
  BY <1>2, <1>3

\* A step that charges nothing.
LEMMA FreeStepKeeps ==
    ASSUME IInv, NEW p \in Project, UNCHANGED billed,
           NEW t, t.usage = call[p].usage, t.pos \in Nat, t.pos >= call[p].pos,
           Returned(p, t.usage) \/ Sent(p, t), pressed' \in [Model -> Nat],
           UNCHANGED kill, failures' \in [Model -> Nat],
           cache' \in [Key -> Nat \cup {None}], asked' \in [Project -> 0 .. MaxCalls]
    PROVE  IInv'
<1>1. PICK c \in {0, 1} : c = 0
  OBVIOUS
<1>2. billed' = [billed EXCEPT ![p] = @ + c]
  BY <1>1 DEF IInv, TypeOK
<1>3. t.usage = call[p].usage + c /\ t.pos >= call[p].pos + c /\ (c = 1 => call[p].at # "idle")
  BY <1>1, Numbers
<1> QED
  BY <1>2, <1>3, StepKeeps

LEMMA FreeCharge ==
    ASSUME IInv, NEW p \in Project, NEW category \in Category,
           Charge(p, category), Cost(category) = 0
    PROVE  UNCHANGED billed
BY DEF Charge, IInv, TypeOK

LEMMA HitKeeps ==
    ASSUME IInv, NEW p \in Project, NEW k \in Key, call[p].at = "idle", cache[k] # None,
           Return(p, "hit", None, [Fresh EXCEPT !.usage = cache[k]]),
           asked' \in [Project -> 0 .. MaxCalls], UNCHANGED <<billed, kill, failures, cache, pressed>>
    PROVE  IInv'
<1> DEFINE t == [Fresh EXCEPT !.usage = cache[k]]
<1>1. cache[k] \in Nat
  BY DEF IInv, TypeOK
<1>2. t \in Trying /\ t.usage = cache[k]
  BY <1>1, Freshness DEF Trying
<1> HIDE DEF t
<1>3. Return(p, "hit", None, t)
  BY DEF t
<1>4. Returned(p, cache[k])
  BY <1>2, <1>3, ReturnStep DEF IInv, Errors
<1>5. /\ call'[p] = Fresh /\ spent'[p] = spent[p] + cache[k] /\ billed'[p] = billed[p]
      /\ \A q \in Project \ {p} : /\ call'[q] = call[q] /\ spent'[q] = spent[q]
                                  /\ billed'[q] = billed[q]
  BY <1>4 DEF Returned, IInv, TypeOK
<1>6. call[p] = Fresh
  BY Numbers
<1>7. billed'[p] <= spent'[p] + call'[p].usage
  BY <1>1, <1>5, <1>6, Numbers, Freshness
<1>8. Accounted' /\ Frugal'
  BY <1>5, <1>7, Numbers, Freshness, ByProject
<1>9. call' \in [Project -> Call] /\ spent' \in [Project -> Nat] /\ reply' \in [Project -> Reply]
  BY <1>1, <1>4, Freshness DEF Returned, IInv, TypeOK
<1> QED
  BY <1>8, <1>9 DEF IInv, TypeOK

LEMMA AskKeeps == ASSUME IInv, NEW p \in Project, NEW k \in Key \cup {None}, Ask(p, k)
                  PROVE  IInv'
<1>1. asked' \in [Project -> 0 .. MaxCalls] /\ call[p].at = "idle" /\ call[p] = Fresh
  BY LimitsAssumption, Numbers DEF Ask, IInv, TypeOK
<1>2. CASE k # None /\ cache[k] # None
  BY <1>1, <1>2, HitKeeps DEF Ask
<1>3. CASE ~(k # None /\ cache[k] # None)
  <2> DEFINE t == [Fresh EXCEPT !.key = k]
  <2>1. t \in Trying /\ t.usage = call[p].usage /\ t.pos \in Nat /\ t.pos >= call[p].pos
    BY <1>1, Freshness DEF Trying
  <2>2. TryFrom(p, t, failures) /\ UNCHANGED <<billed, kill, failures, cache>>
    BY <1>3 DEF Ask
  <2> HIDE DEF t
  <2>3. (Returned(p, t.usage) \/ Sent(p, t)) /\ pressed' \in [Model -> Nat]
    BY <2>1, <2>2, TryFromStep DEF IInv, TypeOK
  <2>4. failures' \in [Model -> Nat] /\ cache' \in [Key -> Nat \cup {None}]
    BY <2>2 DEF IInv, TypeOK
  <2> QED
    BY <1>1, <2>1, <2>2, <2>3, <2>4, FreeStepKeeps
<1> QED
  BY <1>2, <1>3

LEMMA SucceedKeeps == ASSUME IInv, NEW p \in Project, Succeed(p) PROVE IInv'
<1> DEFINE t == Recorded(call[p], "ok")
<1>1. t \in Call /\ t.usage = call[p].usage + Cost("ok") /\ t.pos = call[p].pos
  BY RecordedType, Numbers
<1>2. Cost("ok") = 1
  BY DEF Cost
<1>3. /\ call[p].at # "idle" /\ Charge(p, "ok") /\ Reset(Candidates[t.pos])
      /\ Return(p, "ok", None, t) /\ UNCHANGED <<kill, asked>>
      /\ cache' = IF t.key = None THEN cache ELSE [cache EXCEPT ![t.key] = t.usage]
  BY DEF Succeed
<1> HIDE DEF t
<1>4. t \in Trying /\ t.usage \in Nat /\ t.pos \in Nat /\ t.key \in Key \cup {None}
  BY <1>1 DEF Call, Trying
<1>5. Returned(p, t.usage)
  BY <1>3, <1>4, ReturnStep DEF IInv
<1>6. failures' \in [Model -> Nat] /\ pressed' \in [Model -> Nat]
  BY <1>3 DEF Reset, IInv, TypeOK
<1>7. cache' \in [Key -> Nat \cup {None}] /\ asked' \in [Project -> 0 .. MaxCalls]
  BY <1>3, <1>4 DEF IInv, TypeOK
<1>8. call'[p] = Fresh /\ spent' \in [Project -> Nat]
  BY <1>4, <1>5 DEF Returned, IInv, TypeOK
<1>9. Accounted' /\ Frugal' /\ billed' \in [Project -> Nat]
  <2>1. Charged(p, 1) /\ billed' \in [Project -> Nat]
    BY <1>2, <1>3 DEF Charge, Charged, IInv, TypeOK
  <2> QED
    BY <1>1, <1>2, <1>3, <1>5, <2>1, ReturnedKeeps
<1>10. call' \in [Project -> Call] /\ reply' \in [Project -> Reply]
  BY <1>5, Freshness DEF Returned, IInv, TypeOK
<1> QED
  BY <1>3, <1>6, <1>7, <1>8, <1>9, <1>10 DEF IInv, TypeOK

\* What FallBack, Fail and GiveUp make of the answer.
LEMMA Failed ==
    ASSUME IInv, NEW p \in Project, NEW category \in Category, call[p].at = "sent"
    PROVE  LET t == Failing(Recorded(call[p], category), category)
           IN  /\ t \in Call /\ t \in Trying /\ t.usage = call[p].usage + Cost(category)
               /\ t.pos = call[p].pos /\ t.pos \in Nat /\ t.usage \in Nat
<1> DEFINE t == Failing(Recorded(call[p], category), category)
<1>1. t \in Call /\ t.usage = call[p].usage + Cost(category) /\ t.pos = call[p].pos
  BY FailedType, Numbers
<1> HIDE DEF t
<1>2. t \in Trying /\ t.pos \in Nat /\ t.usage \in Nat
  BY <1>1 DEF Call, Trying
<1> QED
  BY <1>1, <1>2 DEF t

LEMMA GiveUpKeeps == ASSUME IInv, NEW p \in Project, GiveUp(p) PROVE IInv'
<1> DEFINE t == Failing(Recorded(call[p], "fatal"), "fatal")
<1>1. Cost("fatal") = 0 /\ "fatal" \in Category
  BY DEF Cost
<1>2. /\ call[p].at = "sent" /\ Charge(p, "fatal") /\ Return(p, "error", "fatal", t)
      /\ UNCHANGED <<kill, asked, breaker, cache>>
  BY DEF GiveUp
<1>3. /\ t \in Trying /\ t.usage = call[p].usage /\ t.pos = call[p].pos /\ t.pos \in Nat
  BY <1>1, <1>2, Failed, Numbers
<1> HIDE DEF t
<1>4. Returned(p, t.usage)
  BY <1>2, <1>3, ReturnStep DEF IInv, Errors
<1>5. UNCHANGED billed /\ t.pos >= call[p].pos
  BY <1>1, <1>2, <1>3, FreeCharge
<1>6. /\ UNCHANGED kill /\ failures' \in [Model -> Nat] /\ pressed' \in [Model -> Nat]
      /\ cache' \in [Key -> Nat \cup {None}] /\ asked' \in [Project -> 0 .. MaxCalls]
  BY <1>2 DEF IInv, TypeOK, breaker
<1> QED
  BY <1>3, <1>4, <1>5, <1>6, FreeStepKeeps

LEMMA FallBackKeeps ==
    ASSUME IInv, NEW p \in Project, NEW category \in Category, FallBack(p, category)
    PROVE  IInv'
<1> DEFINE t == Failing(Recorded(call[p], category), category)
           u == [t EXCEPT !.pos = @ + 1]
           c == Cost(category)
<1>1. /\ call[p].at = "sent" /\ Charge(p, category) /\ TryFrom(p, u, failures)
      /\ UNCHANGED <<kill, asked, failures, cache>>
  BY DEF FallBack
<1>2. t \in Call /\ t.usage = call[p].usage + c /\ t.pos = call[p].pos /\ t.pos \in Nat
  BY <1>1, Failed
<1>3. c \in {0, 1}
  BY CostRange
<1> HIDE DEF t
<1>4. u \in Trying /\ u.usage = t.usage /\ u.pos = t.pos + 1
  BY <1>2, OnwardType
<1>5. billed' = [billed EXCEPT ![p] = @ + c]
  BY <1>1 DEF Charge
<1> HIDE DEF u, c
<1>6. (Returned(p, u.usage) \/ Sent(p, u)) /\ pressed' \in [Model -> Nat]
  BY <1>1, <1>4, TryFromStep DEF IInv, TypeOK
<1>7. u.usage = call[p].usage + c /\ u.pos \in Nat /\ u.pos >= call[p].pos + c
  BY <1>2, <1>3, <1>4
<1>8. /\ UNCHANGED kill /\ failures' \in [Model -> Nat]
      /\ cache' \in [Key -> Nat \cup {None}] /\ asked' \in [Project -> 0 .. MaxCalls]
  BY <1>1 DEF IInv, TypeOK
<1> QED
  BY <1>1, <1>3, <1>5, <1>6, <1>7, <1>8, StepKeeps

LEMMA WaitingType ==
    ASSUME NEW t \in Call, t.retry < MaxRetries
    PROVE  /\ Waiting(t) \in Call /\ Waiting(t).at = "waiting"
           /\ Waiting(t).usage = t.usage /\ Waiting(t).pos = t.pos
<1>1. t.retry + 1 \in 1 .. MaxRetries
  BY LimitsAssumption DEF Call
<1> QED
  BY <1>1, ZenonT(30) DEF Waiting, Call

LEMMA FailKeeps == ASSUME IInv, NEW p \in Project, Fail(p) PROVE IInv'
<1> DEFINE t == Failing(Recorded(call[p], "transient"), "transient")
           m == Candidates[t.pos]
           fails == [failures EXCEPT ![m] = @ + 1]
           u == [t EXCEPT !.pos = @ + 1]
<1>1. Cost("transient") = 0 /\ "transient" \in Category
  BY DEF Cost
<1>2. /\ call[p].at = "sent" /\ Charge(p, "transient") /\ failures' = fails
      /\ UNCHANGED <<kill, asked, cache>>
  BY DEF Fail
<1>3. t \in Call /\ t.usage = call[p].usage /\ t.pos = call[p].pos /\ t.pos \in Nat
  BY <1>1, <1>2, Failed, Numbers
<1>4. UNCHANGED billed
  BY <1>1, <1>2, FreeCharge
<1>5. fails \in [Model -> Nat]
  <2>1. m \in Model
    BY <1>3, ModelOf DEF Call
  <2> HIDE DEF m
  <2> QED
    BY <2>1 DEF IInv, TypeOK
<1>6. cache' \in [Key -> Nat \cup {None}] /\ asked' \in [Project -> 0 .. MaxCalls]
  BY <1>2 DEF IInv, TypeOK
<1>7. CASE t.retry < MaxRetries
  <2>1. call' = [call EXCEPT ![p] = Waiting(t)] /\ UNCHANGED <<reply, spent, pressed>>
    BY <1>7 DEF Fail
  <2> HIDE DEF t, fails
  <2>2. /\ Waiting(t) \in Call /\ Waiting(t).at = "waiting"
        /\ Waiting(t).usage = t.usage /\ Waiting(t).pos = t.pos
    BY <1>3, <1>7, WaitingType
  <2>3. PICK c \in {0, 1} : c = 0
    OBVIOUS
  <2>4. Charged(p, c) /\ billed' \in [Project -> Nat]
    BY <1>4, <2>3 DEF Charged, IInv, TypeOK
  <2>5. spent[p] <= Cap /\ Waiting(t).usage = call[p].usage + c /\ Waiting(t).pos >= call[p].pos + c
    BY <1>2, <1>3, <2>2, <2>3, Numbers
  <2>6. Accounted' /\ Frugal'
    BY <1>2, <2>1, <2>2, <2>4, <2>5, MovedKeeps
  <2>7. call' \in [Project -> Call]
    BY <2>1, <2>2 DEF IInv, TypeOK
  <2> QED
    BY <1>2, <1>5, <1>6, <2>1, <2>4, <2>6, <2>7 DEF IInv, TypeOK
<1>8. CASE ~(t.retry < MaxRetries)
  <2>1. TryFrom(p, u, fails)
    BY <1>8 DEF Fail
  <2> HIDE DEF t, fails
  <2>2. u \in Trying /\ u.usage = t.usage /\ u.pos = t.pos + 1
    BY <1>3, OnwardType
  <2> HIDE DEF u
  <2>3. (Returned(p, u.usage) \/ Sent(p, u)) /\ pressed' \in [Model -> Nat]
    BY <1>5, <2>1, <2>2, TryFromStep DEF IInv
  <2>4. u.usage = call[p].usage /\ u.pos \in Nat /\ u.pos >= call[p].pos
    BY <1>3, <2>2
  <2> QED
    BY <1>2, <1>4, <1>5, <1>6, <2>3, <2>4, FreeStepKeeps
<1> QED
  BY <1>7, <1>8

LEMMA RetryKeeps == ASSUME IInv, NEW p \in Project, Retry(p) PROVE IInv'
<1>1. call[p] \in Call /\ Attempt(p, call[p], failures) /\ UNCHANGED <<billed, kill, asked, failures, cache>>
  BY DEF Retry, IInv, TypeOK
<1>2. (Returned(p, call[p].usage) \/ Sent(p, call[p])) /\ pressed' \in [Model -> Nat]
  BY <1>1, AttemptStep DEF IInv, TypeOK
<1>3. call[p].pos \in Nat /\ call[p].pos >= call[p].pos
  BY Numbers
<1>4. /\ UNCHANGED kill /\ failures' \in [Model -> Nat]
      /\ cache' \in [Key -> Nat \cup {None}] /\ asked' \in [Project -> 0 .. MaxCalls]
  BY <1>1 DEF IInv, TypeOK
<1> QED
  BY <1>1, <1>2, <1>3, <1>4, FreeStepKeeps

\* Time, the operator and stuttering leave calls and charges alone.
LEMMA AsideKeeps ==
    ASSUME IInv, UNCHANGED <<call, reply, spent, billed, asked>>,
           kill' \in [Project -> BOOLEAN], failures' \in [Model -> Nat],
           pressed' \in [Model -> Nat], cache' \in [Key -> Nat \cup {None}]
    PROVE  IInv'
BY DEF IInv, TypeOK, Accounted, Frugal

LEMMA CoolKeeps == ASSUME IInv, NEW m \in Model, Cool(m) PROVE IInv'
<1>1. failures' \in [Model -> Nat] /\ pressed' \in [Model -> Nat]
  BY DEF Cool, IInv, TypeOK
<1>2. UNCHANGED <<call, reply, spent, billed, asked>> /\ UNCHANGED <<kill, cache>>
  BY DEF Cool, project
<1> QED
  BY <1>1, <1>2, AsideKeeps DEF IInv, TypeOK

LEMMA ExpireKeeps == ASSUME IInv, NEW k \in Key, Expire(k) PROVE IInv'
<1>1. cache' \in [Key -> Nat \cup {None}]
  BY DEF Expire, IInv, TypeOK
<1>2. UNCHANGED <<call, reply, spent, billed, asked>> /\ UNCHANGED <<kill, failures, pressed>>
  BY DEF Expire, project, breaker
<1> QED
  BY <1>1, <1>2, AsideKeeps DEF IInv, TypeOK

LEMMA SetKillKeeps == ASSUME IInv, NEW p \in Project, SetKill(p) PROVE IInv'
<1>1. kill' \in [Project -> BOOLEAN]
  BY DEF SetKill, IInv, TypeOK
<1>2. UNCHANGED <<call, reply, spent, billed, asked>> /\ UNCHANGED <<failures, pressed, cache>>
  BY DEF SetKill, breaker
<1> QED
  BY <1>1, <1>2, AsideKeeps DEF IInv, TypeOK

-----------------------------------------------------------------------------
(* The theorems                                                             *)

LEMMA Initially == ASSUME Init PROVE IInv
<1> USE CandidatesAssumption, LimitsAssumption, Freshness
<1>1. NoReply \in Reply
  BY DEF NoReply, Reply
<1>2. TypeOK
  BY <1>1 DEF Init, TypeOK
<1>3. Accounted
  BY DEF Init, Accounted
<1>4. Frugal
  BY DEF Init, Frugal
<1> QED
  BY <1>2, <1>3, <1>4 DEF IInv

\* The invariant is inductive: every action of the gateway keeps it.
THEOREM Inductive == Spec => []IInv
<1>1. ASSUME IInv, [Next]_vars PROVE IInv'
  <2>1. ASSUME NEW p \in Project, NEW k \in Key \cup {None}, Ask(p, k) PROVE IInv'
    BY <1>1, <2>1, AskKeeps
  <2>2. ASSUME NEW p \in Project, Succeed(p) PROVE IInv'
    BY <1>1, <2>2, SucceedKeeps
  <2>3. ASSUME NEW p \in Project, GiveUp(p) PROVE IInv'
    BY <1>1, <2>3, GiveUpKeeps
  <2>4. ASSUME NEW p \in Project, Fail(p) PROVE IInv'
    BY <1>1, <2>4, FailKeeps
  <2>5. ASSUME NEW p \in Project, NEW category \in Category, FallBack(p, category) PROVE IInv'
    BY <1>1, <2>5, FallBackKeeps
  <2>6. ASSUME NEW p \in Project, Retry(p) PROVE IInv'
    BY <1>1, <2>6, RetryKeeps
  <2>7. ASSUME NEW p \in Project, SetKill(p) PROVE IInv'
    BY <1>1, <2>7, SetKillKeeps
  <2>8. ASSUME NEW m \in Model, Cool(m) PROVE IInv'
    BY <1>1, <2>8, CoolKeeps
  <2>9. ASSUME NEW k \in Key, Expire(k) PROVE IInv'
    BY <1>1, <2>9, ExpireKeeps
  <2>10. CASE UNCHANGED vars
    BY <1>1, <2>10, AsideKeeps DEF vars, project, breaker, IInv, TypeOK
  <2> QED
    BY <1>1, <2>1, <2>2, <2>3, <2>4, <2>5, <2>6, <2>7, <2>8, <2>9, <2>10 DEF Next, Answer
<1> QED
  BY <1>1, Initially, PTL DEF Spec

\* The gateway's state keeps its types: a call is always at one of the
\* candidates and within its retries, and what it returns is a known error.
THEOREM TypeCorrect == Spec => []TypeOK
<1>1. IInv => TypeOK
  BY DEF IInv
<1> QED
  BY <1>1, Inductive, PTL

\* Whatever providers, caches and operators do, a project is never charged more
\* than its cost cap and one answer of each candidate.
THEOREM CapOvershootIsOneCall == Spec => []OvershootBounded
<1>1. IInv => OvershootBounded
  BY DEF IInv, Frugal, OvershootBounded
<1> QED
  BY <1>1, Inductive, PTL

\* Between two calls the budget has recorded all that was charged, of retries,
\* fallbacks, refusals and failed calls too; and without the semantic cache
\* nothing else.
THEOREM BudgetIsWhatWasCharged == Spec => []SpentIsBilled
<1>1. IInv => SpentIsBilled
  BY Freshness DEF IInv, TypeOK, Accounted, SpentIsBilled
<1> QED
  BY <1>1, Inductive, PTL

-----------------------------------------------------------------------------
(* Governance                                                               *)

\* A step moves one call, and sends it only past an open gate.
Governed(p) == \E u : call' = [call EXCEPT ![p] = u] /\ (u.at = "sent" => ~kill[p])

LEMMA ReturnGoverned ==
    ASSUME NEW p, NEW kind, NEW error, NEW t, Return(p, kind, error, t)
    PROVE  Governed(p)
<1>1. Fresh.at = "idle"
  BY Freshness
<1> QED
  BY <1>1 DEF Return, Governed

LEMMA AttemptGoverned ==
    ASSUME NEW p, NEW t, NEW fails, Attempt(p, t, fails)
    PROVE  Governed(p)
<1>1. CASE GateOpen(p)
  BY <1>1 DEF Attempt, GateOpen, Governed
<1>2. CASE ~GateOpen(p)
  BY <1>2, ReturnGoverned DEF Attempt, Refuse
<1> QED
  BY <1>1, <1>2

LEMMA TryFromGoverned ==
    ASSUME NEW p, NEW t, NEW fails, TryFrom(p, t, fails)
    PROVE  Governed(p)
BY ReturnGoverned, AttemptGoverned DEF TryFrom

LEMMA FailGoverned == ASSUME IInv, NEW p \in Project, Fail(p) PROVE Governed(p)
<1> DEFINE t == Failing(Recorded(call[p], "transient"), "transient")
<1>1. CASE t.retry < MaxRetries
  <2>1. t \in Call
    BY FailedType, Numbers
  <2>2. Waiting(t).at = "waiting"
    BY <1>1, <2>1, WaitingType
  <2>3. call' = [call EXCEPT ![p] = Waiting(t)]
    BY <1>1 DEF Fail
  <2> QED
    BY <2>2, <2>3 DEF Governed
<1>2. CASE ~(t.retry < MaxRetries)
  BY <1>2, TryFromGoverned DEF Fail
<1> QED
  BY <1>1, <1>2

\* An action of a project other than the kill switch is a governed step.
LEMMA ProjectGoverned ==
    ASSUME IInv, NEW p \in Project,
           (\E k \in Key \cup {None} : Ask(p, k)) \/ Answer(p) \/ Retry(p)
    PROVE  Governed(p)
<1>1. ASSUME NEW k \in Key \cup {None}, Ask(p, k) PROVE Governed(p)
  BY <1>1, ReturnGoverned, TryFromGoverned DEF Ask
<1>2. CASE Succeed(p)
  BY <1>2, ReturnGoverned DEF Succeed
<1>3. CASE GiveUp(p)
  BY <1>3, ReturnGoverned DEF GiveUp
<1>4. CASE Fail(p)
  BY <1>4, FailGoverned
<1>5. ASSUME NEW category \in Category, FallBack(p, category) PROVE Governed(p)
  BY <1>5, TryFromGoverned DEF FallBack
<1>6. CASE Retry(p)
  BY <1>6, AttemptGoverned DEF Retry
<1> QED
  BY <1>1, <1>2, <1>3, <1>4, <1>5, <1>6 DEF Answer

\* No attempt starts after the kill switch: the retries and the fallbacks of a
\* call under way pass the same gate as its first attempt.
THEOREM KillStopsAttempts == Spec => NoAttemptAfterKill
<1> DEFINE Held == \A p \in Project :
        kill[p] /\ call'[p].at = "sent" => call[p].at = "sent" /\ call'[p] = call[p]
<1>1. ASSUME IInv, [Next]_vars PROVE Held
  <2>1. ASSUME NEW p \in Project, Governed(p) PROVE Held
    BY <1>1, <2>1 DEF Governed, IInv, TypeOK
  <2>2. CASE UNCHANGED call
    BY <2>2
  <2>3. (\E p \in Project : Governed(p)) \/ UNCHANGED call
    BY <1>1, ProjectGoverned DEF Next, SetKill, Cool, Expire, vars
  <2> QED
    BY <2>1, <2>2, <2>3
<1> QED
  BY <1>1, Inductive, PTL DEF Spec, NoAttemptAfterKill
-----------------------------------------------------------------------------
(* The circuit: an attempt that reaches a model whose circuit is open is a  *)
(* retry of a call that was already trying it, each retry once.             *)

Others(p) == \A q \in Project \ {p} : call'[q] = call[q]

Trial(p, m) == call[p].at # "idle" /\ Candidates[call[p].pos] = m

\* The attempts a call has made of its candidate.
Tried(p) == IF call[p].at = "waiting" THEN call[p].retry - 1 ELSE call[p].retry

Slot == Project \X (2 .. MaxRetries)

\* S: the retries counted since the circuit of m opened.
Pressing(m) == \E S \in SUBSET Slot :
    /\ Cardinality(S) = pressed[m]
    /\ \A p \in Project : Trial(p, m) => \A r \in 2 .. MaxRetries : <<p, r>> \in S => r <= Tried(p)

Spared ==
    /\ \A p \in Project : call[p].at = "waiting" => call[p].retry >= 2
    /\ \A m \in Model : Pressing(m)

\* The four ways a step moves a call: it ends, it comes to a candidate whose
\* circuit is closed, it waits for its next retry, it makes that retry.
Ends(p) ==
    /\ Others(p) /\ call'[p].at = "idle"
    /\ \A m \in Model : pressed'[m] \in {0, pressed[m]}
Opens(p) ==
    /\ Others(p) /\ call'[p].at = "sent" /\ pressed'[Candidates[call'[p].pos]] = 0
    /\ \A m \in Model : m # Candidates[call'[p].pos] => pressed'[m] = pressed[m]
Waits(p) ==
    /\ Others(p) /\ call[p].at = "sent" /\ call'[p].at = "waiting" /\ UNCHANGED pressed
    /\ call'[p].pos = call[p].pos /\ call'[p].retry = call[p].retry + 1

LEMMA TriedType ==
    ASSUME TypeOK, TypeOK', NEW p \in Project
    PROVE  Tried(p) \in Int /\ Tried(p)' \in Int
<1>1. call[p].retry \in Int /\ call'[p].retry \in Int
  BY LimitsAssumption DEF TypeOK, Call
<1> QED
  BY <1>1 DEF Tried

\* A count that is kept or reset stays one of retries when no call comes to
\* the model, and none there goes back.
LEMMA CountKept ==
    ASSUME TypeOK, TypeOK', NEW m \in Model, Pressing(m), pressed'[m] \in {0, pressed[m]},
           \A p \in Project : Trial(p, m)' /\ pressed'[m] # 0 => Trial(p, m) /\ Tried(p)' >= Tried(p)
    PROVE  Pressing(m)'
<1>1. CASE pressed'[m] = 0
  BY <1>1, FS_EmptySet DEF Pressing
<1>2. CASE pressed'[m] # 0
  <2>1. PICK S \in SUBSET Slot :
          /\ Cardinality(S) = pressed[m]
          /\ \A p \in Project : Trial(p, m) => \A r \in 2 .. MaxRetries : <<p, r>> \in S => r <= Tried(p)
    BY DEF Pressing
  <2>2. pressed'[m] = pressed[m]
    BY <1>2
  <2>3. ASSUME NEW p \in Project, Trial(p, m)', NEW r \in 2 .. MaxRetries, <<p, r>> \in S
        PROVE  r <= Tried(p)'
    <3>1. Trial(p, m) /\ Tried(p)' >= Tried(p)
      BY <1>2, <2>3
    <3>2. r <= Tried(p)
      BY <2>1, <2>3, <3>1
    <3>3. Tried(p) \in Int /\ Tried(p)' \in Int
      BY TriedType
    <3> QED
      BY <3>1, <3>2, <3>3
  <2>4. Cardinality(S) = pressed'[m]
    BY <2>1, <2>2
  <2> QED
    BY <2>3, <2>4 DEF Pressing, Slot
<1> QED
  BY <1>1, <1>2

Retried(p) ==
    /\ Others(p) /\ call[p].at = "waiting" /\ call'[p].at = "sent"
    /\ call'[p].pos = call[p].pos /\ call'[p].retry = call[p].retry
    /\ pressed'[Candidates[call[p].pos]] \in {0, pressed[Candidates[call[p].pos]] + 1}
    /\ \A m \in Model : m # Candidates[call[p].pos] => pressed'[m] = pressed[m]

\* Only the call that steps can come to a model or go back.
LEMMA OneCall ==
    ASSUME TypeOK, TypeOK', NEW p \in Project, Others(p), NEW m \in Model, Pressing(m),
           pressed'[m] \in {0, pressed[m]},
           Trial(p, m)' /\ pressed'[m] # 0 => Trial(p, m) /\ Tried(p)' >= Tried(p)
    PROVE  Pressing(m)'
<1>1. ASSUME NEW q \in Project, q # p, Trial(q, m)'
      PROVE  Trial(q, m) /\ Tried(q)' >= Tried(q)
  <2>1. call'[q] = call[q]
    BY <1>1 DEF Others
  <2>2. Trial(q, m) /\ Tried(q)' = Tried(q)
    BY <1>1, <2>1 DEF Trial, Tried
  <2> QED
    BY <2>2, TriedType
<1> QED
  BY <1>1, CountKept

LEMMA EndsSpared ==
    ASSUME TypeOK, TypeOK', Spared, NEW p \in Project, Ends(p) PROVE Spared'
<1>1. \A q \in Project : call'[q].at = "waiting" => call'[q].retry >= 2
  BY DEF Ends, Others, Spared
<1>2. ASSUME NEW m \in Model PROVE Pressing(m)'
  BY OneCall DEF Ends, Trial, Spared
<1> QED
  BY <1>1, <1>2 DEF Spared

LEMMA OpensSpared ==
    ASSUME TypeOK, TypeOK', Spared, NEW p \in Project, Opens(p) PROVE Spared'
<1>1. \A q \in Project : call'[q].at = "waiting" => call'[q].retry >= 2
  BY DEF Opens, Others, Spared
<1>2. ASSUME NEW m \in Model PROVE Pressing(m)'
  <2>1. pressed'[m] \in {0, pressed[m]} /\ (Trial(p, m)' => pressed'[m] = 0)
    BY DEF Opens, Trial
  <2> QED
    BY <2>1, OneCall DEF Opens, Spared
<1> QED
  BY <1>1, <1>2 DEF Spared

LEMMA WaitsSpared ==
    ASSUME TypeOK, TypeOK', Spared, NEW p \in Project, Waits(p) PROVE Spared'
<1>1. call[p].retry \in Int /\ call[p].retry >= 1
  BY LimitsAssumption DEF TypeOK, Call
<1>2. \A q \in Project : call'[q].at = "waiting" => call'[q].retry >= 2
  BY <1>1 DEF Waits, Others, Spared
<1>3. ASSUME NEW m \in Model PROVE Pressing(m)'
  <2>1. Tried(p)' = Tried(p)
    BY <1>1 DEF Waits, Tried
  <2>2. Tried(p)' >= Tried(p)
    BY <2>1, TriedType
  <2>3. Trial(p, m)' => Trial(p, m)
    BY DEF Waits, Trial
  <2>4. pressed'[m] = pressed[m]
    BY DEF Waits
  <2> QED
    BY <2>2, <2>3, <2>4, OneCall DEF Waits, Spared
<1> QED
  BY <1>2, <1>3 DEF Spared

LEMMA SlotFinite == ASSUME IsFiniteSet(Project)
                    PROVE  /\ IsFiniteSet(Slot)
                           /\ Cardinality(Slot) = Cardinality(Project) * (MaxRetries - 1)
<1>1. 2 \in Int /\ MaxRetries \in Int /\ MaxRetries >= 1
  BY LimitsAssumption
<1>2. IsFiniteSet(2 .. MaxRetries)
  BY <1>1, FS_Interval
<1>3. Cardinality(2 .. MaxRetries) = MaxRetries - 1
  <2>1. Cardinality(2 .. MaxRetries) = IF 2 > MaxRetries THEN 0 ELSE MaxRetries - 2 + 1
    BY <1>1, FS_Interval
  <2> QED
    BY <1>1, <2>1
<1> QED
  BY <1>2, <1>3, FS_Product DEF Slot

\* The retry that is counted is one that was not counted before.
LEMMA RetriedSpared ==
    ASSUME IsFiniteSet(Project), TypeOK, TypeOK', Spared, NEW p \in Project, Retried(p)
    PROVE  Spared'
<1>1. PICK k \in Model, n \in 2 .. MaxRetries : k = Candidates[call[p].pos] /\ n = call[p].retry
  BY ModelOf, LimitsAssumption DEF TypeOK, Call, Retried, Spared
<1>2. \A q \in Project : call'[q].at = "waiting" => call'[q].retry >= 2
  BY DEF Retried, Others, Spared
<1>3. Tried(p) = n - 1 /\ Tried(p)' = n
  BY <1>1 DEF Retried, Tried
<1>4. \A m \in Model : Trial(p, m)' <=> m = k
  BY <1>1 DEF Retried, Trial
<1>5. \A m \in Model : Trial(p, m) <=> m = k
  BY <1>1 DEF Retried, Trial
<1>6. /\ pressed'[k] \in {0, pressed[k] + 1} /\ Others(p)
      /\ \A m \in Model : m # k => pressed'[m] = pressed[m]
  BY <1>1 DEF Retried
<1>7. pressed[k] \in Nat
  BY DEF TypeOK
<1>8. ASSUME NEW m \in Model, m # k PROVE Pressing(m)'
  BY <1>4, <1>6, <1>8, OneCall DEF Spared
<1>9. CASE pressed'[k] = 0
  <2>1. Pressing(k)'
    BY <1>1, <1>6, <1>9, OneCall DEF Spared
  <2> QED
    BY <1>2, <1>8, <2>1 DEF Spared
<1>10. CASE pressed'[k] # 0
  <2>1. PICK S \in SUBSET Slot :
          /\ Cardinality(S) = pressed[k]
          /\ \A q \in Project : Trial(q, k) => \A r \in 2 .. MaxRetries : <<q, r>> \in S => r <= Tried(q)
    BY <1>1 DEF Spared, Pressing
  <2> DEFINE U == S \cup {<<p, n>>}
  <2>2. <<p, n>> \notin S
    <3>1. <<p, n>> \in S => n <= n - 1
      BY <1>1, <1>3, <1>5, <2>1
    <3> QED
      BY <1>1, <3>1
  <2>3. IsFiniteSet(S)
    BY SlotFinite, FS_Subset
  <2>4. Cardinality(U) = pressed'[k]
    <3>1. Cardinality(U) = Cardinality(S) + 1
      BY <2>2, <2>3, FS_AddElement
    <3>2. pressed'[k] = pressed[k] + 1
      BY <1>6, <1>10
    <3> QED
      BY <2>1, <3>1, <3>2
  <2>5. U \in SUBSET Slot
    BY <1>1 DEF Slot
  <2>6. ASSUME NEW q \in Project, Trial(q, k)', NEW r \in 2 .. MaxRetries, <<q, r>> \in U
        PROVE  r <= Tried(q)'
    <3>1. CASE q = p
      <4>1. r \in Int /\ n \in Int /\ (r = n \/ <<p, r>> \in S)
        BY <1>1, <2>6, <3>1
      <4>2. <<p, r>> \in S => r <= n - 1
        BY <1>1, <1>3, <1>5, <2>1
      <4>3. r <= n
        BY <4>1, <4>2
      <4> QED
        BY <1>3, <3>1, <4>3
    <3>2. CASE q # p
      <4>1. call'[q] = call[q] /\ <<q, r>> \in S
        BY <1>6, <2>6, <3>2 DEF Others
      <4>2. Trial(q, k) /\ Tried(q)' = Tried(q)
        BY <2>6, <4>1 DEF Trial, Tried
      <4> QED
        BY <2>1, <4>1, <4>2
    <3> QED
      BY <3>1, <3>2
  <2>7. Pressing(k)'
    BY <2>4, <2>5, <2>6 DEF Pressing, Slot
  <2> QED
    BY <1>2, <1>8, <2>7 DEF Spared
<1> QED
  BY <1>9, <1>10

-----------------------------------------------------------------------------
(* Each action moves a call in one of the four ways.                        *)

LEMMA ReturnEnds ==
    ASSUME TypeOK, NEW p \in Project, NEW kind, NEW error, NEW t, Return(p, kind, error, t),
           \A m \in Model : pressed'[m] \in {0, pressed[m]}
    PROVE  Ends(p)
BY Freshness DEF Return, Ends, Others, TypeOK

\* The candidate that is tried next has its circuit closed.
LEMMA TryFromMoves ==
    ASSUME TypeOK, NEW p \in Project, NEW t \in Trying, NEW fails, TryFrom(p, t, fails)
    PROVE  Ends(p) \/ Opens(p)
<1> DEFINE open == {i \in t.pos .. Len(Candidates) : Passable(fails, i)}
<1>1. CASE UNCHANGED pressed /\ \E error, u : Return(p, "error", error, u)
  BY <1>1, ReturnEnds
<1>2. ASSUME NEW i \in open,
             LET u == IF i > t.pos THEN Skipping(t) ELSE t
             IN  Attempt(p, [u EXCEPT !.pos = i, !.retry = 1], fails)
      PROVE  Ends(p) \/ Opens(p)
  <2> DEFINE u == IF i > t.pos THEN Skipping(t) ELSE t
             v == [u EXCEPT !.pos = i, !.retry = 1]
             w == [v EXCEPT !.at = "sent"]
  <2>1. u \in Trying
    BY SkippingType
  <2>2. i \in Position /\ 1 \in 1 .. MaxRetries
    BY CandidatesAssumption, LimitsAssumption DEF Trying
  <2>3. ~IsOpen(fails, Candidates[i]) /\ Candidates[i] \in Model
    BY <2>2, ModelOf DEF Passable
  <2>4. Attempt(p, v, fails)
    BY <1>2
  <2> HIDE DEF u
  <2>5. v \in Call /\ v.pos = i
    BY <2>1, <2>2, PlacedType
  <2> HIDE DEF v
  <2>6. w \in Call /\ w.at = "sent" /\ w.pos = i
    BY <2>5 DEF Call
  <2>7. CASE GateOpen(p)
    <3>1. call' = [call EXCEPT ![p] = w] /\ Press(Candidates[i], fails)
      BY <2>4, <2>5, <2>7 DEF Attempt
    <3> HIDE DEF w
    <3>2. Others(p) /\ call'[p] = w
      BY <3>1 DEF Others, TypeOK
    <3>3. pressed' = [pressed EXCEPT ![Candidates[i]] = 0]
      BY <2>3, <3>1 DEF Press
    <3> QED
      BY <2>3, <2>6, <3>2, <3>3 DEF Opens, TypeOK
  <2>8. CASE ~GateOpen(p)
    <3>1. Return(p, "refused", "policy", v) /\ UNCHANGED pressed
      BY <2>4, <2>8 DEF Attempt, Refuse
    <3> QED
      BY <3>1, ReturnEnds
  <2> QED
    BY <2>7, <2>8
<1> QED
  BY <1>1, <1>2 DEF TryFrom

LEMMA FailMoves ==
    ASSUME IInv, NEW p \in Project, Fail(p) PROVE Ends(p) \/ Opens(p) \/ Waits(p)
<1> DEFINE t == Failing(Recorded(call[p], "transient"), "transient")
           u == [t EXCEPT !.pos = @ + 1]
<1>1. t \in Call /\ t.pos = call[p].pos /\ t.retry = call[p].retry
  BY FailedType, Numbers
<1>2. CASE t.retry < MaxRetries
  <2>1. call' = [call EXCEPT ![p] = Waiting(t)] /\ UNCHANGED pressed /\ call[p].at = "sent"
    BY <1>2 DEF Fail
  <2> HIDE DEF t
  <2>2. Waiting(t).at = "waiting" /\ Waiting(t).pos = t.pos /\ Waiting(t).retry = t.retry + 1
    BY <1>1 DEF Waiting, Call
  <2>3. Others(p) /\ call'[p] = Waiting(t)
    BY <2>1 DEF Others, IInv, TypeOK
  <2> QED
    BY <1>1, <2>1, <2>2, <2>3 DEF Waits
<1>3. CASE ~(t.retry < MaxRetries)
  <2>1. \E fails : TryFrom(p, u, fails)
    BY <1>3 DEF Fail
  <2> HIDE DEF t
  <2>2. u \in Trying
    BY <1>1, OnwardType
  <2> QED
    BY <2>1, <2>2, TryFromMoves DEF IInv
<1> QED
  BY <1>2, <1>3

LEMMA RetryMoves ==
    ASSUME IInv, NEW p \in Project, Retry(p) PROVE Ends(p) \/ Retried(p)
<1>1. /\ call[p].at = "waiting" /\ call[p] \in Call /\ Attempt(p, call[p], failures)
      /\ Candidates[call[p].pos] \in Model
  BY ModelOf DEF Retry, IInv, TypeOK, Call
<1>2. CASE GateOpen(p)
  <2> DEFINE w == [call[p] EXCEPT !.at = "sent"]
  <2>1. w.at = "sent" /\ w.pos = call[p].pos /\ w.retry = call[p].retry
    BY <1>1 DEF Call
  <2>2. call' = [call EXCEPT ![p] = w] /\ Press(Candidates[call[p].pos], failures)
    BY <1>1, <1>2 DEF Attempt
  <2> HIDE DEF w
  <2>3. Others(p) /\ call'[p] = w
    BY <2>2 DEF Others, IInv, TypeOK
  <2>4. /\ pressed'[Candidates[call[p].pos]] \in {0, pressed[Candidates[call[p].pos]] + 1}
        /\ \A m \in Model : m # Candidates[call[p].pos] => pressed'[m] = pressed[m]
    BY <1>1, <2>2 DEF Press, IInv, TypeOK
  <2> QED
    BY <1>1, <2>1, <2>3, <2>4 DEF Retried
<1>3. CASE ~GateOpen(p)
  <2>1. Return(p, "refused", "policy", call[p]) /\ UNCHANGED pressed
    BY <1>1, <1>3 DEF Attempt, Refuse
  <2> QED
    BY <2>1, ReturnEnds DEF IInv
<1> QED
  BY <1>2, <1>3

LEMMA ProjectMoves ==
    ASSUME IInv, NEW p \in Project,
           (\E k \in Key \cup {None} : Ask(p, k)) \/ Answer(p) \/ Retry(p)
    PROVE  Ends(p) \/ Opens(p) \/ Waits(p) \/ Retried(p)
<1>1. ASSUME NEW k \in Key \cup {None}, Ask(p, k) PROVE Ends(p) \/ Opens(p)
  <2>1. CASE k # None /\ cache[k] # None
    BY <1>1, <2>1, ReturnEnds DEF Ask, IInv
  <2>2. CASE ~(k # None /\ cache[k] # None)
    <3>1. TryFrom(p, [Fresh EXCEPT !.key = k], failures)
      BY <1>1, <2>2 DEF Ask
    <3>2. [Fresh EXCEPT !.key = k] \in Trying
      BY Freshness DEF Trying
    <3> QED
      BY <3>1, <3>2, TryFromMoves DEF IInv
  <2> QED
    BY <2>1, <2>2
<1>2. CASE Succeed(p)
  <2>1. \E m : Reset(m)
    BY <1>2 DEF Succeed
  <2>2. \A m \in Model : pressed'[m] \in {0, pressed[m]}
    BY <2>1 DEF Reset, IInv, TypeOK
  <2>3. \E t : Return(p, "ok", None, t)
    BY <1>2 DEF Succeed
  <2> QED
    BY <2>2, <2>3, ReturnEnds DEF IInv
<1>3. CASE GiveUp(p)
  <2>1. UNCHANGED pressed /\ \E t : Return(p, "error", "fatal", t)
    BY <1>3 DEF GiveUp, breaker
  <2> QED
    BY <2>1, ReturnEnds DEF IInv
<1>4. CASE Fail(p)
  BY <1>4, FailMoves
<1>5. ASSUME NEW category \in Category, FallBack(p, category) PROVE Ends(p) \/ Opens(p)
  <2> DEFINE t == Failing(Recorded(call[p], category), category)
  <2>1. TryFrom(p, [t EXCEPT !.pos = @ + 1], failures) /\ t \in Call
    BY <1>5, Failed DEF FallBack
  <2> HIDE DEF t
  <2> QED
    BY <2>1, OnwardType, TryFromMoves DEF IInv
<1>6. CASE Retry(p)
  BY <1>6, RetryMoves
<1> QED
  BY <1>1, <1>2, <1>3, <1>4, <1>5, <1>6 DEF Answer

\* Time, the operator, the cache and stuttering move no call.
LEMMA AsideSpared ==
    ASSUME TypeOK, TypeOK', Spared, UNCHANGED call, \A m \in Model : pressed'[m] \in {0, pressed[m]}
    PROVE  Spared'
<1>1. ASSUME NEW m \in Model PROVE Pressing(m)'
  <2>1. \A p \in Project : Trial(p, m)' => Trial(p, m) /\ Tried(p)' >= Tried(p)
    BY TriedType DEF Trial, Tried
  <2> QED
    BY <2>1, CountKept DEF Spared
<1> QED
  BY <1>1 DEF Spared

\* However many calls fail on a model at once, past the opening of its circuit
\* it is reached at most by the retries those calls had left: every other
\* attempt finds the circuit open.
THEOREM OpenCircuitIsSpared == ASSUME IsFiniteSet(Project) PROVE Spec => []HammeringBounded
<1>1. Init => Spared
  BY FS_EmptySet, Freshness DEF Init, Spared, Pressing
<1>2. IInv /\ IInv' /\ Spared /\ [Next]_vars => Spared'
  <2> SUFFICES ASSUME IInv, IInv', Spared, [Next]_vars PROVE Spared'
    OBVIOUS
  <2>1. ASSUME NEW p \in Project, Ends(p) \/ Opens(p) \/ Waits(p) \/ Retried(p) PROVE Spared'
    BY <2>1, EndsSpared, OpensSpared, WaitsSpared, RetriedSpared DEF IInv
  <2>2. CASE \/ \E p \in Project : SetKill(p)
             \/ \E m \in Model : Cool(m)
             \/ \E k \in Key : Expire(k)
             \/ UNCHANGED vars
    <3>1. UNCHANGED call
      BY <2>2 DEF SetKill, Cool, Expire, vars
    <3>2. \A m \in Model : pressed'[m] \in {0, pressed[m]}
      BY <2>2 DEF SetKill, Cool, Expire, vars, breaker, IInv, TypeOK
    <3> QED
      BY <3>1, <3>2, AsideSpared DEF IInv
  <2> QED
    BY <2>1, <2>2, ProjectMoves DEF Next
<1>3. IInv /\ Spared => HammeringBounded
  BY SlotFinite, FS_Subset DEF Spared, Pressing, HammeringBounded
<1> QED
  BY <1>1, <1>2, <1>3, Inductive, PTL DEF Spec

=============================================================================
