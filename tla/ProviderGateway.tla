----------------------------- MODULE ProviderGateway -----------------------------
(***************************************************************************)
(* One logical call of a model (mas/runtime/provider_gateway.py): the      *)
(* candidates in order, the retries of each, the circuit breakers all      *)
(* calls share, the governance hook before every attempt, the usage ledger *)
(* and the semantic cache; and what the orchestrator records of the answer *)
(* on the project's budget.  The provider's key is configured.  Telemetry  *)
(* is off, the default: everything between two answers of a provider is    *)
(* one step of the event loop.                                             *)
(***************************************************************************)
EXTENDS Naturals, Sequences, FiniteSets

CONSTANTS Project,       \* one workflow each, so one logical call at a time
          Candidates,    \* the models of select_model_candidates, in order
          MaxRetries,    \* MAX_RETRIES
          Threshold,     \* CIRCUIT_BREAKER_THRESHOLD
          Cap,           \* max_total_cost_usd, in billed answers
          Key,           \* cache keys; {} when the semantic cache is off
          MaxCalls,      \* bound: logical calls of a project
          None

Position == 1 .. Len(Candidates)
Model == {Candidates[i] : i \in Position}

ASSUME CandidatesAssumption ==
    /\ Len(Candidates) \in Nat \ {0}
    /\ \A i, j \in Position : Candidates[i] = Candidates[j] => i = j
ASSUME LimitsAssumption ==
    /\ MaxRetries \in Nat \ {0} /\ Threshold \in Nat \ {0}
    /\ Cap \in Nat /\ MaxCalls \in Nat /\ None \notin Key

VARIABLES
    call,      \* the logical call of each project
    reply,     \* what its last call returned
    spent,     \* budget_consumed.total_cost_usd
    billed,    \* history: answers the provider has charged for
    kill,      \* kill_switch_active
    failures,  \* recent failures of each model (CircuitBreaker.failures)
    pressed,   \* history: attempts on a model since its circuit opened
    cache,     \* usage of the response cached under each key, None without
    asked      \* logical calls so far

project == <<spent, billed, kill, asked>>
breaker == <<failures, pressed>>
vars == <<call, reply, project, breaker, cache>>

\* Errors as far as routing tells them apart: retried, passed on to the next
\* candidate (an unusable answer, a quota or credentials error), or returned.
Retryable == {"transient"}
Unusable  == {"unusable"}
FallbackEligible == Retryable \cup Unusable \cup {"quota", "auth"}
Category  == FallbackEligible \cup {"fatal"}
Outcome   == Category \cup {"ok"}

\* The answers a provider charges for, in units of the cap.
Cost(outcome) == IF outcome \in {"ok"} \cup Unusable THEN 1 ELSE 0

Fresh == [at |-> "idle", pos |-> 1, retry |-> 1, usage |-> 0, key |-> None,
          first |-> None, attempted |-> None, last |-> "unavailable", seen |-> {}]

NoReply == [kind |-> "none", error |-> None, usage |-> 0, seen |-> {}]

Init ==
    /\ call     = [p \in Project |-> Fresh]
    /\ reply    = [p \in Project |-> NoReply]
    /\ spent    = [p \in Project |-> 0]
    /\ billed   = [p \in Project |-> 0]
    /\ kill     = [p \in Project |-> FALSE]
    /\ failures = [m \in Model |-> 0]
    /\ pressed  = [m \in Model |-> 0]
    /\ cache    = [k \in Key |-> None]
    /\ asked    = [p \in Project |-> 0]

-----------------------------------------------------------------------------
(* Parts of the loop                                                        *)

IsOpen(fails, m) == fails[m] >= Threshold

\* Mutant: the circuit is not looked at.
PassableOpen(fails, i) == TRUE

Passable(fails, i) == ~IsOpen(fails, Candidates[i])

\* Mutants: the gate forgets the kill switch; it forgets the budget.
GateWithoutKill(p) == spent[p] <= Cap
GateWithoutBudget(p) == ~kill[p]

\* policy_gate: the kill switch, and the spend recorded so far (no estimate of
\* the attempt is passed to check_budget).
GateOpen(p) == ~kill[p] /\ spent[p] <= Cap

\* Mutant: usage of the answer that is returned, not of the call.
WinnerOnly(t, outcome) == [t EXCEPT !.usage = Cost(outcome)]

\* _UsageLedger.record
Recorded(t, outcome) == [t EXCEPT !.usage = @ + Cost(outcome)]

\* The error of a call that ran out of candidates.
Headline(t) == IF t.first = "quota" THEN "quota"
               ELSE IF t.attempted \in Unusable THEN t.attempted
               ELSE t.last

FirstOf(old, new) == IF old = None THEN new ELSE old

\* A candidate that is skipped is a failure too, but not an attempted one.
Skipping(t) == [t EXCEPT !.first = FirstOf(@, "unavailable"), !.last = "unavailable"]

Failing(t, category) ==
    [t EXCEPT !.first = FirstOf(@, category), !.attempted = FirstOf(@, category),
              !.last = category, !.seen = @ \cup {category}]

\* An answer of the gateway and what the orchestrator records of it: the usage
\* on the response, once per logical call.
Return(p, kind, error, t) ==
    /\ call'  = [call EXCEPT ![p] = Fresh]
    /\ reply' = [reply EXCEPT ![p] = [kind |-> kind, error |-> error,
                                      usage |-> t.usage, seen |-> t.seen]]
    /\ spent' = [spent EXCEPT ![p] = @ + t.usage]

Press(m, fails) == pressed' = [pressed EXCEPT ![m] = IF IsOpen(fails, m) THEN @ + 1 ELSE 0]

Refuse(p, t) == Return(p, "refused", "policy", t) /\ UNCHANGED pressed

\* before_attempt, then _execute until it awaits the provider.
Attempt(p, t, fails) ==
    IF GateOpen(p)
    THEN /\ call' = [call EXCEPT ![p] = [t EXCEPT !.at = "sent"]]
         /\ Press(Candidates[t.pos], fails)
         /\ UNCHANGED <<reply, spent>>
    ELSE Refuse(p, t)

\* The candidates from t.pos on: skip those whose circuit is open.
TryFrom(p, t, fails) ==
    LET open == {i \in t.pos .. Len(Candidates) : Passable(fails, i)} IN
    \/ /\ open = {}
       /\ LET u == IF t.pos \in Position THEN Skipping(t) ELSE t
          IN  Return(p, "error", Headline(u), u)
       /\ UNCHANGED pressed
    \/ \E i \in open :
          /\ \A j \in open : i <= j
          /\ LET u == IF i > t.pos THEN Skipping(t) ELSE t
             IN  Attempt(p, [u EXCEPT !.pos = i, !.retry = 1], fails)

-----------------------------------------------------------------------------
(* A logical call                                                           *)

\* call_llm; a hit returns the cached response with the usage it was stored with.
Ask(p, k) ==
    /\ call[p].at = "idle"
    /\ asked[p] < MaxCalls
    /\ asked' = [asked EXCEPT ![p] = @ + 1]
    /\ UNCHANGED <<billed, kill, failures, cache>>
    /\ IF k # None /\ cache[k] # None
       THEN Return(p, "hit", None, [Fresh EXCEPT !.usage = cache[k]]) /\ UNCHANGED pressed
       ELSE TryFrom(p, [Fresh EXCEPT !.key = k], failures)

Charge(p, outcome) == billed' = [billed EXCEPT ![p] = @ + Cost(outcome)]

\* breaker.reset
Reset(m) ==
    /\ failures' = [failures EXCEPT ![m] = 0]
    /\ pressed'  = [pressed EXCEPT ![m] = 0]

Succeed(p) ==
    LET t == Recorded(call[p], "ok") IN
    /\ call[p].at = "sent"
    /\ Charge(p, "ok")
    /\ Reset(Candidates[t.pos])
    /\ Return(p, "ok", None, t)
    /\ cache' = IF t.key = None THEN cache ELSE [cache EXCEPT ![t.key] = t.usage]
    /\ UNCHANGED <<kill, asked>>

\* An error that no other candidate would answer differently.
GiveUp(p) ==
    LET t == Failing(Recorded(call[p], "fatal"), "fatal") IN
    /\ call[p].at = "sent"
    /\ Charge(p, "fatal")
    /\ Return(p, "error", "fatal", t)
    /\ UNCHANGED <<kill, asked, breaker, cache>>

\* Unusable output, quota and credentials: no retry, the next candidate.
FallBack(p, category) ==
    LET t == Failing(Recorded(call[p], category), category) IN
    /\ call[p].at = "sent"
    /\ category \in FallbackEligible \ Retryable
    /\ Charge(p, category)
    /\ TryFrom(p, [t EXCEPT !.pos = @ + 1], failures)
    /\ UNCHANGED <<kill, asked, failures, cache>>

\* Mutant: the retry is not counted.
Uncounted(t) == [t EXCEPT !.at = "waiting"]

\* The delay before the next retry.
Waiting(t) == [t EXCEPT !.at = "waiting", !.retry = @ + 1]

\* record_failure; then the delay, or the next candidate after the last retry.
Fail(p) ==
    LET t == Failing(Recorded(call[p], "transient"), "transient")
        m == Candidates[t.pos]
        fails == [failures EXCEPT ![m] = @ + 1]
    IN
    /\ call[p].at = "sent"
    /\ Charge(p, "transient")
    /\ failures' = fails
    /\ IF t.retry < MaxRetries
       THEN /\ call' = [call EXCEPT ![p] = Waiting(t)]
            /\ UNCHANGED <<reply, spent, pressed>>
       ELSE TryFrom(p, [t EXCEPT !.pos = @ + 1], fails)
    /\ UNCHANGED <<kill, asked, cache>>

\* The retry is governed, but the circuit is not looked at again.
Retry(p) ==
    /\ call[p].at = "waiting"
    /\ Attempt(p, call[p], failures)
    /\ UNCHANGED <<billed, kill, asked, failures, cache>>

-----------------------------------------------------------------------------
(* Time and the operator                                                    *)

\* The oldest of a model's failures is past the cooldown.
Cool(m) ==
    /\ failures[m] > 0
    /\ failures' = [failures EXCEPT ![m] = @ - 1]
    /\ pressed' = [pressed EXCEPT ![m] = IF failures[m] - 1 >= Threshold THEN @ ELSE 0]
    /\ UNCHANGED <<call, reply, project, cache>>

Expire(k) ==
    /\ cache[k] # None
    /\ cache' = [cache EXCEPT ![k] = None]
    /\ UNCHANGED <<call, reply, project, breaker>>

SetKill(p) ==
    /\ kill' = [kill EXCEPT ![p] = ~@]
    /\ UNCHANGED <<call, reply, spent, billed, asked, breaker, cache>>

Answer(p) ==
    \/ Succeed(p) \/ GiveUp(p) \/ Fail(p)
    \/ \E category \in Category : FallBack(p, category)

Next ==
    \/ \E p \in Project :
          \/ \E k \in Key \cup {None} : Ask(p, k)
          \/ Answer(p) \/ Retry(p) \/ SetKill(p)
    \/ \E m \in Model : Cool(m)
    \/ \E k \in Key : Expire(k)

Spec == Init /\ [][Next]_vars

\* Providers answer or time out (REQUEST_TIMEOUT), and delays end.
FairSpec == Spec /\ \A p \in Project : WF_vars(Answer(p)) /\ WF_vars(Retry(p))

-----------------------------------------------------------------------------
Errors == Category \cup {"unavailable", None}

Call == [at : {"idle", "sent", "waiting"}, pos : Position, retry : 1 .. MaxRetries,
         usage : Nat, key : Key \cup {None},
         first : Errors, attempted : Errors, last : Errors, seen : SUBSET Category]
Reply == [kind : {"none", "ok", "hit", "refused", "error"}, error : Errors \cup {"policy"},
          usage : Nat, seen : SUBSET Category]

TypeOK ==
    /\ call \in [Project -> Call]
    /\ reply \in [Project -> Reply]
    /\ spent \in [Project -> Nat] /\ billed \in [Project -> Nat]
    /\ kill \in [Project -> BOOLEAN]
    /\ failures \in [Model -> Nat] /\ pressed \in [Model -> Nat]
    /\ cache \in [Key -> Nat \cup {None}]
    /\ asked \in [Project -> 0 .. MaxCalls]

(* Between two calls the budget has recorded all that the provider has      *)
(* charged, of retries, fallbacks, refusals and terminal failures too; and  *)
(* without the cache nothing else.                                          *)
SpentIsBilled == \A p \in Project : call[p].at = "idle" =>
    /\ billed[p] <= spent[p]
    /\ Key = {} => spent[p] = billed[p]

(* A project overshoots its cost cap by one logical call at most, and that  *)
(* call is charged once per candidate: only answers are charged, and after  *)
(* an answer that is no use the call moves on.                              *)
OvershootBounded == \A p \in Project : billed[p] <= Cap + Len(Candidates)

(* A provider is not hammered: when its circuit has opened, only the        *)
(* retries of calls already under way still reach it.                       *)
HammeringBounded == \A m \in Model :
    pressed[m] <= Cardinality(Project) * (MaxRetries - 1)

(* No attempt starts after the kill switch: retries and fallbacks of a call *)
(* under way are governed like its first attempt.                           *)
NoAttemptAfterKill == [][\A p \in Project :
    kill[p] /\ call'[p].at = "sent" => call[p].at = "sent" /\ call'[p] = call[p]]_vars

(* Every logical call ends, whatever the providers answer.                  *)
CallsEnd == \A p \in Project : call[p].at # "idle" ~> call[p].at = "idle"

-----------------------------------------------------------------------------
(* What the repository says and the code does not keep.                     *)

(* The cost cap is enforced before every call of the provider: nothing is   *)
(* sent when what has been charged is already above it.                     *)
CapBeforeEveryAttempt == [][\A p \in Project :
    call'[p].at = "sent" /\ call'[p] # call[p] => billed'[p] <= Cap]_vars

(* A provider that answered with an unusable body is not reported as        *)
(* unavailable because a later candidate was skipped.                       *)
UnusableIsNotUnavailable == \A p \in Project :
    reply[p].kind = "error" /\ reply[p].seen \cap Unusable # {}
    => reply[p].error # "unavailable"

(* The usage a response reports is spend of its own call: a hit has none.   *)
HitsAreFree == \A p \in Project : reply[p].kind = "hit" => reply[p].usage = 0
=============================================================================
