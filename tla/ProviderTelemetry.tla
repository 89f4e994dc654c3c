--------------------------- MODULE ProviderTelemetry ---------------------------
(***************************************************************************)
(* One telemetry run of mas/provider_telemetry: the session that persists  *)
(* a start before every provider request, the bounded queue and its worker *)
(* that deliver completion events off the caller's path, the capture       *)
(* buffer of each SDK invocation, and the reconciliation that certifies    *)
(* the run or refuses to.  One caller makes logical calls, each a sequence *)
(* of invocations, each a sequence of HTTP attempts (SDK retries).         *)
(***************************************************************************)
EXTENDS Integers, Sequences, FiniteSets

CONSTANTS Phase,           \* the phases a run may declare and perform
          Capacity,        \* of the delivery queue
          MaxCalls,        \* bound on logical calls of the run
          MaxInvocations,  \* bound on SDK invocations of the run
          MaxHttp,         \* bound on HTTP attempts of one invocation
          MaxFaults,       \* bound on failed writes, failed constructions, cancellations
          None

ASSUME TelemetryAssumption ==
    /\ Capacity \in Nat \ {0}
    /\ {MaxCalls, MaxInvocations, MaxHttp, MaxFaults} \subseteq Nat
    /\ None \notin [subject : [inv : 1 .. MaxInvocations, http : 0 .. MaxHttp],
                    kind : {"terminal", "cancelled", "capture_failure"}]

\* Subjects of the event log: invocation i is [inv |-> i, http |-> 0], and its
\* k-th HTTP attempt is [inv |-> i, http |-> k].
Subject == [inv : 1 .. MaxInvocations, http : 0 .. MaxHttp]
Invocation(i) == [inv |-> i, http |-> 0]

\* "terminal" stands for completed, provider_failure and skipped; observations,
\* which no query reads, are left out.
Event == [subject : Subject, kind : {"terminal", "cancelled", "capture_failure"}]
Terminal(s) == [subject |-> s, kind |-> "terminal"]
IsTerminal(e) == e.kind # "capture_failure"

Posture == {"strict", "observational"}
Stage == {"opening", "idle", "calling", "invoked", "sending", "bare", "bare_sending",
          "closing", "querying", "reconciled", "refused"}
Failure == {"drain", "undurable_events", "ambiguous_writes", "reconciliation_query_unavailable",
            "unmatched_starts", "missing_expected_phase", "expected_work_not_started",
            "call_without_invocation", "invocation_without_http_attempt",
            "unexpected_call_phase", "capture_failure_recorded"}
Loss == {"start_failure", "start_ambiguity", "unrepresented", "unqueued"}

VARIABLES
    posture,   \* of the run
    declared,  \* its expected phases
    envelope,  \* is the row of provider_telemetry_run there?
    at,        \* where the caller is
    calls,     \* rows of provider_telemetry_call, as call number and phase
    starts,    \* rows of provider_sdk_invocation and provider_attempt
    skipped,   \* invocation rows of kind skipped_candidate
    stored,    \* rows of provider_attempt_event
    callOf,    \* the call of each invocation so far
    ncalls,    \* logical calls so far
    http,      \* HTTP attempts of the invocation under way
    buffer,    \* InvocationCapture.events
    noted,     \* is there a note in InvocationCapture.capture_failures?
    queue,     \* EventDelivery._queue
    writing,   \* the event the worker is writing, None if it waits for one
    worker,    \* "running", "cancelled" or "stopped"
    counters,  \* DeliveryCounters
    losses,    \* which local counters of the session are positive
    drained,   \* the DrainResult: status and counters
    verdict,   \* the failures of the attestation
    faults,
    sent,      \* history: the requests that left
    produced   \* history: the events handed to submit

run == <<posture, declared, envelope>>
tables == <<calls, starts, skipped, stored>>
capture == <<http, buffer, noted>>
progress == <<callOf, ncalls>>
delivery == <<queue, writing, worker, counters>>
ending == <<drained, verdict>>
vars == <<run, at, tables, capture, progress, delivery, losses, ending, faults, sent, produced>>

Counters == [submitted : Nat, delivered : Nat, failed : Nat, ambiguous : Nat, dropped : Nat]
Zero == [submitted |-> 0, delivered |-> 0, failed |-> 0, ambiguous |-> 0, dropped |-> 0]
Undurable(c) == c.failed + c.dropped
Outstanding(c) == c.submitted - (c.delivered + c.failed + c.ambiguous + c.dropped)

Init ==
    /\ posture \in Posture /\ declared \in SUBSET Phase /\ envelope = FALSE
    /\ at = "opening"
    /\ calls = {} /\ starts = {} /\ skipped = {} /\ stored = {}
    /\ callOf = <<>> /\ ncalls = 0 /\ http = 0 /\ buffer = <<>> /\ noted = FALSE
    /\ queue = <<>> /\ writing = None /\ worker = "running" /\ counters = Zero
    /\ losses = {}
    /\ drained = [status |-> "unknown", counters |-> Zero] /\ verdict = {}
    /\ faults = 0 /\ sent = {} /\ produced = {}

Fault == faults < MaxFaults /\ faults' = faults + 1

-----------------------------------------------------------------------------
(* Synchronous starts: the row is written, it is not, nobody knows, or the  *)
(* caller is cancelled while it waits and nobody knows either.              *)

Outcome == {"ok", "failed", "ambiguous", "ambiguous_committed", "cancelled", "cancelled_committed"}
Durable(o) == o \in {"ok", "ambiguous_committed", "cancelled_committed"}
Cancelled(o) == o \in {"cancelled", "cancelled_committed"}
Costs(o) == IF o = "ok" THEN UNCHANGED faults ELSE Fault

\* What _persist_start adds to the counters of the session.
StartLoss(o) == CASE o = "ok" -> {}
                  [] o = "failed" -> {"start_failure"}
                  [] OTHER -> {"start_ambiguity"}

\* Mutant: observational posture refuses as well.
ProceedsStrictly(o) == o = "ok"

\* Strict posture raises TelemetryStartUnavailable unless the write is certain.
Proceeds(o) == o = "ok" \/ (posture = "observational" /\ ~Cancelled(o))

\* Where the caller goes: on, back to whoever called, or out of the run.
Continue(o, next, back) ==
    at' = IF Cancelled(o) THEN "closing" ELSE IF Proceeds(o) THEN next ELSE back

\* Mutant: the isolation boundary only logs it.
UnrepresentedLogged == UNCHANGED losses

\* A construction fails where no capture buffer is bound.
Unrepresented == losses' = losses \cup {"unrepresented"}

\* Mutant: the queue has no bound.
PublishedUnbounded(events, more) ==
    /\ queue' = queue \o events
    /\ counters' = [counters EXCEPT !.submitted = @ + Len(events)]
    /\ losses' = losses \cup more
    /\ produced' = produced \cup {events[i] : i \in DOMAIN events}
    /\ UNCHANGED <<writing, worker>>

\* submit for each event; nothing awaits, and a full queue drops.
Published(events, more) ==
    LET room == Capacity - Len(queue)
        taken == IF Len(events) <= room THEN Len(events) ELSE room
        lost == Len(events) - taken IN
    /\ queue' = queue \o SubSeq(events, 1, taken)
    /\ counters' = [counters EXCEPT !.submitted = @ + taken, !.dropped = @ + lost]
    /\ losses' = losses \cup more \cup (IF lost > 0 THEN {"unqueued"} ELSE {})
    /\ produced' = produced \cup {events[i] : i \in DOMAIN events}
    /\ UNCHANGED <<writing, worker>>

-----------------------------------------------------------------------------
(* run_session and ProviderGateway.call                                     *)

\* The run row, after strict_preflight.
Open(o) ==
    /\ at = "opening"
    /\ Costs(o)
    /\ envelope' = Durable(o)
    /\ at' = IF Proceeds(o) THEN "idle" ELSE "refused"
    /\ UNCHANGED <<posture, declared, tables, capture, progress, delivery, losses, ending,
                   sent, produced>>

\* _persist_call_start.
BeginCall(p, o) ==
    /\ at = "idle" /\ ncalls < MaxCalls /\ Len(callOf) < MaxInvocations
    /\ Costs(o)
    /\ ncalls' = ncalls + 1
    /\ calls' = IF Durable(o) THEN calls \cup {[call |-> ncalls', phase |-> p]} ELSE calls
    /\ losses' = losses \cup StartLoss(o)
    /\ Continue(o, "calling", "idle")
    /\ UNCHANGED <<run, starts, skipped, stored, callOf, capture, delivery, ending, sent, produced>>

\* The record cannot be built: the call goes on without an envelope.
BeginCallUnbuilt ==
    /\ at = "idle" /\ ncalls < MaxCalls /\ Len(callOf) < MaxInvocations
    /\ Fault /\ Unrepresented
    /\ ncalls' = ncalls + 1
    /\ at' = "calling"
    /\ UNCHANGED <<run, tables, callOf, capture, delivery, ending, sent, produced>>

\* The row of the next invocation of this call.
Numbered(o) ==
    /\ at = "calling" /\ Len(callOf) < MaxInvocations
    /\ Costs(o)
    /\ callOf' = Append(callOf, ncalls)
    /\ starts' = IF Durable(o) THEN starts \cup {Invocation(Len(callOf'))} ELSE starts

\* _record_skipped_candidate: an unavailable provider, an open circuit or a
\* refusal by the policy gate leaves an invocation with its terminal event.
SkipCandidate(o) ==
    /\ Numbered(o)
    /\ skipped' = IF Durable(o) THEN skipped \cup {Len(callOf')} ELSE skipped
    /\ Published(IF Proceeds(o) THEN <<Terminal(Invocation(Len(callOf')))>> ELSE <<>>, StartLoss(o))
    /\ Continue(o, "calling", "idle")
    /\ UNCHANGED <<run, calls, stored, ncalls, capture, ending, sent>>

\* _begin_invocation: the start is persisted before the provider is called.
BeginInvocation(o) ==
    /\ Numbered(o)
    /\ http' = 0
    /\ losses' = losses \cup StartLoss(o)
    /\ Continue(o, "invoked", "idle")
    /\ UNCHANGED <<run, calls, skipped, stored, ncalls, buffer, noted, delivery, ending,
                   sent, produced>>

\* Its record cannot be built: a skipped candidate leaves no trace, and an
\* invocation runs without a probe, so its requests are not captured.
InvocationUnbuilt(next) ==
    /\ at = "calling" /\ Len(callOf) < MaxInvocations
    /\ Fault /\ Unrepresented
    /\ callOf' = Append(callOf, ncalls)
    /\ http' = 0
    /\ at' = next
    /\ UNCHANGED <<run, tables, ncalls, buffer, noted, delivery, ending, sent, produced>>

-----------------------------------------------------------------------------
(* TelemetryTransport.handle_async_request, once per SDK attempt            *)

Attempt == [inv |-> Len(callOf), http |-> http + 1]

\* The attempt row, then the request; a strict refusal reaches the SDK as a
\* transport failure and it may try again.
Send(o) ==
    /\ at = "invoked" /\ http < MaxHttp /\ ~Cancelled(o)
    /\ Costs(o)
    /\ http' = http + 1
    /\ starts' = IF Durable(o) THEN starts \cup {Attempt} ELSE starts
    /\ losses' = losses \cup StartLoss(o)
    /\ IF Proceeds(o) THEN sent' = sent \cup {Attempt} /\ at' = "sending"
                      ELSE UNCHANGED <<sent, at>>
    /\ UNCHANGED <<run, calls, skipped, stored, progress, buffer, noted, delivery, ending, produced>>

\* The record cannot be built: noted on the buffer, and refused if strict.
SendUnbuilt ==
    /\ at = "invoked" /\ http < MaxHttp
    /\ Fault
    /\ http' = http + 1
    /\ noted' = TRUE
    /\ IF posture = "observational" THEN sent' = sent \cup {Attempt} /\ at' = "sending"
                                    ELSE UNCHANGED <<sent, at>>
    /\ UNCHANGED <<run, tables, progress, buffer, delivery, losses, ending, produced>>

\* A response or a transport failure: one terminal event of the attempt, or a
\* note if the event cannot be built.
Answer(built) ==
    /\ at = "sending"
    /\ IF built THEN /\ buffer' = Append(buffer, Terminal([inv |-> Len(callOf), http |-> http]))
                     /\ UNCHANGED <<noted, faults>>
                ELSE Fault /\ noted' = TRUE /\ UNCHANGED buffer
    /\ at' = "invoked"
    /\ UNCHANGED <<run, tables, http, progress, delivery, losses, ending, sent, produced>>

\* Without a capture the transport is transparent.
SendBare ==
    /\ at = "bare" /\ http < MaxHttp
    /\ http' = http + 1
    /\ sent' = sent \cup {Attempt}
    /\ at' = "bare_sending"
    /\ UNCHANGED <<run, tables, progress, buffer, noted, delivery, losses, ending, faults, produced>>

AnswerBare ==
    /\ at = "bare_sending"
    /\ at' = "bare"
    /\ UNCHANGED <<run, tables, capture, progress, delivery, losses, ending, faults, sent, produced>>

\* _InvocationProbe.drain: the buffered events, the terminal, the flushed notes.
Ended(kind) == <<[subject |-> Invocation(Len(callOf)), kind |-> kind]>>
Notes == IF noted THEN Ended("capture_failure") ELSE <<>>
Drain(kind) == buffer \o Ended(kind) \o Notes

\* record_terminal or record_escape, then _publish.
Close(events, more, next) ==
    /\ Published(events, more)
    /\ buffer' = <<>> /\ noted' = FALSE
    /\ at' = next
    /\ UNCHANGED <<run, calls, skipped, stored, progress, http, ending, sent>>

EndInvocation ==
    /\ at = "invoked" /\ http > 0
    /\ Close(Drain("terminal"), {}, "calling")
    /\ UNCHANGED <<starts, faults>>

\* The terminal event cannot be built: the scope is closed, nothing can hold it.
EndInvocationUnbuilt ==
    /\ at = "invoked" /\ http > 0
    /\ Fault
    /\ Close(buffer \o Notes, {"unrepresented"}, "calling")
    /\ UNCHANGED starts

EndBare ==
    /\ at = "bare" /\ http > 0
    /\ at' = "calling"
    /\ UNCHANGED <<run, tables, capture, progress, delivery, losses, ending, faults, sent, produced>>

\* The caller is cancelled between two requests, or while the row of the next
\* one is written.
CancelInvocation(o) ==
    /\ at = "invoked" /\ (o # "ok" => Cancelled(o) /\ http < MaxHttp)
    /\ Fault
    /\ starts' = IF o = "cancelled_committed" THEN starts \cup {Attempt} ELSE starts
    /\ Close(Drain("cancelled"), StartLoss(o), "closing")

\* While a request is out: the transport records the attempt, the gateway the
\* invocation.
CancelSending ==
    /\ at = "sending"
    /\ Fault
    /\ Close(<<Terminal([inv |-> Len(callOf), http |-> http])>> \o Drain("cancelled"), {}, "closing")
    /\ UNCHANGED starts

\* Elsewhere nothing is open.
CancelCaller ==
    /\ at \in {"idle", "calling", "bare", "bare_sending"}
    /\ Fault
    /\ at' = "closing"
    /\ UNCHANGED <<run, tables, capture, progress, delivery, losses, ending, sent, produced>>

EndCall ==
    /\ at = "calling"
    /\ \E i \in DOMAIN callOf : callOf[i] = ncalls
    /\ at' = "idle"
    /\ UNCHANGED <<run, tables, capture, progress, delivery, losses, ending, faults, sent, produced>>

EndRun ==
    /\ at = "idle"
    /\ at' = "closing"
    /\ UNCHANGED <<run, tables, capture, progress, delivery, losses, ending, faults, sent, produced>>

-----------------------------------------------------------------------------
(* EventDelivery: the worker and its shutdown                               *)

Take ==
    /\ worker = "running" /\ writing = None /\ queue # <<>>
    /\ writing' = Head(queue) /\ queue' = Tail(queue)
    /\ UNCHANGED <<run, at, tables, capture, progress, worker, counters, losses, ending, faults,
                   sent, produced>>

\* _deliver; a CancelledError of the sink's own making is one more ambiguity.
Deliver(o) ==
    /\ worker = "running" /\ writing # None
    /\ ~Cancelled(o)
    /\ Costs(o)
    /\ stored' = IF Durable(o) THEN stored \cup {writing} ELSE stored
    /\ counters' = CASE o = "ok" -> [counters EXCEPT !.delivered = @ + 1]
                     [] o = "failed" -> [counters EXCEPT !.failed = @ + 1]
                     [] OTHER -> [counters EXCEPT !.ambiguous = @ + 1]
    /\ writing' = None
    /\ UNCHANGED <<run, at, calls, starts, skipped, capture, progress, queue, worker, losses,
                   ending, sent, produced>>

Snapshot(s) == drained' = [status |-> s, counters |-> counters]

\* Mutant: what is left in the queue is forgotten.
ShutdownSilently ==
    /\ at' = "querying"
    /\ worker' = IF writing = None THEN "stopped" ELSE "cancelled"
    /\ queue' = <<>>
    /\ UNCHANGED <<run, tables, capture, progress, writing, counters, losses, verdict, faults,
                   sent, produced>>

\* _stop_worker and _count_abandoned, after the snapshot was taken.
Shutdown ==
    /\ at' = "querying"
    /\ worker' = IF writing = None THEN "stopped" ELSE "cancelled"
    /\ counters' = [counters EXCEPT !.dropped = @ + Len(queue)]
    /\ queue' = <<>>
    /\ UNCHANGED <<run, tables, capture, progress, writing, losses, verdict, faults, sent, produced>>

\* queue.join returned.
DrainJoined ==
    /\ at = "closing" /\ queue = <<>> /\ writing = None
    /\ Snapshot(IF Outstanding(counters) = 0 THEN "drained" ELSE "failed")
    /\ Shutdown

\* Mutant: a drain without a bound.
DrainUnbounded ==
    /\ FALSE
    /\ Snapshot("timeout")
    /\ Shutdown

DrainTimedOut ==
    /\ at = "closing" /\ (queue # <<>> \/ writing # None)
    /\ Snapshot("timeout")
    /\ Shutdown

\* The cancelled write may have committed.
WriteCancelled ==
    /\ worker = "cancelled"
    /\ worker' = "stopped" /\ writing' = None
    /\ stored' \in {stored, stored \cup {writing}}
    /\ counters' = [counters EXCEPT !.ambiguous = @ + 1]
    /\ UNCHANGED <<run, at, calls, starts, skipped, capture, progress, queue, losses, ending,
                   faults, sent, produced>>

-----------------------------------------------------------------------------
(* reconcile, after aclose                                                  *)

Unmatched == {s \in starts : \A e \in stored : e.subject = s => ~IsTerminal(e)}
Expected == IF envelope THEN declared ELSE {}
Observed == {c.phase : c \in calls}
Callless == {c \in calls : \A i \in DOMAIN callOf : callOf[i] = c.call => Invocation(i) \notin starts}

Attemptless == {i \in DOMAIN callOf \ skipped :
                  /\ Invocation(i) \in starts
                  /\ \A s \in starts : s.inv = i => s.http = 0
                  /\ [subject |-> Invocation(i), kind |-> "cancelled"] \notin stored}

\* What the process itself knows to be lost.
LocalFailures ==
    {f \in {"drain", "undurable_events", "ambiguous_writes"} :
       \/ f = "drain" /\ drained.status # "drained"
       \/ f = "undurable_events" /\ (Undurable(drained.counters) > 0
                                     \/ losses \cap (Loss \ {"start_ambiguity"}) # {})
       \/ f = "ambiguous_writes" /\ (drained.counters.ambiguous > 0 \/ "start_ambiguity" \in losses)}

\* What the database shows.
DurableFailures ==
    {f \in Failure :
       \/ f = "unmatched_starts" /\ Unmatched # {}
       \/ f = "missing_expected_phase" /\ ~(Expected \subseteq Observed)
       \/ f = "expected_work_not_started" /\ Expected # {} /\ calls = {}
       \/ f = "call_without_invocation" /\ Callless # {}
       \/ f = "invocation_without_http_attempt" /\ Attemptless # {}
       \/ f = "unexpected_call_phase" /\ Expected # {} /\ ~(Observed \subseteq Expected)
       \/ f = "capture_failure_recorded" /\ posture = "strict"
             /\ \E e \in stored : e.kind = "capture_failure"}

Reconcile ==
    /\ at = "querying"
    /\ verdict' = LocalFailures \cup DurableFailures
    /\ at' = "reconciled"
    /\ UNCHANGED <<run, tables, capture, progress, delivery, losses, drained, faults, sent, produced>>

ReconcileBlind ==
    /\ at = "querying"
    /\ Fault
    /\ verdict' = LocalFailures \cup {"reconciliation_query_unavailable"}
    /\ at' = "reconciled"
    /\ UNCHANGED <<run, tables, capture, progress, delivery, losses, drained, sent, produced>>

Caller ==
    \/ \E o \in Outcome : Open(o)
    \/ \E p \in Phase, o \in Outcome : BeginCall(p, o)
    \/ BeginCallUnbuilt
    \/ \E o \in Outcome : SkipCandidate(o) \/ BeginInvocation(o)
    \/ InvocationUnbuilt("calling") \/ InvocationUnbuilt("bare")
    \/ \E o \in Outcome : Send(o)
    \/ SendUnbuilt
    \/ \E built \in BOOLEAN : Answer(built)
    \/ SendBare \/ AnswerBare \/ EndBare
    \/ EndInvocation \/ EndInvocationUnbuilt
    \/ \E o \in {"ok", "cancelled", "cancelled_committed"} : CancelInvocation(o)
    \/ CancelSending \/ CancelCaller
    \/ EndCall \/ EndRun
    \/ DrainJoined \/ DrainTimedOut
    \/ Reconcile \/ ReconcileBlind

Worker == Take \/ (\E o \in Outcome : Deliver(o)) \/ WriteCancelled

Next == Caller \/ Worker

\* The event loop runs the caller, whose waits are bounded: the drain by its
\* timeout, a request and a start by their clients.  The sink owes nothing.
Fairness == WF_vars(Caller)
Spec == Init /\ [][Next]_vars
FairSpec == Spec /\ Fairness

-----------------------------------------------------------------------------
TypeOK ==
    /\ posture \in Posture /\ declared \in SUBSET Phase /\ envelope \in BOOLEAN
    /\ at \in Stage
    /\ calls \subseteq [call : 1 .. MaxCalls, phase : Phase]
    /\ starts \subseteq Subject /\ sent \subseteq Subject
    /\ skipped \subseteq 1 .. MaxInvocations
    /\ stored \subseteq Event /\ produced \subseteq Event
    /\ callOf \in Seq(1 .. MaxCalls) /\ Len(callOf) <= MaxInvocations
    /\ ncalls \in 0 .. MaxCalls /\ http \in 0 .. MaxHttp /\ faults \in 0 .. MaxFaults
    /\ buffer \in Seq(Event) /\ noted \in BOOLEAN
    /\ queue \in Seq(Event) /\ Len(queue) <= Capacity
    /\ writing \in Event \cup {None}
    /\ worker \in {"running", "cancelled", "stopped"}
    /\ counters \in Counters
    /\ losses \subseteq Loss
    /\ drained \in [status : {"unknown", "drained", "failed", "timeout"}, counters : Counters]
    /\ verdict \subseteq Failure

Certified == at = "reconciled" /\ verdict = {}

\* A certified run lost nothing: every event handed over is stored, and in
\* strict posture every request that left has its start and its terminal event
\* and every declared phase was called, whatever writes failed, were cancelled
\* or are still under way (RunAttestation.certified).
CertifiedIsComplete ==
    Certified =>
        /\ produced \subseteq stored
        /\ posture = "strict" =>
             /\ \A s \in sent : s \in starts /\ \E e \in stored : e.subject = s /\ IsTerminal(e)
             /\ declared \subseteq {c.phase : c \in calls}

\* Each event handed over is in the queue, in the worker's hands or counted in
\* exactly one of delivered, failed, ambiguous and dropped, also across a full
\* queue, a timed-out drain and a cancelled write (DeliveryCounters).
EventsAreCountedOnce ==
    Cardinality(produced) =
        counters.delivered + counters.failed + counters.ambiguous + counters.dropped
        + Len(queue) + (IF writing = None THEN 0 ELSE 1)

\* A strict run in which nothing failed, nothing was dropped, the drain did not
\* time out and exactly the declared phases were called is certified.
NoFalseAlarm ==
    (at = "reconciled" /\ faults = 0 /\ drained.status # "timeout" /\ counters.dropped = 0
        /\ Observed = declared) => verdict = {}

\* Neutrality of observational posture: seen without its telemetry, an
\* observational run is a run of the gateway without any; no failed write, full
\* queue or unbuildable record skips a request or ends a call.  A strict run
\* makes no such promise and is mapped to a gateway that stands still.
Watched(x, still) == IF posture = "observational" THEN x ELSE still
Shown == CASE at \in {"opening", "idle"} -> "idle"
           [] at \in {"invoked", "bare"} -> "invoked"
           [] at \in {"sending", "bare_sending"} -> "sending"
           [] at = "calling" -> "calling"
           [] OTHER -> "over"
Tries == IF Shown \in {"invoked", "sending"} THEN http ELSE 0
Gateway == INSTANCE UntracedGateway WITH at <- Watched(Shown, "idle"), tries <- Watched(Tries, 0)
ObservationIsNeutral == Gateway!Spec

\* Every request of a strict run has its row before it leaves (service.py:25).
StrictSendsAreStarted == posture = "strict" => sent \subseteq starts

\* The run is reconciled, or refused at its start, even when the sink never
\* answers the worker again (delivery.drain is bounded).
RunEnds == <>(at \in {"reconciled", "refused"})
=============================================================================
