------------------------ MODULE ProviderTelemetry_proofs ------------------------
(***************************************************************************)
(* Proofs about ProviderTelemetry for every set of phases, every capacity  *)
(* and every bound: the types, that a certified run is complete, and that  *)
(* an observational run is a run of the gateway without telemetry.         *)
(***************************************************************************)
EXTENDS ProviderTelemetry, FiniteSetTheorems, SequenceTheorems, TLAPS

-----------------------------------------------------------------------------
(* Neutrality                                                              *)

LEMMA GatewayInit == Init => Gateway!Init
BY DEF Init, Gateway!Init, Watched, Shown, Tries, Posture

\* Each step of the telemetry is a step of the untraced gateway or invisible to it.
LEMMA GatewayStep == [Next]_vars => [Gateway!Next]_(Gateway!vars)
<1> SUFFICES ASSUME [Next]_vars PROVE [Gateway!Next]_(Gateway!vars)
    OBVIOUS
<1> USE DEF Watched, Shown, Tries, Gateway!vars, run
<1>d. posture' = posture
    BY DEF vars, Next, Caller, Worker, Open, BeginCall, BeginCallUnbuilt, SkipCandidate,
           BeginInvocation, InvocationUnbuilt, Send, SendUnbuilt, Answer, SendBare, AnswerBare,
           EndBare, EndInvocation, EndInvocationUnbuilt, CancelInvocation, CancelSending,
           CancelCaller, EndCall, EndRun, DrainJoined, DrainTimedOut, Reconcile, ReconcileBlind,
           Take, Deliver, WriteCancelled, Close, Shutdown
<1>1. CASE posture # "observational"
    BY <1>1, <1>d
<1> SUFFICES ASSUME posture = "observational" PROVE [Gateway!Next]_(Gateway!vars)
    BY <1>1
<1> USE <1>d
<1>2. CASE \E o \in Outcome : Open(o)
    BY <1>2 DEF Open, Proceeds, Gateway!Next, Gateway!Over, capture
<1>3. CASE \E p \in Phase, o \in Outcome : BeginCall(p, o)
    BY <1>3 DEF BeginCall, Continue, Proceeds, Cancelled, Gateway!Next, Gateway!Begin, Gateway!Move, Gateway!Over
<1>4. CASE BeginCallUnbuilt
    BY <1>4 DEF BeginCallUnbuilt, Gateway!Next, Gateway!Begin, Gateway!Move
<1>5. CASE \E o \in Outcome : SkipCandidate(o)
    BY <1>5 DEF SkipCandidate, Numbered, Continue, Proceeds, Cancelled, Gateway!Next, Gateway!Over
<1>6. CASE \E o \in Outcome : BeginInvocation(o)
    BY <1>6 DEF BeginInvocation, Numbered, Continue, Proceeds, Cancelled, Gateway!Next,
                Gateway!Invoke, Gateway!Move, Gateway!Over
<1>7. CASE InvocationUnbuilt("calling") \/ InvocationUnbuilt("bare")
    BY <1>7 DEF InvocationUnbuilt, Gateway!Next, Gateway!Invoke, Gateway!Move
<1>8. CASE \E o \in Outcome : Send(o)
    BY <1>8 DEF Send, Proceeds, Gateway!Next, Gateway!Request, Gateway!Move
<1>9. CASE SendUnbuilt \/ SendBare
    BY <1>9 DEF SendUnbuilt, SendBare, Gateway!Next, Gateway!Request, Gateway!Move
<1>10. CASE (\E built \in BOOLEAN : Answer(built)) \/ AnswerBare
    BY <1>10 DEF Answer, AnswerBare, capture, Gateway!Next, Gateway!Answered, Gateway!Move
<1>11. CASE EndInvocation \/ EndInvocationUnbuilt \/ EndBare
    BY <1>11 DEF EndInvocation, EndInvocationUnbuilt, EndBare, Close, Gateway!Next, Gateway!Return, Gateway!Move
<1>12. CASE \/ \E o \in {"ok", "cancelled", "cancelled_committed"} : CancelInvocation(o)
            \/ CancelSending \/ CancelCaller
    BY <1>12 DEF CancelInvocation, CancelSending, CancelCaller, Close, Gateway!Next, Gateway!Over
<1>13. CASE EndCall \/ EndRun
    BY <1>13 DEF EndCall, EndRun, Gateway!Next, Gateway!End, Gateway!Over, Gateway!Move
<1>14. CASE DrainJoined \/ DrainTimedOut \/ Reconcile \/ ReconcileBlind
    BY <1>14 DEF DrainJoined, DrainTimedOut, Shutdown, Reconcile, ReconcileBlind, Gateway!Next
<1>15. CASE Worker
    BY <1>15 DEF Worker, Take, Deliver, WriteCancelled, capture
<1>16. CASE UNCHANGED vars
    BY <1>16 DEF vars, capture
<1> QED BY <1>2, <1>3, <1>4, <1>5, <1>6, <1>7, <1>8, <1>9, <1>10, <1>11, <1>12, <1>13, <1>14,
           <1>15, <1>16 DEF Next, Caller

\* An observational run is a run of the gateway that has no telemetry.
THEOREM Neutral == Spec => ObservationIsNeutral
BY GatewayInit, GatewayStep, PTL DEF Spec, ObservationIsNeutral, Gateway!Spec

-----------------------------------------------------------------------------
(* Types                                                                   *)

\* Where the caller is bounds what it has begun.
InCall == {"calling", "invoked", "sending", "bare", "bare_sending"}
InInvocation == {"invoked", "sending", "bare", "bare_sending"}
Begun ==
    /\ at \in InCall => ncalls # 0
    /\ at \in InInvocation => callOf # <<>>
    /\ at = "sending" => http # 0
    /\ worker = "cancelled" => writing # None

IType == TypeOK /\ Begun

LEMMA TypeInit == Init => IType
<1> SUFFICES ASSUME Init PROVE IType
    OBVIOUS
<1>1. Zero \in Counters
    BY DEF Zero, Counters
<1>2. 0 \in 0 .. MaxCalls /\ 0 \in 0 .. MaxHttp /\ 0 \in 0 .. MaxFaults
    BY TelemetryAssumption
<1>3. <<>> \in Seq(Event) /\ <<>> \in Seq(1 .. MaxCalls) /\ Len(<<>>) = 0 /\ 0 <= Capacity /\ 0 <= MaxInvocations
    BY TelemetryAssumption
<1>4. TypeOK
    BY <1>1, <1>2, <1>3 DEF Init, TypeOK, Posture, Stage
<1>5. Begun
    BY DEF Init, Begun, InCall, InInvocation
<1> QED BY <1>4, <1>5 DEF IType

\* Publishing keeps the types of what it writes to.
LEMMA PublishedType ==
    ASSUME TypeOK, NEW events \in Seq(Event), NEW more \in SUBSET Loss, Published(events, more)
    PROVE  /\ queue' \in Seq(Event) /\ Len(queue') <= Capacity
           /\ counters' \in Counters
           /\ losses' \subseteq Loss
           /\ produced' \subseteq Event
<1> DEFINE room == Capacity - Len(queue)
           taken == IF Len(events) <= room THEN Len(events) ELSE room
           lost == Len(events) - taken
<1>1. room \in Nat /\ taken \in 0 .. Len(events) /\ taken <= room /\ lost \in Nat
    BY TelemetryAssumption DEF TypeOK
<1>2. /\ SubSeq(events, 1, taken) \in Seq(Event)
      /\ Len(SubSeq(events, 1, taken)) = taken
    BY <1>1
<1>3. queue' \in Seq(Event) /\ Len(queue') <= Capacity
  <2>1. queue \in Seq(Event) /\ queue' = queue \o SubSeq(events, 1, taken)
      BY DEF TypeOK, Published
  <2>2. Len(queue') = Len(queue) + taken
      BY <2>1, <1>2
  <2>3. Len(queue') <= Capacity
      BY <2>2, <1>1, <2>1, TelemetryAssumption
  <2> QED BY <2>1, <2>3, <1>2
<1>4. counters' \in Counters
  <2>1. counters' = [counters EXCEPT !.submitted = @ + taken, !.dropped = @ + lost]
      BY DEF Published
  <2>2. counters \in Counters
      BY DEF TypeOK
  <2>3. counters.submitted + taken \in Nat /\ counters.dropped + lost \in Nat
      BY <1>1, <2>2 DEF Counters
  <2> QED BY <2>1, <2>2, <2>3 DEF Counters
<1>5. losses' \subseteq Loss /\ produced' \subseteq Event
    BY DEF TypeOK, Published, Loss
<1> QED BY <1>3, <1>4, <1>5
\* What an invocation hands over at its end.
LEMMA DrainType ==
    ASSUME IType, at \in InInvocation
    PROVE  /\ \A kind \in {"terminal", "cancelled"} : Drain(kind) \in Seq(Event)
           /\ buffer \o Notes \in Seq(Event)
           /\ at = "sending" => <<Terminal([inv |-> Len(callOf), http |-> http])>> \o Drain("cancelled") \in Seq(Event)
<1>1. Len(callOf) \in 1 .. MaxInvocations /\ http \in 0 .. MaxHttp
    BY TelemetryAssumption DEF IType, Begun, TypeOK
<1>2. Invocation(Len(callOf)) \in Subject /\ [inv |-> Len(callOf), http |-> http] \in Subject
    BY <1>1, TelemetryAssumption DEF Invocation, Subject
<1>3. \A kind \in {"terminal", "cancelled", "capture_failure"} : Ended(kind) \in Seq(Event)
    BY <1>2 DEF Event, Ended
<1>4. Notes \in Seq(Event)
    BY <1>3 DEF Notes
<1>5. buffer \in Seq(Event)
    BY DEF IType, TypeOK
<1>6. <<Terminal([inv |-> Len(callOf), http |-> http])>> \in Seq(Event)
    BY <1>2 DEF Terminal, Event
<1>7. \A kind \in {"terminal", "cancelled"} : Drain(kind) \in Seq(Event)
    BY <1>3, <1>4, <1>5 DEF Drain
<1> QED BY <1>4, <1>5, <1>6, <1>7

\* Every step keeps the types.
LEMMA TypeStep == IType /\ [Next]_vars => IType'
<1> SUFFICES ASSUME IType, [Next]_vars PROVE IType'
    OBVIOUS
<1> USE DEF IType, Begun, InCall, InInvocation
<1>f. ASSUME Fault PROVE faults' \in 0 .. MaxFaults
    BY <1>f, TelemetryAssumption DEF Fault, TypeOK
<1>c. ASSUME NEW o, Costs(o) PROVE faults' \in 0 .. MaxFaults
    BY <1>c, <1>f DEF Costs, TypeOK
<1>l. ASSUME NEW o PROVE StartLoss(o) \subseteq Loss
    BY DEF StartLoss, Loss
<1>2. ASSUME NEW o \in Outcome, Open(o) PROVE IType'
    BY <1>2, <1>c DEF Open, TypeOK, tables, capture, progress, delivery, ending, Stage, Durable
<1>3. ASSUME NEW p \in Phase, NEW o \in Outcome, BeginCall(p, o) PROVE IType'
    BY <1>3, <1>c, <1>l, TelemetryAssumption
       DEF BeginCall, Continue, TypeOK, run, capture, delivery, ending, Stage
<1>4. CASE BeginCallUnbuilt
    BY <1>4, <1>f, TelemetryAssumption
       DEF BeginCallUnbuilt, Unrepresented, TypeOK, run, tables, capture, delivery, ending, Stage, Loss
<1>n. at \in InInvocation => Len(callOf) \in 1 .. MaxInvocations
    BY TelemetryAssumption DEF TypeOK
<1>a. at \in InInvocation /\ http < MaxHttp => Attempt \in Subject /\ http + 1 \in 0 .. MaxHttp /\ http + 1 # 0
    BY <1>n, TelemetryAssumption DEF TypeOK, Attempt, Subject
<1>8. ASSUME NEW o \in Outcome, Send(o) PROVE IType'
  <2>1. Attempt \in Subject /\ http' \in 0 .. MaxHttp /\ http' # 0 /\ faults' \in 0 .. MaxFaults /\ losses' \subseteq Loss
      BY <1>8, <1>a, <1>c, <1>l DEF Send, TypeOK
  <2>2. starts' \subseteq Subject /\ sent' \subseteq Subject /\ at' \in {"sending", "invoked"}
      BY <1>8, <2>1 DEF Send, TypeOK
  <2> QED BY <1>8, <2>1, <2>2 DEF Send, TypeOK, run, progress, delivery, ending, Stage
<1>9. CASE SendUnbuilt
  <2>1. Attempt \in Subject /\ http' \in 0 .. MaxHttp /\ http' # 0 /\ faults' \in 0 .. MaxFaults
      BY <1>9, <1>a, <1>f DEF SendUnbuilt
  <2>2. sent' \subseteq Subject /\ at' \in {"sending", "invoked"}
      BY <1>9, <2>1 DEF SendUnbuilt, TypeOK
  <2> QED BY <1>9, <2>1, <2>2 DEF SendUnbuilt, TypeOK, run, tables, progress, delivery, ending, Stage
<1>10. CASE SendBare
  <2>1. Attempt \in Subject /\ http' \in 0 .. MaxHttp
      BY <1>10, <1>a DEF SendBare
  <2> QED BY <1>10, <2>1 DEF SendBare, TypeOK, run, tables, progress, delivery, ending, Stage
<1>11. ASSUME NEW built \in BOOLEAN, Answer(built) PROVE IType'
  <2>1. Terminal([inv |-> Len(callOf), http |-> http]) \in Event
      BY <1>11, <1>n DEF Answer, Terminal, Event, Subject, TypeOK
  <2>2. buffer' \in Seq(Event) /\ noted' \in BOOLEAN /\ faults' \in 0 .. MaxFaults
    <3>1. buffer \in Seq(Event) /\ noted \in BOOLEAN /\ faults \in 0 .. MaxFaults
        BY DEF TypeOK
    <3>2. Append(buffer, Terminal([inv |-> Len(callOf), http |-> http])) \in Seq(Event)
        BY <2>1, <3>1
    <3>3. CASE built
        BY <1>11, <3>1, <3>2, <3>3 DEF Answer
    <3>4. CASE ~built
        BY <1>11, <1>f, <3>1, <3>4 DEF Answer
    <3> QED BY <3>3, <3>4
  <2> QED BY <1>11, <2>2 DEF Answer, TypeOK, run, tables, progress, delivery, ending, Stage
<1>12. CASE AnswerBare \/ EndBare \/ CancelCaller \/ EndCall \/ EndRun
    BY <1>12, <1>f
       DEF AnswerBare, EndBare, CancelCaller, EndCall, EndRun, TypeOK, run, tables, capture,
           progress, delivery, ending, Stage
<1>k. counters \in Counters /\ Len(queue) \in Nat /\ queue \in Seq(Event)
    BY DEF TypeOK
<1>13. CASE Take
  <2>1. Head(queue) \in Event /\ Tail(queue) \in Seq(Event) /\ Len(Tail(queue)) <= Capacity
    <3>1. queue # <<>> /\ queue \in Seq(Event) /\ Len(queue) <= Capacity
        BY <1>13, <1>k DEF Take, TypeOK
    <3>2. Head(queue) \in Event /\ Tail(queue) \in Seq(Event) /\ Len(Tail(queue)) = Len(queue) - 1
        BY <3>1, HeadTailProperties
    <3> QED BY <3>1, <3>2, <1>k, TelemetryAssumption
  <2> QED BY <1>13, <2>1 DEF Take, TypeOK, run, tables, capture, progress, ending
<1>14. ASSUME NEW o \in Outcome, Deliver(o) PROVE IType'
  <2>1. counters' \in Counters
      BY <1>14, <1>k DEF Deliver, Counters
  <2>2. stored' \subseteq Event
      BY <1>14 DEF Deliver, TypeOK
  <2> QED BY <1>14, <1>c, <2>1, <2>2 DEF Deliver, TypeOK, run, capture, progress, ending
<1>15. CASE WriteCancelled
  <2>1. counters' \in Counters
      BY <1>15, <1>k DEF WriteCancelled, Counters
  <2>2. stored' \subseteq Event
      BY <1>15 DEF WriteCancelled, TypeOK
  <2> QED BY <1>15, <2>1, <2>2 DEF WriteCancelled, TypeOK, run, capture, progress, ending
<1>16. CASE DrainJoined \/ DrainTimedOut
  <2>1. counters' \in Counters
      BY <1>16, <1>k DEF DrainJoined, DrainTimedOut, Shutdown, Counters
  <2>2. queue' = <<>> /\ drained'.status \in {"drained", "failed", "timeout"} /\ drained'.counters = counters
        /\ drained' = [status |-> drained'.status, counters |-> counters]
      BY <1>16 DEF DrainJoined, DrainTimedOut, Snapshot, Shutdown
  <2>3. <<>> \in Seq(Event) /\ Len(<<>>) <= Capacity
      BY TelemetryAssumption
  <2> QED BY <1>16, <2>1, <2>2, <2>3, <1>k
          DEF DrainJoined, DrainTimedOut, Shutdown, TypeOK, run, tables, capture, progress, Stage
<1>17. CASE Reconcile \/ ReconcileBlind
    BY <1>17, <1>f DEF Reconcile, ReconcileBlind, LocalFailures, DurableFailures, Failure, TypeOK,
                 run, tables, capture, progress, delivery, Stage
<1>18. CASE UNCHANGED vars
    BY <1>18 DEF vars, TypeOK, run, tables, capture, progress, delivery, ending
<1>i. ASSUME NEW o, Numbered(o)
      PROVE  /\ callOf' \in Seq(1 .. MaxCalls) /\ Len(callOf') <= MaxInvocations /\ callOf' # <<>>
             /\ Len(callOf') \in 1 .. MaxInvocations /\ Invocation(Len(callOf')) \in Subject
             /\ starts' \subseteq Subject /\ faults' \in 0 .. MaxFaults /\ ncalls # 0
  <2>1. ncalls \in 1 .. MaxCalls /\ callOf' = Append(callOf, ncalls) /\ Len(callOf) < MaxInvocations
      BY <1>i, TelemetryAssumption DEF Numbered, TypeOK
  <2>2. callOf' \in Seq(1 .. MaxCalls) /\ Len(callOf') = Len(callOf) + 1
      BY <2>1 DEF TypeOK
  <2>3. Len(callOf') \in 1 .. MaxInvocations /\ callOf' # <<>>
      BY <2>1, <2>2, TelemetryAssumption
  <2>4. Invocation(Len(callOf')) \in Subject
      BY <2>3, TelemetryAssumption DEF Invocation, Subject
  <2>5. starts' \subseteq Subject
      BY <1>i, <2>4 DEF Numbered, TypeOK
  <2> QED BY <1>i, <1>c, <2>1, <2>2, <2>3, <2>4, <2>5 DEF Numbered
<1>5. ASSUME NEW o \in Outcome, SkipCandidate(o) PROVE IType'
  <2>1. Numbered(o)
      BY <1>5 DEF SkipCandidate
  <2> DEFINE events == IF Proceeds(o) THEN <<Terminal(Invocation(Len(callOf')))>> ELSE <<>>
  <2>2. Terminal(Invocation(Len(callOf'))) \in Event
      BY <2>1, <1>i DEF Terminal, Event
  <2>3. events \in Seq(Event)
      BY <2>2
  <2>4. Published(events, StartLoss(o))
      BY <1>5 DEF SkipCandidate
  <2>5. /\ queue' \in Seq(Event) /\ Len(queue') <= Capacity /\ counters' \in Counters
        /\ losses' \subseteq Loss /\ produced' \subseteq Event
      BY <2>3, <2>4, <1>l, PublishedType
  <2>6. writing' = writing /\ worker' = worker
      BY <2>4 DEF Published
  <2>7. skipped' \subseteq 1 .. MaxInvocations /\ at' \in {"closing", "calling", "idle"}
      BY <1>5, <2>1, <1>i DEF SkipCandidate, Continue, TypeOK
  <2> QED BY <1>5, <2>1, <1>i, <2>5, <2>6, <2>7 DEF SkipCandidate, TypeOK, run, capture, ending, Stage
<1>6. ASSUME NEW o \in Outcome, BeginInvocation(o) PROVE IType'
  <2>1. Numbered(o) /\ at' \in {"closing", "invoked", "idle"} /\ http' = 0 /\ 0 \in 0 .. MaxHttp
      BY <1>6, TelemetryAssumption DEF BeginInvocation, Continue
  <2> QED BY <1>6, <1>l, <2>1, <1>i DEF BeginInvocation, TypeOK, run, delivery, ending, Stage
<1>7. ASSUME NEW next \in {"calling", "bare"}, InvocationUnbuilt(next) PROVE IType'
  <2>1. ncalls \in 1 .. MaxCalls /\ callOf' = Append(callOf, ncalls) /\ Len(callOf) < MaxInvocations
      BY <1>7, TelemetryAssumption DEF InvocationUnbuilt, TypeOK
  <2>2. callOf' \in Seq(1 .. MaxCalls) /\ Len(callOf') = Len(callOf) + 1 /\ callOf' # <<>>
      BY <2>1 DEF TypeOK
  <2>3. Len(callOf') <= MaxInvocations /\ 0 \in 0 .. MaxHttp
      BY <2>1, <2>2, TelemetryAssumption DEF TypeOK
  <2> QED BY <1>7, <1>f, <2>1, <2>2, <2>3
          DEF InvocationUnbuilt, Unrepresented, TypeOK, run, tables, delivery, ending, Stage, Loss
<1>e. ASSUME at \in InInvocation
      PROVE  /\ \A kind \in {"terminal", "cancelled"} : Drain(kind) \in Seq(Event)
             /\ buffer \o Notes \in Seq(Event)
             /\ at = "sending" => <<Terminal([inv |-> Len(callOf), http |-> http])>> \o Drain("cancelled") \in Seq(Event)
    BY <1>e, DrainType
<1>x. ASSUME NEW events \in Seq(Event), NEW more \in SUBSET Loss, NEW next \in {"calling", "closing"},
             Close(events, more, next), starts' \subseteq Subject, faults' \in 0 .. MaxFaults,
             at \in InInvocation
      PROVE  IType'
  <2>1. Published(events, more)
      BY <1>x DEF Close
  <2>2. /\ queue' \in Seq(Event) /\ Len(queue') <= Capacity /\ counters' \in Counters
        /\ losses' \subseteq Loss /\ produced' \subseteq Event
      BY <2>1, PublishedType
  <2>3. writing' = writing /\ worker' = worker
      BY <2>1 DEF Published
  <2>4. <<>> \in Seq(Event)
      OBVIOUS
  <2> QED BY <1>x, <2>2, <2>3, <2>4 DEF Close, TypeOK, run, progress, ending, Stage
<1>19. CASE EndInvocation
  <2>1. Drain("terminal") \in Seq(Event) /\ at \in InInvocation
      BY <1>19, <1>e DEF EndInvocation
  <2> QED BY <1>19, <2>1, <1>x DEF EndInvocation, TypeOK
<1>20. CASE EndInvocationUnbuilt
  <2>1. buffer \o Notes \in Seq(Event) /\ at \in InInvocation
      BY <1>20, <1>e DEF EndInvocationUnbuilt
  <2> QED BY <1>20, <1>f, <2>1, <1>x DEF EndInvocationUnbuilt, TypeOK, Loss
<1>21. ASSUME NEW o \in {"ok", "cancelled", "cancelled_committed"}, CancelInvocation(o) PROVE IType'
  <2>1. Drain("cancelled") \in Seq(Event) /\ at \in InInvocation
      BY <1>21, <1>e DEF CancelInvocation
  <2>2. starts' \subseteq Subject
      BY <1>21, <1>a DEF CancelInvocation, TypeOK
  <2> QED BY <1>21, <1>f, <1>l, <2>1, <2>2, <1>x DEF CancelInvocation
<1>22. CASE CancelSending
  <2>1. Drain("cancelled") \in Seq(Event) /\ at \in InInvocation
      BY <1>22, <1>e DEF CancelSending
  <2>3. <<Terminal([inv |-> Len(callOf), http |-> http])>> \o Drain("cancelled") \in Seq(Event)
      BY <1>22, <1>e DEF CancelSending
  <2> QED BY <1>22, <1>f, <2>1, <2>3, <1>x DEF CancelSending, TypeOK
<1> QED
    BY <1>2, <1>3, <1>4, <1>5, <1>6, <1>7, <1>8, <1>9, <1>10, <1>11, <1>12, <1>13, <1>14, <1>15,
       <1>16, <1>17, <1>18, <1>19, <1>20, <1>21, <1>22 DEF Next, Caller, Worker

\* Type correctness, with the bounds of the queue and of every counter.
THEOREM TypeCorrect == Spec => []TypeOK
<1>1. Spec => []IType
    BY TypeInit, TypeStep, PTL DEF Spec
<1> QED BY <1>1, PTL DEF IType
-----------------------------------------------------------------------------
(* A certified run is complete                                             *)

Quiet(c) == c.failed = 0 /\ c.ambiguous = 0 /\ c.dropped = 0
OverBy == {"querying", "reconciled"}

\* As long as no counter of lost events moves, an event that was handed over is
\* stored, in the worker's hands, or in the queue.
Held ==
    Quiet(counters) =>
        \A e \in produced : e \in stored \/ e = writing \/ \E i \in DOMAIN queue : queue[i] = e

\* What the drain's snapshot proves: nothing is produced after it.
Settled ==
    /\ (at \in OverBy /\ drained.status = "drained" /\ Quiet(drained.counters))
          => produced \subseteq stored
    /\ worker = "cancelled" => at \in OverBy

\* A strict run that is under way has its envelope, and whatever it sent without
\* a row went out of an invocation that could not be represented.
Strict ==
    posture = "strict" =>
        /\ at \notin {"opening", "refused"} => envelope
        /\ at \in {"bare", "bare_sending"} => "unrepresented" \in losses
        /\ "unrepresented" \notin losses => sent \subseteq starts

Cert == IType /\ Held /\ Settled /\ Strict /\ CertifiedIsComplete

LEMMA CertInit == Init => Cert
BY TypeInit DEF Init, Cert, Held, Settled, OverBy, Strict, CertifiedIsComplete, Certified

\* Handing events over keeps Held.
LEMMA PublishedHeld ==
    ASSUME TypeOK, Held, NEW events \in Seq(Event), NEW more \in SUBSET Loss,
           Published(events, more), UNCHANGED stored
    PROVE  Held'
<1> DEFINE room == Capacity - Len(queue)
           taken == IF Len(events) <= room THEN Len(events) ELSE room
           lost == Len(events) - taken
<1>1. room \in Nat /\ taken \in 0 .. Len(events) /\ lost \in Nat /\ counters \in Counters
      /\ queue \in Seq(Event)
    BY TelemetryAssumption DEF TypeOK
<1>2. counters' = [counters EXCEPT !.submitted = @ + taken, !.dropped = @ + lost]
    BY DEF Published
<1>3. ASSUME Quiet(counters') PROVE Quiet(counters) /\ taken = Len(events)
    BY <1>1, <1>2, <1>3 DEF Quiet, Counters
<1>4. ASSUME taken = Len(events)
      PROVE  /\ \A i \in DOMAIN queue : i \in DOMAIN queue' /\ queue'[i] = queue[i]
             /\ \A j \in DOMAIN events : \E i \in DOMAIN queue' : queue'[i] = events[j]
  <2>1. SubSeq(events, 1, taken) = events
    <3>1. Len(SubSeq(events, 1, taken)) = Len(events)
          /\ \A i \in 1 .. Len(events) : SubSeq(events, 1, taken)[i] = events[i]
        BY <1>4
    <3>2. SubSeq(events, 1, taken) \in Seq(Event)
        BY <1>4, <1>1
    <3> QED BY <3>1, <3>2, SeqEqual
  <2>2. queue' = queue \o events
      BY <2>1 DEF Published
  <2>3. /\ Len(queue') = Len(queue) + Len(events)
        /\ \A i \in 1 .. Len(queue) : queue'[i] = queue[i]
        /\ \A i \in 1 .. Len(queue) + Len(events) :
              queue'[i] = IF i <= Len(queue) THEN queue[i] ELSE events[i - Len(queue)]
      BY <1>1, <2>2, ConcatProperties
  <2>4. DOMAIN queue' = 1 .. Len(queue')
      BY <1>1, <2>2
  <2>5. Len(queue) \in Nat /\ Len(events) \in Nat /\ DOMAIN queue = 1 .. Len(queue) /\ DOMAIN events = 1 .. Len(events)
      BY <1>1
  <2>6. ASSUME NEW j \in DOMAIN events
        PROVE  Len(queue) + j \in DOMAIN queue' /\ queue'[Len(queue) + j] = events[j]
      BY <2>3, <2>4, <2>5, <2>6
  <2> QED BY <2>3, <2>4, <2>5, <2>6
<1>5. produced' = produced \cup {events[i] : i \in DOMAIN events} /\ writing' = writing
    BY DEF Published
<1> QED BY <1>3, <1>4, <1>5 DEF Held
LEMMA CertStep == Cert /\ [Next]_vars => Cert'
<1> SUFFICES ASSUME Cert, [Next]_vars PROVE Cert'
    OBVIOUS
<1>t. IType' /\ TypeOK /\ TypeOK'
    BY TypeStep DEF Cert, IType
\* Steps that leave what the caller has done, and the delivery, alone.
<1>q. ASSUME UNCHANGED <<delivery, produced, stored>> PROVE Held'
    BY <1>q DEF Cert, Held, delivery, Quiet
<1>s. ASSUME UNCHANGED <<worker, drained, produced, stored>>, at \notin OverBy, at' \notin OverBy PROVE Settled'
    BY <1>s DEF Settled, OverBy, Cert
<1>r. ASSUME at' # "reconciled" PROVE CertifiedIsComplete'
    BY <1>r DEF CertifiedIsComplete, Certified
<1> DEFINE Active == {"opening", "idle", "calling", "invoked", "sending", "bare", "bare_sending"}
\* The session: it writes starts, sends, and records losses.
<1>a. ASSUME at \in Active, at' \notin OverBy, UNCHANGED <<delivery, produced, stored, drained>>, Strict'
      PROVE  Cert'
  <2>1. Held' /\ CertifiedIsComplete'
      BY <1>a, <1>q, <1>r DEF OverBy
  <2>2. Settled'
      BY <1>a, <1>s DEF OverBy, delivery
  <2> QED BY <1>a, <1>t, <2>1, <2>2 DEF Cert
<1>2. ASSUME NEW o \in Outcome, Open(o) PROVE Cert'
  <2>1. Strict'
      BY <1>2 DEF Open, Proceeds, Durable, Cert, Strict, tables
  <2> QED BY <1>2, <2>1, <1>a DEF Open, tables, ending, OverBy
<1>3. ASSUME NEW p \in Phase, NEW o \in Outcome, BeginCall(p, o) PROVE Cert'
  <2>1. Strict'
      BY <1>3 DEF BeginCall, Continue, Cert, Strict, run
  <2> QED BY <1>3, <2>1, <1>a DEF BeginCall, Continue, ending, OverBy
<1>4. CASE BeginCallUnbuilt
  <2>1. Strict'
      BY <1>4 DEF BeginCallUnbuilt, Unrepresented, Cert, Strict, run
  <2> QED BY <1>4, <2>1, <1>a DEF BeginCallUnbuilt, tables, ending, OverBy
<1>6. ASSUME NEW o \in Outcome, BeginInvocation(o) PROVE Cert'
  <2>1. starts \subseteq starts'
      BY <1>6 DEF BeginInvocation, Numbered
  <2>2. Strict'
      BY <1>6, <2>1 DEF BeginInvocation, Continue, Numbered, Cert, Strict, run
  <2> QED BY <1>6, <2>2, <1>a DEF BeginInvocation, Continue, Numbered, ending, OverBy
<1>7. ASSUME NEW next \in {"calling", "bare"}, InvocationUnbuilt(next) PROVE Cert'
  <2>1. Strict'
      BY <1>7 DEF InvocationUnbuilt, Unrepresented, Cert, Strict, run, tables
  <2> QED BY <1>7, <2>1, <1>a DEF InvocationUnbuilt, tables, ending, OverBy
<1>8. ASSUME NEW o \in Outcome, Send(o) PROVE Cert'
  <2>1. at = "invoked" /\ at' \in {"invoked", "sending"}
      BY <1>8 DEF Send
  <2>2. posture = "strict" => starts \subseteq starts' /\ sent' \subseteq sent \cup starts'
      BY <1>8 DEF Send, Proceeds, Durable
  <2>3. Strict'
      BY <1>8, <2>1, <2>2 DEF Send, Cert, Strict, run
  <2> QED BY <1>8, <2>1, <2>3, <1>a DEF Send, ending, OverBy
<1>9. CASE SendUnbuilt
  <2>1. at = "invoked" /\ at' \in {"invoked", "sending"} /\ (posture = "strict" => sent' = sent)
      BY <1>9 DEF SendUnbuilt
  <2>2. Strict'
      BY <1>9, <2>1 DEF SendUnbuilt, Cert, Strict, run, tables
  <2> QED BY <1>9, <2>1, <2>2, <1>a DEF SendUnbuilt, tables, ending, OverBy
<1>10. CASE SendBare
  <2>1. Strict'
      BY <1>10 DEF SendBare, Cert, Strict, run, tables
  <2> QED BY <1>10, <2>1, <1>a DEF SendBare, tables, ending, OverBy
<1>11. CASE (\E built \in BOOLEAN : Answer(built)) \/ AnswerBare \/ EndBare \/ CancelCaller \/ EndCall \/ EndRun
  <2>1. Strict'
      BY <1>11 DEF Answer, AnswerBare, EndBare, CancelCaller, EndCall, EndRun, Cert, Strict, run, tables
  <2>2. /\ at \in Active /\ at' \notin OverBy
        /\ UNCHANGED <<delivery, produced, stored, drained>>
      BY <1>11 DEF Answer, AnswerBare, EndBare, CancelCaller, EndCall, EndRun, tables, ending, OverBy
  <2> QED BY <2>1, <2>2, <1>a
\* What publishes.
<1>p. ASSUME NEW events \in Seq(Event), NEW more \in SUBSET Loss, Published(events, more),
             at \in Active, at' \notin OverBy, UNCHANGED <<stored, drained, run, sent>>,
             starts \subseteq starts', at \notin {"opening", "refused"}, at' \notin {"bare", "bare_sending"}
      PROVE  Cert'
  <2>1. Held'
      BY <1>p, <1>t, PublishedHeld DEF Cert
  <2>2. Settled' /\ CertifiedIsComplete'
      BY <1>p, <1>r DEF Settled, OverBy, Published, Cert
  <2>3. losses \subseteq losses'
      BY <1>p DEF Published
  <2>4. Strict'
      BY <1>p, <2>3 DEF Strict, Cert, run
  <2> QED BY <1>t, <2>1, <2>2, <2>4 DEF Cert
<1>5. ASSUME NEW o \in Outcome, SkipCandidate(o) PROVE Cert'
  <2> DEFINE events == IF Proceeds(o) THEN <<Terminal(Invocation(Len(callOf')))>> ELSE <<>>
  <2>1. Published(events, StartLoss(o)) /\ StartLoss(o) \in SUBSET Loss
      BY <1>5 DEF SkipCandidate, StartLoss, Loss
  <2>2. events \in Seq(Event)
    <3>1. Len(callOf') \in 1 .. MaxInvocations
        BY <1>5, <1>t, TelemetryAssumption DEF SkipCandidate, Numbered, TypeOK
    <3>2. Terminal(Invocation(Len(callOf'))) \in Event
        BY <3>1, TelemetryAssumption DEF Terminal, Invocation, Event, Subject
    <3> QED BY <3>2
  <2>3. /\ at = "calling" /\ at' \in {"calling", "idle", "closing"}
        /\ UNCHANGED <<stored, drained, run, sent>> /\ starts \subseteq starts'
      BY <1>5 DEF SkipCandidate, Numbered, Continue, ending
  <2> QED BY <2>1, <2>2, <2>3, <1>p DEF OverBy
<1>e. ASSUME at \in InInvocation
      PROVE  /\ \A kind \in {"terminal", "cancelled"} : Drain(kind) \in Seq(Event)
             /\ buffer \o Notes \in Seq(Event)
             /\ at = "sending" => <<Terminal([inv |-> Len(callOf), http |-> http])>> \o Drain("cancelled") \in Seq(Event)
    BY <1>e, DrainType DEF Cert
<1>x. ASSUME NEW events \in Seq(Event), NEW more \in SUBSET Loss, NEW next \in {"calling", "closing"},
             Close(events, more, next), at \in {"invoked", "sending"}, starts \subseteq starts'
      PROVE  Cert'
    BY <1>x, <1>p DEF Close, OverBy, ending
<1>12. CASE EndInvocation \/ EndInvocationUnbuilt
    BY <1>12, <1>e, <1>x DEF EndInvocation, EndInvocationUnbuilt, InInvocation, Loss
<1>13. ASSUME NEW o \in {"ok", "cancelled", "cancelled_committed"}, CancelInvocation(o) PROVE Cert'
    BY <1>13, <1>e, <1>x DEF CancelInvocation, InInvocation, StartLoss, Loss
<1>14. CASE CancelSending
    BY <1>14, <1>e, <1>x DEF CancelSending, InInvocation
\* The worker.
<1>k. counters \in Counters /\ queue \in Seq(Event)
    BY <1>t DEF TypeOK
<1>15. CASE Take
  <2>1. queue # <<>> /\ writing = None /\ writing' = Head(queue) /\ queue' = Tail(queue)
      BY <1>15 DEF Take
  <2>2. \A i \in DOMAIN queue : queue[i] = writing' \/ \E j \in DOMAIN queue' : queue'[j] = queue[i]
    <3>1. Len(queue) \in Nat \ {0} /\ queue[1] = Head(queue) /\ DOMAIN queue = 1 .. Len(queue)
        BY <2>1, <1>k
    <3>2. /\ queue' \in Seq(Event) /\ Len(queue') = Len(queue) - 1
          /\ \A i \in 1 .. Len(queue') : queue'[i] = queue[i + 1]
        BY <2>1, <1>k, HeadTailProperties
    <3>3. DOMAIN queue' = 1 .. Len(queue')
        BY <3>2
    <3>4. ASSUME NEW i \in DOMAIN queue, i # 1
          PROVE  i - 1 \in DOMAIN queue' /\ queue'[i - 1] = queue[i]
        BY <3>1, <3>2, <3>3, <3>4
    <3> QED BY <2>1, <3>1, <3>4
  <2>3. None \notin Event
      BY TelemetryAssumption DEF Event, Subject
  <2>4. \A e \in produced : e # None
      BY <2>3, <1>t DEF TypeOK
  <2>5. Held'
      BY <1>15, <2>1, <2>2, <2>4 DEF Take, Cert, Held, tables, Quiet
  <2> QED BY <1>15, <2>5, <1>t DEF Take, Cert, Settled, Strict, CertifiedIsComplete, Certified, run, tables, ending
<1>16. ASSUME NEW o \in Outcome, Deliver(o) PROVE Cert'
  <2>1. Quiet(counters') => Quiet(counters) /\ o = "ok"
      BY <1>16, <1>k DEF Deliver, Quiet, Counters
  <2>2. stored \subseteq stored' /\ (o = "ok" => writing \in stored')
      BY <1>16 DEF Deliver, Durable
  <2>3. Held'
      BY <1>16, <2>1, <2>2 DEF Deliver, Cert, Held
  <2> QED BY <1>16, <2>2, <2>3, <1>t DEF Deliver, Cert, Settled, Strict, CertifiedIsComplete, Certified, run, ending
<1>17. CASE WriteCancelled
  <2>1. ~Quiet(counters')
      BY <1>17, <1>k DEF WriteCancelled, Quiet, Counters
  <2>2. stored \subseteq stored' /\ Held'
      BY <1>17, <2>1 DEF WriteCancelled, Held
  <2> QED BY <1>17, <2>2, <1>t DEF WriteCancelled, Cert, Settled, Strict, CertifiedIsComplete, Certified, run, ending
<1>18. CASE DrainJoined \/ DrainTimedOut
  <2>1. Held'
    <3>1. Quiet(counters') => Quiet(counters) /\ Len(queue) = 0
        BY <1>18, <1>k DEF DrainJoined, DrainTimedOut, Shutdown, Quiet, Counters
    <3>2. Len(queue) = 0 => DOMAIN queue = {} /\ queue = <<>>
        BY <1>k
    <3> QED BY <1>18, <3>1, <3>2 DEF DrainJoined, DrainTimedOut, Shutdown, Cert, Held, tables
  <2>2. Settled'
    <3>1. CASE DrainTimedOut
        BY <3>1 DEF DrainTimedOut, Snapshot, Shutdown, Settled, OverBy
    <3>2. CASE DrainJoined
      <4>1. None \notin Event /\ produced \subseteq Event
          BY TelemetryAssumption, <1>t DEF Event, Subject, TypeOK
      <4>2. queue = <<>> /\ writing = None /\ DOMAIN queue = {} /\ drained'.counters = counters
          BY <3>2, <1>k DEF DrainJoined, Snapshot
      <4>3. Quiet(counters) => produced \subseteq stored
          BY <4>1, <4>2 DEF Cert, Held
      <4> QED BY <3>2, <4>2, <4>3 DEF DrainJoined, Shutdown, Settled, OverBy, tables
    <3> QED BY <1>18, <3>1, <3>2
  <2> QED BY <1>18, <2>1, <2>2, <1>t, <1>r DEF DrainJoined, DrainTimedOut, Shutdown, Cert, Strict, run, tables
<1>19. CASE Reconcile \/ ReconcileBlind
  <2>1. /\ at = "querying" /\ at' = "reconciled"
        /\ UNCHANGED <<run, tables, delivery, losses, drained, sent, produced>>
      BY <1>19 DEF Reconcile, ReconcileBlind
  <2>2. Held' /\ Settled' /\ Strict'
      BY <2>1, <1>q DEF Cert, Settled, Strict, OverBy, delivery, run, tables
  <2>3. ASSUME verdict' = {} PROVE LocalFailures = {} /\ DurableFailures = {}
      BY <1>19, <2>3 DEF Reconcile, ReconcileBlind
  <2>4. ASSUME LocalFailures = {}
        PROVE  drained.status = "drained" /\ Quiet(drained.counters) /\ "unrepresented" \notin losses
    <3>1. drained.counters \in Counters
        BY <1>t DEF TypeOK
    <3>2. /\ drained.status = "drained" /\ ~(Undurable(drained.counters) > 0)
          /\ losses \cap (Loss \ {"start_ambiguity"}) = {} /\ ~(drained.counters.ambiguous > 0)
        BY <2>4 DEF LocalFailures
    <3>3. "unrepresented" \in Loss \ {"start_ambiguity"}
        BY DEF Loss
    <3> QED BY <3>1, <3>2, <3>3 DEF Quiet, Counters, Undurable
  <2>5. ASSUME DurableFailures = {} PROVE Unmatched = {} /\ Expected \subseteq Observed
      BY <2>5 DEF DurableFailures, Failure
  <2>6. CertifiedIsComplete'
    <3> SUFFICES ASSUME verdict' = {} PROVE CertifiedIsComplete'
        BY DEF CertifiedIsComplete, Certified
    <3>1. produced \subseteq stored
        BY <2>1, <2>3, <2>4 DEF Cert, Settled, OverBy
    <3>2. posture = "strict" => sent \subseteq starts /\ declared \subseteq Observed
        BY <2>1, <2>3, <2>4, <2>5 DEF Cert, Strict, Expected
    <3>3. \A s \in starts : \E e \in stored : e.subject = s /\ IsTerminal(e)
        BY <2>3, <2>5 DEF Unmatched
    <3> QED BY <2>1, <3>1, <3>2, <3>3 DEF CertifiedIsComplete, Observed, tables, run
  <2> QED BY <1>t, <2>2, <2>6 DEF Cert
<1>20. CASE UNCHANGED vars
  <2>1. Held' /\ Settled' /\ Strict' /\ CertifiedIsComplete'
      BY <1>20 DEF vars, run, tables, delivery, ending, Cert, Held, Settled, Strict, Quiet,
                   CertifiedIsComplete, Certified
  <2> QED BY <1>t, <2>1 DEF Cert
<1> QED
    BY <1>2, <1>3, <1>4, <1>5, <1>6, <1>7, <1>8, <1>9, <1>10, <1>11, <1>12, <1>13, <1>14, <1>15,
       <1>16, <1>17, <1>18, <1>19, <1>20 DEF Next, Caller, Worker

\* A certified run lost nothing, in every interleaving of the worker with the
\* caller and after any number of faults.
THEOREM CertifiedComplete == Spec => []CertifiedIsComplete
<1>1. Spec => []Cert
    BY CertInit, CertStep, PTL DEF Spec
<1> QED BY <1>1, PTL DEF Cert
-----------------------------------------------------------------------------
(* Every event is counted once                                             *)

Elements(s) == {s[i] : i \in DOMAIN s}
Once(s) == \A i, j \in DOMAIN s : s[i] = s[j] => i = j

\* A sequence without repetitions has as many elements as places.
LEMMA OnceCount ==
    ASSUME NEW s \in Seq(Event), Once(s)
    PROVE  IsFiniteSet(Elements(s)) /\ Cardinality(Elements(s)) = Len(s)
<1>1. DOMAIN s = 1 .. Len(s) /\ Len(s) \in Nat
    OBVIOUS
<1>2. IsFiniteSet(1 .. Len(s)) /\ Cardinality(1 .. Len(s)) = Len(s)
  <2>1. 1 \in Int /\ Len(s) \in Int
      BY <1>1
  <2>2. Cardinality(1 .. Len(s)) = IF 1 > Len(s) THEN 0 ELSE Len(s) - 1 + 1
      BY <2>1, FS_Interval
  <2>3. IsFiniteSet(1 .. Len(s))
      BY <2>1, FS_Interval
  <2> QED BY <1>1, <2>2, <2>3
<1>3. s \in [1 .. Len(s) -> Elements(s)]
    BY <1>1 DEF Elements
<1>4. s \in Bijection(1 .. Len(s), Elements(s))
    BY <1>1, <1>3 DEF Once, Elements, Bijection, Injection, Surjection, IsInjective
<1>5. ExistsBijection(1 .. Len(s), Elements(s))
    BY <1>4 DEF ExistsBijection
<1> QED BY <1>2, <1>5, FS_Bijection

LEMMA ConcatElements ==
    ASSUME NEW s \in Seq(Event), NEW t \in Seq(Event)
    PROVE  /\ s \o t \in Seq(Event) /\ Elements(s \o t) = Elements(s) \cup Elements(t)
           /\ Once(s) /\ Once(t) /\ Elements(s) \cap Elements(t) = {} => Once(s \o t)
<1>1. /\ s \o t \in Seq(Event) /\ DOMAIN (s \o t) = 1 .. Len(s) + Len(t)
      /\ DOMAIN s = 1 .. Len(s) /\ DOMAIN t = 1 .. Len(t) /\ Len(s) \in Nat /\ Len(t) \in Nat
    OBVIOUS
<1>2. \A i \in 1 .. Len(s) + Len(t) : (s \o t)[i] = IF i <= Len(s) THEN s[i] ELSE t[i - Len(s)]
    BY ConcatProperties
<1> DEFINE u == s \o t
<1> HIDE DEF u
<1>3. \A i \in 1 .. Len(s) : i \in DOMAIN u /\ u[i] = s[i]
    BY <1>1, <1>2 DEF u
<1>4. \A i \in 1 .. Len(t) : Len(s) + i \in DOMAIN u /\ u[Len(s) + i] = t[i]
    BY <1>1, <1>2 DEF u
<1>5. \A i \in DOMAIN u : \/ i \in 1 .. Len(s)
                          \/ i - Len(s) \in 1 .. Len(t) /\ i = Len(s) + (i - Len(s))
    BY <1>1 DEF u
<1>6. Elements(u) = Elements(s) \cup Elements(t)
  <2>1. Elements(s) \subseteq Elements(u) /\ Elements(t) \subseteq Elements(u)
      BY <1>1, <1>3, <1>4 DEF Elements
  <2>2. Elements(u) \subseteq Elements(s) \cup Elements(t)
      BY <1>1, <1>3, <1>4, <1>5 DEF Elements
  <2> QED BY <2>1, <2>2
<1>7. ASSUME Once(s), Once(t), Elements(s) \cap Elements(t) = {}, NEW i \in DOMAIN u, NEW j \in DOMAIN u,
             u[i] = u[j]
      PROVE  i = j
  <2>1. CASE i \in 1 .. Len(s) /\ j \in 1 .. Len(s)
      BY <1>1, <1>3, <1>7, <2>1 DEF Once
  <2>2. CASE i - Len(s) \in 1 .. Len(t) /\ j - Len(s) \in 1 .. Len(t)
    <3>1. t[i - Len(s)] = t[j - Len(s)]
        BY <1>4, <1>5, <1>7, <2>2
    <3>2. i - Len(s) = j - Len(s)
        BY <1>1, <1>7, <2>2, <3>1 DEF Once
    <3>3. i \in Int /\ j \in Int
        BY <1>1 DEF u
    <3> QED BY <1>1, <3>2, <3>3
  <2>3. ASSUME NEW k \in 1 .. Len(s), NEW l \in DOMAIN u, l - Len(s) \in 1 .. Len(t) PROVE u[k] # u[l]
    <3>1. u[k] \in Elements(s)
        BY <1>1, <1>3 DEF Elements
    <3>2. u[l] \in Elements(t)
      <4>1. \A m \in 1 .. Len(t) : u[Len(s) + m] \in Elements(t)
          BY <1>1, <1>4 DEF Elements
      <4>2. l \in Int /\ Len(s) \in Int
          BY <1>1 DEF u
      <4>3. Len(s) + (l - Len(s)) = l
          BY <4>2
      <4> QED BY <2>3, <4>1, <4>3
    <3> QED BY <1>7, <3>1, <3>2
  <2> QED BY <1>5, <1>7, <2>1, <2>2, <2>3
<1> QED BY <1>1, <1>6, <1>7 DEF Once, u

LEMMA OneElement ==
    ASSUME NEW e \in Event
    PROVE  <<e>> \in Seq(Event) /\ Once(<<e>>) /\ Elements(<<e>>) = {e}
BY DEF Once, Elements

LEMMA NoElement == <<>> \in Seq(Event) /\ Once(<<>>) /\ Elements(<<>>) = {}
BY DEF Once, Elements

Unseen(events) == Elements(events) \cap produced = {}

\* Handing over events that are new keeps the count.
LEMMA PublishedCount ==
    ASSUME TypeOK, IsFiniteSet(produced), EventsAreCountedOnce,
           NEW events \in Seq(Event), NEW more, Published(events, more),
           Once(events), Unseen(events)
    PROVE  IsFiniteSet(produced') /\ EventsAreCountedOnce'
<1> DEFINE room == Capacity - Len(queue)
           taken == IF Len(events) <= room THEN Len(events) ELSE room
           lost == Len(events) - taken
<1>1. room \in Nat /\ taken \in 0 .. Len(events) /\ taken <= room /\ lost \in Nat
  <2>1. Len(queue) \in Nat /\ Len(queue) <= Capacity /\ Capacity \in Nat /\ Len(events) \in Nat
      BY TelemetryAssumption DEF TypeOK
  <2> QED BY <2>1
<1>2. /\ counters' = [counters EXCEPT !.submitted = @ + taken, !.dropped = @ + lost]
      /\ queue' = queue \o SubSeq(events, 1, taken) /\ writing' = writing
      /\ produced' = produced \cup Elements(events)
    BY DEF Published, Elements
<1>3. Len(queue') = Len(queue) + taken /\ Len(queue) \in Nat
  <2>1. SubSeq(events, 1, taken) \in Seq(Event) /\ Len(SubSeq(events, 1, taken)) = taken
      BY <1>1
  <2>2. queue \in Seq(Event)
      BY DEF TypeOK
  <2> QED BY <1>2, <2>1, <2>2
<1>4. IsFiniteSet(produced') /\ Cardinality(produced') = Cardinality(produced) + Len(events)
  <2>1. IsFiniteSet(Elements(events)) /\ Cardinality(Elements(events)) = Len(events)
      BY OnceCount
  <2>2. produced \cap Elements(events) = {}
      BY DEF Unseen
  <2>3. /\ IsFiniteSet(produced')
        /\ Cardinality(produced') = Cardinality(produced) + Cardinality(Elements(events))
                                    - Cardinality(produced \cap Elements(events))
      BY <1>2, <2>1, FS_Union
  <2>4. Cardinality(produced) \in Nat /\ Len(events) \in Nat
      BY FS_CardinalityType
  <2>5. Cardinality(produced \cap Elements(events)) = 0
      BY <2>2, FS_EmptySet
  <2> HIDE DEF taken, lost
  <2> QED BY <2>1, <2>3, <2>4, <2>5
<1>5. /\ counters'.delivered = counters.delivered /\ counters'.failed = counters.failed
      /\ counters'.ambiguous = counters.ambiguous /\ counters'.dropped = counters.dropped + lost
      /\ counters \in Counters
    BY <1>2 DEF TypeOK, Counters
<1>6. Len(events) \in Nat /\ (IF writing' = None THEN 0 ELSE 1) = (IF writing = None THEN 0 ELSE 1)
      /\ (IF writing = None THEN 0 ELSE 1) \in Nat
    BY <1>2
<1>7. taken + lost = Len(events) /\ taken \in Nat
    BY <1>1, <1>6
<1> HIDE DEF room, taken, lost
<1>8. PICK w \in Nat : w = (IF writing = None THEN 0 ELSE 1)
    BY <1>6
<1>9. PICK d \in Nat, f \in Nat, a \in Nat, x \in Nat, q \in Nat :
        /\ counters.delivered = d /\ counters.failed = f /\ counters.ambiguous = a
        /\ counters.dropped = x /\ Len(queue) = q
    BY <1>3, <1>5 DEF Counters
<1>10. PICK t \in Nat, l \in Nat, k \in Nat : taken = t /\ lost = l /\ Len(events) = k
    BY <1>1, <1>6, <1>7
<1>11. Cardinality(produced) = d + f + a + x + q + w
    BY <1>8, <1>9 DEF EventsAreCountedOnce
<1>12. (d + f + a + x + q + w) + k = d + f + a + (x + l) + (q + t) + w
  <2>1. t + l = k
      BY <1>7, <1>10
  <2> QED BY <2>1
<1>13. Cardinality(produced') = d + f + a + (x + l) + (q + t) + w
    BY <1>4, <1>10, <1>11, <1>12
<1>14. /\ counters'.delivered = d /\ counters'.failed = f /\ counters'.ambiguous = a
       /\ counters'.dropped = x + l /\ Len(queue') = q + t
       /\ (IF writing' = None THEN 0 ELSE 1) = w
    BY <1>3, <1>5, <1>6, <1>8, <1>9, <1>10
<1> QED BY <1>4, <1>13, <1>14 DEF EventsAreCountedOnce

Capturing == {"invoked", "sending"}

\* An event of an HTTP attempt of the invocation under way that was answered.
Answered(e) ==
    /\ e.subject.inv = Len(callOf) /\ e.subject.http >= 1
    /\ IF at = "sending" THEN e.subject.http < http ELSE e.subject.http <= http

\* What is in the buffer has not been handed over and is there once.
Numbering ==
    /\ Once(buffer)
    /\ IF at \in Capturing THEN \A e \in Elements(buffer) : Answered(e) ELSE buffer = <<>>
    /\ \A e \in produced : /\ e.subject.inv <= Len(callOf)
                           /\ at \in Capturing => e.subject.inv < Len(callOf)

Ledger == IType /\ Numbering /\ IsFiniteSet(produced) /\ EventsAreCountedOnce

LEMMA LedgerInit == Init => Ledger
<1> SUFFICES ASSUME Init PROVE Ledger
    OBVIOUS
<1>1. IType
    BY TypeInit
<1>2. Numbering
    BY NoElement DEF Init, Numbering, Capturing
<1>3. IsFiniteSet(produced) /\ Cardinality(produced) = 0
    BY FS_EmptySet DEF Init
<1>4. EventsAreCountedOnce
    BY <1>3 DEF Init, EventsAreCountedOnce, Zero
<1> QED BY <1>1, <1>2, <1>3, <1>4 DEF Ledger

\* What an invocation hands over at its end: its own events, each once.
OwnOnce(events) ==
    /\ events \in Seq(Event) /\ Once(events)
    /\ \A e \in Elements(events) : e.subject.inv = Len(callOf)

LEMMA DrainOnce ==
    ASSUME Ledger, at \in Capturing
    PROVE  /\ OwnOnce(buffer \o Notes)
           /\ \A kind \in {"terminal", "cancelled"} : OwnOnce(Drain(kind))
           /\ at = "sending" =>
                OwnOnce(<<Terminal([inv |-> Len(callOf), http |-> http])>> \o Drain("cancelled"))
<1> DEFINE n == Len(callOf)
           End(kind) == [subject |-> [inv |-> n, http |-> 0], kind |-> kind]
           last == Terminal([inv |-> n, http |-> http])
<1>1. n \in 1 .. MaxInvocations /\ http \in 0 .. MaxHttp /\ MaxHttp \in Nat
    BY TelemetryAssumption DEF Ledger, IType, Begun, InInvocation, TypeOK, Capturing
<1>2. buffer \in Seq(Event) /\ Once(buffer)
      /\ \A e \in Elements(buffer) : /\ e.subject.inv = n /\ e.subject.http >= 1
                                     /\ at = "sending" => e.subject.http < http
    BY DEF Ledger, Numbering, Answered, IType, TypeOK
<1>3. \A kind \in {"terminal", "cancelled", "capture_failure"} :
        /\ End(kind) \in Event /\ End(kind).subject.inv = n /\ End(kind).subject.http = 0
        /\ End(kind).kind = kind /\ Ended(kind) = <<End(kind)>>
  <2>1. [inv |-> n, http |-> 0] \in Subject
      BY <1>1 DEF Subject
  <2> QED BY <2>1 DEF Event, Ended, Invocation
<1>4. last \in Event /\ last.subject.inv = n /\ last.subject.http = http
  <2>1. [inv |-> n, http |-> http] \in Subject
      BY <1>1 DEF Subject
  <2> QED BY <2>1 DEF Event, Terminal
<1> HIDE DEF End, last
<1>5. /\ Notes \in Seq(Event) /\ Once(Notes)
      /\ Elements(Notes) \subseteq {End("capture_failure")}
  <2>1. CASE noted
      BY <1>3, <2>1, OneElement DEF Notes
  <2>2. CASE ~noted
      BY <2>2, NoElement DEF Notes
  <2> QED BY <2>1, <2>2
<1>6. OwnOnce(buffer \o Notes)
  <2>1. Elements(buffer) \cap Elements(Notes) = {}
      BY <1>2, <1>3, <1>5
  <2> QED BY <1>2, <1>3, <1>5, <2>1, ConcatElements DEF OwnOnce
<1>7. ASSUME NEW kind \in {"terminal", "cancelled"}
      PROVE  /\ OwnOnce(Drain(kind))
             /\ \A e \in Elements(Drain(kind)) : e \in Elements(buffer) \/ e.subject.http = 0
  <2>1. Ended(kind) \in Seq(Event) /\ Once(Ended(kind)) /\ Elements(Ended(kind)) = {End(kind)}
      BY <1>3, OneElement
  <2>2. Elements(buffer) \cap Elements(Ended(kind)) = {}
      BY <1>2, <1>3, <2>1
  <2>3. /\ buffer \o Ended(kind) \in Seq(Event) /\ Once(buffer \o Ended(kind))
        /\ Elements(buffer \o Ended(kind)) = Elements(buffer) \cup {End(kind)}
      BY <1>2, <2>1, <2>2, ConcatElements
  <2>4. End("capture_failure") \notin Elements(buffer) \cup {End(kind)}
      BY <1>2, <1>3
  <2>5. Elements(buffer \o Ended(kind)) \cap Elements(Notes) = {}
      BY <1>5, <2>3, <2>4
  <2>6. /\ Drain(kind) \in Seq(Event) /\ Once(Drain(kind))
        /\ Elements(Drain(kind)) \subseteq Elements(buffer) \cup {End(kind), End("capture_failure")}
      BY <1>5, <2>3, <2>5, ConcatElements DEF Drain
  <2> QED BY <1>2, <1>3, <2>6 DEF OwnOnce
<1>8. ASSUME at = "sending" PROVE OwnOnce(<<last>> \o Drain("cancelled"))
  <2>1. http # 0 /\ http \in Nat
      BY <1>1, <1>8 DEF Ledger, IType, Begun
  <2>2. last \notin Elements(Drain("cancelled"))
      BY <1>2, <1>4, <1>7, <1>8, <2>1
  <2>3. <<last>> \in Seq(Event) /\ Once(<<last>>) /\ Elements(<<last>>) = {last}
      BY <1>4, OneElement
  <2>4. OwnOnce(Drain("cancelled"))
      BY <1>7
  <2>5. Elements(<<last>>) \cap Elements(Drain("cancelled")) = {}
      BY <2>2, <2>3
  <2> QED BY <1>4, <2>3, <2>4, <2>5, ConcatElements DEF OwnOnce
<1> QED BY <1>6, <1>7, <1>8 DEF last

\* One more invocation, whether or not it runs.
LEMMA NextInvocation ==
    ASSUME Ledger, NEW c, callOf' = Append(callOf, c), UNCHANGED <<buffer, produced>>,
           at = "calling"
    PROVE  /\ Len(callOf') = Len(callOf) + 1 /\ Len(callOf) \in Nat
           /\ buffer' = <<>> /\ Numbering'
<1>1. callOf \in Seq(1 .. MaxCalls) /\ Len(callOf') = Len(callOf) + 1 /\ Len(callOf) \in Nat
    BY DEF Ledger, IType, TypeOK
<1>2. buffer = <<>> /\ buffer' = <<>>
    BY DEF Ledger, Numbering, Capturing
<1>3. \A e \in produced : e.subject.inv <= Len(callOf) /\ e.subject.inv \in Int
    BY TelemetryAssumption DEF Ledger, Numbering, IType, TypeOK, Event, Subject
<1>4. \A e \in produced' : e.subject.inv <= Len(callOf') /\ e.subject.inv < Len(callOf')
    BY <1>1, <1>3
<1> QED BY <1>1, <1>2, <1>4, NoElement DEF Numbering

\* The end of an invocation.
LEMMA CloseCount ==
    ASSUME Ledger, NEW events, OwnOnce(events), NEW more, NEW next,
           Close(events, more, next), at \in Capturing, next \notin Capturing, IType'
    PROVE  Ledger'
<1>1. /\ Published(events, more) /\ buffer' = <<>> /\ at' = next /\ callOf' = callOf
    BY DEF Close, progress
<1>2. Unseen(events)
  <2>1. Len(callOf) \in Nat
      BY DEF Ledger, IType, TypeOK
  <2> QED BY <2>1 DEF Unseen, OwnOnce, Ledger, Numbering
<1>3. IsFiniteSet(produced') /\ EventsAreCountedOnce'
    BY <1>1, <1>2, PublishedCount DEF Ledger, IType, OwnOnce
<1>4. \A e \in produced' : e.subject.inv <= Len(callOf')
  <2>1. produced' = produced \cup Elements(events)
      BY <1>1 DEF Published, Elements
  <2>2. Len(callOf) \in Nat /\ callOf' = callOf
      BY <1>1 DEF Ledger, IType, TypeOK
  <2> QED BY <2>1, <2>2 DEF Ledger, Numbering, OwnOnce
<1>5. Numbering'
    BY <1>1, <1>4, NoElement DEF Numbering
<1> QED BY <1>3, <1>5 DEF Ledger

LEMMA LedgerStep == Ledger /\ [Next]_vars => Ledger'
<1> SUFFICES ASSUME Ledger, [Next]_vars PROVE Ledger'
    OBVIOUS
<1>t. IType' /\ TypeOK' /\ IType /\ TypeOK
    BY TypeStep DEF Ledger, IType
\* Steps that hand nothing over and deliver nothing.
<1>q. ASSUME UNCHANGED <<delivery, produced>>, Numbering' PROVE Ledger'
    BY <1>q, <1>t DEF Ledger, delivery, EventsAreCountedOnce
\* Steps outside an invocation that is captured.
<1>b. ASSUME UNCHANGED <<buffer, callOf, produced>>, at \notin Capturing, at' \notin Capturing
      PROVE  Numbering'
    BY <1>b DEF Ledger, Numbering
<1>1. CASE \/ \E o \in Outcome : Open(o)
           \/ \E p \in Phase, o \in Outcome : BeginCall(p, o)
           \/ BeginCallUnbuilt \/ SendBare \/ AnswerBare \/ EndBare \/ CancelCaller \/ EndCall \/ EndRun
           \/ Reconcile \/ ReconcileBlind
  <2>1. /\ UNCHANGED <<delivery, produced, buffer, callOf>>
        /\ at \notin Capturing /\ at' \notin Capturing
      BY <1>1 DEF Open, BeginCall, BeginCallUnbuilt, SendBare, AnswerBare, EndBare, CancelCaller,
             EndCall, EndRun, Reconcile, ReconcileBlind, Continue, Capturing, capture, progress
  <2> QED BY <2>1, <1>b, <1>q
<1>2. ASSUME NEW o \in Outcome, BeginInvocation(o) PROVE Ledger'
  <2>1. /\ callOf' = Append(callOf, ncalls) /\ at = "calling"
        /\ UNCHANGED <<delivery, produced, buffer>>
      BY <1>2 DEF BeginInvocation, Numbered
  <2> QED BY <2>1, <1>q, NextInvocation
<1>3. CASE InvocationUnbuilt("calling") \/ InvocationUnbuilt("bare")
  <2>1. /\ callOf' = Append(callOf, ncalls) /\ at = "calling"
        /\ UNCHANGED <<delivery, produced, buffer>>
      BY <1>3 DEF InvocationUnbuilt
  <2> QED BY <2>1, <1>q, NextInvocation
<1>4. ASSUME NEW o \in Outcome, SkipCandidate(o) PROVE Ledger'
  <2> DEFINE e == Terminal(Invocation(Len(callOf')))
             events == IF Proceeds(o) THEN <<e>> ELSE <<>>
  <2>1. /\ callOf' = Append(callOf, ncalls) /\ at = "calling" /\ at' \notin Capturing
        /\ Published(events, StartLoss(o)) /\ UNCHANGED <<buffer>>
      BY <1>4 DEF SkipCandidate, Numbered, Continue, Capturing, capture
  <2>2. Len(callOf') = Len(callOf) + 1 /\ Len(callOf) \in Nat /\ buffer' = <<>>
      BY <2>1, <1>t DEF TypeOK, Ledger, Numbering, Capturing
  <2>3. Len(callOf') \in 1 .. MaxInvocations /\ MaxHttp \in Nat
      BY <2>2, <1>t, TelemetryAssumption DEF TypeOK
  <2>4. e \in Event /\ e.subject.inv = Len(callOf')
    <3>1. Invocation(Len(callOf')) \in Subject /\ Invocation(Len(callOf')).inv = Len(callOf')
        BY <2>3 DEF Invocation, Subject
    <3> QED BY <3>1 DEF Terminal, Event
  <2> HIDE DEF e
  <2>5. /\ events \in Seq(Event) /\ Once(events) /\ Elements(events) \subseteq {e}
      BY <2>4, OneElement, NoElement
  <2> HIDE DEF events
  <2>6. \A x \in produced : x.subject.inv <= Len(callOf) /\ x.subject.inv \in Int
    <3>1. produced \subseteq Event
        BY <1>t DEF TypeOK
    <3> QED BY <3>1, TelemetryAssumption DEF Ledger, Numbering, Event, Subject
  <2>7. Unseen(events)
      BY <2>2, <2>4, <2>5, <2>6 DEF Unseen
  <2>8. IsFiniteSet(produced') /\ EventsAreCountedOnce'
      BY <1>t, <2>1, <2>5, <2>7, PublishedCount DEF Ledger
  <2>9. \A x \in produced' : x.subject.inv <= Len(callOf')
    <3>1. produced' = produced \cup Elements(events)
        BY <2>1 DEF Published, Elements
    <3>2. \A x \in produced : x.subject.inv <= Len(callOf')
        BY <2>2, <2>6
    <3> QED BY <2>2, <2>4, <2>5, <3>1, <3>2
  <2>10. Numbering'
      BY <2>1, <2>2, <2>9, NoElement DEF Numbering
  <2> QED BY <1>t, <2>8, <2>10 DEF Ledger
\* In an invocation.
<1>n. Len(callOf) \in Nat /\ http \in Nat
    BY <1>t, TelemetryAssumption DEF TypeOK
<1>5. CASE SendUnbuilt \/ \E o \in Outcome : Send(o)
  <2>1. /\ UNCHANGED <<delivery, produced, buffer, callOf>> /\ http' = http + 1
        /\ at = "invoked" /\ at' \in Capturing
      BY <1>5 DEF SendUnbuilt, Send, progress, Capturing
  <2>2. \A e \in Elements(buffer) : e.subject.http \in Nat /\ Answered(e)
    <3>1. Elements(buffer) \subseteq Event
        BY <1>t DEF Elements, TypeOK
    <3> QED BY <2>1, <3>1, TelemetryAssumption DEF Event, Subject, Ledger, Numbering, Capturing
  <2>3. \A e \in Elements(buffer') : Answered(e)'
      BY <2>1, <2>2, <1>n DEF Answered, Capturing
  <2>4. Numbering'
      BY <2>1, <2>3 DEF Ledger, Numbering, Capturing
  <2> QED BY <2>1, <2>4, <1>q
<1>6. ASSUME NEW built \in BOOLEAN, Answer(built) PROVE Ledger'
  <2> DEFINE e == Terminal([inv |-> Len(callOf), http |-> http])
  <2>1. /\ UNCHANGED <<delivery, produced, callOf, http>> /\ at = "sending" /\ at' = "invoked"
        /\ buffer' = buffer \/ buffer' = Append(buffer, e)
      BY <1>6 DEF Answer, progress
  <2>2. /\ Once(buffer) /\ buffer \in Seq(Event)
        /\ \A x \in Elements(buffer) : /\ x.subject.inv = Len(callOf) /\ x.subject.http >= 1
                                       /\ x.subject.http < http /\ x.subject.http \in Nat
    <3>1. Elements(buffer) \subseteq Event /\ buffer \in Seq(Event)
        BY <1>t DEF Elements, TypeOK
    <3> QED BY <2>1, <3>1, TelemetryAssumption DEF Event, Subject, Ledger, Numbering, Capturing, Answered
  <2>3. e \in Event /\ e.subject.inv = Len(callOf) /\ e.subject.http = http /\ http >= 1
    <3>1. Len(callOf) \in 1 .. MaxInvocations /\ http \in 0 .. MaxHttp /\ http # 0
        BY <2>1, <1>t, TelemetryAssumption DEF IType, Begun, InInvocation, TypeOK
    <3>2. [inv |-> Len(callOf), http |-> http] \in Subject
        BY <3>1 DEF Subject
    <3> QED BY <3>1, <3>2, <1>n DEF Event, Terminal
  <2> HIDE DEF e
  <2>4. Once(buffer') /\ Elements(buffer') \subseteq Elements(buffer) \cup {e}
    <3>1. CASE buffer' = buffer
        BY <2>2, <3>1
    <3>2. CASE buffer' = Append(buffer, e)
      <4>1. buffer' = buffer \o <<e>>
          BY <2>2, <2>3, <3>2, AppendIsConcat
      <4>2. Elements(buffer) \cap Elements(<<e>>) = {}
          BY <2>2, <2>3, <1>n, OneElement
      <4> QED BY <2>2, <2>3, <4>1, <4>2, OneElement, ConcatElements
    <3> QED BY <2>1, <3>1, <3>2
  <2>5. \A x \in Elements(buffer) \cup {e} : /\ x.subject.inv = Len(callOf) /\ x.subject.http >= 1
                                             /\ x.subject.http <= http
      BY <2>2, <2>3, <1>n
  <2>6. \A x \in Elements(buffer') : Answered(x)'
      BY <2>1, <2>4, <2>5 DEF Answered
  <2>7. Numbering'
      BY <2>1, <2>4, <2>6 DEF Ledger, Numbering, Capturing
  <2> QED BY <2>1, <2>7, <1>q
<1>7. CASE EndInvocation
  <2>1. Close(Drain("terminal"), {}, "calling") /\ at \in Capturing
      BY <1>7 DEF EndInvocation, Capturing
  <2> QED BY <2>1, <1>t, DrainOnce, CloseCount DEF Capturing
<1>8. CASE EndInvocationUnbuilt
  <2>1. Close(buffer \o Notes, {"unrepresented"}, "calling") /\ at \in Capturing
      BY <1>8 DEF EndInvocationUnbuilt, Capturing
  <2> QED BY <2>1, <1>t, DrainOnce, CloseCount DEF Capturing
<1>9. ASSUME NEW o \in {"ok", "cancelled", "cancelled_committed"}, CancelInvocation(o) PROVE Ledger'
  <2>1. Close(Drain("cancelled"), StartLoss(o), "closing") /\ at \in Capturing
      BY <1>9 DEF CancelInvocation, Capturing
  <2> QED BY <2>1, <1>t, DrainOnce, CloseCount DEF Capturing
<1>10. CASE CancelSending
  <2> DEFINE events == <<Terminal([inv |-> Len(callOf), http |-> http])>> \o Drain("cancelled")
  <2>1. Close(events, {}, "closing") /\ at = "sending"
      BY <1>10 DEF CancelSending
  <2>2. OwnOnce(events)
      BY <2>1, DrainOnce DEF Capturing
  <2> HIDE DEF events
  <2> QED BY <2>1, <2>2, <1>t, CloseCount DEF Capturing
\* The worker and its end: an event moves from one place to the next.
<1>k. /\ counters \in Counters /\ queue \in Seq(Event) /\ Len(queue) \in Nat
      /\ None \notin Event /\ writing \in Event \cup {None}
    BY <1>t, TelemetryAssumption DEF TypeOK, Event, Subject
<1>m. ASSUME UNCHANGED <<buffer, callOf, produced, http, at>> PROVE Numbering'
    BY <1>m DEF Ledger, Numbering, Answered
<1> DEFINE Total(c) == c.delivered + c.failed + c.ambiguous + c.dropped
<1>11. CASE Take
  <2>1. /\ UNCHANGED <<buffer, callOf, produced, http, at, counters>>
        /\ queue # <<>> /\ writing = None /\ writing' = Head(queue) /\ queue' = Tail(queue)
      BY <1>11 DEF Take, capture, progress
  <2>2. Len(queue') = Len(queue) - 1 /\ writing' # None
      BY <2>1, <1>k, HeadTailProperties
  <2>3. EventsAreCountedOnce'
      BY <2>1, <2>2, <1>k DEF Ledger, EventsAreCountedOnce, Counters
  <2> QED BY <1>t, <1>m, <2>1, <2>3 DEF Ledger
<1>12. CASE WriteCancelled \/ \E o \in Outcome : Deliver(o)
  <2>1. /\ UNCHANGED <<buffer, callOf, produced, http, at, queue>>
        /\ writing # None /\ writing' = None
      BY <1>12, <1>t DEF WriteCancelled, Deliver, capture, progress, IType, Begun
  <2>2. \/ counters' = [counters EXCEPT !.delivered = @ + 1]
        \/ counters' = [counters EXCEPT !.failed = @ + 1]
        \/ counters' = [counters EXCEPT !.ambiguous = @ + 1]
      BY <1>12 DEF WriteCancelled, Deliver
  <2>3. Total(counters') = Total(counters) + 1 /\ Total(counters) \in Nat
    <3>1. PICK d \in Nat, f \in Nat, a \in Nat, x \in Nat :
            counters.delivered = d /\ counters.failed = f /\ counters.ambiguous = a /\ counters.dropped = x
        BY <1>k DEF Counters
    <3>2. /\ counters'.dropped = x
          /\ \/ counters'.delivered = d + 1 /\ counters'.failed = f /\ counters'.ambiguous = a
             \/ counters'.delivered = d /\ counters'.failed = f + 1 /\ counters'.ambiguous = a
             \/ counters'.delivered = d /\ counters'.failed = f /\ counters'.ambiguous = a + 1
        BY <2>2, <3>1, <1>k DEF Counters
    <3> QED BY <3>1, <3>2
  <2>4. EventsAreCountedOnce'
      BY <2>1, <2>3, <1>k DEF Ledger, EventsAreCountedOnce
  <2> QED BY <1>t, <1>m, <2>1, <2>4 DEF Ledger
<1>13. CASE DrainJoined \/ DrainTimedOut
  <2>1. /\ UNCHANGED <<buffer, callOf, produced, http, writing>> /\ queue' = <<>>
        /\ counters' = [counters EXCEPT !.dropped = @ + Len(queue)]
        /\ at = "closing" /\ at' = "querying"
      BY <1>13 DEF DrainJoined, DrainTimedOut, Shutdown, capture, progress
  <2>2. Total(counters') = Total(counters) + Len(queue) /\ Total(counters) \in Nat /\ Len(queue') = 0
      BY <2>1, <1>k DEF Counters
  <2>3. EventsAreCountedOnce'
      BY <2>1, <2>2, <1>k DEF Ledger, EventsAreCountedOnce
  <2>4. Numbering'
      BY <2>1, <1>b DEF Capturing
  <2> QED BY <1>t, <2>1, <2>3, <2>4 DEF Ledger
<1>14. CASE UNCHANGED vars
  <2>1. UNCHANGED <<delivery, produced, buffer, callOf, http, at>>
      BY <1>14 DEF vars, capture, progress
  <2> QED BY <2>1, <1>m, <1>q
<1> QED
    BY <1>1, <1>2, <1>3, <1>4, <1>5, <1>6, <1>7, <1>8, <1>9, <1>10, <1>11, <1>12, <1>13, <1>14
    DEF Next, Caller, Worker

\* No event is lost to the counters and none is counted twice, across a full
\* queue, a drain that times out, a write that is cancelled and an invocation
\* that ends in any way: what was handed over is delivered, failed, ambiguous,
\* dropped, queued or being written.
THEOREM CountedOnce == Spec => []EventsAreCountedOnce
<1>1. Spec => []Ledger
    BY LedgerInit, LedgerStep, PTL DEF Spec
<1> QED BY <1>1, PTL DEF Ledger

=============================================================================
