---------------------------- MODULE UntracedGateway ----------------------------
(***************************************************************************)
(* What a caller of ProviderGateway.call sees when no telemetry session is *)
(* bound: calls, invocations of a provider's SDK, and the requests the SDK *)
(* sends, at least one of each invocation unless the caller is cancelled.  *)
(* ProviderTelemetry in observational posture implements it.               *)
(***************************************************************************)
EXTENDS Naturals

CONSTANT MaxHttp  \* requests the SDK sends for one invocation

VARIABLES at, tries
vars == <<at, tries>>

Init == at = "idle" /\ tries = 0

Move(from, to) == at = from /\ at' = to

Begin == Move("idle", "calling") /\ UNCHANGED tries
Invoke == Move("calling", "invoked") /\ tries' = 0
Request == Move("invoked", "sending") /\ tries < MaxHttp /\ tries' = tries + 1
Answered == Move("sending", "invoked") /\ UNCHANGED tries
Return == Move("invoked", "calling") /\ tries > 0 /\ tries' = 0
End == Move("calling", "idle") /\ UNCHANGED tries
Over == at # "over" /\ at' = "over" /\ tries' = 0

Next == Begin \/ Invoke \/ Request \/ Answered \/ Return \/ End \/ Over
Spec == Init /\ [][Next]_vars
=============================================================================
