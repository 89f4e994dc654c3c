SPECIFICATION FairSpec
CONSTANTS
  p1 = p1
  p2 = p2
  None = None
  Phase <- MCPhase
  Capacity = 2
  MaxCalls = 2
  MaxInvocations = 2
  MaxHttp = 2
  MaxFaults = 1
INVARIANTS TypeOK CertifiedIsComplete EventsAreCountedOnce
PROPERTIES ObservationIsNeutral 
CHECK_DEADLOCK FALSE
