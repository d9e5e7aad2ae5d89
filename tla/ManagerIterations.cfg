CONSTANTS
  fe1 = fe1
  fe2 = fe2
  fe3 = fe3
  FEOrder <- ThreeFEs
  FERequests <- AllWork
  WorkTransitions <- RunTransitions
  MaxRequests = 2
SPECIFICATION Spec
INVARIANT TypeOK
INVARIANT WorkLoopOnlyWhenRunning
PROPERTY SubIterationHonouredFirst
PROPERTY TransitionTerminates
PROPERTY NoCallAfterCompletion
PROPERTY WorkLoopsEndOnStop
