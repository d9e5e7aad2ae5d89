CONSTANTS
  fe1 = fe1
  fe2 = fe2
  fe3 = fe3
  FEOrder <- TwoFEs
  FERequests <- IterateOnly
  WorkTransitions <- HaltOnly
  MaxRequests = 1
SPECIFICATION Spec
INVARIANT TransitionCompletesAllFEs
