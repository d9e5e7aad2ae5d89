CONSTANTS
  fe1 = fe1
  fe2 = fe2
  fe3 = fe3
  FEOrder <- ThreeFEs
  FERequests <- IterateOnly
  WorkTransitions <- RunTransitions
  MaxRequests = 2
SPECIFICATION Spec
PROPERTY RunControlRefined
