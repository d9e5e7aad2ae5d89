CONSTANTS
  fe1 = fe1
  fe2 = fe2
  feX = feX
  FEs <- MCFEs
  InterfaceIDs <- MCInterfaceIDs
  MacroNames <- MCMacroNames
  Macros <- MCMacros
  Inputs <- MCInputs
  OutputNames <- MCOutputNames
  Values <- MCValues
SPECIFICATION Spec
INVARIANT WellFormedInputsDelivered
INVARIANT ByFEOutputNamesAccepted
INVARIANT MacroRunsOnlyOnAcceptedRequest
