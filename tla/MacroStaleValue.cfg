CONSTANTS
  fe1 = fe1
  fe2 = fe2
  feX = feX
  FEs <- MCFEs
  InterfaceIDs <- MCInterfaceIDs
  MacroNames <- MCMacroNames
  Macros <- MCMacros
  Inputs <- MCAllInputs
  OutputNames <- MCOutputNames
  Values <- MCValues
SPECIFICATION Spec
INVARIANT InputValuesFromOwnPair
