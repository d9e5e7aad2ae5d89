----------------------- MODULE MCFEInterfacesManager -----------------------
(* Instances of FEInterfacesManager for TLC: two or three FEs, given by   *)
(* model values in priority order.                                        *)
EXTENDS FEInterfacesManager

CONSTANTS fe1, fe2, fe3

TwoFEs == <<fe1, fe2>>
ThreeFEs == <<fe1, fe2, fe3>>

AllWork == {"iterate", "subiterate"}
IterateOnly == {"iterate"}

AllTransitions == Transitions
RunTransitions == Transitions \ {"halt"}
HaltOnly == {"halt"}
=============================================================================
