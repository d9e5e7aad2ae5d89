----------------------------- MODULE MCFEMacros -----------------------------
(* Instantiates FEMacros: FE fe2 registers macro m1 (inputs a, b; outputs *)
(* a, b; callable by fe1) and m2 (no inputs; output b; callable by every  *)
(* FE); fe1 registers m2.  feX names no FE and m3 no macro.                *)
EXTENDS FEMacros

CONSTANTS fe1, fe2, feX

A == <<"a">>
B == <<"b">>

M1 == [name |-> "m1", inputs |-> <<A, B>>, outputs |-> <<A, B>>, allowed |-> {fe1}]
M2 == [name |-> "m2", inputs |-> <<>>, outputs |-> <<B>>, allowed |-> {Wildcard}]

MCFEs == {fe1, fe2}
MCInterfaceIDs == {fe1, fe2, feX}
MCMacroNames == {"m1", "m2", "m3"}
MCMacros == [f \in MCFEs |-> IF f = fe2 THEN {M1, M2} ELSE {M2}]
MCValues == {<<>>, A}

\* every inputArgs string of up to n characters over the delimiters and a, b
ShortInputs(n) == BoundedSeq({"a", "b", Comma, Semi}, n)

\* the short strings, and the encoding of every pair list for m1's inputs
MCInputs == ShortInputs(3) \cup {EncodeOutputArgs(ps) : ps \in DeclaredPairs(M1.inputs)}

\* every input string of up to five characters
MCAllInputs == ShortInputs(5)

\* output name lists of up to two characters, and m1's own "a,b"
MCOutputNames == BoundedSeq({"a", "b", Comma}, 2) \cup {JoinOutputNames(M1.outputs)}
=============================================================================
