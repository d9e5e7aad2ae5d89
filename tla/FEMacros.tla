------------------------------ MODULE FEMacros ------------------------------
(***************************************************************************)
(* The FE macro calls of FEVInterfacesManager                             *)
(* (src/otsdaq-core/FECore/FEVInterfacesManager.cc): runFEMacroByFE, the  *)
(* call of one FE's macro by another FE, and runFEMacro by macro name and *)
(* by macro structure.                                                    *)
(*                                                                         *)
(* The arguments travel as text: the inputs as "name,value" pairs joined  *)
(* by ';', the output names joined by ',', and the outputs returned as    *)
(* "name,value" pairs joined by ';'.  The text is what the properties are *)
(* about, so strings are sequences over a small alphabet and the parsing  *)
(* is std::getline's, including what it leaves in its target string when *)
(* it fails.                                                              *)
(*                                                                         *)
(* The manager serves one macro request at a time: Call computes the      *)
(* whole request, and the caller takes the result (Return).  The macro    *)
(* function itself is FE code: it chooses the output values and may       *)
(* resize the output vector.                                              *)
(***************************************************************************)
EXTENDS Integers, Sequences, SequencesExt

CONSTANTS
  FEs,          \* the interface IDs that exist (keys of theFEInterfaces_)
  InterfaceIDs, \* the interface IDs a request may name: FEs and unknown ones
  MacroNames,   \* the macro names a request may name
  Macros,       \* Macros[fe]: the macros FE fe registered, as records
  Inputs,       \* the inputArgs strings a caller may send
  OutputNames,  \* the outputArgs strings a caller of runFEMacro may send
  Values        \* the values a macro function may write to an output

Comma == ","
Semi == ";"
Wildcard == "*"

VARIABLES
  phase,   \* "idle", or "returned" with the result of the request
  call,    \* the request: operation and arguments
  result   \* the outcome: ok with arguments, or an error

vars == <<phase, call, result>>

(***************************************************************************)
(* std::getline and the argument text                                     *)
(***************************************************************************)

\* position of the first d in s, 0 if none
FirstOf(s, d) == SelectInSeq(s, LAMBDA c : c = d)

\* the strings that `while(getline(stream, field, d))` yields over s: a
\* trailing delimiter yields no empty field, an empty s yields none
RECURSIVE Getlines(_, _)
Getlines(s, d) ==
  IF s = <<>> THEN <<>>
  ELSE LET k == FirstOf(s, d)
       IN  IF k = 0 THEN <<s>>
           ELSE <<SubSeq(s, 1, k - 1)>> \o Getlines(SubSeq(s, k + 1, Len(s)), d)

RECURSIVE ParsePairs(_, _)

\* a mutant: an empty value after the ',' does not erase argValue
ParsePairsNoErase(fields, argValue) ==
  IF fields = <<>> THEN <<>>
  ELSE LET p == Head(fields)
           k == FirstOf(p, Comma)
           rest == SubSeq(p, k + 1, Len(p))
           value == IF k = 0 \/ rest = <<>> THEN argValue ELSE Head(Getlines(rest, Comma))
       IN  <<[name |-> IF k = 0 THEN p ELSE SubSeq(p, 1, k - 1), value |-> value]>>
             \o ParsePairs(Tail(fields), value)

\* The pair loop: getline(pair, argName, ','), then getline(pair, argValue,
\* ','). When the first getline reaches the end of the pair (no ','), the
\* second one fails without erasing argValue, which keeps the value of the
\* previous pair; argValue is declared outside the loop.
ParsePairs(fields, argValue) ==
  IF fields = <<>> THEN <<>>
  ELSE LET p == Head(fields)
           k == FirstOf(p, Comma)
           name == IF k = 0 THEN p ELSE SubSeq(p, 1, k - 1)
           rest == SubSeq(p, k + 1, Len(p))
           value == IF k = 0 THEN argValue
                    ELSE IF rest = <<>> THEN <<>>
                    ELSE Head(Getlines(rest, Comma))
       IN  <<[name |-> name, value |-> value]>> \o ParsePairs(Tail(fields), value)

\* "build input arguments": semicolon-separated pairs, then comma-separated
ParseInputArgs(in) == ParsePairs(Getlines(in, Semi), <<>>)

\* "build output arguments": the comma-separated output names
ParseOutputNames(out) == Getlines(out, Comma)

\* a mutant: the names concatenated without the separator
JoinNoSeparator(names) == FlattenSeq(names)

\* runFEMacroByFE: outputArgs += (i?",":"") + namesOfOutputArguments_[i]
JoinOutputNames(names) ==
  FlattenSeq([i \in DOMAIN names |-> (IF i > 1 THEN <<Comma>> ELSE <<>>) \o names[i]])

\* the returned outputArgs: "name,value" pairs joined by ';'
EncodeOutputArgs(pairs) ==
  FlattenSeq([i \in DOMAIN pairs |->
                (IF i > 1 THEN <<Semi>> ELSE <<>>) \o pairs[i].name \o <<Comma>> \o pairs[i].value])

(***************************************************************************)
(* Interfaces and their macros                                            *)
(***************************************************************************)

\* StringMacros::inWildCardSet (outside this repository): only "*" for every
\* calling ID and the exact ID are modelled
InWildCardSet(id, set) == Wildcard \in set \/ id \in set

\* getFEInterfaceP(interfaceID) succeeds and the FE's map has the macro
HasMacro(id, name) == id \in FEs /\ \E m \in Macros[id] : m.name = name

Macro(id, name) == CHOOSE m \in Macros[id] : m.name = name

\* what the macro function may leave in its output values
ValueChoices(id, name) ==
  IF HasMacro(id, name) THEN [1..Len(Macro(id, name).outputs) -> Values] ELSE {<<>>}

Fail(reason) == [status |-> reason, ran |-> FALSE, argsIn |-> <<>>,
                 argsOut |-> <<>>, out |-> <<>>]

NoCall == [op |-> "none", caller |-> "none", id |-> "none", name |-> "none",
           in |-> <<>>, outNames |-> <<>>]

\* a mutant: the macro function launched before the output names are checked
RunMacroBeforeOutputChecks(m, in, outNames, vals, resized) ==
  LET argsIn == ParseInputArgs(in)
      names == ParseOutputNames(outNames)
      ran == [Fail("none") EXCEPT !.ran = TRUE, !.argsIn = argsIn]
      argsOut == [i \in DOMAIN m.outputs |-> [name |-> m.outputs[i], value |-> vals[i]]]
  IN  CASE Len(argsIn) # Len(m.inputs) -> Fail("inputCount")
        [] \E i \in DOMAIN argsIn : argsIn[i].name # m.inputs[i] -> Fail("inputName")
        [] Len(names) # Len(m.outputs) -> [ran EXCEPT !.status = "outputCount"]
        [] \E i \in DOMAIN names : names[i] # m.outputs[i] -> [ran EXCEPT !.status = "outputName"]
        [] resized -> [ran EXCEPT !.status = "resized"]
        [] OTHER -> [status |-> "ok", ran |-> TRUE, argsIn |-> argsIn,
                     argsOut |-> argsOut, out |-> EncodeOutputArgs(argsOut)]

\* runFEMacro(interfaceID, feMacro, inputArgs, outputArgs): parse and check
\* the inputs, parse and check the output names, run the macro function
\* (which writes vals, or resizes the output vector), check the output
\* size, and encode the outputs.
RunMacro(m, in, outNames, vals, resized) ==
  LET argsIn == ParseInputArgs(in)
      names == ParseOutputNames(outNames)
      argsOut == [i \in DOMAIN m.outputs |-> [name |-> m.outputs[i], value |-> vals[i]]]
  IN  CASE Len(argsIn) # Len(m.inputs) -> Fail("inputCount")
        [] \E i \in DOMAIN argsIn : argsIn[i].name # m.inputs[i] -> Fail("inputName")
        [] Len(names) # Len(m.outputs) -> Fail("outputCount")
        [] \E i \in DOMAIN names : names[i] # m.outputs[i] -> Fail("outputName")
        [] resized -> [Fail("resized") EXCEPT !.ran = TRUE, !.argsIn = argsIn]
        [] OTHER -> [status |-> "ok", ran |-> TRUE, argsIn |-> argsIn,
                     argsOut |-> argsOut, out |-> EncodeOutputArgs(argsOut)]

(***************************************************************************)
(* The requests                                                           *)
(***************************************************************************)

Init ==
  /\ phase = "idle"
  /\ call = NoCall
  /\ result = Fail("none")

\* runFEMacroByFE: FE caller runs macro name of FE id; the manager builds
\* the output names from the macro's declaration
RunFEMacroByFE(caller, id, name, in) ==
  /\ phase = "idle"
  /\ phase' = "returned"
  /\ call' = [op |-> "byFE", caller |-> caller, id |-> id, name |-> name,
              in |-> in, outNames |-> <<>>]
  /\ \E vals \in ValueChoices(id, name), resized \in BOOLEAN :
       result' = CASE id \notin FEs -> Fail("noInterface")
                   [] ~HasMacro(id, name) -> Fail("noMacro")
                   [] ~InWildCardSet(caller, Macro(id, name).allowed) -> Fail("notAllowed")
                   [] OTHER -> RunMacro(Macro(id, name), in,
                                        JoinOutputNames(Macro(id, name).outputs), vals, resized)

\* runFEMacro(interfaceID, feMacroName, inputArgs, outputArgs): the caller
\* supplies the output names
RunFEMacro(id, name, in, outNames) ==
  /\ phase = "idle"
  /\ phase' = "returned"
  /\ call' = [op |-> "byName", caller |-> "none", id |-> id, name |-> name,
              in |-> in, outNames |-> outNames]
  /\ \E vals \in ValueChoices(id, name), resized \in BOOLEAN :
       result' = CASE id \notin FEs -> Fail("noInterface")
                   [] ~HasMacro(id, name) -> Fail("noMacro")
                   [] OTHER -> RunMacro(Macro(id, name), in, outNames, vals, resized)

\* the caller takes the result (or the exception)
Return ==
  /\ phase = "returned"
  /\ phase' = "idle"
  /\ call' = NoCall
  /\ result' = Fail("none")

Next ==
  \/ \E caller \in FEs, id \in InterfaceIDs, name \in MacroNames, in \in Inputs :
       RunFEMacroByFE(caller, id, name, in)
  \/ \E id \in InterfaceIDs, name \in MacroNames, in \in Inputs, out \in OutputNames :
       RunFEMacro(id, name, in, out)
  \/ Return

Spec == Init /\ [][Next]_vars

(***************************************************************************)
(* Properties                                                             *)
(***************************************************************************)

\* the pairs a caller can write for the declared names, values from Values
DeclaredPairs(names) ==
  {[i \in DOMAIN names |-> [name |-> names[i], value |-> vs[i]]] : vs \in [DOMAIN names -> Values]}

\* runFEMacro's input parser reads back what its own encoder writes: a
\* request whose inputArgs is the encoding of pairs with the macro's
\* declared input names passes the input checks, and the macro function
\* receives exactly those names and values, in order.
WellFormedInputsDelivered ==
  phase = "returned" /\ HasMacro(call.id, call.name) =>
    \A ps \in DeclaredPairs(Macro(call.id, call.name).inputs) :
      call.in = EncodeOutputArgs(ps) =>
        /\ result.status \notin {"inputCount", "inputName"}
        /\ result.ran => result.argsIn = ps

\* runFEMacroByFE builds the output names from the macro's declaration, so
\* a request from an FE never fails runFEMacro's output-name checks.
ByFEOutputNamesAccepted ==
  phase = "returned" /\ call.op = "byFE" =>
    result.status \notin {"outputCount", "outputName"}

\* the value a "name,value" pair carries itself: "" when it has no ','
OwnValue(p) ==
  LET k == FirstOf(p, Comma)
      rest == SubSeq(p, k + 1, Len(p))
  IN  IF k = 0 \/ rest = <<>> THEN <<>> ELSE Head(Getlines(rest, Comma))

\* Every input value the macro function receives is the one written in its
\* own pair of inputArgs (runFEMacro's input loop, getline into argValue).
InputValuesFromOwnPair ==
  phase = "returned" /\ result.ran =>
    \A i \in DOMAIN result.argsIn :
      result.argsIn[i].value = OwnValue(Getlines(call.in, Semi)[i])

\* the output names runFEMacro parses for a request
RequestOutputNames ==
  ParseOutputNames(IF call.op = "byFE" THEN JoinOutputNames(Macro(call.id, call.name).outputs)
                   ELSE call.outNames)

\* The macro function (which acts on the hardware) is launched only for a
\* request that passed every check before it: the FE exists and has the
\* macro, an FE caller is allowed, and the input names and the output
\* names parsed from the request text are exactly the macro's declared
\* ones, in order (runFEMacro's checks, lines 603-671, before line 696).
MacroRunsOnlyOnAcceptedRequest ==
  phase = "returned" /\ result.ran =>
    LET m == Macro(call.id, call.name)
    IN  /\ HasMacro(call.id, call.name)
        /\ call.op = "byFE" => InWildCardSet(call.caller, m.allowed)
        /\ [i \in DOMAIN result.argsIn |-> result.argsIn[i].name] = m.inputs
        /\ RequestOutputNames = m.outputs

=============================================================================
