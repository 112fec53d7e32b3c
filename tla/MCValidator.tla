---------------------------- MODULE MCValidator -----------------------------
(***************************************************************************)
(* Validator on the images of small programs of two functions, with        *)
(* displacements of two bytes.                                             *)
(***************************************************************************)
EXTENDS Validator, TLC

MCWordSize == 2^22

Code == INSTANCE CodeImage

\* .text begins at 1000; typeinfo A and the name string of B lie before it, B
\* and C, another symbol at the address of B, behind it.
Start == 1000
A == 600
B == 1400
NameB == 640

Nop == -144
Ret == -195

\* Code with no throw, with one at the front, at the end, in the middle, with
\* two of different types, and one that only uses the name of a type.
Codes == {<<Ret>>, <<>>, <<A>>, <<A, Ret>>, <<Nop, B>>, <<Nop, A, Ret>>, <<B, Nop, A>>,
          <<NameB, Ret>>}

Sym(name, value, size, func, defined, typeinfo) ==
  [name |-> name, value |-> value, size |-> size, func |-> func,
   defined |-> defined, typeinfo |-> typeinfo]

\* The symbols of the RTTI, of a function another object defines, of one in
\* .init, before .text, and of one in .fini, behind it.
OtherSymbols ==
  <<Sym("rtti", A, 16, FALSE, TRUE, TRUE),
    Sym("rtti", B, 16, FALSE, TRUE, TRUE),
    Sym("rtti", B, 16, FALSE, TRUE, TRUE),
    Sym("rtti", NameB, 4, FALSE, TRUE, TRUE),
    Sym("puts", 0, 0, TRUE, FALSE, FALSE),
    Sym("_init", 990, 10, TRUE, TRUE, FALSE),
    Sym("_fini", 1200, 10, TRUE, TRUE, FALSE)>>

\* Two functions of one name are static functions of two source files.
StaticCodes == {<<Ret>>, <<A, Ret>>, <<Nop, B>>}

Statics == [names : {<<"f", "f">>}, codes : StaticCodes \X StaticCodes]

Programs == [names : {<<"f", "g">>}, codes : Codes \X Codes] \cup Statics

Place(p, k) == Code!AddressOf(p.codes, k, Start)

SymbolOf(p, k) ==
  Sym(p.names[k], Place(p, k), Code!SizeOf(p.codes[k]), TRUE, TRUE, FALSE)

ImageOf ==
  [p \in Programs |->
     [sym  |-> <<SymbolOf(p, 1), SymbolOf(p, 2)>> \o OtherSymbols,
      text |-> [addr |-> Start, data |-> Code!Text(p.codes, Start)]]]

Images == {ImageOf[p] : p \in Programs}

\* A relocatable object: .text and .text.g both begin at 0, and the symbol of
\* g is looked up in .text, which is shorter.
Relocatable ==
  {[sym  |-> <<Sym("f", 0, 1, TRUE, TRUE, FALSE), Sym("g", 0, 5, TRUE, TRUE, FALSE),
               Sym("rtti", 20, 16, FALSE, TRUE, TRUE)>>,
    text |-> [addr |-> 0, data |-> <<195>>]]}

StaticElfs == {ImageOf[p] : p \in Statics}

MCElfs == Images \cup Relocatable

MCNames == {"f", "g", "rtti", "puts", "_init", "_fini", "nobody"}

MCBehind == {<<0, 0, 0, 0, 0>>, <<144, 16, 0, 0, 0>>}

Han(type, type_index) == [type |-> type, type_index |-> type_index, landing_pad |-> 7]

Try(start, handlers) == [start |-> start, end |-> start + 4, handlers |-> handlers]

\* Nothing; a cleanup; a catch of A, of B by the second entry, of anything, of
\* an entry that is not there; an exception specification.
MCLsdas ==
  {[scopes |-> <<>>, types |-> <<>>],
   [scopes |-> <<Try(4, <<Han("Cleanup", 0)>>)>>, types |-> <<>>],
   [scopes |-> <<Try(4, <<Han("Catch", 1)>>)>>, types |-> <<A>>],
   [scopes |-> <<Try(0, <<Han("Catch", 2)>>), Try(9, <<Han("Catch", 3), Han("Catch", 1)>>)>>,
    types  |-> <<B, A>>],
   [scopes |-> <<Try(4, <<Han("Catch", 1)>>), Try(8, <<Han("Filter", -1)>>)>>,
    types  |-> <<0>>]}

-----------------------------------------------------------------------------
Sources == {p \in Programs : ImageOf[p] = [sym |-> m_sym, text |-> m_text]}

Throws(p, k) == \E n \in DOMAIN p.codes[k] : p.codes[k][n] \in {A, B}

\* A function of the program that loads the RTTI object of a type is reported,
\* wherever in its code it does and wherever the object lies, when no other
\* function has its name (validator.cpp:36-59, 207-227).
ThrowersAreReported ==
  functions # None =>
    \A p \in Sources, k \in {1, 2} :
      Throws(p, k) /\ p.names[1] # p.names[2] => k \in functions

\* Every RTTI object that the code of a function loads is among the types of
\* an answer about it (validator.cpp:36-62, 155-185).
LoadedTypesAreAnswered ==
  (result # None /\ result.error = None) =>
    \A p \in Sources :
      LET k == get_symbol(result.name)
      IN  \A t \in {A, B} :
            t \in {p.codes[k][n] : n \in DOMAIN p.codes[k]} =>
              \E i \in DOMAIN result.matches : result.matches[i].thrown.value = t

\* "Function that can throw:" (main.cpp:125): every function reported loads the
\* RTTI object of a type in its own code.
ReportedCanThrow ==
  functions # None =>
    \A p \in Sources : \A k \in functions : Throws(p, k)
=============================================================================
