----------------------------- MODULE DumpImage ------------------------------
(***************************************************************************)
(* What GCC writes with -fdump-ipa-whole-program, as far as parse_gcc_wpa  *)
(* looks at it.  A program is                                              *)
(*   [symbols, calls, style]                                               *)
(* a sequence of symbols [name, function], whose places are their ids, for *)
(* each of them the places of the functions it calls, and what stands      *)
(* behind a call: nothing ("bare"), attributes ("attrs"), or the counts of *)
(* -O2, which have parentheses in parentheses ("counts").  The repository  *)
(* has no code for it.                                                     *)
(***************************************************************************)
EXTENDS Integers, Sequences, SequencesExt

CONSTANT None

Word(text) == [text |-> text, id |-> None]

Line(key, value) == [margin |-> key \in {"name", "table"}, key |-> key, value |-> value]

Attributes(style) ==
  CASE style = "bare"   -> <<>>
    [] style = "attrs"  -> <<Word("("), Word("inlined"), Word(")"), Word(" "),
                             Word("("), Word("can throw external"), Word(")"), Word(" ")>>
    [] style = "counts" -> <<Word("("), Word("107 "), Word("("), Word("estimated locally"),
                             Word(")"), Word(",1.00"), Word(" "), Word("per"), Word(" "),
                             Word("call"), Word(")"), Word(" ")>>

\* The places of the functions that call the k-th, once for every call.
CallersOf(p, k) ==
  FlattenSeq([j \in DOMAIN p.symbols |->
                [n \in DOMAIN SelectSeq(p.calls[j], LAMBDA c : c = k) |-> j]])

\* The last space of a line is trimmed.
List(p, places) ==
  LET text == FlattenSeq([n \in DOMAIN places |->
                <<[text |-> p.symbols[places[n]].name, id |-> places[n]], Word(" ")>>
                  \o Attributes(p.style)])
  IN  IF text = <<>> THEN <<>> ELSE Front(text)

Heading(p, k) ==
  LET name == p.symbols[k].name
  IN  Line("name", <<[text |-> name, id |-> k], Word(" "), Word("("), Word(name), Word(")")>>)

Block(p, k) ==
  IF p.symbols[k].function
  THEN <<Heading(p, k),
         Line("Type", <<Word("function"), Word(" "), Word("definition")>>),
         Line("Visibility", <<Word("public")>>),
         Line("Availability", <<Word("available")>>),
         Line("Function flags", <<Word("body")>>),
         Line("Called by", List(p, CallersOf(p, k))),
         Line("blank", <<>>),
         Line("Calls", List(p, p.calls[k])),
         Line("empty", <<>>)>>
  ELSE <<Heading(p, k),
         Line("Type", <<Word("variable")>>),
         Line("Visibility", <<Word("public")>>),
         Line("Varpool flags", <<Word("read-only")>>)>>

Table(p) == FlattenSeq([k \in DOMAIN p.symbols |-> Block(p, k)])

Dump(p) == <<Line("Marking", <<>>), Line("table", <<>>), Line("empty", <<>>)>> \o Table(p)
=============================================================================
