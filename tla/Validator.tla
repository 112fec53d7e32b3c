----------------------------- MODULE Validator ------------------------------
(***************************************************************************)
(* safe::Validator (src/src/validator.cpp): it scans the machine code of a *)
(* function for references to RTTI symbols, the types the function throws, *)
(* and matches them with the handlers an LsdaParser has recovered.         *)
(*                                                                         *)
(* A step is one call of a client.  A vector whose elements come from      *)
(* places in an order (windows of a function, handlers of scopes) is a     *)
(* function of those places.  A symbol is                                  *)
(*   [name, value, size, func, defined, typeinfo]                          *)
(* where func and defined stand for the tests on st_info and st_shndx, and *)
(* typeinfo says that its demangled name begins with "typeinfo", as those  *)
(* of a type's RTTI object and of the string with its name both do.        *)
(***************************************************************************)
EXTENDS Leb128

CONSTANTS Elfs,    \* the symbol tables and .text sections, [sym, text], that
                   \* the constructor may be given
          Lsdas,   \* the parsers, [scopes, types], that load_lsda may be given
          Names,   \* the names a client may ask for
          Behind,  \* what the heap may hold behind the bytes of .text
          None     \* nullptr, std::nullopt, no answer yet

Symbol  == [name : Names, value : Word, size : Nat,
            func : BOOLEAN, defined : BOOLEAN, typeinfo : BOOLEAN]
Section == [addr : Word, data : Seq(Byte)]

\* A handler as LsdaParser::build_scopes makes them.
Handler ==
  {h \in [type : {"Catch", "Cleanup", "Filter"}, type_index : Int, landing_pad : Word] :
     /\ h.type = "Catch" <=> h.type_index > 0
     /\ h.type = "Cleanup" <=> h.type_index = 0}

Scope   == [start : Word, end : Word, handlers : Seq(Handler)]
Record  == [scope_id : Nat, kind : {"Catch", "Cleanup", "Filter"},
            range_begin : Word, range_end : Word, landing_pad : Word,
            type_index : Int]
Errors  == {"NoTypeinfoForFunction", "NoThrownTypes", "NoCatchRecords",
            "TypeResolveFailed", "NoLsdaLoaded"}

ASSUME ClientAssumption ==
  /\ Elfs \subseteq [sym : Seq(Symbol), text : Section]
  /\ Lsdas \subseteq [scopes : Seq(Scope), types : Seq(Word)]
  /\ Behind \subseteq Seq(Byte) /\ Behind # {}
  /\ None \notin Lsdas /\ None \notin Errors /\ None \notin Word

VARIABLES
  m_sym, m_text,
  rtti_sym,    \* address -> symbol
  m_lsda,      \* the parser last loaded, or None
  m_records,   \* <<scope, handler>> -> CatchRecord
  functions,   \* what find_thrown_functions last returned, as places in m_sym
  result       \* what analyze_exceptions last returned

vars == <<m_sym, m_text, rtti_sym, m_lsda, m_records, functions, result>>

-----------------------------------------------------------------------------
\* emplace keeps the symbol that was at an address first.
collect_rtti_sym(sym) ==
  LET typeinfo == {k \in DOMAIN sym : sym[k].typeinfo}
  IN  [a \in {sym[k].value : k \in typeinfo} |->
         sym[Min({k \in typeinfo : sym[k].value = a})]]

\* The state the constructor leaves when it returns.  When it cannot make the
\* directory of the log it throws, and there is no Validator; that is a step of
\* its caller, in Safe.
Init ==
  /\ \E elf \in Elfs : m_sym = elf.sym /\ m_text = elf.text
  /\ rtti_sym = collect_rtti_sym(m_sym)
  /\ m_lsda = None
  /\ m_records = <<>>
  /\ functions = None
  /\ result = None

\* The place of the first symbol of this name, or 0.
get_symbol(name) ==
  LET here == {k \in DOMAIN m_sym : m_sym[k].name = name}
  IN  IF here = {} THEN 0 ELSE Min(here)

-----------------------------------------------------------------------------
(* find_typeinfo.                                                          *)

Offset(k) == (m_sym[k].value - m_text.addr) % WordSize

InText(k) == Offset(k) < Len(m_text.data)

\* The address that the window at offset i of function k refers to.  Nothing
\* keeps the function inside .text: what lies behind it is read too.
Target(k, i, heap) ==
  LET code == SubSeq(m_text.data, Offset(k) + 1, Len(m_text.data)) \o heap
      rel  == FixedWidth(code, i, Bytes4, TRUE).val
  IN  (m_sym[k].value + i + Bytes4 + rel) % WordSize

\* Mutants: the last window is left out; windows do not overlap.
WindowsButLast(k) == {i \in 0 .. m_sym[k].size - 1 : i + Bytes4 < m_sym[k].size}

WindowsApart(k) ==
  {i \in 0 .. m_sym[k].size - 1 : i + Bytes4 <= m_sym[k].size /\ i % Bytes4 = 0}

Windows(k) == {i \in 0 .. m_sym[k].size - 1 : i + Bytes4 <= m_sym[k].size}

\* find_typeinfo returns a value: the name is that of a symbol in .text.
HasCode(name) == get_symbol(name) # 0 /\ InText(get_symbol(name))

\* That value: the symbols referred to, by the offset of the window that does.
find_typeinfo(name, heap) ==
  LET k    == get_symbol(name)
      hits == {i \in Windows(k) : Target(k, i, heap) \in DOMAIN rtti_sym}
  IN  [i \in hits |-> rtti_sym[Target(k, i, heap)]]

\* Mutant: a function is taken to throw because it has code.
check_found(name, heap) == HasCode(name)

check_thrown_functions(name, heap) ==
  HasCode(name) /\ DOMAIN find_typeinfo(name, heap) # {}

IsFunction(k) == m_sym[k].func /\ m_sym[k].defined

\* Every lookup reads the heap as it is at that moment.
find_thrown_functions ==
  /\ LET Found(k, heap) == IsFunction(k) /\ check_thrown_functions(m_sym[k].name, heap)
         always == {k \in DOMAIN m_sym : \A heap \in Behind : Found(k, heap)}
         ever   == {k \in DOMAIN m_sym : \E heap \in Behind : Found(k, heap)}
     IN  \E some \in SUBSET (ever \ always) : functions' = always \cup some
  /\ UNCHANGED <<m_sym, m_text, rtti_sym, m_lsda, m_records, result>>

-----------------------------------------------------------------------------
\* One record for every handler of every scope.
RecordsOf(lsda) ==
  [p \in UNION {{k} \X DOMAIN lsda.scopes[k].handlers : k \in DOMAIN lsda.scopes} |->
     LET scope == lsda.scopes[p[1]]
         h     == scope.handlers[p[2]]
     IN  [scope_id    |-> p[1] - 1,
          kind        |-> h.type,
          range_begin |-> scope.start,
          range_end   |-> scope.end,
          landing_pad |-> h.landing_pad,
          type_index  |-> h.type_index]]

\* Mutant: m_records is not cleared.
load_more_lsda(lsda) ==
  /\ m_lsda' = lsda
  /\ m_records' = [p \in DOMAIN m_records \cup DOMAIN RecordsOf(lsda) |->
                    IF p \in DOMAIN m_records THEN m_records[p] ELSE RecordsOf(lsda)[p]]
  /\ result' = None
  /\ UNCHANGED <<m_sym, m_text, rtti_sym, functions>>

\* The handlers of an earlier result point into the records that are
\* destroyed here, so that result is lost to the client.
load_lsda(lsda) ==
  /\ m_lsda' = lsda
  /\ m_records' = RecordsOf(lsda)
  /\ result' = None
  /\ UNCHANGED <<m_sym, m_text, rtti_sym, functions>>

\* LsdaParser::resolve_type of the loaded parser.
resolve_type(type_index) ==
  IF type_index \in 1 .. Len(m_lsda.types)
  THEN m_lsda.types[Len(m_lsda.types) - type_index + 1]
  ELSE None

Handles(rec, thrown) ==
  \/ rec.type_index = 0
  \/ /\ rec.type_index > 0
     /\ rec.kind = "Catch"
     /\ resolve_type(rec.type_index) = thrown.value

\* Mutant: the handler that is found is the one behind it.
MatchesBehind(thrown) ==
  [i \in DOMAIN thrown |->
     LET here == {p \in DOMAIN m_records : Handles(m_records[p], thrown[i])}
     IN  [thrown   |-> thrown[i],
          handlers |-> {<<p[1], p[2] + 1>> : p \in here}]]

\* The matches of the types thrown, by the offset of the window, with the
\* places in m_records of the handlers of each.
Matches(thrown) ==
  [i \in DOMAIN thrown |->
     [thrown   |-> thrown[i],
      handlers |-> {p \in DOMAIN m_records : Handles(m_records[p], thrown[i])}]]

\* Mutant: the answer is an error as soon as one type has no handler.
NoneHandled(matches) == \E i \in DOMAIN matches : matches[i].handlers = {}

NoHandlers(matches) == \A i \in DOMAIN matches : matches[i].handlers = {}

\* The error returned, or None.  With no records at all no type has a handler,
\* so the test for that (validator.cpp:151) needs no case of its own.  A catch
\* whose index does not resolve is passed over (validator.cpp:174-177): no case
\* gives TypeResolveFailed.
Failure(name, thrown) ==
  CASE m_lsda = None                    -> "NoLsdaLoaded"
    [] m_lsda # None /\ ~HasCode(name)  -> "NoTypeinfoForFunction"
    [] m_lsda # None /\ HasCode(name)   ->
         IF DOMAIN thrown = {} THEN "NoThrownTypes"
         ELSE IF NoHandlers(Matches(thrown)) THEN "NoCatchRecords" ELSE None

analyze_exceptions(name) ==
  /\ \E heap \in Behind :
       LET thrown == find_typeinfo(name, heap)
           error  == Failure(name, thrown)
       IN  result' = [name    |-> name,
                      error   |-> error,
                      matches |-> IF error = None THEN Matches(thrown) ELSE <<>>]
  /\ UNCHANGED <<m_sym, m_text, rtti_sym, m_lsda, m_records, functions>>

Next ==
  \/ find_thrown_functions
  \/ \E lsda \in Lsdas : load_lsda(lsda)
  \/ \E name \in Names : analyze_exceptions(name)

Spec == Init /\ [][Next]_vars

-----------------------------------------------------------------------------
Places == Nat \X Nat

TypeOK ==
  /\ m_sym \in Seq(Symbol)
  /\ m_text \in Section
  /\ \A a \in DOMAIN rtti_sym : a \in Word /\ rtti_sym[a] \in Symbol
  /\ m_lsda \in Lsdas \cup {None}
  /\ DOMAIN m_records \subseteq Places
  /\ \A p \in DOMAIN m_records : m_records[p] \in Record
  /\ functions = None \/ functions \subseteq DOMAIN m_sym
  /\ result # None =>
       /\ result.name \in Names
       /\ result.error \in Errors \cup {None}
       /\ result.error = None =>
            \A i \in DOMAIN result.matches :
              /\ result.matches[i].thrown \in Symbol
              /\ result.matches[i].handlers \subseteq DOMAIN m_records

\* The whole function lies in .text, so that no window reads behind it.
Inside(k) == InText(k) /\ Offset(k) + m_sym[k].size <= Len(m_text.data)

\* A function that find_thrown_functions has reported can be analysed: for it
\* analyze_exceptions never says that it has no type information or throws
\* nothing, so in main's second loop only a missing handler ends the report
\* (validator.cpp:141-149, 201-205, main.cpp:137-144).
ReportedCanBeAnalysed ==
  functions # None =>
    \A k \in functions, heap \in Behind :
      Inside(get_symbol(m_sym[k].name)) =>
        Failure(m_sym[k].name, find_typeinfo(m_sym[k].name, heap))
          \notin {"NoTypeinfoForFunction", "NoThrownTypes"}

\* Four of the five errors mean what their comments say: no LSDA was ever loaded;
\* the function has no place in .text; it exists but no window of it refers to a
\* type; no record of the LSDA handles any of its types.  An answer has a handler.
\* The fifth, TypeResolveFailed, "LSDA::resolve_type() failed for some index", is
\* never given, though there are such indices: a catch record with one is no
\* handler of any answer, and the analysis goes on (validator.hpp:26-33,
\* validator.cpp:174-177).
ErrorsMeanWhatTheySay ==
  result # None =>
    LET k == get_symbol(result.name)
        handled(i) == result.matches[i].handlers # {}
    IN  /\ result.error = "NoLsdaLoaded" <=> m_lsda = None
        /\ result.error = "NoTypeinfoForFunction" => ~HasCode(result.name)
        /\ result.error = "NoThrownTypes" => HasCode(result.name)
        /\ result.error \in {"NoThrownTypes", "NoCatchRecords"} /\ Inside(k) =>
             \A heap \in Behind, i \in Windows(k), a \in DOMAIN rtti_sym :
               Target(k, i, heap) = a =>
                 /\ result.error = "NoCatchRecords"
                 /\ \A p \in DOMAIN m_records : ~Handles(m_records[p], rtti_sym[a])
        /\ result.error = None => \E i \in DOMAIN result.matches : handled(i)
        /\ result.error # "TypeResolveFailed"
        /\ result.error = None =>
             \A i \in DOMAIN result.matches : \A p \in result.matches[i].handlers :
               m_records[p].type_index > 0 => resolve_type(m_records[p].type_index) # None

\* The handlers of an answer are those of the LSDA loaded now, none of an
\* earlier one: its cleanups, and its catches whose entry of the type table,
\* counted from the end, is the address of the type thrown
\* (validator.cpp:107-132, 158-185, abi_parse.cpp:318-334).
MatchesAreExact ==
  (result # None /\ result.error = None) =>
    \A i \in DOMAIN result.matches :
      LET match == result.matches[i]
          types == m_lsda.types
          catches(h) == /\ h.type = "Catch"
                        /\ h.type_index <= Len(types)
                        /\ types[Len(types) + 1 - h.type_index] = match.thrown.value
      IN  match.handlers =
            UNION {{<<s, n>> : n \in
                      {n \in DOMAIN m_lsda.scopes[s].handlers :
                         LET h == m_lsda.scopes[s].handlers[n]
                         IN  h.type = "Cleanup" \/ catches(h)}} :
                   s \in DOMAIN m_lsda.scopes}
=============================================================================
