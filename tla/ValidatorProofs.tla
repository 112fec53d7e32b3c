-------------------------- MODULE ValidatorProofs ---------------------------
(***************************************************************************)
(* Proofs about Validator for every symbol table, every .text, every LSDA, *)
(* and whatever the heap holds behind the section.                         *)
(***************************************************************************)
EXTENDS Validator, Leb128Proofs, SequenceTheorems

\* What find_typeinfo depends on never changes after the constructor.
code == <<m_sym, m_text, rtti_sym>>

LEMMA CodeIsFixed == [Next]_vars => UNCHANGED code
BY DEF Next, vars, code, find_thrown_functions, load_lsda, analyze_exceptions

\* So each of its parts gives the same before a step and after it.
LEMMA CodeReadsTheSame ==
  ASSUME UNCHANGED code
  PROVE  /\ \A name : get_symbol(name)' = get_symbol(name)
         /\ \A name : HasCode(name)' = HasCode(name)
         /\ \A k : Inside(k)' = Inside(k)
         /\ \A k : Windows(k)' = Windows(k)
         /\ \A k, i, heap : Target(k, i, heap)' = Target(k, i, heap)
         /\ \A name, heap : find_typeinfo(name, heap)' = find_typeinfo(name, heap)
         /\ \A name, heap :
              check_thrown_functions(name, heap)' = check_thrown_functions(name, heap)
<1>1. m_sym' = m_sym /\ m_text' = m_text /\ rtti_sym' = rtti_sym
  BY DEF code
<1>2. \A name : get_symbol(name)' = get_symbol(name)
  BY <1>1 DEF get_symbol
<1>3. \A k : Offset(k)' = Offset(k)
  BY <1>1 DEF Offset
<1>4. \A k : InText(k)' = InText(k)
  BY <1>1 DEF InText, Offset
<1>5. \A k : Inside(k)' = Inside(k)
  BY <1>1 DEF Inside, InText, Offset
<1>6. \A k : Windows(k)' = Windows(k)
  BY <1>1 DEF Windows
<1>7. \A k, i, heap : Target(k, i, heap)' = Target(k, i, heap)
  BY <1>1 DEF Target, Offset
<1>8. \A name : HasCode(name)' = HasCode(name)
  BY <1>1 DEF HasCode, get_symbol, InText, Offset
<1>9. \A name, heap : find_typeinfo(name, heap)' = find_typeinfo(name, heap)
  BY <1>1 DEF find_typeinfo, get_symbol, Windows, Target, Offset
<1>10. \A name, heap :
         check_thrown_functions(name, heap)' = check_thrown_functions(name, heap)
  BY <1>1 DEF check_thrown_functions, HasCode, InText, find_typeinfo, get_symbol,
              Windows, Target, Offset
<1>. QED BY <1>2, <1>5, <1>6, <1>7, <1>8, <1>9, <1>10

-----------------------------------------------------------------------------
(* The lookups.                                                            *)

\* What a lookup needs of the symbols and of .text, whatever the names are.
CodeOK ==
  /\ DOMAIN m_sym \subseteq Nat
  /\ \A k \in DOMAIN m_sym : m_sym[k].value \in Word /\ m_sym[k].size \in Nat
  /\ m_text \in Section

LEMMA TypedCode == TypeOK => CodeOK
<1> SUFFICES ASSUME TypeOK PROVE CodeOK
  OBVIOUS
<1>1. m_sym \in Seq(Symbol) /\ m_text \in Section
  BY DEF TypeOK
<1>2. DOMAIN m_sym \subseteq Nat /\ \A k \in DOMAIN m_sym : m_sym[k] \in Symbol
  BY <1>1
<1>. QED BY <1>1, <1>2 DEF CodeOK, Symbol

LEMMA PlaceType ==
  ASSUME DOMAIN m_sym \subseteq Nat
  PROVE  \A name : get_symbol(name) \in DOMAIN m_sym \cup {0}
<1> SUFFICES ASSUME NEW name PROVE get_symbol(name) \in DOMAIN m_sym \cup {0}
  OBVIOUS
<1> DEFINE here == {k \in DOMAIN m_sym : m_sym[k].name = name}
<1>1. here \in SUBSET Nat
  OBVIOUS
<1>2. here # {} => Min(here) \in here
  BY <1>1, MinOfNaturals
<1>. QED BY <1>2 DEF get_symbol

LEMMA SymbolType ==
  ASSUME m_sym \in Seq(Symbol)
  PROVE  /\ \A k \in DOMAIN m_sym : m_sym[k] \in Symbol
         /\ \A name : get_symbol(name) \in DOMAIN m_sym \cup {0}
<1>1. DOMAIN m_sym \subseteq Nat
  OBVIOUS
<1>. QED BY <1>1, PlaceType

\* A symbol of the table is the first of its name, or has one before it.
LEMMA PlaceFound ==
  ASSUME DOMAIN m_sym \subseteq Nat \ {0}, NEW k \in DOMAIN m_sym
  PROVE  get_symbol(m_sym[k].name) \in DOMAIN m_sym
<1> DEFINE here == {j \in DOMAIN m_sym : m_sym[j].name = m_sym[k].name}
<1>1. here \in SUBSET Nat /\ here # {}
  OBVIOUS
<1>2. Min(here) \in here
  <2> HIDE DEF here
  <2>. QED BY <1>1, MinOfNaturals
<1>. QED BY <1>1, <1>2 DEF get_symbol

LEMMA RttiIsSymbol ==
  ASSUME NEW sym, DOMAIN sym \subseteq Nat, NEW a \in DOMAIN collect_rtti_sym(sym)
  PROVE  \E k \in DOMAIN sym : sym[k].value = a /\ collect_rtti_sym(sym)[a] = sym[k]
<1> DEFINE typeinfo == {k \in DOMAIN sym : sym[k].typeinfo}
           here     == {k \in typeinfo : sym[k].value = a}
<1>1. PICK k \in typeinfo : sym[k].value = a
  BY DEF collect_rtti_sym
<1>2. here \in SUBSET Nat /\ here # {}
  BY <1>1
<1>3. Min(here) \in here
  <2> HIDE DEF here
  <2>. QED BY <1>2, MinOfNaturals
<1>4. collect_rtti_sym(sym)[a] = sym[Min(here)]
  BY <1>1 DEF collect_rtti_sym
<1>. QED BY <1>3, <1>4

LEMMA RttiType ==
  ASSUME NEW sym \in Seq(Symbol)
  PROVE  \A a \in DOMAIN collect_rtti_sym(sym) :
           a \in Word /\ collect_rtti_sym(sym)[a] \in Symbol
<1> SUFFICES ASSUME NEW a \in DOMAIN collect_rtti_sym(sym)
             PROVE  a \in Word /\ collect_rtti_sym(sym)[a] \in Symbol
  OBVIOUS
<1>1. DOMAIN sym \subseteq Nat /\ \A k \in DOMAIN sym : sym[k] \in Symbol
  OBVIOUS
<1>2. PICK k \in DOMAIN sym : sym[k].value = a /\ collect_rtti_sym(sym)[a] = sym[k]
  BY <1>1, RttiIsSymbol
<1>. QED BY <1>1, <1>2 DEF Symbol

-----------------------------------------------------------------------------
(* Types.                                                                  *)

LEMMA InitType == Init => TypeOK
<1> SUFFICES ASSUME Init PROVE TypeOK
  OBVIOUS
<1>1. PICK elf \in Elfs : m_sym = elf.sym /\ m_text = elf.text
  BY DEF Init
<1>2. m_sym \in Seq(Symbol) /\ m_text \in Section
  BY <1>1, ClientAssumption
<1>3. \A a \in DOMAIN rtti_sym : a \in Word /\ rtti_sym[a] \in Symbol
  BY <1>2, RttiType DEF Init
<1>4. DOMAIN m_records = {}
  BY DEF Init
<1>. QED BY <1>2, <1>3, <1>4 DEF Init, TypeOK

LEMMA RecordsType ==
  ASSUME NEW lsda \in Lsdas
  PROVE  /\ DOMAIN RecordsOf(lsda) \subseteq Places
         /\ \A p \in DOMAIN RecordsOf(lsda) :
              /\ p[1] \in DOMAIN lsda.scopes
              /\ p[2] \in DOMAIN lsda.scopes[p[1]].handlers
              /\ lsda.scopes[p[1]].handlers[p[2]] \in Handler
              /\ RecordsOf(lsda)[p] \in Record
<1>1. lsda.scopes \in Seq(Scope)
  BY ClientAssumption
<1>2. \A k \in DOMAIN lsda.scopes :
        lsda.scopes[k] \in Scope /\ lsda.scopes[k].handlers \in Seq(Handler)
  <2>1. \A k \in DOMAIN lsda.scopes : lsda.scopes[k] \in Scope
    BY <1>1
  <2>. QED BY <2>1 DEF Scope
<1>3. \A k \in DOMAIN lsda.scopes : \A n \in DOMAIN lsda.scopes[k].handlers :
        lsda.scopes[k].handlers[n] \in Handler /\ n \in Nat
  BY <1>2
<1>4. \A k \in DOMAIN lsda.scopes : k \in Nat /\ k - 1 \in Nat
  BY <1>1
<1>5. ASSUME NEW p \in DOMAIN RecordsOf(lsda)
      PROVE  /\ p \in Places
             /\ p[1] \in DOMAIN lsda.scopes
             /\ p[2] \in DOMAIN lsda.scopes[p[1]].handlers
             /\ lsda.scopes[p[1]].handlers[p[2]] \in Handler
             /\ RecordsOf(lsda)[p] \in Record
  <2>1. PICK k \in DOMAIN lsda.scopes : p \in {k} \X DOMAIN lsda.scopes[k].handlers
    BY <1>5 DEF RecordsOf
  <2>2. /\ p[1] = k /\ p[2] \in DOMAIN lsda.scopes[k].handlers
        /\ p = <<p[1], p[2]>>
    BY <2>1
  <2>3. p \in Places
    BY <1>3, <1>4, <2>2 DEF Places
  <2> DEFINE scope == lsda.scopes[k]
             h     == scope.handlers[p[2]]
  <2>4. RecordsOf(lsda)[p] =
          [scope_id    |-> k - 1,
           kind        |-> h.type,
           range_begin |-> scope.start,
           range_end   |-> scope.end,
           landing_pad |-> h.landing_pad,
           type_index  |-> h.type_index]
    BY <1>5, <2>2 DEF RecordsOf
  <2>5. h \in Handler /\ scope \in Scope /\ k - 1 \in Nat
    BY <1>2, <1>3, <1>4, <2>2
  <2>6. /\ h.type \in {"Catch", "Cleanup", "Filter"} /\ h.type_index \in Int
        /\ h.landing_pad \in Word /\ scope.start \in Word /\ scope.end \in Word
    BY <2>5 DEF Handler, Scope
  <2> HIDE DEF h, scope
  <2>7. RecordsOf(lsda)[p] \in Record
    BY <2>4, <2>5, <2>6 DEF Record
  <2>. QED BY <2>2, <2>3, <2>5, <2>7 DEF h, scope
<1>. QED BY <1>5

LEMMA ThrownType ==
  ASSUME TypeOK, NEW name, NEW heap
  PROVE  \A i \in DOMAIN find_typeinfo(name, heap) :
           find_typeinfo(name, heap)[i] \in Symbol
BY DEF TypeOK, find_typeinfo

LEMMA FailureType ==
  ASSUME NEW name, NEW thrown
  PROVE  Failure(name, thrown) \in Errors \cup {None}
BY DEF Failure, Errors

LEMMA NextType == TypeOK /\ [Next]_vars => TypeOK'
<1> SUFFICES ASSUME TypeOK, [Next]_vars PROVE TypeOK'
  OBVIOUS
<1>1. CASE find_thrown_functions
  <2>1. functions' \subseteq DOMAIN m_sym
    BY <1>1 DEF find_thrown_functions
  <2>. QED BY <1>1, <2>1 DEF find_thrown_functions, TypeOK
<1>2. ASSUME NEW lsda \in Lsdas, load_lsda(lsda) PROVE TypeOK'
  <2>1. /\ DOMAIN m_records' \subseteq Places
        /\ \A p \in DOMAIN m_records' : m_records'[p] \in Record
    BY <1>2, RecordsType DEF load_lsda
  <2>. QED BY <1>2, <2>1 DEF load_lsda, TypeOK
<1>3. ASSUME NEW name \in Names, analyze_exceptions(name) PROVE TypeOK'
  <2>1. PICK heap \in Behind :
          LET thrown == find_typeinfo(name, heap)
              error  == Failure(name, thrown)
          IN  result' = [name    |-> name,
                         error   |-> error,
                         matches |-> IF error = None THEN Matches(thrown) ELSE <<>>]
    BY <1>3 DEF analyze_exceptions
  <2> DEFINE thrown == find_typeinfo(name, heap)
  <2>2. /\ result'.name = name /\ result'.error = Failure(name, thrown)
        /\ result'.error = None => result'.matches = Matches(thrown)
    BY <2>1
  <2>3. \A i \in DOMAIN thrown : thrown[i] \in Symbol
    BY ThrownType
  <2>4. Failure(name, thrown) \in Errors \cup {None}
    BY FailureType
  <2> HIDE DEF thrown
  <2>5. \A i \in DOMAIN Matches(thrown) :
          /\ Matches(thrown)[i].thrown \in Symbol
          /\ Matches(thrown)[i].handlers \subseteq DOMAIN m_records
    BY <2>3 DEF Matches
  <2>. QED BY <1>3, <2>2, <2>4, <2>5 DEF analyze_exceptions, TypeOK
<1>4. CASE UNCHANGED vars
  BY <1>4 DEF vars, TypeOK
<1>. QED BY <1>1, <1>2, <1>3, <1>4 DEF Next

\* Whatever the client calls, the places an answer names are places in the
\* table it was given (validator.cpp:107-227).
THEOREM TypeCorrect == Spec => []TypeOK
BY InitType, NextType, PTL DEF Spec
-----------------------------------------------------------------------------
(* A function that lies in .text is read the same whatever lies behind.    *)

\* The bytes behind cursor i and up to cursor e are the same.
SameBytes(data, other, i, e) == \A k \in i + 1 .. e : data[k] = other[k]

\* The digits of a number depend on nothing but its bytes.
LEMMA SameBytesSameNumber ==
  ASSUME NEW data, NEW other, NEW i \in Nat, NEW e \in Nat, NEW base, NEW fill,
         SameBytes(data, other, i, e)
  PROVE  LittleEndian(data, i, e, base, fill) = LittleEndian(other, i, e, base, fill)
<1> DEFINE Digit(d, v, k) ==
             IF k = e THEN fill ELSE ((d[k + 1] % base) + base * v[k + 1]) % WordSize
<1>1. ASSUME NEW v, NEW k \in i .. e PROVE Digit(data, v, k) = Digit(other, v, k)
  <2>1. k # e => k + 1 \in i + 1 .. e
    OBVIOUS
  <2>. QED BY <2>1 DEF SameBytes
<1>2. \A v : [k \in i .. e |-> Digit(data, v, k)] = [k \in i .. e |-> Digit(other, v, k)]
  BY <1>1
<1>3. (CHOOSE v : v = [k \in i .. e |-> Digit(data, v, k)])
        = (CHOOSE v : v = [k \in i .. e |-> Digit(other, v, k)])
  BY <1>2
<1>. QED BY <1>3 DEF LittleEndian

LEMMA SameTarget ==
  ASSUME CodeOK, NEW k \in DOMAIN m_sym, Inside(k), NEW i \in Windows(k),
         NEW heap \in Seq(Byte), NEW other \in Seq(Byte)
  PROVE  Target(k, i, heap) = Target(k, i, other)
<1> DEFINE text == m_text.data
           from == SubSeq(text, Offset(k) + 1, Len(text))
           n    == Len(text) - Offset(k)
<1>1. /\ text \in Seq(Byte) /\ Len(text) \in Nat
      /\ m_sym[k].value \in Word /\ m_text.addr \in Word /\ m_sym[k].size \in Nat
  BY DEF CodeOK, Section
<1>2. Offset(k) \in Nat
  <2>1. m_sym[k].value - m_text.addr \in Int
    BY <1>1 DEF Word
  <2>. QED BY <2>1, ModWord DEF Offset, Word
<1>3. /\ Offset(k) < Len(text) /\ Offset(k) + m_sym[k].size <= Len(text)
      /\ i \in Nat /\ Bytes4 \in Nat /\ i + Bytes4 <= m_sym[k].size
  BY <1>1, WordAssumption DEF Inside, InText, Windows
<1>4. from \in Seq(Byte) /\ Len(from) = n /\ n \in Nat /\ i + Bytes4 <= n
  <2> HIDE DEF text
  <2> DEFINE a == Offset(k) + 1
  <2>1. a \in 1 .. Len(text) + 1 /\ Len(text) - a + 1 = n /\ n \in Nat /\ i + Bytes4 <= n
    <3>1. PICK o \in Nat : o = Offset(k)
      BY <1>2
    <3>2. PICK size \in Nat : size = m_sym[k].size
      BY <1>1
    <3>3. PICK l \in Nat : l = Len(text)
      BY <1>1
    <3>4. o < l /\ o + size <= l /\ i + Bytes4 <= size /\ i \in Nat /\ Bytes4 \in Nat
      BY <1>3, <3>1, <3>2, <3>3
    <3>5. o + 1 \in 1 .. l + 1 /\ l - (o + 1) + 1 = l - o /\ l - o \in Nat /\ i + Bytes4 <= l - o
      BY <3>4
    <3>6. a = o + 1 /\ n = l - o
      BY <3>1, <3>3
    <3> HIDE DEF a, n
    <3>. QED BY <3>3, <3>5, <3>6
  <2> HIDE DEF a
  <2>2. SubSeq(text, a, Len(text)) \in Seq(Byte) /\ Len(SubSeq(text, a, Len(text))) = Len(text) - a + 1
    BY <1>1, <2>1, SubSeqProperties
  <2>. QED BY <2>1, <2>2 DEF a
<1>5. ASSUME NEW h \in Seq(Byte)
      PROVE  /\ Len(from \o h) \in Nat /\ i + Bytes4 <= Len(from \o h)
             /\ \A m \in 1 .. n : (from \o h)[m] = from[m]
  <2> HIDE DEF from, n
  <2>1. /\ Len(from \o h) = Len(from) + Len(h) /\ Len(h) \in Nat
        /\ \A m \in 1 .. Len(from) : (from \o h)[m] = from[m]
    BY <1>4, <1>5
  <2>. QED BY <1>3, <1>4, <2>1
<1>6. FixedWidth(from \o heap, i, Bytes4, TRUE) = FixedWidth(from \o other, i, Bytes4, TRUE)
  <2> HIDE DEF from, n
  <2> DEFINE one == from \o heap
             two == from \o other
             Fill(data) == IF data[i + Bytes4] >= 128 THEN Ones ELSE 0
  <2>1. \A m \in i + 1 .. i + Bytes4 : one[m] = two[m]
    BY <1>3, <1>4, <1>5
  <2>2. i + Bytes4 \in Nat /\ i + Bytes4 \in i + 1 .. i + Bytes4
    <3>1. Bytes4 \in Nat \ {0}
      BY WordAssumption
    <3>. QED BY <3>1, <1>3
  <2>3. ~(i + Bytes4 > Len(one)) /\ ~(i + Bytes4 > Len(two))
    BY <1>3, <1>5
  <2> HIDE DEF one, two
  <2>4. Fill(one) = Fill(two)
    BY <2>1, <2>2
  <2> HIDE DEF Fill
  <2>5. LittleEndian(one, i, i + Bytes4, 256, Fill(one))
          = LittleEndian(two, i, i + Bytes4, 256, Fill(one))
    <3> DEFINE e == i + Bytes4
               fill == Fill(one)
    <3>1. i \in Nat /\ e \in Nat /\ SameBytes(one, two, i, e)
      BY <1>3, <2>1, <2>2 DEF SameBytes
    <3> HIDE DEF e, fill
    <3>2. LittleEndian(one, i, e, 256, fill) = LittleEndian(two, i, e, 256, fill)
      BY <3>1, SameBytesSameNumber
    <3>. QED BY <3>2 DEF e, fill
  <2>6. /\ FixedWidth(one, i, Bytes4, TRUE)
             = Got(LittleEndian(one, i, i + Bytes4, 256, Fill(one)), i + Bytes4)
        /\ FixedWidth(two, i, Bytes4, TRUE)
             = Got(LittleEndian(two, i, i + Bytes4, 256, Fill(two)), i + Bytes4)
    BY <2>3 DEF FixedWidth, Fill
  <2>7. FixedWidth(one, i, Bytes4, TRUE) = FixedWidth(two, i, Bytes4, TRUE)
    BY <2>4, <2>5, <2>6
  <2>. QED BY <2>7 DEF one, two
<1>. QED BY <1>6 DEF Target

LEMMA SameTypes ==
  ASSUME CodeOK, NEW name, get_symbol(name) # 0, Inside(get_symbol(name)),
         NEW heap \in Behind, NEW other \in Behind
  PROVE  find_typeinfo(name, heap) = find_typeinfo(name, other)
<1> DEFINE k == get_symbol(name)
<1>1. k \in DOMAIN m_sym
  BY PlaceType DEF CodeOK
<1>2. heap \in Seq(Byte) /\ other \in Seq(Byte)
  BY ClientAssumption
<1>3. \A i \in Windows(k) : Target(k, i, heap) = Target(k, i, other)
  <2> HIDE DEF k
  <2>. QED BY <1>1, <1>2, SameTarget DEF k
<1>. QED BY <1>3 DEF find_typeinfo

-----------------------------------------------------------------------------
(* What was reported can be analysed.                                      *)

\* Each function reported was once found to throw.
FoundOnce ==
  functions # None =>
    \A k \in functions : \E heap \in Behind :
      check_thrown_functions(m_sym[k].name, heap)

LEMMA NextFound == FoundOnce /\ [Next]_vars => FoundOnce'
<1> SUFFICES ASSUME FoundOnce, [Next]_vars PROVE FoundOnce'
  OBVIOUS
<1>1. \A name, heap : check_thrown_functions(name, heap)' = check_thrown_functions(name, heap)
  BY CodeIsFixed, CodeReadsTheSame
<1>2. m_sym' = m_sym
  BY CodeIsFixed DEF code
<1>3. CASE find_thrown_functions
  <2>1. \A k \in functions' : \E heap \in Behind :
          check_thrown_functions(m_sym[k].name, heap)
    BY <1>3, ClientAssumption DEF find_thrown_functions
  <2>. QED BY <1>1, <1>2, <2>1 DEF FoundOnce
<1>4. CASE UNCHANGED functions
  BY <1>1, <1>2, <1>4 DEF FoundOnce
<1>. QED BY <1>3, <1>4 DEF Next, vars, load_lsda, analyze_exceptions

LEMMA FoundCanBeAnalysed == TypeOK /\ FoundOnce => ReportedCanBeAnalysed
<1> SUFFICES ASSUME TypeOK, FoundOnce, functions # None,
                    NEW k \in functions, NEW heap \in Behind,
                    Inside(get_symbol(m_sym[k].name))
             PROVE  Failure(m_sym[k].name, find_typeinfo(m_sym[k].name, heap))
                      \notin {"NoTypeinfoForFunction", "NoThrownTypes"}
  BY DEF ReportedCanBeAnalysed
<1> DEFINE name == m_sym[k].name
<1>1. PICK once \in Behind : check_thrown_functions(name, once)
  BY DEF FoundOnce
<1>2. HasCode(name) /\ DOMAIN find_typeinfo(name, once) # {}
  BY <1>1 DEF check_thrown_functions
<1>3. find_typeinfo(name, heap) = find_typeinfo(name, once)
  BY <1>2, TypedCode, SameTypes DEF HasCode
<1>4. None # "NoTypeinfoForFunction" /\ None # "NoThrownTypes"
  BY ClientAssumption DEF Errors
<1>. QED BY <1>2, <1>3, <1>4 DEF Failure

\* For a function that was reported and lies in .text, the analysis fails for
\* want of an LSDA or of a handler, never of types (validator.cpp:141-149,
\* 201-205).
THEOREM ReportedAreAnalysable == Spec => []ReportedCanBeAnalysed
<1>1. Init => FoundOnce
  BY DEF Init, FoundOnce
<1>. QED BY <1>1, NextFound, FoundCanBeAnalysed, TypeCorrect, PTL DEF Spec
-----------------------------------------------------------------------------
(* An answer uses the LSDA loaded last.                                    *)

RecordsAreCurrent == m_lsda # None => m_records = RecordsOf(m_lsda)

LEMMA NextRecords == RecordsAreCurrent /\ [Next]_vars => RecordsAreCurrent'
<1> SUFFICES ASSUME RecordsAreCurrent, [Next]_vars PROVE RecordsAreCurrent'
  OBVIOUS
<1>1. ASSUME NEW lsda \in Lsdas, load_lsda(lsda) PROVE RecordsAreCurrent'
  BY <1>1 DEF load_lsda, RecordsAreCurrent, RecordsOf
<1>2. CASE UNCHANGED <<m_lsda, m_records>>
  BY <1>2 DEF RecordsAreCurrent, RecordsOf
<1>. QED BY <1>1, <1>2 DEF Next, vars, find_thrown_functions, analyze_exceptions

\* The table is searched from its end, for the indices it has.
Catches(h, types, address) ==
  /\ h.type = "Catch"
  /\ h.type_index <= Len(types)
  /\ types[Len(types) + 1 - h.type_index] = address

\* The places of the handlers of an LSDA for the type at an address.
Handling(lsda, address) ==
  UNION {{<<s, n>> : n \in
            {n \in DOMAIN lsda.scopes[s].handlers :
               LET h == lsda.scopes[s].handlers[n]
               IN  h.type = "Cleanup" \/ Catches(h, lsda.types, address)}} :
         s \in DOMAIN lsda.scopes}

LEMMA HandlesIsExact ==
  ASSUME m_lsda \in Lsdas, NEW h \in Handler, NEW rec, NEW thrown, thrown.value \in Word,
         rec.type_index = h.type_index, rec.kind = h.type
  PROVE  Handles(rec, thrown)
           <=> h.type = "Cleanup" \/ Catches(h, m_lsda.types, thrown.value)
<1> DEFINE types == m_lsda.types
<1>1. /\ types \in Seq(Word) /\ Len(types) \in Nat
      /\ h.type_index \in Int
      /\ h.type = "Catch" <=> h.type_index > 0
      /\ h.type = "Cleanup" <=> h.type_index = 0
      /\ thrown.value \in Word /\ None \notin Word
  BY ClientAssumption DEF Handler
<1>2. CASE h.type = "Catch"
  <2>1. h.type_index \in 1 .. Len(types) <=> h.type_index <= Len(types)
    BY <1>1, <1>2
  <2>2. Len(types) - h.type_index + 1 = Len(types) + 1 - h.type_index
    BY <1>1
  <2>3. resolve_type(h.type_index) = thrown.value
          <=> Catches(h, types, thrown.value)
    BY <1>1, <1>2, <2>1, <2>2 DEF resolve_type, Catches
  <2>. QED BY <1>1, <1>2, <2>3 DEF Handles
<1>3. CASE h.type # "Catch"
  BY <1>1, <1>3 DEF Handles, Catches
<1>. QED BY <1>2, <1>3

LEMMA MatchIsExact ==
  ASSUME m_lsda \in Lsdas, m_records = RecordsOf(m_lsda), NEW thrown, thrown.value \in Word
  PROVE  {p \in DOMAIN m_records : Handles(m_records[p], thrown)}
           = Handling(m_lsda, thrown.value)
<1> DEFINE H(s, n) == m_lsda.scopes[s].handlers[n]
           Good(s, n) == \/ H(s, n).type = "Cleanup"
                         \/ Catches(H(s, n), m_lsda.types, thrown.value)
<1>1. \A p : p \in DOMAIN m_records <=>
               \E s \in DOMAIN m_lsda.scopes :
                 p \in {s} \X DOMAIN m_lsda.scopes[s].handlers
  BY DEF RecordsOf
<1>2. ASSUME NEW s \in DOMAIN m_lsda.scopes, NEW n \in DOMAIN m_lsda.scopes[s].handlers
      PROVE  /\ <<s, n>> \in DOMAIN m_records
             /\ Handles(m_records[<<s, n>>], thrown) <=> Good(s, n)
  <2> DEFINE p == <<s, n>>
  <2>1. p \in DOMAIN m_records /\ p[1] = s /\ p[2] = n
    BY <1>1
  <2>2. H(s, n) \in Handler
    BY <2>1, RecordsType
  <2>3. m_records[p].type_index = H(s, n).type_index /\ m_records[p].kind = H(s, n).type
    BY <2>1 DEF RecordsOf
  <2> HIDE DEF p
  <2>4. Handles(m_records[p], thrown) <=> Good(s, n)
    BY <2>2, <2>3, HandlesIsExact
  <2>. QED BY <2>1, <2>4 DEF p
<1>3. \A p \in DOMAIN m_records :
        \E s \in DOMAIN m_lsda.scopes :
          \E n \in DOMAIN m_lsda.scopes[s].handlers : p = <<s, n>>
  BY <1>1
<1> HIDE DEF Good
<1>4. {p \in DOMAIN m_records : Handles(m_records[p], thrown)}
        = UNION {{<<s, n>> : n \in {n \in DOMAIN m_lsda.scopes[s].handlers : Good(s, n)}} :
                 s \in DOMAIN m_lsda.scopes}
  BY <1>2, <1>3
<1>. QED BY <1>4 DEF Good, Handling

\* An analysis that returns an answer has an LSDA and a type with a handler.
LEMMA AnswerNeeds ==
  ASSUME NEW name, NEW thrown, Failure(name, thrown) = None
  PROVE  m_lsda # None /\ HasCode(name) /\ ~NoHandlers(Matches(thrown))
<1>1. \A e \in Errors : e # None
  BY ClientAssumption
<1>. QED BY <1>1 DEF Failure, Errors

\* So no type has a match exactly when the LSDA has no handler for it.
LEMMA NoneIsHandled ==
  ASSUME m_lsda \in Lsdas, m_records = RecordsOf(m_lsda),
         NEW thrown, \A i \in DOMAIN thrown : thrown[i].value \in Word
  PROVE  NoHandlers(Matches(thrown))
           <=> \A i \in DOMAIN thrown : Handling(m_lsda, thrown[i].value) = {}
<1>1. ASSUME NEW i \in DOMAIN thrown
      PROVE  Matches(thrown)[i].handlers = Handling(m_lsda, thrown[i].value)
  <2>1. PICK type : type = thrown[i]
    OBVIOUS
  <2>2. {p \in DOMAIN m_records : Handles(m_records[p], type)} = Handling(m_lsda, type.value)
    BY <2>1, MatchIsExact
  <2>. QED BY <2>1, <2>2 DEF Matches
<1>2. DOMAIN Matches(thrown) = DOMAIN thrown
  BY DEF Matches
<1>. QED BY <1>1, <1>2 DEF NoHandlers

\* An analysis fails for want of code, of types, or of handlers.
LEMMA FailureNeeds ==
  ASSUME NEW name, NEW thrown, m_lsda # None, HasCode(name), Failure(name, thrown) # None
  PROVE  DOMAIN thrown = {} \/ NoHandlers(Matches(thrown))
BY DEF Failure

\* MatchesAreExact, with Handling for its set of places.
Exact ==
  (result # None /\ result.error = None) =>
    \A j \in DOMAIN result.matches :
      result.matches[j].handlers = Handling(m_lsda, result.matches[j].thrown.value)

LEMMA ExactIsExact == MatchesAreExact <=> Exact
BY DEF MatchesAreExact, Exact, Handling, Catches

LEMMA NextMatches ==
  TypeOK /\ RecordsAreCurrent /\ MatchesAreExact /\ [Next]_vars => MatchesAreExact'
<1> SUFFICES ASSUME TypeOK, RecordsAreCurrent, MatchesAreExact, [Next]_vars
             PROVE  MatchesAreExact'
  OBVIOUS
<1>1. ASSUME NEW lsda \in Lsdas, load_lsda(lsda) PROVE MatchesAreExact'
  BY <1>1 DEF load_lsda, MatchesAreExact
<1>2. ASSUME NEW name \in Names, analyze_exceptions(name) PROVE MatchesAreExact'
  <2>1. PICK heap \in Behind :
          LET thrown == find_typeinfo(name, heap)
              error  == Failure(name, thrown)
          IN  result' = [name    |-> name,
                         error   |-> error,
                         matches |-> IF error = None THEN Matches(thrown) ELSE <<>>]
    BY <1>2 DEF analyze_exceptions
  <2> DEFINE thrown == find_typeinfo(name, heap)
  <2>2. result'.error = Failure(name, thrown)
    BY <2>1
  <2>3. SUFFICES ASSUME result'.error = None PROVE MatchesAreExact'
    BY DEF MatchesAreExact
  <2>4. result'.matches = Matches(thrown)
    BY <2>1, <2>3
  <2>5. m_lsda \in Lsdas /\ m_records = RecordsOf(m_lsda) /\ m_lsda' = m_lsda
    BY <1>2, <2>2, <2>3, AnswerNeeds DEF TypeOK, RecordsAreCurrent, analyze_exceptions
  <2>6. \A i \in DOMAIN thrown : thrown[i] \in Symbol
    BY ThrownType
  <2> HIDE DEF thrown
  <2>7. /\ DOMAIN result'.matches = DOMAIN thrown
        /\ \A i \in DOMAIN thrown :
             /\ result'.matches[i].thrown = thrown[i]
             /\ result'.matches[i].handlers
                  = {p \in DOMAIN m_records : Handles(m_records[p], thrown[i])}
    BY <2>4 DEF Matches
  <2>8. ASSUME NEW j \in DOMAIN result'.matches
        PROVE  result'.matches[j].handlers
                 = Handling(m_lsda', result'.matches[j].thrown.value)
    <3>1. {p \in DOMAIN m_records : Handles(m_records[p], thrown[j])}
            = Handling(m_lsda, thrown[j].value)
      BY <2>5, <2>6, <2>7, MatchIsExact DEF Symbol
    <3>. QED BY <2>5, <2>7, <3>1
  <2>9. Exact'
    BY <2>8 DEF Exact
  <2>10. MatchesAreExact' <=> Exact'
    BY ExactIsExact, PTL
  <2>. QED BY <2>9, <2>10
<1>3. CASE UNCHANGED <<m_lsda, result>>
  BY <1>3 DEF MatchesAreExact
<1>. QED BY <1>1, <1>2, <1>3 DEF Next, vars, find_thrown_functions

\* The handlers of an answer are exactly the cleanups and the catches of the
\* type thrown in the LSDA loaded now (validator.cpp:107-132, 158-185).
THEOREM MatchesUseTheLoadedLsda == Spec => []MatchesAreExact
<1>1. Init => RecordsAreCurrent /\ MatchesAreExact
  BY DEF Init, RecordsAreCurrent, MatchesAreExact
<1>. QED BY <1>1, NextRecords, NextMatches, TypeCorrect, PTL DEF Spec
-----------------------------------------------------------------------------
(* What the errors mean.                                                   *)

\* The meaning of one result of one analysis.
Means(r) ==
  LET k == get_symbol(r.name)
  IN  /\ r.error = "NoLsdaLoaded" <=> m_lsda = None
      /\ r.error = "NoTypeinfoForFunction" => ~HasCode(r.name)
      /\ r.error = "NoThrownTypes" => HasCode(r.name)
      /\ r.error \in {"NoThrownTypes", "NoCatchRecords"} /\ Inside(k) =>
           \A heap \in Behind, i \in Windows(k), a \in DOMAIN rtti_sym :
             Target(k, i, heap) = a =>
               /\ r.error = "NoCatchRecords"
               /\ \A p \in DOMAIN m_records : ~Handles(m_records[p], rtti_sym[a])
      /\ r.error = None => \E i \in DOMAIN r.matches : r.matches[i].handlers # {}
      /\ r.error # "TypeResolveFailed"
      /\ r.error = None =>
           \A i \in DOMAIN r.matches : \A p \in r.matches[i].handlers :
             m_records[p].type_index > 0 => resolve_type(m_records[p].type_index) # None

LEMMA ErrorsMean == ErrorsMeanWhatTheySay <=> (result # None => Means(result))
BY DEF ErrorsMeanWhatTheySay, Means

LEMMA AnalysisMeans ==
  ASSUME TypeOK, NEW name, NEW heap \in Behind,
         NEW r, r.name = name, r.error = Failure(name, find_typeinfo(name, heap)),
         r.error = None => r.matches = Matches(find_typeinfo(name, heap))
  PROVE  Means(r)
<1> DEFINE thrown == find_typeinfo(name, heap)
           k == get_symbol(name)
<1>1. /\ None # "NoLsdaLoaded" /\ None # "NoTypeinfoForFunction"
      /\ None # "NoThrownTypes" /\ None # "NoCatchRecords" /\ None # "TypeResolveFailed"
  BY ClientAssumption DEF Errors
<1>2. /\ r.error = "NoLsdaLoaded" <=> m_lsda = None
      /\ r.error = "NoTypeinfoForFunction" => ~HasCode(name)
      /\ r.error = "NoThrownTypes" => HasCode(name) /\ DOMAIN thrown = {}
      /\ r.error = "NoCatchRecords" => HasCode(name) /\ NoHandlers(Matches(thrown))
      /\ r.error = None => ~NoHandlers(Matches(thrown))
      /\ r.error # "TypeResolveFailed"
  <2> HIDE DEF thrown
  <2>1. r.error = Failure(name, thrown)
    BY DEF thrown
  <2>. QED BY <1>1, <2>1 DEF Failure
<1>3. ASSUME r.error \in {"NoThrownTypes", "NoCatchRecords"}, Inside(k),
             NEW other \in Behind, NEW i \in Windows(k), NEW a \in DOMAIN rtti_sym,
             Target(k, i, other) = a
      PROVE  /\ r.error = "NoCatchRecords"
             /\ \A p \in DOMAIN m_records : ~Handles(m_records[p], rtti_sym[a])
  <2>1. i \in DOMAIN find_typeinfo(name, other)
        /\ find_typeinfo(name, other)[i] = rtti_sym[a]
    BY <1>3 DEF find_typeinfo
  <2>2. find_typeinfo(name, other) = thrown
    BY <1>2, <1>3, TypedCode, SameTypes DEF HasCode
  <2>3. i \in DOMAIN thrown /\ thrown[i] = rtti_sym[a]
    BY <2>1, <2>2
  <2> HIDE DEF thrown
  <2>4. r.error = "NoCatchRecords" /\ NoHandlers(Matches(thrown))
    BY <1>2, <1>3, <2>3
  <2>5. {p \in DOMAIN m_records : Handles(m_records[p], thrown[i])} = {}
    BY <2>3, <2>4 DEF NoHandlers, Matches
  <2>. QED BY <2>3, <2>4, <2>5
<1>4. r.error = None => \E i \in DOMAIN r.matches : r.matches[i].handlers # {}
  <2> HIDE DEF thrown
  <2>1. r.error = None => r.matches = Matches(thrown)
    BY DEF thrown
  <2>. QED BY <1>2, <2>1 DEF NoHandlers
<1>5. ASSUME r.error = None, NEW i \in DOMAIN r.matches, NEW p \in r.matches[i].handlers,
             m_records[p].type_index > 0
      PROVE  resolve_type(m_records[p].type_index) # None
  <2>1. \A n \in DOMAIN thrown : thrown[n].value \in Word
    BY ThrownType DEF Symbol
  <2> HIDE DEF thrown
  <2>2. r.matches = Matches(thrown)
    BY <1>5 DEF thrown
  <2>3. i \in DOMAIN thrown /\ Handles(m_records[p], thrown[i])
    BY <1>5, <2>2 DEF Matches
  <2>4. m_records[p].type_index # 0
    BY <1>5
  <2>5. resolve_type(m_records[p].type_index) = thrown[i].value
    BY <2>3, <2>4 DEF Handles
  <2>. QED BY <2>1, <2>3, <2>5, ClientAssumption
<1>. QED BY <1>2, <1>3, <1>4, <1>5 DEF Means

LEMMA NextErrors ==
  TypeOK /\ ErrorsMeanWhatTheySay /\ [Next]_vars => ErrorsMeanWhatTheySay'
<1> SUFFICES ASSUME TypeOK, ErrorsMeanWhatTheySay, [Next]_vars
             PROVE  ErrorsMeanWhatTheySay'
  OBVIOUS
<1>1. ASSUME UNCHANGED <<m_lsda, m_records>>, NEW r, Means(r), result' = r
      PROVE  ErrorsMeanWhatTheySay'
  <2>1. rtti_sym' = rtti_sym /\ m_lsda' = m_lsda /\ m_records' = m_records
    BY <1>1, CodeIsFixed DEF code
  <2>2. \A type_index : resolve_type(type_index)' = resolve_type(type_index)
    BY <2>1 DEF resolve_type
  <2>3. \A rec, thrown : Handles(rec, thrown)' = Handles(rec, thrown)
    BY <2>1, <2>2 DEF Handles
  <2>4. Means(r)'
    BY <1>1, <2>1, <2>2, <2>3, CodeIsFixed, CodeReadsTheSame DEF Means
  <2>. QED BY <1>1, <2>4 DEF Means, ErrorsMeanWhatTheySay
<1>2. ASSUME NEW lsda \in Lsdas, load_lsda(lsda) PROVE ErrorsMeanWhatTheySay'
  BY <1>2 DEF load_lsda, ErrorsMeanWhatTheySay
<1>3. ASSUME NEW name \in Names, analyze_exceptions(name)
      PROVE  ErrorsMeanWhatTheySay'
  <2>1. PICK heap \in Behind :
          LET thrown == find_typeinfo(name, heap)
              error  == Failure(name, thrown)
          IN  result' = [name    |-> name,
                         error   |-> error,
                         matches |-> IF error = None THEN Matches(thrown) ELSE <<>>]
    BY <1>3 DEF analyze_exceptions
  <2>2. PICK r : r = result'
    OBVIOUS
  <2>3. /\ r.name = name /\ r.error = Failure(name, find_typeinfo(name, heap))
        /\ r.error = None => r.matches = Matches(find_typeinfo(name, heap))
    BY <2>1, <2>2
  <2>4. Means(r)
    BY <2>3, AnalysisMeans
  <2>. QED BY <1>1, <1>3, <2>2, <2>4 DEF analyze_exceptions
<1>4. CASE UNCHANGED <<m_lsda, m_records, result>>
  <2>1. PICK r : r = result
    OBVIOUS
  <2>2. CASE result = None
    BY <1>4, <2>2 DEF ErrorsMeanWhatTheySay
  <2>3. CASE result # None
    <3>1. Means(r)
      BY <2>1, <2>3, ErrorsMean
    <3>. QED BY <1>1, <1>4, <2>1, <3>1
  <2>. QED BY <2>2, <2>3
<1>. QED BY <1>2, <1>3, <1>4 DEF Next, vars, find_thrown_functions

\* Every error that analyze_exceptions returns has the reason its comment gives, and
\* an answer has a handler.  It never returns TypeResolveFailed, and no handler of
\* an answer has an index that does not resolve (validator.hpp:26-33,
\* validator.cpp:134-189).
THEOREM ErrorsAreTrue == Spec => []ErrorsMeanWhatTheySay
<1>1. Init => ErrorsMeanWhatTheySay
  BY DEF Init, ErrorsMeanWhatTheySay
<1>. QED BY <1>1, NextErrors, TypeCorrect, PTL DEF Spec
=============================================================================
