----------------------------- MODULE SafeProofs -----------------------------
(***************************************************************************)
(* What the program keeps, whatever files and arguments it is given: its   *)
(* types, with all that LsdaParser keeps by itself; the sections it hands  *)
(* out; and the descriptor of the file.                                    *)
(*                                                                         *)
(* What is proved of LsdaParser alone is used here for the LsdaParser of   *)
(* the program: P is what that proof is about, for every vector.           *)
(* W does the same for the Validator.                                      *)
(***************************************************************************)
EXTENDS Safe, NatLemmas

P == INSTANCE ScopeTableProofs
       WITH pc <- lsda_pc, Inputs <- {d \in Seq(0 .. 255) : Len(d) <= MaxHandlers}

W == INSTANCE ValidatorProofs
       WITH Elfs <- {}, Lsdas <- [scopes : Seq(V!Scope), types : Seq(V!Word)]

-----------------------------------------------------------------------------
(* L and P are instances of one module: their operators agree.             *)

LEMMA SameReadings ==
  /\ \A buffer, i : L!read8(buffer, i) = P!read8(buffer, i)
  /\ \A buffer, i : L!read_uleb128(buffer, i) = P!read_uleb128(buffer, i)
  /\ \A buffer, i : L!read_sleb128(buffer, i) = P!read_sleb128(buffer, i)
  /\ \A buffer, i, enc, pcrel : L!r_encode(buffer, i, enc, pcrel) = P!r_encode(buffer, i, enc, pcrel)
<1>1. \A v, n : L!Got(v, n) = P!Got(v, n)
  BY DEF L!Got, P!Got
<1>2. \A buffer : L!Threw(buffer) = P!Threw(buffer)
  BY DEF L!Threw, P!Threw
<1>3. \A buffer, i, e, base, fill :
        L!LittleEndian(buffer, i, e, base, fill) = P!LittleEndian(buffer, i, e, base, fill)
  BY DEF L!LittleEndian, P!LittleEndian
<1>4. \A buffer, i, n, signed : L!FixedWidth(buffer, i, n, signed) = P!FixedWidth(buffer, i, n, signed)
  BY <1>1, <1>2, <1>3 DEF L!FixedWidth, P!FixedWidth, L!Ones, P!Ones
<1>5. \A buffer, i : L!LebEnd(buffer, i) = P!LebEnd(buffer, i)
  BY DEF L!LebEnd, P!LebEnd, L!Min, P!Min
<1>6. \A buffer, i : L!LebOverflow(buffer, i) = P!LebOverflow(buffer, i)
  BY DEF L!LebOverflow, P!LebOverflow
<1>7. \A buffer, i, e : L!SignFill(buffer, i, e) = P!SignFill(buffer, i, e)
  BY DEF L!SignFill, P!SignFill, L!Ones, P!Ones
<1>8. \A buffer, i : L!read8(buffer, i) = P!read8(buffer, i)
  BY <1>1, <1>2 DEF L!read8, P!read8
<1>9. \A buffer, i : L!read_uleb128(buffer, i) = P!read_uleb128(buffer, i)
  BY <1>1, <1>2, <1>3, <1>5, <1>6 DEF L!read_uleb128, P!read_uleb128
<1>10. \A buffer, i : L!read_sleb128(buffer, i) = P!read_sleb128(buffer, i)
  BY <1>1, <1>2, <1>3, <1>5, <1>6, <1>7 DEF L!read_sleb128, P!read_sleb128
<1>11. ASSUME NEW buffer, NEW i, NEW enc, NEW pcrel
       PROVE  L!r_encode(buffer, i, enc, pcrel) = P!r_encode(buffer, i, enc, pcrel)
  <2> DEFINE Value(raw) == IF enc = 255 THEN [ok |-> TRUE, val |-> 0, next |-> i]
                           ELSE [raw EXCEPT !.val = IF (enc \div 16) % 8 = 1
                                                    THEN (@ + pcrel) % WordSize ELSE @]
             Raw(fixed8, fixed2, fixed4, signed4, uleb, sleb, none) ==
               CASE enc % 16 \in {0, 4, 12} -> fixed8
                 [] enc % 16 = 1            -> uleb
                 [] enc % 16 = 2            -> fixed2
                 [] enc % 16 = 3            -> fixed4
                 [] enc % 16 = 9            -> sleb
                 [] enc % 16 = 11           -> signed4
                 [] OTHER                   -> none
             RawL == Raw(L!FixedWidth(buffer, i, Bytes8, FALSE), L!FixedWidth(buffer, i, Bytes2, FALSE),
                         L!FixedWidth(buffer, i, Bytes4, FALSE), L!FixedWidth(buffer, i, Bytes4, TRUE),
                         L!read_uleb128(buffer, i), L!read_sleb128(buffer, i), L!Threw(buffer))
             RawP == Raw(P!FixedWidth(buffer, i, Bytes8, FALSE), P!FixedWidth(buffer, i, Bytes2, FALSE),
                         P!FixedWidth(buffer, i, Bytes4, FALSE), P!FixedWidth(buffer, i, Bytes4, TRUE),
                         P!read_uleb128(buffer, i), P!read_sleb128(buffer, i), P!Threw(buffer))
  <2>1. RawL = RawP
    BY <1>2, <1>4, <1>9, <1>10
  <2>2. L!r_encode(buffer, i, enc, pcrel) = Value(RawL)
    BY Zenon DEF L!r_encode, L!Omit, L!Form, L!IsPcRel, L!Got
  <2>3. P!r_encode(buffer, i, enc, pcrel) = Value(RawP)
    BY Zenon DEF P!r_encode, P!Omit, P!Form, P!IsPcRel, P!Got
  <2> HIDE DEF RawL, RawP, Value
  <2> QED BY <2>1, <2>2, <2>3
<1> QED BY <1>8, <1>9, <1>10, <1>11

LEMMA SameParser == [L!Next]_L!vars <=> [P!Next]_P!vars
<1> USE DEF L!tables, P!tables, L!cursor, P!cursor, L!walk, P!walk, L!Throw, P!Throw, L!Omit, P!Omit
<1>1. L!ParseHeader <=> P!ParseHeader
  <2>1. L!Header = P!Header
    BY SameReadings, Zenon DEF L!Header, P!Header, L!Got, P!Got
  <2> QED BY <2>1 DEF L!ParseHeader, P!ParseHeader
<1>2. L!ParseCallSiteDescriptor <=> P!ParseCallSiteDescriptor
  BY SameReadings, Zenon DEF L!ParseCallSiteDescriptor, P!ParseCallSiteDescriptor
<1>3. L!ParseCallSite <=> P!ParseCallSite
  <2>1. \A i : L!CallSiteAt(i) = P!CallSiteAt(i)
    BY SameReadings, Zenon DEF L!CallSiteAt, P!CallSiteAt, L!Signed, P!Signed
  <2> QED BY <2>1 DEF L!ParseCallSite, P!ParseCallSite
<1>4. L!ActionsLimit = P!ActionsLimit
  BY DEF L!ActionsLimit, P!ActionsLimit, L!Min, P!Min
<1>5. L!EndCallSites <=> P!EndCallSites
  BY <1>4 DEF L!EndCallSites, P!EndCallSites
<1>6. L!ParseAction <=> P!ParseAction
  <2>1. \A i : L!ActionAt(i) = P!ActionAt(i)
    BY SameReadings, <1>4, Zenon DEF L!ActionAt, P!ActionAt, L!Signed, P!Signed, L!Got, P!Got
  <2> QED BY <2>1, <1>4 DEF L!ParseAction, P!ParseAction
<1>7. \A offset : L!ActionIndexAt(offset) = P!ActionIndexAt(offset)
  BY DEF L!ActionIndexAt, P!ActionIndexAt, L!Min, P!Min
<1>8. L!EndActions <=> P!EndActions
  <2>1. \A a : L!NextIndex(a) = P!NextIndex(a)
    BY <1>7 DEF L!NextIndex, P!NextIndex
  <2> QED BY <2>1, <1>4 DEF L!EndActions, P!EndActions
<1>9. (L!ParseType <=> P!ParseType) /\ (L!EndTypes <=> P!EndTypes)
  BY SameReadings, Zenon DEF L!ParseType, P!ParseType, L!EndTypes, P!EndTypes
<1>10. L!build_scopes <=> P!build_scopes
  <2>1. \A cs : L!FirstAction(cs) = P!FirstAction(cs)
    BY <1>7 DEF L!FirstAction, P!FirstAction
  <2>2. \A type, cs : L!Handler(type, cs) = P!Handler(type, cs)
    BY DEF L!Handler, P!Handler, L!Kind, P!Kind
  <2>3. \A cs, hs : L!ScopeOf(cs, hs) = P!ScopeOf(cs, hs)
    BY DEF L!ScopeOf, P!ScopeOf
  <2>4. (L!SkipCallSite <=> P!SkipCallSite) /\ (L!EndScopes <=> P!EndScopes)
    BY DEF L!SkipCallSite, P!SkipCallSite, L!EndScopes, P!EndScopes
  <2>5. L!CleanupScope <=> P!CleanupScope
    BY <2>1, <2>2, <2>3, Zenon DEF L!CleanupScope, P!CleanupScope
  <2>6. L!BeginChain <=> P!BeginChain
    BY <2>1 DEF L!BeginChain, P!BeginChain
  <2>7. L!FollowChain <=> P!FollowChain
    BY <2>2, Zenon DEF L!FollowChain, P!FollowChain
  <2>8. L!EndChain <=> P!EndChain
    BY <2>3, Zenon DEF L!EndChain, P!EndChain
  <2> QED BY <2>4, <2>5, <2>6, <2>7, <2>8 DEF L!build_scopes, P!build_scopes
<1>11. L!Next <=> P!Next
  BY <1>1, <1>2, <1>3, <1>5, <1>6, <1>8, <1>9, <1>10 DEF L!Next, P!Next
<1> QED BY <1>11 DEF L!vars, P!vars

LEMMA SameInvariants ==
  /\ L!TypeOK <=> P!TypeOK
  /\ L!TablesInOrder <=> P!TablesInOrder
  /\ L!ActionsTile <=> P!ActionsTile
  /\ L!LinksAreExact <=> P!LinksAreExact
  /\ L!BackwardLinksDescend <=> P!BackwardLinksDescend
  /\ L!ScopesMirrorCallSites <=> P!ScopesMirrorCallSites
<1> USE DEF L!Resolved, P!Resolved
<1>1. L!ActionsLimit = P!ActionsLimit
  BY DEF L!ActionsLimit, P!ActionsLimit, L!Min, P!Min
<1>2. L!TypeOK <=> P!TypeOK
  BY DEF L!TypeOK, P!TypeOK, L!Byte, P!Byte, L!Word, P!Word, L!CallSite, P!CallSite, L!Action,
         P!Action, L!Scope, P!Scope, L!HandlerRecord, P!HandlerRecord, L!Kind, P!Kind
<1>3. L!TablesInOrder <=> P!TablesInOrder
  BY <1>1 DEF L!TablesInOrder, P!TablesInOrder, L!Omit, P!Omit
<1>4. L!ActionsTile <=> P!ActionsTile
  <2>1. L!ActionsEnd = P!ActionsEnd
    BY <1>1 DEF L!ActionsEnd, P!ActionsEnd
  <2>2. \A k : L!EndOf(k) = P!EndOf(k)
    BY <2>1 DEF L!EndOf, P!EndOf
  <2> QED BY <1>1, <2>1, <2>2, Zenon DEF L!ActionsTile, P!ActionsTile
<1>5. L!LinksAreExact <=> P!LinksAreExact
  BY DEF L!LinksAreExact, P!LinksAreExact
<1>6. L!BackwardLinksDescend <=> P!BackwardLinksDescend
  BY DEF L!BackwardLinksDescend, P!BackwardLinksDescend
<1>7. L!ScopesMirrorCallSites <=> P!ScopesMirrorCallSites
  <2>1. \A n : L!PadsBefore(n) = P!PadsBefore(n)
    BY DEF L!PadsBefore, P!PadsBefore, L!Cardinality, P!Cardinality
  <2> QED BY <2>1, Zenon DEF L!ScopesMirrorCallSites, P!ScopesMirrorCallSites
<1> QED BY <1>2, <1>3, <1>4, <1>5, <1>6, <1>7

LEMMA ParserAssumptions == P!WordAssumption /\ P!InputsAssumption
<1>1. P!WordAssumption
  BY ProgramAssumption DEF L!WordAssumption, P!WordAssumption
<1>2. P!InputsAssumption
  BY ProgramAssumption DEF P!InputsAssumption, P!Byte
<1> QED BY <1>1, <1>2

\* A step of the program's LsdaParser keeps what a step of LsdaParser keeps.
LEMMA ParserStep == P!WalkInv /\ [L!Next]_L!vars => P!WalkInv'
BY ParserAssumptions, SameParser, P!WalkStep

LEMMA ParserInit == P!Init => P!WalkInv
BY ParserAssumptions, P!WalkInit

-----------------------------------------------------------------------------
(* The sections.                                                           *)

Named(k, name) == Readable(k) /\ m_elf.sections[k].name = name

\* What a name of m_sections stands for: a section of that name, or, when the
\* names are not known, any section, under a string that is the name of none.
Holds(k, name) ==
  /\ HasData(k)
  /\ m_sections[name] = Contents(m_elf.sections[k])
  /\ IF NamesKnown THEN name = m_elf.sections[k].name ELSE name \in OtherStrings

\* When they are known the first section of a name has it.
FirstHolds ==
  /\ \A k \in 1 .. scn : Readable(k) => m_elf.sections[k].name \in DOMAIN m_sections
  /\ \A name \in DOMAIN m_sections :
       \E k \in 1 .. scn :
         /\ Named(k, name)
         /\ m_sections[name] = Contents(m_elf.sections[k])
         /\ \A j \in 1 .. scn : Named(j, name) => k <= j

SectionsInv ==
  /\ file \in DOMAIN Files /\ m_elf = Files[file]
  /\ scn \in 0 .. Len(m_elf.sections)
  /\ \A name \in DOMAIN m_sections : \E k \in 1 .. scn : Holds(k, name)
  /\ NamesKnown => FirstHolds
  /\ ~m_elf_header_loaded => m_program_header = <<>>
  /\ pc \in {"args", "open"} => scn = 0 /\ m_sections = <<>> /\ m_program_header = <<>>

LEMMA SectionsInit == SafeInit => SectionsInv
<1> SUFFICES ASSUME SafeInit PROVE SectionsInv
  OBVIOUS
<1>1. DOMAIN m_sections = {} /\ scn = 0 /\ file \in DOMAIN Files /\ m_elf = Files[file]
  BY DEF SafeInit, ElfInit
<1>2. Len(m_elf.sections) \in Nat
  BY <1>1, FilesAssumption
<1> QED BY <1>1, <1>2 DEF SafeInit, ElfInit, SectionsInv, FirstHolds

LEMMA SectionsUnchanged ==
  /\ SectionsInv
  /\ UNCHANGED <<file, m_elf, scn, m_sections, m_elf_header_loaded>>
  /\ m_program_header' # m_program_header => m_elf_header_loaded /\ pc' \notin {"args", "open"}
  /\ pc' \in {"args", "open"} => pc \in {"args", "open"}
  => SectionsInv'
BY DEF SectionsInv, FirstHolds, Holds, Named, Readable, HasData, NamesKnown

LEMMA SectionLoaded == SectionsInv /\ LoadSection => SectionsInv'
<1> SUFFICES ASSUME SectionsInv, LoadSection PROVE SectionsInv'
  OBVIOUS
<1> DEFINE section == m_elf.sections[scn + 1]
<1>1. /\ scn \in Nat /\ scn' = scn + 1 /\ scn + 1 \in 1 .. Len(m_elf.sections)
      /\ Len(m_elf.sections) \in Nat /\ IsSection(section)
      /\ UNCHANGED <<file, m_elf, pc, m_elf_header_loaded, m_program_header>> /\ pc = "sections"
  <2>1. Len(m_elf.sections) \in Nat /\ DOMAIN m_elf.sections = 1 .. Len(m_elf.sections)
        /\ \A k \in DOMAIN m_elf.sections : IsSection(m_elf.sections[k])
    BY FilesAssumption DEF SectionsInv
  <2> QED BY <2>1 DEF SectionsInv, LoadSection
<1>2. PICK name \in NamesOf(section) :
        m_sections' = IF section.shdr /\ name # None /\ section.getdata
                      THEN Emplaced(section, name) ELSE m_sections
  BY DEF LoadSection
<1>3. /\ HasData(scn + 1) <=> section.shdr /\ section.getdata
      /\ Readable(scn + 1) <=> HasData(scn + 1) /\ section.name # None
  BY DEF HasData, Readable
<1>4. /\ NamesKnown' <=> NamesKnown
      /\ \A k, n : /\ Readable(k)' <=> Readable(k)
                   /\ Named(k, n)' <=> Named(k, n)
                   /\ Holds(k, n)' <=>
                        /\ HasData(k)
                        /\ m_sections'[n] = Contents(m_elf.sections[k])
                        /\ IF NamesKnown THEN n = m_elf.sections[k].name ELSE n \in OtherStrings
  BY <1>1 DEF HasData, Readable, Named, Holds, Contents, NamesKnown
<1>5. IF NamesKnown THEN name = section.name ELSE name \in OtherStrings \cup {None}
  BY <1>2 DEF NamesOf
<1>6. CASE m_sections' = m_sections /\ (NamesKnown => ~Readable(scn + 1))
  <2>1. \A n \in DOMAIN m_sections' : \E k \in 1 .. scn' : Holds(k, n)'
    <3> SUFFICES ASSUME NEW n \in DOMAIN m_sections PROVE \E k \in 1 .. scn' : Holds(k, n)'
      BY <1>6
    <3>1. PICK k \in 1 .. scn : Holds(k, n)
      BY DEF SectionsInv
    <3>2. Holds(k, n)'
      BY <1>4, <1>6, <3>1 DEF Holds
    <3> QED BY <1>1, <3>1, <3>2
  <2>2. NamesKnown => FirstHolds'
    <3> SUFFICES ASSUME NamesKnown PROVE FirstHolds'
      OBVIOUS
    <3>1. FirstHolds
      BY DEF SectionsInv
    <3>2. \A k \in 1 .. scn + 1 : Readable(k) => k \in 1 .. scn
      BY <1>1, <1>6
    <3>3. \A n, j : j \in 1 .. scn + 1 /\ Named(j, n) => j \in 1 .. scn
      BY <3>2 DEF Named
    <3>4. \A k \in 1 .. scn' : Readable(k)' => m_elf'.sections[k].name \in DOMAIN m_sections'
      BY <1>1, <1>4, <1>6, <3>1, <3>2 DEF FirstHolds
    <3>5. \A n \in DOMAIN m_sections' :
            \E k \in 1 .. scn' :
              /\ Named(k, n)'
              /\ m_sections'[n] = Contents(m_elf'.sections[k])
              /\ \A j \in 1 .. scn' : Named(j, n)' => k <= j
      BY <1>1, <1>4, <1>6, <3>1, <3>3 DEF FirstHolds
    <3> QED BY <3>4, <3>5 DEF FirstHolds
  <2> QED BY <1>1, <1>4, <2>1, <2>2 DEF SectionsInv
<1>7. CASE HasData(scn + 1) /\ name # None /\ m_sections' = Emplaced(section, name)
  <2>1. /\ DOMAIN m_sections' = DOMAIN m_sections \cup {name}
        /\ \A n \in DOMAIN m_sections' :
             m_sections'[n] = IF n \in DOMAIN m_sections THEN m_sections[n] ELSE Contents(section)
    BY <1>7 DEF Emplaced
  <2>2. IF NamesKnown THEN name = section.name ELSE name \in OtherStrings
    BY <1>5, <1>7
  <2>3. \A n \in DOMAIN m_sections' : \E k \in 1 .. scn' : Holds(k, n)'
    <3> SUFFICES ASSUME NEW n \in DOMAIN m_sections'
                 PROVE  \E k \in 1 .. scn' : Holds(k, n)'
      OBVIOUS
    <3>1. CASE n \in DOMAIN m_sections
      <4>1. PICK k \in 1 .. scn : Holds(k, n)
        BY <3>1 DEF SectionsInv
      <4>2. k \in 1 .. scn' /\ m_sections'[n] = m_sections[n]
        BY <1>1, <2>1, <3>1
      <4>3. Holds(k, n)'
        BY <1>4, <4>1, <4>2 DEF Holds
      <4> QED BY <4>2, <4>3
    <3>2. CASE n \notin DOMAIN m_sections
      <4>1. n = name /\ m_sections'[n] = Contents(section)
        BY <2>1, <3>2
      <4>2. PICK last : last = scn + 1
        OBVIOUS
      <4>3. Holds(last, n)'
        BY <1>1, <1>4, <1>7, <2>2, <4>1, <4>2
      <4> QED BY <1>1, <4>2, <4>3
    <3> QED BY <3>1, <3>2
  <2>4. NamesKnown => FirstHolds'
    <3> SUFFICES ASSUME NamesKnown PROVE FirstHolds'
      OBVIOUS
    <3>1. FirstHolds /\ name = section.name
      BY <2>2 DEF SectionsInv
    <3>2. \A k \in 1 .. scn' : Readable(k)' => m_elf'.sections[k].name \in DOMAIN m_sections'
      <4> SUFFICES ASSUME NEW k \in 1 .. scn + 1, Readable(k)
                   PROVE  m_elf.sections[k].name \in DOMAIN m_sections \cup {name}
        BY <1>1, <1>4, <2>1
      <4>1. k \in 1 .. scn \/ k = scn + 1
        BY <1>1
      <4> QED BY <3>1, <4>1 DEF FirstHolds
    <3>3. ASSUME NEW n \in DOMAIN m_sections'
          PROVE  \E k \in 1 .. scn' :
                   /\ Named(k, n)'
                   /\ m_sections'[n] = Contents(m_elf'.sections[k])
                   /\ \A j \in 1 .. scn' : Named(j, n)' => k <= j
      <4>1. CASE n \in DOMAIN m_sections
        <5>1. PICK k \in 1 .. scn : /\ Named(k, n)
                                    /\ m_sections[n] = Contents(m_elf.sections[k])
                                    /\ \A j \in 1 .. scn : Named(j, n) => k <= j
          BY <3>1, <4>1 DEF FirstHolds
        <5>2. \A j \in 1 .. scn + 1 : Named(j, n) => k <= j
          BY <1>1, <5>1
        <5> QED BY <1>1, <1>4, <2>1, <4>1, <5>1, <5>2
      <4>2. CASE n \notin DOMAIN m_sections
        <5>1. n = name /\ m_sections'[n] = Contents(section)
          BY <2>1, <4>2
        <5>2. \A j \in 1 .. scn : ~Named(j, n)
          BY <3>1, <4>2 DEF FirstHolds, Named
        <5>3. Named(scn + 1, n)
          BY <1>3, <1>7, <3>1, <5>1 DEF Named
        <5>4. \A j \in 1 .. scn + 1 : Named(j, n) => scn + 1 <= j
          BY <1>1, <5>2
        <5> QED BY <1>1, <1>4, <5>1, <5>3, <5>4
      <4> QED BY <4>1, <4>2
    <3> QED BY <3>2, <3>3 DEF FirstHolds
  <2> QED BY <1>1, <1>4, <2>3, <2>4 DEF SectionsInv
<1> QED BY <1>2, <1>3, <1>5, <1>6, <1>7

\* The steps of main leave the ElfParser alone, but for closing the file.
LEMMA MainLeavesElf ==
  ASSUME [SafeNext]_vars, ~ConstructElf
  PROVE  /\ UNCHANGED <<file, m_elf, m_elf_header_loaded, scn, m_sections, m_program_header,
                        m_symbol_table>>
         /\ \/ UNCHANGED <<pc, status, m_file>>
            \/ /\ pc' = "ended" /\ pc # "ended"
               /\ \/ /\ status' = "failure" \/ (status' = "success" /\ pc = "catch_sites")
                     /\ m_file' = IF m_file = "open" THEN "closed" ELSE m_file
                  \/ /\ pc \in {"args", "loaded", "parse"} /\ status' = "terminated"
                     /\ UNCHANGED m_file
            \/ /\ UNCHANGED <<status, m_file>>
               /\ pc \notin {"open", "sections", "symbols", "ended"}
               /\ pc' \in IF pc = "args" THEN {"open"} ELSE {"lsda", "parse", "find", "catch_sites"}
<1> USE DEF Return, GoTo, CloseElf, Terminate
<1>1. CASE validate_args \/ NothingToValidate \/ ConstructValidator \/ ValidatorThrows
  BY <1>1 DEF validate_args, NothingToValidate, ConstructValidator, ValidatorThrows
<1>2. CASE NoExceptTable \/ ConstructLsda \/ LsdaThrows
  BY <1>2 DEF NoExceptTable, ConstructLsda, LsdaThrows
<1>3. CASE LoadLsda \/ FindThrownFunctions \/ EndOfReport
  BY <1>3 DEF LoadLsda, FindThrownFunctions, EndOfReport
<1>4. CASE PrintCatchSites
  BY <1>4 DEF PrintCatchSites
<1>5. CASE ParseLsda \/ UNCHANGED vars
  BY <1>5 DEF ParseLsda, vars, elfVars
<1> QED BY <1>1, <1>2, <1>3, <1>4, <1>5 DEF SafeNext, MainStep

LEMMA SectionsNext == SectionsInv /\ [SafeNext]_vars => SectionsInv'
<1> SUFFICES ASSUME SectionsInv, [SafeNext]_vars PROVE SectionsInv'
  OBVIOUS
<1>1. CASE ~ConstructElf
  BY <1>1, MainLeavesElf, SectionsUnchanged
<1>2. CASE CannotOpen \/ m_load_symbol_table \/ DivideByZero
  BY <1>2, SectionsUnchanged DEF CannotOpen, m_load_symbol_table, DivideByZero
<1>3. CASE m_load_elf_header
  <2>1. Len(m_elf.sections) \in Nat
    BY FilesAssumption DEF SectionsInv
  <2> QED BY <1>3, <2>1 DEF m_load_elf_header, SectionsInv, FirstHolds, NamesKnown
<1>4. CASE LoadSection
  BY <1>4, SectionLoaded
<1>5. CASE m_load_program_header
  <2>1. m_program_header' # m_program_header => m_elf_header_loaded
    BY <1>5 DEF m_load_program_header, SectionsInv
  <2>2. UNCHANGED <<file, m_elf, scn, m_sections, m_elf_header_loaded>> /\ pc' = "symbols"
    BY <1>5 DEF m_load_program_header
  <2> QED BY <2>1, <2>2, SectionsUnchanged
<1> QED BY <1>1, <1>2, <1>3, <1>4, <1>5 DEF ConstructElf, ElfNext

LEMMA SectionsFollow == SectionsInv => SectionsAreTheFiles
<1> SUFFICES ASSUME SectionsInv PROVE SectionsAreTheFiles
  OBVIOUS
<1> DEFINE read == {k \in 1 .. scn : Readable(k)}
           named(name) == {k \in read : m_elf.sections[k].name = name}
           first(name) == CHOOSE k \in named(name) : \A j \in named(name) : k <= j
<1>1. ASSUME NamesKnown
      PROVE  /\ DOMAIN m_sections = {m_elf.sections[k].name : k \in read}
             /\ \A name \in DOMAIN m_sections :
                  get_section(name).section = Contents(m_elf.sections[first(name)])
  <2>1. FirstHolds
    BY <1>1 DEF SectionsInv
  <2>2. DOMAIN m_sections = {m_elf.sections[k].name : k \in read}
    BY <2>1 DEF FirstHolds, Named
  <2>3. ASSUME NEW name \in DOMAIN m_sections
        PROVE  get_section(name).section = Contents(m_elf.sections[first(name)])
    <3>1. PICK k \in 1 .. scn : /\ Named(k, name)
                                /\ m_sections[name] = Contents(m_elf.sections[k])
                                /\ \A j \in 1 .. scn : Named(j, name) => k <= j
      BY <2>1, <2>3 DEF FirstHolds
    <3>2. k \in named(name) /\ \A j \in named(name) : k <= j
      BY <3>1 DEF Named
    <3>3. first(name) \in named(name) /\ \A j \in named(name) : first(name) <= j
      BY <3>2
    <3>4. named(name) \subseteq Int
      BY DEF SectionsInv
    <3> HIDE DEF first, named
    <3>5. first(name) = k
      BY <3>2, <3>3, <3>4
    <3>6. get_section(name).section = m_sections[name]
      BY <2>3 DEF get_section
    <3> QED BY <3>1, <3>5, <3>6
  <2> QED BY <2>2, <2>3
<1>2. ASSUME ~NamesKnown, NEW name \in DOMAIN m_sections
      PROVE  /\ name \in OtherStrings
             /\ \E k \in 1 .. scn : HasData(k) /\ m_sections[name] = Contents(m_elf.sections[k])
  BY <1>2 DEF SectionsInv, Holds
<1>3. ~m_elf_header_loaded =>
        get_elf_header = "UNLOADED_ELF_HEADER" /\ get_program_header = "EMPTY_PROGRAM"
  BY DEF SectionsInv, get_elf_header, get_program_header
<1> QED BY <1>1, <1>2, <1>3 DEF SectionsAreTheFiles

-----------------------------------------------------------------------------
(* The descriptor.                                                         *)

\* What main does, step by step: nothing is read before the file is open, and
\* the process goes on until main or the constructor ends it.
FileInv ==
  /\ pc \in Places
  /\ pc \in {"args", "open"} => m_file = "none" /\ m_sections = <<>>
  /\ pc \in Places \ {"args", "open", "ended"} => m_file = "open"
  /\ pc # "ended" => status = "running"
  /\ pc = "ended" => status \in {"success", "failure", "killed", "terminated"}
  /\ m_file \in {"none", "open", "closed"}
  /\ m_file = "closed" => status \in {"success", "failure"}
  /\ status = "success" => m_file = "closed"
  /\ status = "failure" /\ m_sections # <<>> => m_file = "closed"

LEMMA FileInit == SafeInit => FileInv
BY DEF SafeInit, ElfInit, FileInv, Places

LEMMA FileNext == FileInv /\ [SafeNext]_vars => FileInv'
<1> SUFFICES ASSUME FileInv, [SafeNext]_vars PROVE FileInv'
  OBVIOUS
<1> USE DEF Places, FileInv
<1>1. CASE ConstructElf
  <2>1. CASE CannotOpen
    BY <2>1 DEF CannotOpen
  <2>2. CASE m_load_elf_header
    BY <2>2 DEF m_load_elf_header
  <2>3. CASE LoadSection
    BY <2>3 DEF LoadSection
  <2>4. CASE m_load_program_header
    BY <2>4 DEF m_load_program_header
  <2>5. CASE m_load_symbol_table
    BY <2>5 DEF m_load_symbol_table
  <2>6. CASE DivideByZero
    BY <2>6 DEF DivideByZero
  <2> QED BY <1>1, <2>1, <2>2, <2>3, <2>4, <2>5, <2>6 DEF ConstructElf, ElfNext
<1>2. CASE ~ConstructElf
  BY <1>2, MainLeavesElf
<1> QED BY <1>1, <1>2

-----------------------------------------------------------------------------
(* The LsdaParser in the program.                                          *)

BeforeLsda == {"args", "open", "sections", "symbols", "loaded", "lsda"}

\* It has not begun, or it keeps what LsdaParser keeps, and once the Validator
\* has what it found that does not change.
LsdaInv ==
  /\ P!WalkInv
  /\ pc \in BeforeLsda => P!Init
  /\ pc \in BeforeLsda \cup {"parse"} => m_lsda = None
  /\ m_lsda # None => m_lsda = [scopes |-> scopes, types |-> type_table]

\* get_section answers for the names in the map, and for no other.
LEMMA SectionFound ==
  \A name : get_section(name).error = None <=> name \in DOMAIN m_sections
<1> SUFFICES ASSUME NEW name
             PROVE  get_section(name).error = None <=> name \in DOMAIN m_sections
  OBVIOUS
<1>1. None # "EMPTY_SECTION" /\ None # "SECTION_NOT_FOUND"
  BY FilesAssumption
<1>2. CASE name \in DOMAIN m_sections
  <2>1. get_section(name) = [error |-> None, section |-> m_sections[name]]
    BY <1>2 DEF get_section
  <2> QED BY <1>2, <2>1
<1>3. CASE name \notin DOMAIN m_sections /\ DOMAIN m_sections = {}
  <2>1. get_section(name) = [error |-> "EMPTY_SECTION"]
    BY <1>3 DEF get_section
  <2> QED BY <1>1, <1>3, <2>1
<1>4. CASE name \notin DOMAIN m_sections /\ DOMAIN m_sections # {}
  <2>1. get_section(name) = [error |-> "SECTION_NOT_FOUND"]
    BY <1>4 DEF get_section
  <2> QED BY <1>1, <1>4, <2>1
<1> QED BY <1>2, <1>3, <1>4

LEMMA SectionGiven ==
  ASSUME NEW name \in DOMAIN m_sections
  PROVE  get_section(name).section = m_sections[name]
BY DEF get_section

LEMMA SectionsAreBytes ==
  ASSUME SectionsInv,
         NEW name \in {".text", ".gcc_except_table"}, get_section(name).error = None
  PROVE  /\ get_section(name).section.data \in Seq(0 .. 255)
         /\ get_section(name).section.addr \in 0 .. WordSize - 1
              \/ name = ".gcc_except_table"
         /\ Len(get_section(name).section.data) <= MaxHandlers \/ name = ".text"
<1>1. name \in DOMAIN m_sections /\ get_section(name).section = m_sections[name]
  BY SectionFound, SectionGiven
<1>2. PICK k \in 1 .. scn : Holds(k, name)
  BY <1>1 DEF SectionsInv
<1>3. /\ m_elf.sections[k].name = name
      /\ m_sections[name] = Contents(m_elf.sections[k])
  BY <1>2, ProgramAssumption DEF Holds
<1>4. k \in DOMAIN m_elf.sections /\ file \in DOMAIN Files /\ m_elf = Files[file]
  BY FilesAssumption DEF SectionsInv
<1>5. /\ m_elf.sections[k].data \in Seq(0 .. 255)
      /\ m_elf.sections[k].addr \in 0 .. WordSize - 1 \/ name = ".gcc_except_table"
      /\ Len(m_elf.sections[k].data) <= MaxHandlers \/ name = ".text"
  BY <1>3, <1>4, ProgramAssumption DEF L!Byte, L!Word
<1>6. <<>> \in Seq(0 .. 255) /\ Len(<<>>) <= MaxHandlers
  BY ProgramAssumption
<1> QED BY <1>1, <1>3, <1>5, <1>6 DEF Contents

LEMMA LsdaInit == SafeInit => LsdaInv
<1> SUFFICES ASSUME SafeInit PROVE LsdaInv
  OBVIOUS
<1>1. P!Init
  BY ProgramAssumption DEF SafeInit, L!Init, P!Init, L!Omit, P!Omit
<1> QED BY <1>1, ParserInit DEF SafeInit, LsdaInv

\* A step that leaves the LsdaParser alone.
LEMMA LsdaUnchanged ==
  ASSUME LsdaInv, UNCHANGED lsdaVars, pc' \in BeforeLsda => pc \in BeforeLsda,
         \/ UNCHANGED m_lsda /\ (pc' = "parse" => pc \in BeforeLsda \cup {"parse"})
         \/ /\ pc' \notin BeforeLsda \cup {"parse"}
            /\ m_lsda' = [scopes |-> scopes, types |-> type_table]
  PROVE  LsdaInv'
<1>1. UNCHANGED L!vars
  BY DEF lsdaVars, L!vars, L!cursor, L!tables, L!walk
<1>2. P!WalkInv'
  BY <1>1, ParserStep DEF LsdaInv
<1>3. P!Init => P!Init'
  BY DEF lsdaVars, P!Init
<1> QED BY <1>2, <1>3 DEF LsdaInv, lsdaVars

LEMMA LsdaNext == FileInv /\ SectionsInv /\ LsdaInv /\ [SafeNext]_vars => LsdaInv'
<1> SUFFICES ASSUME FileInv, SectionsInv, LsdaInv, [SafeNext]_vars PROVE LsdaInv'
  OBVIOUS
<1> USE DEF BeforeLsda, GoTo, Return, Terminate
<1>1. CASE ParseLsda
  <2>1. P!WalkInv'
    BY <1>1, ParserStep DEF ParseLsda, LsdaInv
  <2>2. pc = "parse" /\ pc' = pc /\ m_lsda = None /\ m_lsda' = None
    BY <1>1 DEF ParseLsda, LsdaInv, elfVars, validatorVars
  <2> QED BY <2>1, <2>2 DEF LsdaInv
<1>2. CASE ConstructLsda
  <2>1. data' \in Seq(0 .. 255) /\ Len(data') <= MaxHandlers
    BY <1>2, SectionsAreBytes DEF ConstructLsda
  <2>2. P!Init
    BY <1>2 DEF LsdaInv, ConstructLsda
  <2>3. P!Init'
    BY <1>2, <2>1, <2>2 DEF ConstructLsda, P!Init
  <2>4. P!WalkInv'
    BY <2>3, ParserInit, PTL
  <2>5. m_lsda = None /\ m_lsda' = None /\ pc' = "parse"
    BY <1>2 DEF ConstructLsda, LsdaInv, validatorVars
  <2> QED BY <2>4, <2>5 DEF LsdaInv
<1>3. CASE LoadLsda
  <2>1. UNCHANGED lsdaVars /\ pc' = "find" /\ m_lsda' = [scopes |-> scopes, types |-> type_table]
    BY <1>3 DEF LoadLsda, V!load_lsda
  <2> QED BY <2>1, LsdaUnchanged
<1>4. CASE ConstructElf
  <2>1. UNCHANGED lsdaVars /\ UNCHANGED m_lsda /\ pc \in BeforeLsda /\ pc' # "parse"
    BY <1>4 DEF ConstructElf, validatorVars, ElfNext, CannotOpen, m_load_elf_header, LoadSection,
                m_load_program_header, m_load_symbol_table, DivideByZero
  <2> QED BY <2>1, LsdaUnchanged
<1>5. CASE validate_args \/ NothingToValidate \/ ConstructValidator \/ ValidatorThrows
             \/ NoExceptTable
  <2>1. UNCHANGED lsdaVars /\ UNCHANGED m_lsda /\ pc \in BeforeLsda /\ pc' # "parse"
    BY <1>5 DEF validate_args, NothingToValidate, ConstructValidator, ValidatorThrows,
                NoExceptTable, validatorVars
  <2> QED BY <2>1, LsdaUnchanged
<1>6. CASE LsdaThrows \/ FindThrownFunctions \/ PrintCatchSites \/ EndOfReport \/ UNCHANGED vars
  <2>1. /\ UNCHANGED lsdaVars /\ UNCHANGED m_lsda
        /\ pc' \in {"catch_sites", "ended"} \/ pc' = pc
    BY <1>6 DEF LsdaThrows, FindThrownFunctions, PrintCatchSites, EndOfReport, validatorVars, vars,
                elfVars, V!find_thrown_functions, V!analyze_exceptions
  <2> QED BY <2>1, LsdaUnchanged
<1> QED BY <1>1, <1>2, <1>3, <1>4, <1>5, <1>6 DEF SafeNext, MainStep

-----------------------------------------------------------------------------
(* The Validator in the program, and the report.                           *)

ReportInv ==
  /\ DOMAIN m_symbol_table \subseteq Nat
  /\ DOMAIN m_sym \subseteq Nat
  /\ m_text # None => m_text \in V!Section
  /\ pc \notin {"catch_sites", "ended"} => functions = None /\ printed = {}
  /\ pc = "catch_sites" => functions \subseteq DOMAIN m_sym /\ printed \subseteq functions
  /\ functions # None => functions \subseteq DOMAIN m_sym /\ printed \subseteq functions

LEMMA SymbolsLoaded ==
  ASSUME SectionsInv, m_load_symbol_table
  PROVE  DOMAIN m_symbol_table' \subseteq Nat
<1>1. CASE HasSymbols
  <2>1. PICK k \in 1 .. scn : Holds(k, ".symtab")
    BY <1>1 DEF SectionsInv, HasSymbols
  <2>2. k \in DOMAIN m_elf.sections /\ IsSection(m_elf.sections[k])
    BY FilesAssumption DEF SectionsInv
  <2>3. Symtab.size \in Nat /\ Symtab.entsize \in Nat /\ Symtab.entsize # 0
    BY <1>1, <2>1, <2>2 DEF Holds, Contents, Symtab, IsSection, m_load_symbol_table
  <2>4. Symtab.size \div Symtab.entsize \in Int
    BY <2>3
  <2>5. PICK heap \in Heap : m_symbol_table' = Symbols(heap)
    BY <1>1 DEF m_load_symbol_table
  <2>6. DOMAIN m_symbol_table' = 1 .. Symtab.size \div Symtab.entsize
    BY <2>5 DEF Symbols
  <2> QED BY <2>4, <2>6
<1>2. CASE ~HasSymbols
  BY <1>2 DEF m_load_symbol_table
<1> QED BY <1>1, <1>2

LEMMA NextFunctionIsReported ==
  ASSUME DOMAIN m_sym \subseteq Nat, functions \subseteq DOMAIN m_sym, functions \ printed # {}
  PROVE  NextFunction \in functions \ printed
<1> DEFINE left == functions \ printed
<1>1. \E k \in left : \A j \in left : k <= j
  BY LeastNatural
<1> QED BY <1>1 DEF NextFunction

LEMMA ReportInit == SafeInit => ReportInv
BY DEF SafeInit, ElfInit, ReportInv

LEMMA ReportNext == SectionsInv /\ ReportInv /\ [SafeNext]_vars => ReportInv'
<1> SUFFICES ASSUME SectionsInv, ReportInv, [SafeNext]_vars PROVE ReportInv'
  OBVIOUS
<1> USE DEF ReportInv, GoTo, Return, Terminate, validatorVars
<1>1. CASE ConstructElf
  <2>1. CASE m_load_symbol_table
    BY <1>1, <2>1, SymbolsLoaded DEF ConstructElf, m_load_symbol_table
  <2>2. CASE ~m_load_symbol_table
    BY <1>1, <2>2 DEF ConstructElf, ElfNext, CannotOpen, m_load_elf_header, LoadSection,
                      m_load_program_header, DivideByZero
  <2> QED BY <2>1, <2>2
<1>2. CASE ConstructValidator
  <2>1. DOMAIN m_sym' \subseteq Nat
    <3>1. get_symbol_table.symbols = m_symbol_table
      BY <1>2, FilesAssumption DEF ConstructValidator, CanValidate, get_symbol_table
    <3> QED BY <1>2, <3>1 DEF ConstructValidator
  <2>2. m_text' \in V!Section
    BY <1>2, SectionsAreBytes DEF ConstructValidator, CanValidate, V!Section, V!Word, V!Byte
  <2>3. functions' = None /\ printed' = {} /\ pc' = "lsda" /\ UNCHANGED m_symbol_table
    BY <1>2 DEF ConstructValidator
  <2> QED BY <2>1, <2>2, <2>3
<1>3. CASE validate_args \/ NothingToValidate \/ ValidatorThrows \/ NoExceptTable \/ ConstructLsda
  BY <1>3 DEF validate_args, NothingToValidate, ValidatorThrows, NoExceptTable, ConstructLsda
<1>4. CASE ParseLsda \/ LsdaThrows \/ EndOfReport \/ UNCHANGED vars
  BY <1>4 DEF ParseLsda, LsdaThrows, EndOfReport, vars, elfVars
<1>5. CASE LoadLsda
  BY <1>5 DEF LoadLsda, V!load_lsda
<1>6. CASE FindThrownFunctions
  <2>1. functions' \subseteq DOMAIN m_sym /\ UNCHANGED <<m_sym, m_text>>
    BY <1>6 DEF FindThrownFunctions, V!find_thrown_functions
  <2>2. printed' = {} /\ pc' = "catch_sites" /\ UNCHANGED m_symbol_table
    BY <1>6 DEF FindThrownFunctions
  <2> QED BY <2>1, <2>2
<1>7. CASE PrintCatchSites
  <2>1. pc = "catch_sites" /\ UNCHANGED <<m_sym, m_text, functions, m_symbol_table>>
    BY <1>7 DEF PrintCatchSites, V!analyze_exceptions
  <2>2. printed' \subseteq printed \cup {NextFunction} /\ pc' \in {"catch_sites", "ended"}
    BY <1>7 DEF PrintCatchSites
  <2>3. NextFunction \in functions
    BY <1>7, <2>1, NextFunctionIsReported DEF PrintCatchSites
  <2> QED BY <2>1, <2>2, <2>3
<1> QED BY <1>1, <1>2, <1>3, <1>4, <1>5, <1>6, <1>7 DEF SafeNext, MainStep

-----------------------------------------------------------------------------
(* V and W are instances of one module as well.                            *)

LEMMA ValidatorAssumptions == W!WordAssumption /\ W!ClientAssumption
<1>1. W!WordAssumption
  BY ProgramAssumption DEF L!WordAssumption, W!WordAssumption
<1>2. V!Scope = W!Scope /\ V!Word = W!Word
  BY DEF V!Scope, W!Scope, V!Handler, W!Handler, V!Word, W!Word
<1>3. V!Errors = W!Errors
  BY DEF V!Errors, W!Errors
<1>4. L!Byte = W!Byte
  BY DEF L!Byte, W!Byte
<1> QED BY <1>1, <1>2, <1>3, <1>4, ProgramAssumption DEF W!ClientAssumption

LEMMA SameLookups ==
  /\ \A name : V!get_symbol(name) = W!get_symbol(name)
  /\ \A name : V!HasCode(name) = W!HasCode(name)
  /\ \A k : V!Inside(k) = W!Inside(k)
  /\ \A name, heap : V!find_typeinfo(name, heap) = W!find_typeinfo(name, heap)
  /\ \A name, heap : V!check_thrown_functions(name, heap) = W!check_thrown_functions(name, heap)
<1>1. \A name : V!get_symbol(name) = W!get_symbol(name)
  BY DEF V!get_symbol, W!get_symbol, V!Min, W!Min
<1>2. \A k : V!Offset(k) = W!Offset(k)
  BY DEF V!Offset, W!Offset
<1>3. \A k : V!InText(k) = W!InText(k)
  BY <1>2 DEF V!InText, W!InText
<1>4. \A k : V!Inside(k) = W!Inside(k)
  BY <1>2, <1>3 DEF V!Inside, W!Inside
<1>5. \A data_, i, n, signed : V!FixedWidth(data_, i, n, signed) = W!FixedWidth(data_, i, n, signed)
  <2>1. \A v, n : V!Got(v, n) = W!Got(v, n)
    BY DEF V!Got, W!Got
  <2>2. \A buffer : V!Threw(buffer) = W!Threw(buffer)
    BY DEF V!Threw, W!Threw
  <2>3. \A buffer, i, e, base, fill :
          V!LittleEndian(buffer, i, e, base, fill) = W!LittleEndian(buffer, i, e, base, fill)
    BY DEF V!LittleEndian, W!LittleEndian
  <2> QED BY <2>1, <2>2, <2>3 DEF V!FixedWidth, W!FixedWidth, V!Ones, W!Ones
<1>6. \A k, i, heap : V!Target(k, i, heap) = W!Target(k, i, heap)
  BY <1>2, <1>5 DEF V!Target, W!Target
<1>7. \A k : V!Windows(k) = W!Windows(k)
  BY DEF V!Windows, W!Windows
<1>8. \A name : V!HasCode(name) = W!HasCode(name)
  BY <1>1, <1>3 DEF V!HasCode, W!HasCode
<1>9. \A name, heap : V!find_typeinfo(name, heap) = W!find_typeinfo(name, heap)
  BY <1>1, <1>6, <1>7 DEF V!find_typeinfo, W!find_typeinfo
<1>10. \A name, heap : V!check_thrown_functions(name, heap) = W!check_thrown_functions(name, heap)
  BY <1>8, <1>9 DEF V!check_thrown_functions, W!check_thrown_functions
<1> QED BY <1>1, <1>4, <1>8, <1>9, <1>10

LEMMA SameAnalysis ==
  /\ \A lsda : V!RecordsOf(lsda) = W!RecordsOf(lsda)
  /\ \A name, thrown : V!Failure(name, thrown) = W!Failure(name, thrown)
<1>1. \A rec, thrown : V!Handles(rec, thrown) = W!Handles(rec, thrown)
  BY DEF V!Handles, W!Handles, V!resolve_type, W!resolve_type
<1>2. \A thrown : V!Matches(thrown) = W!Matches(thrown)
  BY <1>1 DEF V!Matches, W!Matches
<1>3. \A matches : V!NoHandlers(matches) = W!NoHandlers(matches)
  BY DEF V!NoHandlers, W!NoHandlers
<1>4. \A name, thrown : V!Failure(name, thrown) = W!Failure(name, thrown)
  BY <1>2, <1>3, SameLookups DEF V!Failure, W!Failure
<1>5. \A lsda : V!RecordsOf(lsda) = W!RecordsOf(lsda)
  BY DEF V!RecordsOf, W!RecordsOf
<1> QED BY <1>4, <1>5

-----------------------------------------------------------------------------
(* The symbols.                                                            *)

LEMMA TwoHalves ==
  ASSUME NEW low \in 0 .. HalfWord - 1, NEW high \in 0 .. HalfWord - 1
  PROVE  low + HalfWord * high \in 0 .. WordSize - 1
<1>1. HalfWord \in Nat \ {0} /\ WordSize = HalfWord * HalfWord
  BY SymtabAssumption, ProgramAssumption
<1>2. PICK gap \in Nat : HalfWord = high + 1 + gap
  <2>1. HalfWord - 1 - high \in Nat /\ HalfWord = high + 1 + (HalfWord - 1 - high)
    BY <1>1
  <2> QED BY <2>1
<1>3. HalfWord * HalfWord = HalfWord * high + HalfWord + HalfWord * gap
  BY <1>1, <1>2
<1>4. HalfWord * high \in Nat /\ HalfWord * gap \in Nat
  BY <1>1, <1>2
<1> QED BY <1>1, <1>3, <1>4

LEMMA QuotientIsNatural ==
  ASSUME NEW x \in Nat, NEW y \in Nat, y # 0
  PROVE  x \div y \in Nat
<1>1. /\ x \div y \in Int /\ x % y \in 0 .. y - 1 /\ x = y * (x \div y) + (x % y)
  BY DivMod
<1>2. PICK q \in Int, r \in 0 .. y - 1 : q = x \div y /\ x = y * q + r
  BY <1>1
<1>3. ~(q <= -1)
  <2>1. ASSUME q <= -1 PROVE y * q <= -y
    BY <2>1
  <2> QED BY <1>2, <2>1
<1> QED BY <1>2, <1>3

LEMMA RoomForOne ==
  ASSUME NEW x \in Nat, NEW y \in Nat
  PROVE  y # 0 /\ x \div y # 0 <=> y \in 1 .. x
<1>1. CASE y # 0
  <2>1. PICK q \in Nat, r \in 0 .. y - 1 : q = x \div y /\ x = y * q + r
    BY <1>1, DivMod, QuotientIsNatural
  <2>2. q = 0 => x < y
    BY <2>1
  <2>3. q # 0 => y * q >= y
    BY <2>1
  <2> QED BY <1>1, <2>1, <2>2, <2>3
<1> QED BY <1>1

LEMMA ProductIsNatural ==
  ASSUME NEW a \in Nat, NEW b \in Nat
  PROVE  a * b \in Nat
OBVIOUS

TypedSymbol(sym) == sym.value \in 0 .. WordSize - 1 /\ sym.size \in Nat

SymbolsInv ==
  /\ DOMAIN m_symbol_table \subseteq Nat \ {0}
  /\ \A k \in DOMAIN m_symbol_table : TypedSymbol(m_symbol_table[k])

LEMMA SymbolsAreTyped ==
  ASSUME SectionsInv, m_load_symbol_table
  PROVE  SymbolsInv'
<1>1. CASE HasSymbols
  <2>1. PICK k \in 1 .. scn : Holds(k, ".symtab")
    BY <1>1 DEF SectionsInv, HasSymbols
  <2> DEFINE s == m_elf.sections[k]
  <2>2. /\ k \in DOMAIN m_elf.sections /\ IsSection(s)
        /\ file \in DOMAIN Files /\ m_elf = Files[file]
    BY FilesAssumption DEF SectionsInv
  <2>3. s.name = ".symtab" /\ Symtab = Contents(s)
    BY <2>1, ProgramAssumption DEF Holds, Symtab
  <2>4. Symtab.size = s.size /\ Symtab.entsize = s.entsize
    BY <2>3 DEF Contents
  <2>5. s.size \in Nat /\ s.entsize \in Nat \ {0}
    BY <1>1, <2>2, <2>4 DEF IsSection, m_load_symbol_table
  <2>6. PICK heap \in Heap : m_symbol_table' = Symbols(heap)
    BY <1>1 DEF m_load_symbol_table
  <2> DEFINE halves == Symtab.data \o heap.halves
             count  == s.size \div s.entsize
  <2>7. /\ halves \in Seq(0 .. HalfWord - 1)
        /\ \A i \in 1 .. count : (i - 1) * s.entsize + 6 <= Len(halves)
    BY <2>2, <2>3, <2>5, SymtabAssumption
  <2>8. count \in Int
    BY <2>5
  <2>9. /\ DOMAIN m_symbol_table' = 1 .. count
        /\ \A i \in 1 .. count :
             m_symbol_table'[i] = SymbolAt(halves, (i - 1) * s.entsize, heap.string)
    BY <2>4, <2>6 DEF Symbols
  <2>10. ASSUME NEW i \in 1 .. count PROVE TypedSymbol(m_symbol_table'[i])
    <3>1. PICK at : at = (i - 1) * s.entsize
      OBVIOUS
    <3>2. i - 1 \in Nat
      BY <2>8
    <3>3. at \in Nat /\ at + 6 <= Len(halves)
      <4>1. (i - 1) * s.entsize \in Nat
        BY <2>5, <3>2, ProductIsNatural
      <4>2. (i - 1) * s.entsize + 6 <= Len(halves)
        BY <2>7
      <4> QED BY <3>1, <4>1, <4>2
    <3>4. m_symbol_table'[i] = SymbolAt(halves, at, heap.string)
      BY <2>9, <3>1
    <3> HIDE DEF halves, s
    <3>5. \A n \in 3 .. 6 : halves[at + n] \in 0 .. HalfWord - 1
      <4>1. \A n \in 3 .. 6 : at + n \in 1 .. Len(halves)
        BY <2>7, <3>3
      <4>2. PICK Half : Half = 0 .. HalfWord - 1
        OBVIOUS
      <4>3. halves \in Seq(Half)
        BY <2>7, <4>2
      <4>4. \A n \in 1 .. Len(halves) : halves[n] \in Half
        BY <4>3
      <4> QED BY <4>1, <4>2, <4>4
    <3>6. /\ m_symbol_table'[i].value = halves[at + 3] + HalfWord * halves[at + 4]
          /\ m_symbol_table'[i].size  = halves[at + 5] + HalfWord * halves[at + 6]
      <4>1. PICK name, type, shndx, value, size :
              SymbolAt(halves, at, heap.string) =
                [name |-> name, type |-> type, shndx |-> shndx, value |-> value, size |-> size]
              /\ value = halves[at + 3] + HalfWord * halves[at + 4]
              /\ size = halves[at + 5] + HalfWord * halves[at + 6]
        BY Zenon DEF SymbolAt
      <4>2. m_symbol_table'[i].value = value /\ m_symbol_table'[i].size = size
        BY <3>4, <4>1
      <4> QED BY <4>1, <4>2
    <3>7. HalfWord \in Nat
      BY SymtabAssumption
    <3>8. m_symbol_table'[i].value \in 0 .. WordSize - 1 /\ m_symbol_table'[i].size \in 0 .. WordSize - 1
      BY <3>5, <3>6, TwoHalves
    <3> QED BY <3>8 DEF TypedSymbol
  <2> QED BY <2>8, <2>9, <2>10 DEF SymbolsInv
<1>2. CASE ~HasSymbols
  BY <1>2 DEF m_load_symbol_table, SymbolsInv
<1> QED BY <1>1, <1>2

LEMMA SymbolsNext == SectionsInv /\ SymbolsInv /\ [SafeNext]_vars => SymbolsInv'
<1> SUFFICES ASSUME SectionsInv, SymbolsInv, [SafeNext]_vars PROVE SymbolsInv'
  OBVIOUS
<1>1. CASE m_load_symbol_table
  BY <1>1, SymbolsAreTyped
<1>2. CASE UNCHANGED m_symbol_table
  BY <1>2 DEF SymbolsInv
<1>3. CASE ~ConstructElf
  BY <1>2, <1>3, MainLeavesElf
<1> QED BY <1>1, <1>2, <1>3 DEF ConstructElf, ElfNext, CannotOpen, m_load_elf_header, LoadSection,
                               m_load_program_header, DivideByZero

-----------------------------------------------------------------------------
(* The report is true.                                                     *)

HasReport == functions # None

\* Once there is a Validator, its lookups are those of a table of symbols.
CodeInv ==
  pc \in {"lsda", "parse", "find", "catch_sites"} \/ HasReport =>
    /\ W!CodeOK
    /\ DOMAIN m_sym \subseteq Nat \ {0}
    /\ \A a \in DOMAIN rtti_sym : rtti_sym[a].value \in 0 .. WordSize - 1

\* Its records are those of the LsdaParser.
RecordsInv ==
  pc \in {"find", "catch_sites"} \/ HasReport =>
    m_lsda # None /\ m_records = V!RecordsOf(m_lsda)

\* A function reported was once found to throw, and one always found is reported.
Finds(k, heap) == V!check_thrown_functions(m_sym[k].name, heap)

FoundInv ==
  HasReport =>
    \A k \in DOMAIN m_sym :
      /\ k \in functions => V!IsFunction(k) /\ \E heap \in Behind : Finds(k, heap)
      /\ V!IsFunction(k) /\ (\A heap \in Behind : Finds(k, heap)) => k \in functions

PrintedInv ==
  HasReport =>
    /\ \A k \in printed : \E heap \in Behind : HasHandler(k, heap)
    /\ status = "success" => printed = functions
    /\ status = "failure" =>
         \E k \in functions \ printed :
           /\ \A j \in functions : j < k => j \in printed
           /\ InsideText(k) => \A heap \in Behind : ~HasHandler(k, heap)

\* Where the report begins, and the steps that are taken once it has.
LEMMA ReportSteps ==
  ASSUME FileInv, ReportInv, [SafeNext]_vars
  PROVE  \/ ~HasReport /\ ~HasReport'
         \/ FindThrownFunctions
         \/ PrintCatchSites
         \/ EndOfReport
         \/ UNCHANGED vars
<1> USE DEF ReportInv, HasReport, validatorVars, GoTo, Return
<1>1. CASE validate_args \/ NothingToValidate \/ ValidatorThrows \/ NoExceptTable \/ ConstructLsda
  BY <1>1 DEF validate_args, NothingToValidate, ValidatorThrows, NoExceptTable, ConstructLsda
<1>2. CASE ConstructElf
  BY <1>2 DEF ConstructElf, ElfNext, CannotOpen, m_load_elf_header, LoadSection,
              m_load_program_header, m_load_symbol_table, DivideByZero
<1>3. CASE ConstructValidator \/ LsdaThrows \/ ParseLsda
  BY <1>3 DEF ConstructValidator, LsdaThrows, ParseLsda
<1>4. CASE LoadLsda
  BY <1>4 DEF LoadLsda, V!load_lsda
<1> QED BY <1>1, <1>2, <1>3, <1>4 DEF SafeNext, MainStep

LEMMA CodeUnchanged ==
  ASSUME UNCHANGED W!code
  PROVE  /\ CodeInv /\ (pc \in {"lsda", "parse", "find", "catch_sites"} \/ HasReport) => CodeInv'
         /\ \A k : InsideText(k)' <=> InsideText(k)
         /\ \A k, heap : Thrown(k, heap)' = Thrown(k, heap)
         /\ \A k, heap : Finds(k, heap)' <=> Finds(k, heap)
         /\ \A k : V!IsFunction(k)' <=> V!IsFunction(k)
<1>1. m_sym' = m_sym /\ m_text' = m_text /\ rtti_sym' = rtti_sym
  BY DEF W!code
<1>2. W!CodeOK => W!CodeOK'
  BY <1>1 DEF W!CodeOK
<1>3. \A name : V!get_symbol(name)' = V!get_symbol(name)
  BY <1>1 DEF V!get_symbol
<1>4. \A k : V!Inside(k)' <=> V!Inside(k)
  BY <1>1 DEF V!Inside, V!InText, V!Offset
<1>5. \A name, heap : V!find_typeinfo(name, heap)' = V!find_typeinfo(name, heap)
  BY <1>1 DEF V!find_typeinfo, V!get_symbol, V!Windows, V!Target, V!Offset
<1>6. \A name, heap :
        V!check_thrown_functions(name, heap)' = V!check_thrown_functions(name, heap)
  BY <1>1, <1>5 DEF V!check_thrown_functions, V!HasCode, V!InText, V!get_symbol, V!Offset
<1> QED BY <1>1, <1>2, <1>3, <1>4, <1>5, <1>6 DEF CodeInv, InsideText, Thrown, Finds, V!IsFunction

LEMMA CodeNext ==
  FileInv /\ SectionsInv /\ SymbolsInv /\ ReportInv /\ CodeInv /\ [SafeNext]_vars => CodeInv'
<1> SUFFICES ASSUME FileInv, SectionsInv, SymbolsInv, ReportInv, CodeInv, [SafeNext]_vars PROVE CodeInv'
  OBVIOUS
<1>1. CASE ConstructValidator
  <2>1. get_symbol_table.symbols = m_symbol_table
    BY <1>1, FilesAssumption DEF ConstructValidator, CanValidate, get_symbol_table
  <2>2. /\ DOMAIN m_sym' = DOMAIN m_symbol_table
        /\ \A k \in DOMAIN m_sym' : m_sym'[k] = AsSymbol(m_symbol_table[k])
    BY <1>1, <2>1 DEF ConstructValidator
  <2>3. /\ DOMAIN m_sym' \subseteq Nat \ {0}
        /\ \A k \in DOMAIN m_sym' :
             m_sym'[k].value \in 0 .. WordSize - 1 /\ m_sym'[k].size \in Nat
    BY <2>2 DEF SymbolsInv, TypedSymbol, AsSymbol
  <2>4. m_text' \in W!Section
    BY <1>1, SectionsAreBytes DEF ConstructValidator, CanValidate, W!Section, W!Word, W!Byte
  <2>5. W!CodeOK'
    BY <2>3, <2>4 DEF W!CodeOK, W!Word
  <2>6. \A a \in DOMAIN rtti_sym' : rtti_sym'[a].value \in 0 .. WordSize - 1
    <3>1. PICK sym : sym = m_sym'
      OBVIOUS
    <3>2. rtti_sym' = W!collect_rtti_sym(sym)
      BY <1>1, <3>1 DEF ConstructValidator, V!collect_rtti_sym, W!collect_rtti_sym, V!Min, W!Min
    <3>3. DOMAIN sym \subseteq Nat
      BY <2>3, <3>1
    <3> QED BY <2>3, <3>1, <3>2, <3>3, ValidatorAssumptions, W!RttiIsSymbol
  <2> QED BY <2>3, <2>5, <2>6 DEF CodeInv
<1>2. CASE UNCHANGED W!code /\ (pc' \in {"lsda", "parse", "find", "catch_sites"} \/ HasReport' =>
                                pc \in {"lsda", "parse", "find", "catch_sites"} \/ HasReport)
  BY <1>2, CodeUnchanged DEF CodeInv
<1>3. CASE ~ConstructValidator
  <2>1. UNCHANGED W!code
    BY <1>3 DEF SafeNext, MainStep, W!code, validatorVars, vars, validate_args, NothingToValidate,
                ValidatorThrows, NoExceptTable, ConstructLsda, ConstructElf, LsdaThrows, ParseLsda, LoadLsda,
                V!load_lsda, FindThrownFunctions, V!find_thrown_functions, PrintCatchSites,
                V!analyze_exceptions, EndOfReport
  <2>2. pc' \in {"lsda", "parse", "find", "catch_sites"} \/ HasReport' =>
          pc \in {"lsda", "parse", "find", "catch_sites"} \/ HasReport
    BY <1>3, ReportSteps DEF SafeNext, MainStep, GoTo, Return, Terminate, vars, elfVars, validate_args,
          NothingToValidate, ValidatorThrows, NoExceptTable, ConstructLsda, ConstructElf, ElfNext, CannotOpen,
          m_load_elf_header, LoadSection, m_load_program_header, m_load_symbol_table, DivideByZero,
          LsdaThrows, ParseLsda, LoadLsda, FindThrownFunctions, PrintCatchSites, EndOfReport,
          HasReport, validatorVars
  <2> QED BY <1>2, <2>1, <2>2
<1> QED BY <1>1, <1>3

\* What LsdaParser makes is what the Validator takes.
LEMMA LsdaFits ==
  ASSUME LsdaInv
  PROVE  [scopes |-> scopes, types |-> type_table] \in [scopes : Seq(V!Scope), types : Seq(V!Word)]
<1>1. scopes \in Seq(L!Scope) /\ type_table \in Seq(L!Word)
  BY SameInvariants DEF LsdaInv, P!WalkInv, P!IInv, L!TypeOK
<1>2. L!HandlerRecord = V!Handler /\ L!Word = V!Word
  BY DEF L!HandlerRecord, L!Kind, V!Handler, L!Word, V!Word
<1>3. L!Scope = V!Scope
  BY <1>2 DEF L!Scope, V!Scope
<1> QED BY <1>1, <1>2, <1>3

LEMMA RecordsNext ==
  LsdaInv /\ FileInv /\ ReportInv /\ RecordsInv /\ [SafeNext]_vars => RecordsInv'
<1> SUFFICES ASSUME LsdaInv, FileInv, ReportInv, RecordsInv, [SafeNext]_vars PROVE RecordsInv'
  OBVIOUS
<1>1. CASE LoadLsda
  <2>1. /\ m_lsda' = [scopes |-> scopes, types |-> type_table]
        /\ m_records' = V!RecordsOf([scopes |-> scopes, types |-> type_table])
    BY <1>1 DEF LoadLsda, V!load_lsda
  <2>2. m_lsda' # None
    BY <2>1, LsdaFits, ProgramAssumption
  <2> QED BY <2>1, <2>2 DEF RecordsInv, V!RecordsOf
<1>2. CASE ~LoadLsda
  <2>1. UNCHANGED <<m_lsda, m_records>>
    BY <1>2 DEF SafeNext, MainStep, validatorVars, vars, validate_args, NothingToValidate,
                ValidatorThrows, NoExceptTable, ConstructLsda, ConstructElf, LsdaThrows, ParseLsda,
                ConstructValidator, FindThrownFunctions, V!find_thrown_functions, PrintCatchSites,
                V!analyze_exceptions, EndOfReport
  <2>2. pc' \in {"find", "catch_sites"} \/ HasReport' => pc \in {"find", "catch_sites"} \/ HasReport
    BY <1>2, ReportSteps DEF SafeNext, MainStep, GoTo, Return, Terminate, vars, elfVars, validate_args,
          NothingToValidate, ValidatorThrows, NoExceptTable, ConstructLsda, ConstructElf, ElfNext, CannotOpen,
          m_load_elf_header, LoadSection, m_load_program_header, m_load_symbol_table, DivideByZero,
          LsdaThrows, ParseLsda, ConstructValidator, FindThrownFunctions, PrintCatchSites,
          EndOfReport, HasReport, validatorVars
  <2> QED BY <2>1, <2>2 DEF RecordsInv, V!RecordsOf
<1> QED BY <1>1, <1>2

\* The functions that were found.
LEMMA FoundNext ==
  FileInv /\ ReportInv /\ FoundInv /\ [SafeNext]_vars => FoundInv'
<1> SUFFICES ASSUME FileInv, ReportInv, FoundInv, [SafeNext]_vars, HasReport' PROVE FoundInv'
  BY DEF FoundInv
<1>1. CASE FindThrownFunctions
  <2>1. UNCHANGED W!code /\ m_sym' = m_sym
    BY <1>1 DEF FindThrownFunctions, V!find_thrown_functions, W!code
  <2> DEFINE Found(k, heap) == V!IsFunction(k) /\ Finds(k, heap)
  <2>2. PICK some \in SUBSET ({k \in DOMAIN m_sym : \E heap \in Behind : Found(k, heap)}
                                 \ {k \in DOMAIN m_sym : \A heap \in Behind : Found(k, heap)}) :
          functions' = {k \in DOMAIN m_sym : \A heap \in Behind : Found(k, heap)} \cup some
    BY <1>1 DEF FindThrownFunctions, V!find_thrown_functions, Finds
  <2>3. \A k \in DOMAIN m_sym :
          /\ k \in functions' => V!IsFunction(k) /\ \E heap \in Behind : Finds(k, heap)
          /\ V!IsFunction(k) /\ (\A heap \in Behind : Finds(k, heap)) => k \in functions'
    BY <2>2, ProgramAssumption
  <2> QED BY <2>1, <2>3, CodeUnchanged DEF FoundInv
<1>2. CASE PrintCatchSites \/ EndOfReport \/ UNCHANGED vars
  <2>1. UNCHANGED W!code /\ UNCHANGED <<m_sym, functions>>
    BY <1>2 DEF PrintCatchSites, V!analyze_exceptions, EndOfReport, vars, validatorVars, W!code
  <2> QED BY <2>1, CodeUnchanged DEF FoundInv, HasReport
<1> QED BY <1>1, <1>2, ReportSteps

-----------------------------------------------------------------------------
(* What is printed.                                                        *)

\* The LSDA that main has read has a handler for a function exactly when the
\* Validator has a place for one.
LEMMA HasHandling ==
  ASSUME m_lsda = [scopes |-> scopes, types |-> type_table], NEW k, NEW heap
  PROVE  HasHandler(k, heap) <=>
           \E i \in DOMAIN Thrown(k, heap) : W!Handling(m_lsda, Thrown(k, heap)[i].value) # {}
<1>1. m_lsda.scopes = scopes /\ m_lsda.types = type_table
  OBVIOUS
<1>2. \A h, address : EnteredFor(h, address)
                        <=> h.type = "Cleanup" \/ W!Catches(h, m_lsda.types, address)
  BY <1>1 DEF EnteredFor, W!Catches
<1>3. ASSUME NEW address
      PROVE  W!Handling(m_lsda, address) # {} <=>
               \E s \in DOMAIN scopes : \E n \in DOMAIN scopes[s].handlers :
                 EnteredFor(scopes[s].handlers[n], address)
  <2> DEFINE At(s) == {n \in DOMAIN scopes[s].handlers :
                              EnteredFor(scopes[s].handlers[n], address)}
  <2>1. W!Handling(m_lsda, address) = UNION {{<<s, n>> : n \in At(s)} : s \in DOMAIN scopes}
    BY <1>1, <1>2 DEF W!Handling
  <2>2. \A s : At(s) # {} <=>
               \E n \in DOMAIN scopes[s].handlers : EnteredFor(scopes[s].handlers[n], address)
    OBVIOUS
  <2> HIDE DEF At
  <2>3. ASSUME NEW s \in DOMAIN scopes, At(s) # {}
        PROVE  W!Handling(m_lsda, address) # {}
    <3>1. PICK n : n \in At(s)
      BY <2>3
    <3>2. <<s, n>> \in W!Handling(m_lsda, address)
      BY <2>1, <3>1
    <3> QED BY <3>2
  <2>4. ASSUME W!Handling(m_lsda, address) # {}
        PROVE  \E s \in DOMAIN scopes : At(s) # {}
    <3>1. PICK p : p \in W!Handling(m_lsda, address)
      BY <2>4
    <3>2. PICK s \in DOMAIN scopes : p \in {<<s, n>> : n \in At(s)}
      BY <2>1, <3>1
    <3>3. At(s) # {}
      BY <3>2
    <3> QED BY <3>3
  <2> QED BY <2>2, <2>3, <2>4
<1> QED BY <1>3 DEF HasHandler

\* Of a function that has code the analysis gives an answer exactly when the LSDA
\* has a handler for it.
LEMMA AnswersAreHandlers ==
  ASSUME LsdaInv, CodeInv, RecordsInv, HasReport, NEW k \in DOMAIN m_sym, NEW heap
  PROVE  LET error == V!Failure(m_sym[k].name, Thrown(k, heap))
         IN  /\ error = None => HasHandler(k, heap)
             /\ error # None /\ V!HasCode(m_sym[k].name) => ~HasHandler(k, heap)
<1> DEFINE name == m_sym[k].name
           thrown == Thrown(k, heap)
           error == V!Failure(name, thrown)
<1>1. /\ m_lsda # None /\ m_lsda = [scopes |-> scopes, types |-> type_table]
      /\ m_records = W!RecordsOf(m_lsda)
  BY SameAnalysis DEF LsdaInv, RecordsInv
<1>2. m_lsda \in [scopes : Seq(V!Scope), types : Seq(V!Word)]
  BY <1>1, LsdaFits
<1>3. \A i \in DOMAIN thrown : thrown[i].value \in W!Word
  BY DEF CodeInv, Thrown, V!find_typeinfo, W!Word
<1>4. error = W!Failure(name, thrown) /\ V!HasCode(name) = W!HasCode(name)
  BY SameAnalysis, SameLookups
<1> HIDE DEF thrown, name
<1>5. W!NoHandlers(W!Matches(thrown))
        <=> \A i \in DOMAIN thrown : W!Handling(m_lsda, thrown[i].value) = {}
  BY <1>1, <1>2, <1>3, ValidatorAssumptions, W!NoneIsHandled
<1>6. HasHandler(k, heap) <=> \E i \in DOMAIN thrown : W!Handling(m_lsda, thrown[i].value) # {}
  BY <1>1, HasHandling DEF thrown
<1>7. error = None => ~W!NoHandlers(W!Matches(thrown))
  BY <1>4, ValidatorAssumptions, W!AnswerNeeds
<1>8. error # None /\ W!HasCode(name) => DOMAIN thrown = {} \/ W!NoHandlers(W!Matches(thrown))
  BY <1>1, <1>4, ValidatorAssumptions, W!FailureNeeds
<1> QED BY <1>4, <1>5, <1>6, <1>7, <1>8 DEF thrown, name

\* Whatever lies behind .text, a function inside it has code, and its types.
LEMMA InsideIsFixed ==
  ASSUME CodeInv, HasReport, NEW k \in DOMAIN m_sym, InsideText(k)
  PROVE  /\ V!HasCode(m_sym[k].name)
         /\ \A heap, other \in Behind : Thrown(k, heap) = Thrown(k, other)
         /\ \A heap, other \in Behind : HasHandler(k, heap) <=> HasHandler(k, other)
<1> DEFINE name == m_sym[k].name
<1>1. W!CodeOK /\ DOMAIN m_sym \subseteq Nat \ {0}
  BY DEF CodeInv
<1>2. W!get_symbol(name) \in DOMAIN m_sym
  BY <1>1, ValidatorAssumptions, W!PlaceFound
<1>3. W!get_symbol(name) # 0
  BY <1>1, <1>2
<1>4. W!Inside(W!get_symbol(name))
  BY SameLookups DEF InsideText
<1>5. V!HasCode(name)
  BY <1>3, <1>4, SameLookups DEF W!HasCode, W!Inside
<1> HIDE DEF name
<1>6. \A heap, other \in Behind : W!find_typeinfo(name, heap) = W!find_typeinfo(name, other)
  BY <1>1, <1>3, <1>4, ValidatorAssumptions, W!SameTypes
<1>7. \A heap, other \in Behind : Thrown(k, heap) = Thrown(k, other)
  BY <1>6, SameLookups DEF Thrown, name
<1> QED BY <1>5, <1>7 DEF HasHandler, name

LEMMA NextIsLeast ==
  ASSUME DOMAIN m_sym \subseteq Nat, functions \subseteq DOMAIN m_sym, functions \ printed # {}
  PROVE  \A j \in functions : j < NextFunction => j \in printed
<1> DEFINE left == functions \ printed
<1>1. \E k \in left : \A j \in left : k <= j
  BY LeastNatural
<1>2. NextFunction \in left /\ \A j \in left : NextFunction <= j
  BY <1>1 DEF NextFunction
<1> QED BY <1>2

LEMMA PrintedNext ==
  ASSUME FileInv, LsdaInv, ReportInv, CodeInv, RecordsInv, PrintedInv, [SafeNext]_vars
  PROVE  PrintedInv'
<1> SUFFICES ASSUME HasReport' PROVE PrintedInv'
  BY DEF PrintedInv
<1>1. CASE FindThrownFunctions
  <2>1. pc = "find" /\ status' = status /\ printed' = printed
    BY <1>1 DEF FindThrownFunctions, GoTo
  <2> QED BY <2>1 DEF FileInv, ReportInv, PrintedInv
<1>2. ASSUME UNCHANGED W!code, UNCHANGED <<lsdaVars, functions>>
      PROVE  /\ HasReport
             /\ \A k : InsideText(k)' <=> InsideText(k)
             /\ \A k, heap : HasHandler(k, heap)' <=> HasHandler(k, heap)
  BY <1>2, CodeUnchanged DEF HasHandler, EnteredFor, lsdaVars, HasReport
<1>3. CASE PrintCatchSites
  <2>1. /\ pc = "catch_sites" /\ functions \ printed # {} /\ status = "running"
        /\ UNCHANGED W!code /\ UNCHANGED <<lsdaVars, functions>>
    BY <1>3 DEF PrintCatchSites, V!analyze_exceptions, W!code, FileInv
  <2>2. HasReport /\ functions \subseteq DOMAIN m_sym /\ DOMAIN m_sym \subseteq Nat \ {0}
    BY <1>2, <2>1 DEF ReportInv, HasReport, CodeInv
  <2>3. PICK k : k = NextFunction
    OBVIOUS
  <2>4. k \in functions \ printed /\ \A j \in functions : j < k => j \in printed
    BY <2>1, <2>2, <2>3, NextFunctionIsReported, NextIsLeast
  <2>5. PICK heap \in Behind : result'.error = V!Failure(m_sym[k].name, Thrown(k, heap))
    BY <1>3, <2>3 DEF PrintCatchSites, V!analyze_exceptions, Thrown
  <2>6. /\ result'.error = None => HasHandler(k, heap)
        /\ result'.error # None /\ V!HasCode(m_sym[k].name) => ~HasHandler(k, heap)
    BY <2>2, <2>4, <2>5, AnswersAreHandlers
  <2>7. CASE result'.error = None
    <3>1. printed' = printed \cup {k} /\ status' = "running"
      BY <1>3, <2>1, <2>3, <2>7 DEF PrintCatchSites, GoTo
    <3> QED BY <1>2, <2>1, <2>2, <2>6, <2>7, <3>1 DEF PrintedInv
  <2>8. CASE result'.error # None
    <3>1. printed' = printed /\ status' = "failure"
      BY <1>3, <2>8 DEF PrintCatchSites, Return
    <3>2. InsideText(k) => \A other \in Behind : ~HasHandler(k, other)
      BY <2>2, <2>4, <2>6, <2>8, InsideIsFixed
    <3> QED BY <1>2, <2>1, <2>2, <2>4, <3>1, <3>2 DEF PrintedInv
  <2> QED BY <2>7, <2>8
<1>4. CASE EndOfReport
  <2>1. /\ functions \ printed = {} /\ status' = "success" /\ UNCHANGED printed
        /\ UNCHANGED W!code /\ UNCHANGED <<lsdaVars, functions>>
    BY <1>4 DEF EndOfReport, Return, validatorVars, W!code
  <2>2. HasReport /\ printed \subseteq functions
    BY <1>2, <2>1 DEF ReportInv, HasReport
  <2> QED BY <1>2, <2>1, <2>2 DEF PrintedInv
<1>5. CASE UNCHANGED vars
  <2>1. UNCHANGED W!code /\ UNCHANGED <<lsdaVars, functions, printed, status>>
    BY <1>5 DEF vars, elfVars, validatorVars, W!code
  <2> QED BY <1>2, <2>1 DEF PrintedInv
<1> QED BY <1>1, <1>3, <1>4, <1>5, ReportSteps

TruthInv == SymbolsInv /\ CodeInv /\ RecordsInv /\ FoundInv /\ PrintedInv

LEMMA TruthInit == SafeInit => TruthInv
<1> SUFFICES ASSUME SafeInit PROVE TruthInv
  OBVIOUS
<1>1. /\ ~HasReport /\ pc = "args" /\ DOMAIN m_symbol_table = {}
  BY DEF SafeInit, ElfInit, HasReport
<1> QED BY <1>1 DEF TruthInv, SymbolsInv, CodeInv, RecordsInv, FoundInv, PrintedInv

LEMMA TruthNext ==
  FileInv /\ SectionsInv /\ LsdaInv /\ ReportInv /\ TruthInv /\ [SafeNext]_vars => TruthInv'
BY SymbolsNext, CodeNext, RecordsNext, FoundNext, PrintedNext DEF TruthInv

LEMMA TruthIsTold == TruthInv => ReportIsTrue
<1> SUFFICES ASSUME TruthInv, HasReport PROVE ReportIsTrue
  BY DEF ReportIsTrue, HasReport
<1>1. ASSUME NEW k \in DOMAIN m_sym, InsideText(k)
      PROVE  k \in functions <=>
               V!IsFunction(k) /\ \E heap \in Behind : DOMAIN Thrown(k, heap) # {}
  <2>1. \A heap : Finds(k, heap) <=> DOMAIN Thrown(k, heap) # {}
    BY <1>1, InsideIsFixed DEF TruthInv, Finds, Thrown, V!check_thrown_functions
  <2>2. \A heap, other \in Behind : Thrown(k, heap) = Thrown(k, other)
    BY <1>1, InsideIsFixed DEF TruthInv
  <2> QED BY <2>1, <2>2 DEF TruthInv, FoundInv
<1> QED BY <1>1 DEF TruthInv, PrintedInv, ReportIsTrue, HasReport

-----------------------------------------------------------------------------
(* How the process ends.                                                   *)

Opened  == m_elf.open = "yes" /\ m_elf_header_loaded = m_elf.ehdr
AllRead == Opened /\ scn = Len(m_elf.sections)

\* What the constructor of the Validator and that of LsdaParser find.
HasEntries == HasSymbols /\ Symtab.entsize # 0 /\ Symtab.size \div Symtab.entsize # 0

HasText == HasEntries /\ ".text" \in DOMAIN m_sections

HasTable == ".gcc_except_table" \in DOMAIN m_sections /\ data = m_sections[".gcc_except_table"].data

HasVerdict == m_lsda # None

\* The ends of main, and what has come before each.
NothingToReport ==
  /\ status = "failure" /\ ~HasVerdict
  /\ \/ ~ValidArguments /\ ~ExistsThrows
     \/ ValidArguments /\ m_elf.open # "yes"
     \/ ValidArguments /\ AllRead /\ ~HasText
     \/ /\ ValidArguments /\ AllRead /\ args.logs
        /\ ".gcc_except_table" \notin DOMAIN m_sections

DividedByZero ==
  /\ status = "killed" /\ ~HasVerdict
  /\ ValidArguments /\ AllRead /\ HasSymbols /\ Symtab.entsize = 0

ExistsThrew == ExistsThrows /\ m_file = "none"
LogsThrew   == ValidArguments /\ AllRead /\ HasText /\ ~args.logs
LsdaThrew   == ValidArguments /\ AllRead /\ HasText /\ args.logs /\ HasTable /\ lsda_pc = "threw"

Terminated ==
  /\ status = "terminated" /\ ~HasVerdict
  /\ ExistsThrew \/ LogsThrew \/ LsdaThrew

Decided ==
  /\ status \in {"success", "failure"} /\ HasVerdict /\ lsda_pc = "done"
  /\ ValidArguments /\ AllRead /\ HasText /\ args.logs /\ HasTable

\* Where main is tells what it has found so far.
WayInv ==
  /\ pc = "args" => m_file = "none"
  /\ pc \notin {"args", "ended"} => ValidArguments
  /\ pc \notin {"args", "open", "ended"} => Opened
  /\ pc \in {"symbols", "loaded", "lsda", "parse", "find", "catch_sites"} => AllRead
  /\ pc \in {"args", "open", "sections", "symbols"} => m_symbol_table = <<>>
  /\ pc = "loaded" => (m_symbol_table # <<>> <=> HasEntries)
  /\ pc \in {"lsda", "parse", "find", "catch_sites"} => HasText /\ args.logs
  /\ pc \in {"parse", "find", "catch_sites"} => HasTable
  /\ pc \in {"find", "catch_sites"} => HasVerdict /\ lsda_pc = "done"
  /\ pc = "ended" => NothingToReport \/ DividedByZero \/ Terminated \/ Decided

LEMMA SymbolsGiven == get_symbol_table.error = None <=> m_symbol_table # <<>>
BY FilesAssumption DEF get_symbol_table

\* There are symbols when there is room for one.
LEMMA SymbolsAreEntries ==
  ASSUME SectionsInv, m_load_symbol_table
  PROVE  m_symbol_table' # <<>> <=> HasEntries
<1>1. CASE HasSymbols
  <2>1. PICK k \in 1 .. scn : Holds(k, ".symtab")
    BY <1>1 DEF SectionsInv, HasSymbols
  <2>2. k \in DOMAIN m_elf.sections /\ IsSection(m_elf.sections[k])
    BY FilesAssumption DEF SectionsInv
  <2>3. Symtab.size \in Nat /\ Symtab.entsize \in Nat /\ Symtab.entsize # 0
    BY <1>1, <2>1, <2>2 DEF Holds, Contents, Symtab, IsSection, m_load_symbol_table
  <2>4. PICK count : count = Symtab.size \div Symtab.entsize
    OBVIOUS
  <2>5. count \in Nat
    BY <2>3, <2>4, QuotientIsNatural
  <2>6. DOMAIN m_symbol_table' = 1 .. count
    BY <1>1, <2>4 DEF m_load_symbol_table, Symbols
  <2>7. m_symbol_table' # <<>> => count # 0
    <3>1. ASSUME count = 0 PROVE m_symbol_table' = <<>>
      <4>1. PICK heap \in Heap : m_symbol_table' = Symbols(heap)
        BY <1>1 DEF m_load_symbol_table
      <4>2. m_symbol_table' =
              [i \in 1 .. 0 |->
                 SymbolAt(Symtab.data \o heap.halves, (i - 1) * Symtab.entsize, heap.string)]
        BY <2>4, <3>1, <4>1 DEF Symbols
      <4> QED BY <4>2
    <3> QED BY <3>1
  <2>8. count # 0 => m_symbol_table' # <<>>
    <3>1. ASSUME count # 0 PROVE 1 \in DOMAIN m_symbol_table'
      BY <2>5, <2>6, <3>1
    <3> QED BY <3>1
  <2> QED BY <1>1, <2>3, <2>4, <2>7, <2>8 DEF HasEntries
<1>2. CASE ~HasSymbols
  BY <1>2 DEF m_load_symbol_table, HasEntries
<1> QED BY <1>1, <1>2

LEMMA WayInit == SafeInit => WayInv
BY DEF SafeInit, ElfInit, WayInv

\* The steps of the constructor of ElfParser.
LEMMA WayOfElf ==
  ASSUME SectionsInv, LsdaInv, WayInv, ConstructElf
  PROVE  WayInv'
<1>1. /\ UNCHANGED <<args, lsda_pc, data, m_lsda>> /\ UNCHANGED m_elf
      /\ pc \in {"open", "sections", "symbols"} /\ ValidArguments /\ ValidArguments'
      /\ m_symbol_table = <<>>
  BY DEF ConstructElf, ElfNext, CannotOpen, m_load_elf_header, LoadSection, m_load_program_header,
         m_load_symbol_table, DivideByZero, lsdaVars, validatorVars, WayInv, ValidArguments, WellFormed
<1>2. ~HasVerdict'
  BY <1>1 DEF LsdaInv, BeforeLsda, P!Init, HasVerdict
<1>3. CASE CannotOpen
  <2>1. pc' = "ended" /\ NothingToReport'
    BY <1>1, <1>2, <1>3 DEF CannotOpen, NothingToReport
  <2> QED BY <2>1 DEF WayInv
<1>4. CASE m_load_elf_header
  <2>1. pc' = "sections" /\ Opened' /\ m_symbol_table' = <<>>
    BY <1>1, <1>4 DEF m_load_elf_header, Opened
  <2> QED BY <1>1, <2>1 DEF WayInv
<1>5. CASE LoadSection
  <2>1. pc' = "sections" /\ pc = "sections" /\ Opened' /\ m_symbol_table' = <<>>
    BY <1>1, <1>5 DEF LoadSection, Opened, WayInv
  <2> QED BY <1>1, <2>1 DEF WayInv
<1>6. CASE m_load_program_header
  <2>1. pc' = "symbols" /\ pc = "sections" /\ Opened' /\ AllRead' /\ m_symbol_table' = <<>>
    BY <1>1, <1>6 DEF m_load_program_header, Opened, AllRead, WayInv
  <2> QED BY <1>1, <2>1 DEF WayInv
<1>7. CASE m_load_symbol_table
  <2>1. /\ pc' = "loaded" /\ pc = "symbols" /\ Opened' /\ AllRead'
        /\ HasEntries' <=> HasEntries
    BY <1>7 DEF m_load_symbol_table, Opened, AllRead, WayInv, HasEntries, HasSymbols, Symtab
  <2>2. m_symbol_table' # <<>> <=> HasEntries'
    BY <1>7, <2>1, SymbolsAreEntries
  <2> QED BY <1>1, <2>1, <2>2 DEF WayInv
<1>8. CASE DivideByZero
  <2>1. /\ pc = "symbols" /\ Opened' /\ AllRead' /\ m_symbol_table' = <<>>
        /\ ~HasEntries' /\ HasSymbols' /\ Symtab'.entsize = 0
        /\ pc' = "loaded" \/ (pc' = "ended" /\ status' = "killed")
    BY <1>1, <1>8 DEF DivideByZero, Opened, AllRead, WayInv, HasEntries, HasSymbols, Symtab
  <2>2. pc' = "ended" => DividedByZero'
    BY <1>1, <1>2, <2>1 DEF DividedByZero
  <2> QED BY <1>1, <2>1, <2>2 DEF WayInv
<1> QED BY <1>3, <1>4, <1>5, <1>6, <1>7, <1>8 DEF ConstructElf, ElfNext

\* What a step of main that is not one of ElfParser leaves as it is.
LEMMA WayIsFixed ==
  ASSUME [SafeNext]_vars, ~ConstructElf
  PROVE  /\ ValidArguments' <=> ValidArguments
         /\ ExistsThrows' <=> ExistsThrows
         /\ UNCHANGED <<args, m_elf, m_symbol_table, m_sections>>
         /\ Opened' <=> Opened
         /\ AllRead' <=> AllRead
         /\ HasEntries' <=> HasEntries
         /\ HasText' <=> HasText
<1>1. UNCHANGED <<m_elf, m_elf_header_loaded, scn, m_sections, m_symbol_table>>
  BY MainLeavesElf
<1>2. args' = args
  BY DEF SafeNext, MainStep, vars, validate_args, ConstructElf, NothingToValidate,
         ConstructValidator, ValidatorThrows, NoExceptTable, ConstructLsda, LsdaThrows, ParseLsda, LoadLsda,
         FindThrownFunctions, PrintCatchSites, EndOfReport
<1> QED BY <1>1, <1>2 DEF ValidArguments, ExistsThrows, WellFormed, Opened, AllRead, HasEntries, HasText, HasSymbols, Symtab

\* The steps of main before it has a parser.
LEMMA WayToLsda ==
  ASSUME LsdaInv, WayInv, [SafeNext]_vars,
         \/ validate_args \/ NothingToValidate \/ ConstructValidator \/ ValidatorThrows
         \/ NoExceptTable \/ ConstructLsda
  PROVE  WayInv'
<1>1. ~ConstructElf
  BY DEF ConstructElf, ElfNext, CannotOpen, m_load_elf_header, LoadSection, m_load_program_header,
         m_load_symbol_table, DivideByZero, validate_args, NothingToValidate, ConstructValidator,
         ValidatorThrows, NoExceptTable, ConstructLsda
<1>2. /\ ValidArguments' <=> ValidArguments
      /\ ExistsThrows' <=> ExistsThrows
      /\ UNCHANGED <<args, m_elf, m_symbol_table, m_sections>>
      /\ Opened' <=> Opened
      /\ AllRead' <=> AllRead
      /\ HasEntries' <=> HasEntries
      /\ HasText' <=> HasText
  BY <1>1, WayIsFixed
<1>3. UNCHANGED <<lsda_pc, m_lsda>> /\ pc \in BeforeLsda
  BY DEF validate_args, NothingToValidate, ConstructValidator, ValidatorThrows, NoExceptTable,
         ConstructLsda, lsdaVars, validatorVars, BeforeLsda
<1>4. ~HasVerdict'
  BY <1>3 DEF LsdaInv, BeforeLsda, HasVerdict
<1>5. CASE validate_args
  <2>1. CASE ValidArguments /\ GoTo("open")
    <3>1. pc' = "open" /\ pc = "args"
      BY <1>5, <2>1 DEF validate_args, GoTo
    <3> QED BY <1>2, <2>1, <3>1 DEF WayInv
  <2>2. CASE ~ValidArguments /\ ~ExistsThrows /\ Return("failure")
    <3>1. pc' = "ended" /\ status' = "failure"
      BY <2>2 DEF Return
    <3> QED BY <1>2, <1>4, <2>2, <3>1 DEF WayInv, NothingToReport
  <2>3. CASE ExistsThrows /\ Terminate
    <3>1. pc' = "ended" /\ status' = "terminated" /\ m_file' = "none"
      BY <1>5, <2>3 DEF validate_args, Terminate, WayInv
    <3> QED BY <1>2, <1>4, <2>3, <3>1 DEF WayInv, Terminated, ExistsThrew
  <2> QED BY <1>5, <2>1, <2>2, <2>3 DEF validate_args
<1>6. pc = "loaded" => (CanValidate <=> HasText)
  BY SymbolsGiven, SectionFound DEF WayInv, HasText, CanValidate
<1>7. CASE NothingToValidate
  <2>1. pc' = "ended" /\ status' = "failure" /\ AllRead /\ ValidArguments /\ ~HasText
    BY <1>6, <1>7 DEF NothingToValidate, Return, WayInv
  <2> QED BY <1>2, <1>4, <2>1 DEF WayInv, NothingToReport
<1>8. CASE ConstructValidator
  <2>1. pc' = "lsda" /\ AllRead /\ Opened /\ ValidArguments /\ args.logs /\ HasText
    BY <1>6, <1>8 DEF ConstructValidator, GoTo, WayInv
  <2> QED BY <1>2, <2>1 DEF WayInv
<1>9. CASE ValidatorThrows
  <2>1. /\ pc' = "ended" /\ status' = "terminated"
        /\ AllRead /\ ValidArguments /\ ~args.logs /\ HasText
    BY <1>6, <1>9 DEF ValidatorThrows, Terminate, WayInv
  <2> QED BY <1>2, <1>4, <2>1 DEF WayInv, Terminated, LogsThrew
<1>10. CASE NoExceptTable
  <2>1. /\ pc' = "ended" /\ status' = "failure" /\ AllRead /\ ValidArguments /\ args.logs
        /\ ".gcc_except_table" \notin DOMAIN m_sections'
    BY <1>2, <1>10, SectionFound DEF NoExceptTable, Return, WayInv
  <2> QED BY <1>2, <1>4, <2>1 DEF WayInv, NothingToReport
<1>11. CASE ConstructLsda
  <2>1. pc' = "parse" /\ AllRead /\ Opened /\ ValidArguments /\ HasText /\ args.logs
    BY <1>11 DEF ConstructLsda, GoTo, WayInv
  <2>2. HasTable'
    <3>1. ".gcc_except_table" \in DOMAIN m_sections
      BY <1>11, SectionFound DEF ConstructLsda
    <3>2. data' = m_sections[".gcc_except_table"].data
      BY <1>11, <3>1, SectionGiven DEF ConstructLsda
    <3> QED BY <1>2, <3>1, <3>2 DEF HasTable
  <2> QED BY <1>2, <2>1, <2>2 DEF WayInv
<1> QED BY <1>5, <1>7, <1>8, <1>9, <1>10, <1>11

\* The steps of main from the LsdaParser on.
LEMMA WayToReport ==
  ASSUME FileInv, LsdaInv, WayInv, [SafeNext]_vars, ~ConstructElf,
         \/ ParseLsda \/ LsdaThrows \/ LoadLsda \/ FindThrownFunctions \/ PrintCatchSites
         \/ EndOfReport \/ UNCHANGED vars
  PROVE  WayInv'
<1>1. /\ ValidArguments' <=> ValidArguments
      /\ ExistsThrows' <=> ExistsThrows
      /\ UNCHANGED <<args, m_elf, m_symbol_table, m_sections>>
      /\ Opened' <=> Opened
      /\ AllRead' <=> AllRead
      /\ HasEntries' <=> HasEntries
      /\ HasText' <=> HasText
  BY WayIsFixed
<1>2. HasTable' <=> HasTable
  <2>1. L!Next => data' = data
    BY DEF L!Next, L!build_scopes, L!ParseHeader, L!ParseCallSiteDescriptor, L!ParseCallSite,
           L!EndCallSites, L!ParseAction, L!EndActions, L!ParseType, L!EndTypes, L!SkipCallSite,
           L!CleanupScope, L!BeginChain, L!FollowChain, L!EndChain, L!EndScopes, L!Throw
  <2>2. data' = data
    BY <2>1 DEF ParseLsda, LsdaThrows, LoadLsda, FindThrownFunctions, PrintCatchSites, EndOfReport,
                vars, lsdaVars
  <2> QED BY <1>1, <2>2 DEF HasTable
<1>3. CASE ParseLsda
  <2>1. pc = "parse" /\ pc' = "parse"
    BY <1>3 DEF ParseLsda, elfVars
  <2> QED BY <1>1, <1>2, <2>1 DEF WayInv
<1>4. CASE LsdaThrows
  <2>1. /\ pc = "parse" /\ pc' = "ended" /\ status' = "terminated" /\ lsda_pc' = "threw"
        /\ m_lsda' = m_lsda /\ m_lsda = None
    BY <1>4 DEF LsdaThrows, Terminate, lsdaVars, validatorVars, LsdaInv
  <2>2. Terminated'
    BY <1>1, <1>2, <2>1 DEF Terminated, LsdaThrew, WayInv, HasVerdict
  <2> QED BY <2>1, <2>2 DEF WayInv
<1>5. CASE LoadLsda
  <2>1. /\ pc = "parse" /\ pc' = "find" /\ lsda_pc' = "done"
        /\ m_lsda' = [scopes |-> scopes, types |-> type_table]
    BY <1>5 DEF LoadLsda, GoTo, lsdaVars, V!load_lsda
  <2>2. HasVerdict'
    BY <2>1, LsdaFits, ProgramAssumption DEF HasVerdict
  <2> QED BY <1>1, <1>2, <2>1, <2>2 DEF WayInv
<1>6. CASE FindThrownFunctions \/ PrintCatchSites \/ EndOfReport
  <2>1. /\ pc \in {"find", "catch_sites"} /\ UNCHANGED <<lsda_pc, m_lsda>>
        /\ pc' = "catch_sites" \/ (pc' = "ended" /\ status' \in {"success", "failure"})
    BY <1>6 DEF FindThrownFunctions, PrintCatchSites, EndOfReport, GoTo, Return, lsdaVars,
                validatorVars, V!find_thrown_functions, V!analyze_exceptions
  <2>2. /\ ValidArguments /\ Opened /\ AllRead /\ HasText /\ args.logs /\ HasTable /\ HasVerdict
        /\ lsda_pc = "done"
    BY <2>1 DEF WayInv
  <2>3. HasVerdict'
    BY <2>1, <2>2 DEF HasVerdict
  <2>4. pc' = "ended" => Decided'
    BY <1>1, <1>2, <2>1, <2>2, <2>3 DEF Decided
  <2> QED BY <1>1, <1>2, <2>1, <2>2, <2>3, <2>4 DEF WayInv
<1>7. CASE UNCHANGED vars
  <2>1. UNCHANGED <<pc, status, m_file, lsda_pc, m_lsda>>
    BY <1>7 DEF vars, elfVars, lsdaVars, validatorVars
  <2>2. /\ NothingToReport' <=> NothingToReport
        /\ DividedByZero' <=> DividedByZero
        /\ Terminated' <=> Terminated
        /\ Decided' <=> Decided
        /\ HasVerdict' <=> HasVerdict
    BY <1>1, <1>2, <2>1 DEF NothingToReport, DividedByZero, Terminated, ExistsThrew, LogsThrew,
                            LsdaThrew, Decided, HasVerdict, HasSymbols, Symtab
  <2> QED BY <1>1, <1>2, <2>1, <2>2 DEF WayInv
<1> QED BY <1>3, <1>4, <1>5, <1>6, <1>7

LEMMA WayNext ==
  FileInv /\ SectionsInv /\ LsdaInv /\ WayInv /\ [SafeNext]_vars => WayInv'
BY WayOfElf, WayToLsda, WayToReport DEF SafeNext, MainStep

\* A section is handed out under its name when the file has it; a string that is
\* no name of a section is not asked for.
LEMMA HandedOut ==
  ASSUME SectionsInv, AllRead, NEW name, name \notin OtherStrings
  PROVE  /\ name \in DOMAIN m_sections <=> First(name) # {}
         /\ \A k \in First(name) : m_sections[name] = Contents(m_elf.sections[k])
<1>1. DOMAIN m_elf.sections = 1 .. scn /\ scn \in Nat
  BY FilesAssumption DEF SectionsInv, AllRead
<1>2. CASE ~NamesKnown
  <2>1. First(name) = {}
    BY <1>2 DEF First
  <2>2. name \notin DOMAIN m_sections
    BY <1>2 DEF SectionsInv, Holds
  <2> QED BY <2>1, <2>2
<1>3. CASE NamesKnown
  <2>1. FirstHolds
    BY <1>3 DEF SectionsInv
  <2>2. \A k \in DOMAIN m_elf.sections :
          k \in First(name) <=>
            Named(k, name) /\ \A j \in DOMAIN m_elf.sections : Named(j, name) => k <= j
    BY <1>3 DEF First, Named
  <2>3. ASSUME name \in DOMAIN m_sections
        PROVE  \E k \in First(name) : /\ m_sections[name] = Contents(m_elf.sections[k])
                                      /\ \A j \in First(name) : j = k
    <3>1. PICK k \in 1 .. scn : /\ Named(k, name)
                                /\ m_sections[name] = Contents(m_elf.sections[k])
                                /\ \A j \in 1 .. scn : Named(j, name) => k <= j
      BY <2>1, <2>3 DEF FirstHolds
    <3>2. k \in First(name)
      BY <1>1, <2>2, <3>1
    <3>3. ASSUME NEW j \in First(name) PROVE j = k
      <4>1. j \in 1 .. scn
        BY <1>1 DEF First
      <4>2. j <= k /\ k <= j
        BY <1>1, <2>2, <3>1, <4>1
      <4> QED BY <1>1, <4>1, <4>2
    <3> QED BY <3>1, <3>2, <3>3
  <2>4. ASSUME NEW k \in First(name) PROVE name \in DOMAIN m_sections
    BY <1>1, <2>1 DEF First, FirstHolds
  <2> QED BY <2>3, <2>4
<1> QED BY <1>2, <1>3

LEMMA NeedsAreMet ==
  ASSUME SectionsInv, AllRead
  PROVE  /\ HasCode <=> HasText
         /\ ".gcc_except_table" \in DOMAIN m_sections <=> First(".gcc_except_table") # {}
         /\ HasTable => \E k \in First(".gcc_except_table") :
                          data = Contents(m_elf.sections[k]).data
         /\ HasSymbols /\ Symtab.entsize = 0 =>
              \E k \in First(".symtab") : m_elf.sections[k].entsize = 0
<1>1. \A name \in {".text", ".gcc_except_table", ".symtab", ".strtab"} :
        /\ name \in DOMAIN m_sections <=> First(name) # {}
        /\ \A k \in First(name) : m_sections[name] = Contents(m_elf.sections[k])
  BY HandedOut, ProgramAssumption
<1>2. ASSUME NEW k \in First(".symtab")
      PROVE  /\ Symtab.size = m_elf.sections[k].size /\ Symtab.entsize = m_elf.sections[k].entsize
             /\ Symtab.size \in Nat /\ Symtab.entsize \in Nat
  <2>1. Symtab = Contents(m_elf.sections[k])
    BY <1>1 DEF Symtab
  <2>2. k \in DOMAIN m_elf.sections /\ IsSection(m_elf.sections[k])
    BY FilesAssumption DEF First, SectionsInv
  <2> QED BY <2>1, <2>2 DEF Contents, IsSection
<1>3. HasEntries <=>
        First(".strtab") # {}
          /\ \E k \in First(".symtab") : m_elf.sections[k].entsize \in 1 .. m_elf.sections[k].size
  <2>1. HasSymbols <=> First(".strtab") # {} /\ First(".symtab") # {}
    BY <1>1 DEF HasSymbols
  <2>2. ASSUME NEW k \in First(".symtab")
        PROVE  Symtab.entsize # 0 /\ Symtab.size \div Symtab.entsize # 0 <=>
                 m_elf.sections[k].entsize \in 1 .. m_elf.sections[k].size
    BY <1>2, RoomForOne
  <2> QED BY <2>1, <2>2 DEF HasEntries
<1>4. HasSymbols /\ Symtab.entsize = 0 => \E k \in First(".symtab") : m_elf.sections[k].entsize = 0
  BY <1>1, <1>2 DEF HasSymbols
<1>5. HasTable => \E k \in First(".gcc_except_table") : data = Contents(m_elf.sections[k]).data
  BY <1>1 DEF HasTable
<1> QED BY <1>1, <1>3, <1>4, <1>5 DEF HasCode, HasText

LEMMA EndsHaveReasons ==
  ASSUME FileInv, SectionsInv, LsdaInv, WayInv
  PROVE  ExitHasAReason
<1> DEFINE opened == ValidArguments /\ m_elf.open = "yes"
           parsed == /\ opened /\ HasCode /\ args.logs
                     /\ \E k \in First(".gcc_except_table") : data = Contents(m_elf.sections[k]).data
<1>1. AllRead => m_elf.open = "yes"
  BY DEF AllRead, Opened
<1>2. AllRead =>
        /\ HasCode <=> HasText
        /\ ".gcc_except_table" \in DOMAIN m_sections <=> First(".gcc_except_table") # {}
        /\ HasTable => \E k \in First(".gcc_except_table") :
                         data = Contents(m_elf.sections[k]).data
        /\ HasSymbols /\ Symtab.entsize = 0 =>
             \E k \in First(".symtab") : m_elf.sections[k].entsize = 0
  BY NeedsAreMet
<1>3. ValidArguments => ~ExistsThrows
  BY DEF ValidArguments, ExistsThrows
<1>4. status \in {"success", "failure", "killed", "terminated"} => pc = "ended"
  BY DEF FileInv
<1>5. NothingToReport => ~ExistsThrows /\ ~(opened /\ HasCode /\ ~args.logs) /\ ~(opened /\ HasAll)
  BY <1>2, <1>3 DEF NothingToReport, HasAll, HasText
<1>6. status = "failure" /\ ~HasVerdict => NothingToReport
  BY <1>4 DEF WayInv, DividedByZero, Terminated, Decided
<1>7. status = "killed" => DividedByZero
  BY <1>4 DEF WayInv, NothingToReport, Terminated, Decided
<1>8. status = "success" => Decided
  BY <1>4 DEF WayInv, NothingToReport, Terminated, DividedByZero
<1>9. status = "terminated" => Terminated
  BY <1>4 DEF WayInv, NothingToReport, Decided, DividedByZero
<1>10. HasVerdict =>
         /\ ValidArguments /\ lsda_pc = "done"
         /\ AllRead /\ HasText /\ args.logs /\ HasTable
  <2>1. CASE pc = "ended"
    BY <2>1 DEF WayInv, NothingToReport, Terminated, DividedByZero, Decided
  <2>2. CASE pc # "ended"
    BY <2>2 DEF LsdaInv, WayInv, FileInv, Places, BeforeLsda, HasVerdict
  <2> QED BY <2>1, <2>2
<1>11. HasVerdict => parsed /\ lsda_pc = "done"
  BY <1>1, <1>2, <1>10
<1>12. status = "terminated" =>
         /\ ~HasVerdict
         /\ \/ ExistsThrows /\ m_file = "none"
            \/ opened /\ HasCode /\ ~args.logs
            \/ parsed /\ lsda_pc = "threw"
  BY <1>1, <1>2, <1>9 DEF Terminated, ExistsThrew, LogsThrew, LsdaThrew
<1>13. status = "killed" =>
         /\ opened /\ ~HasVerdict
         /\ \E k \in First(".symtab") : m_elf.sections[k].entsize = 0
  BY <1>1, <1>2, <1>7 DEF DividedByZero
<1>14. status = "success" => HasVerdict
  BY <1>8 DEF Decided
<1> QED BY <1>5, <1>6, <1>11, <1>12, <1>13, <1>14 DEF ExitHasAReason, HasVerdict

-----------------------------------------------------------------------------
(* The theorems.                                                           *)

\* The inductive invariant: what the LsdaParser and the Validator are given
\* needs the sections, and the sections that main asks for need the place where
\* it is.
SafeInv == FileInv /\ SectionsInv /\ LsdaInv /\ ReportInv /\ TruthInv /\ WayInv

LEMMA SafeInvariant == SafeSpec => []SafeInv
<1>1. SafeInit => SafeInv
  BY FileInit, SectionsInit, LsdaInit, ReportInit, TruthInit, WayInit DEF SafeInv
<1>2. SafeInv /\ [SafeNext]_vars => SafeInv'
  BY FileNext, SectionsNext, LsdaNext, ReportNext, TruthNext, WayNext DEF SafeInv
<1> QED BY <1>1, <1>2, PTL DEF SafeSpec

\* The program hands its parts what they expect: the LsdaParser and the Validator
\* get bytes, the Validator gets the finished LsdaParser, and it prints the
\* functions it has found (main.cpp:91-163).
THEOREM TypeCorrect == SafeSpec => []SafeTypeOK
<1>1. SafeInv => SafeTypeOK
  <2> SUFFICES ASSUME SafeInv PROVE SafeTypeOK
    OBVIOUS
  <2>1. L!TypeOK
    BY SameInvariants DEF SafeInv, LsdaInv, P!WalkInv, P!IInv
  <2> QED BY <2>1 DEF SafeInv, FileInv, SectionsInv, LsdaInv, ReportInv, SafeTypeOK
<1> QED BY <1>1, SafeInvariant, PTL

\* Whatever a file is like, main works on an open file and closes it before it
\* returns; the ends that do not close it are those that do not return
\* (main.cpp:91, elf_parser.cpp:19-69).
THEOREM FileIsClosed == SafeSpec => []FileIsClosedByMain
<1>1. SafeInv => FileIsClosedByMain
  BY DEF SafeInv, FileInv, FileIsClosedByMain
<1> QED BY <1>1, SafeInvariant, PTL

\* Whatever sections a file has, and whichever calls of libelf fail for them,
\* elf_strptr included, what is handed out under a name is the first section of
\* that name for which none does, and every such name is known.  That needs the
\* header, or luck with an e_shstrndx that nobody has set; without either, what is
\* handed out is the contents of some section under a string that is the name of
\* none, and never a .symtab, .strtab, .text or .gcc_except_table
\* (elf_parser.cpp:83-142).
THEOREM SectionsAreFirst == SafeSpec => []SectionsAreTheFiles
<1>1. SafeInv => SectionsAreTheFiles
  BY SectionsFollow DEF SafeInv
<1> QED BY <1>1, SafeInvariant, PTL

\* What LsdaParser keeps on its own it keeps in the program, on the bytes of any
\* .gcc_except_table: its tables are in order, its links exact, and its scopes
\* those of its call sites (main.cpp:108-117, abi_parse.cpp:63-135, 257-439).
THEOREM LsdaParserIsKept ==
  SafeSpec => [](/\ L!TablesInOrder /\ L!ActionsTile /\ L!LinksAreExact
                 /\ L!BackwardLinksDescend /\ L!ScopesMirrorCallSites)
<1>1. P!IInv => P!BackwardLinksDescend
  BY ParserAssumptions, P!ExactLinksDescend DEF P!IInv
<1>2. SafeInv => /\ L!TablesInOrder /\ L!ActionsTile /\ L!LinksAreExact
                 /\ L!BackwardLinksDescend /\ L!ScopesMirrorCallSites
  BY <1>1, SameInvariants DEF SafeInv, LsdaInv, P!WalkInv, P!IInv
<1> QED BY <1>2, SafeInvariant, PTL

\* The report is true of any file: whatever the symbols, the code and the LSDA
\* are, each function that lies in .text is reported when its code refers to a
\* type, and the verdict on it is that of the LSDA which LsdaParser recovers
\* (main.cpp:119-162, validator.cpp:107-227, abi_parse.cpp:63-135).
THEOREM ReportTellsTheTruth == SafeSpec => []ReportIsTrue
<1>1. SafeInv => ReportIsTrue
  BY TruthIsTold DEF SafeInv
<1> QED BY <1>1, SafeInvariant, PTL

\* Whatever the file, the arguments and the answers of the file system, the
\* process ends for a reason that is in them: it fails without a report when
\* something is missing and only then, and each of the three exceptions that
\* terminate it has its cause, that of std::filesystem::exists, that of
\* create_directories, and that of LsdaParser on the first exception table of the
\* file (main.cpp:66-76, 84-163, validator.hpp:58, elf_parser.cpp:19-52, 157).
THEOREM EndsAreExplained == SafeSpec => []ExitHasAReason
<1>1. SafeInv => ExitHasAReason
  BY EndsHaveReasons DEF SafeInv
<1> QED BY <1>1, SafeInvariant, PTL
=============================================================================
