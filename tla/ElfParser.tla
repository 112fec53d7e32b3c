----------------------------- MODULE ElfParser ------------------------------
(***************************************************************************)
(* ElfParser (src/src/elf_parser.cpp): its constructor reads everything    *)
(* there is in a file with libelf, its getters hand that out, and its      *)
(* destructor closes the file.                                             *)
(*                                                                         *)
(* A file is what libelf says of it, [open, ehdr, names, sections, phdrs]: *)
(* the first of the calls of the constructor that fails, or "yes"; whether *)
(* there is a header, and if not whose names an e_shstrndx that nobody has *)
(* set leads to; for every section the record                              *)
(*   [shdr, name, getdata, nobits, addr, size, entsize, data]              *)
(* of which shdr and getdata say that the call succeeds, and name is what  *)
(* elf_strptr gives, None when it fails; and for every program header      *)
(* whether it can be read.  The data of .symtab are half words of an       *)
(* address (32 bits), and its sizes count them; the data of .strtab are    *)
(* its strings, in the order of their offsets.                             *)
(***************************************************************************)
EXTENDS Integers, Sequences, FiniteSets, TLC

CONSTANTS Files,     \* name -> file
          HalfWord,  \* 2^32
          Heap,      \* what may be read behind the data of a section: half
                     \* words behind .symtab, a string outside .strtab
          OtherStrings,  \* strings of the file that are no names of sections
          None           \* nullptr

\* What libelf says of a section.
IsSection(s) ==
  /\ {s.shdr, s.getdata, s.nobits} \subseteq BOOLEAN
  /\ {s.addr, s.size, s.entsize} \subseteq Nat

ASSUME FilesAssumption ==
  /\ None \notin {"EMPTY_SECTION", "SECTION_NOT_FOUND", "EMPTY_SYMBOL"} \cup OtherStrings
  /\ \A f \in DOMAIN Files :
       /\ Files[f].names \in {"own", "other", "none"}
       /\ Len(Files[f].sections) \in Nat
       /\ DOMAIN Files[f].sections = 1 .. Len(Files[f].sections)
       /\ \A k \in DOMAIN Files[f].sections : IsSection(Files[f].sections[k])

VARIABLES
  file,      \* the name of the file
  m_elf,     \* the file
  pc,
  status,    \* of the process: "running", "success", "failure", or how it died
  m_file,    \* the descriptor: "none", "open", "closed"
  m_elf_header_loaded,
  scn,       \* the sections that elf_nextscn has returned
  m_sections, m_program_header, m_symbol_table

elfVars == <<file, m_elf, pc, status, m_file, m_elf_header_loaded, scn,
             m_sections, m_program_header, m_symbol_table>>

ElfInit ==
  /\ file \in DOMAIN Files
  /\ m_elf = Files[file]
  /\ status = "running"
  /\ m_file = "none"
  /\ m_elf_header_loaded = FALSE
  /\ scn = 0
  /\ m_sections = <<>>
  /\ m_program_header = <<>>
  /\ m_symbol_table = <<>>

\* exit() in the constructor runs no destructor of the object or of main.
CannotOpen ==
  /\ pc = "open" /\ m_elf.open # "yes"
  /\ status' = "failure"
  /\ m_file' = IF m_elf.open \in {"elf_version", "open"} THEN "none" ELSE "open"
  /\ pc' = "ended"
  /\ UNCHANGED <<file, m_elf, m_elf_header_loaded, scn, m_sections, m_program_header, m_symbol_table>>

m_load_elf_header ==
  /\ pc = "open" /\ m_elf.open = "yes"
  /\ m_file' = "open"
  /\ m_elf_header_loaded' = m_elf.ehdr
  /\ pc' = "sections"
  /\ UNCHANGED <<file, m_elf, status, scn, m_sections, m_program_header, m_symbol_table>>

\* e_shstrndx is the place of the table with the names of the sections.  When the
\* header was not loaded nobody has set it.
NamesKnown == m_elf_header_loaded \/ m_elf.names = "own"

\* What elf_strptr may give for the name of a section: in another string table
\* any string of it, or none.
NamesOf(section) ==
  CASE NamesKnown                            -> {section.name}
    [] ~NamesKnown /\ m_elf.names = "other" -> OtherStrings \cup {None}
    [] ~NamesKnown /\ m_elf.names # "other" -> {None}

Contents(section) ==
  [addr |-> section.addr, size |-> section.size, entsize |-> section.entsize,
   data |-> IF section.nobits THEN <<>> ELSE section.data]

\* emplace keeps the section that has the name already.
Emplaced(section, name) ==
  [n \in DOMAIN m_sections \cup {name} |->
     IF n \in DOMAIN m_sections THEN m_sections[n] ELSE Contents(section)]

\* Mutants: a section that fails is tried again; the last section of a name
\* stays.
LoadSectionAgain ==
  /\ pc = "sections" /\ scn < Len(m_elf.sections)
  /\ LET section == m_elf.sections[scn + 1]
     IN  \E name \in NamesOf(section) :
           IF section.shdr /\ name # None /\ section.getdata
           THEN m_sections' = Emplaced(section, name) /\ scn' = scn + 1
           ELSE UNCHANGED <<m_sections, scn>>
  /\ UNCHANGED <<file, m_elf, pc, status, m_file, m_elf_header_loaded, m_program_header, m_symbol_table>>

LoadSectionOver ==
  /\ pc = "sections" /\ scn < Len(m_elf.sections)
  /\ scn' = scn + 1
  /\ LET section == m_elf.sections[scn + 1]
     IN  \E name \in NamesOf(section) :
           m_sections' = IF section.shdr /\ name # None /\ section.getdata
                         THEN [Emplaced(section, name) EXCEPT ![name] = Contents(section)]
                         ELSE m_sections
  /\ UNCHANGED <<file, m_elf, pc, status, m_file, m_elf_header_loaded, m_program_header, m_symbol_table>>

\* A section that cannot be read is left out.
LoadSection ==
  /\ pc = "sections" /\ scn < Len(m_elf.sections)
  /\ scn' = scn + 1
  /\ LET section == m_elf.sections[scn + 1]
     IN  \E name \in NamesOf(section) :
           m_sections' = IF section.shdr /\ name # None /\ section.getdata
                         THEN Emplaced(section, name)
                         ELSE m_sections
  /\ UNCHANGED <<file, m_elf, pc, status, m_file, m_elf_header_loaded, m_program_header, m_symbol_table>>

m_load_program_header ==
  /\ pc = "sections" /\ scn = Len(m_elf.sections)
  /\ m_program_header' = IF m_elf_header_loaded
                         THEN SelectSeq([k \in DOMAIN m_elf.phdrs |-> k], LAMBDA k : m_elf.phdrs[k])
                         ELSE <<>>
  /\ pc' = "symbols"
  /\ UNCHANGED <<file, m_elf, status, m_file, m_elf_header_loaded, scn, m_sections, m_symbol_table>>

-----------------------------------------------------------------------------
(* The symbol table.                                                       *)

HasSymbols == {".symtab", ".strtab"} \subseteq DOMAIN m_sections

Symtab == m_sections[".symtab"]

\* The string at this offset of .strtab.  Nothing keeps the offset inside it.
NameAt(st_name, behind) ==
  LET strtab == m_sections[".strtab"].data
  IN  CASE st_name = 0                                  -> ""
        [] st_name # 0 /\ st_name \in DOMAIN strtab    -> strtab[st_name]
        [] st_name # 0 /\ st_name \notin DOMAIN strtab -> behind

\* The half words of the GElf_Sym at this place of the data: st_name; st_info,
\* st_other and st_shndx; st_value; st_size.  Of st_info only the type matters.
\* There is no other layout, whatever the class of the file.
SymbolAt(data, at, behind) ==
  [name  |-> NameAt(data[at + 1], behind),
   type  |-> data[at + 2] % 16,
   shndx |-> data[at + 2] \div 16,
   value |-> data[at + 3] + HalfWord * data[at + 4],
   size  |-> data[at + 5] + HalfWord * data[at + 6]]

\* Mutant: the last entry is left out.
SymbolsButLast(heap) ==
  [i \in 1 .. Symtab.size \div Symtab.entsize - 1 |->
     SymbolAt(Symtab.data \o heap.halves, (i - 1) * Symtab.entsize, heap.string)]

\* Nothing keeps the last entries inside the data.
Symbols(heap) ==
  [i \in 1 .. Symtab.size \div Symtab.entsize |->
     SymbolAt(Symtab.data \o heap.halves, (i - 1) * Symtab.entsize, heap.string)]

\* The half words there are behind the begin of the data of .symtab are as many
\* as its entries take: what is behind those of the heap is not modelled.
ASSUME SymtabAssumption ==
  /\ HalfWord \in Nat \ {0}
  /\ \A f \in DOMAIN Files : \A k \in DOMAIN Files[f].sections :
       LET s == Files[f].sections[k]
       IN  s.name = ".symtab" => \A heap \in Heap :
             LET halves == Contents(s).data \o heap.halves
             IN  /\ halves \in Seq(0 .. HalfWord - 1)
                 /\ s.entsize # 0 =>
                      \A i \in 1 .. s.size \div s.entsize :
                        (i - 1) * s.entsize + 6 <= Len(halves)

m_load_symbol_table ==
  /\ pc = "symbols" /\ (HasSymbols => Symtab.entsize # 0)
  /\ IF HasSymbols THEN \E heap \in Heap : m_symbol_table' = Symbols(heap)
     ELSE m_symbol_table' = <<>>
  /\ pc' = "loaded"
  /\ UNCHANGED <<file, m_elf, status, m_file, m_elf_header_loaded, scn, m_sections, m_program_header>>

\* A division by zero: the processor stops the program, or gives 0.
DivideByZero ==
  /\ pc = "symbols" /\ HasSymbols /\ Symtab.entsize = 0
  /\ \/ status' = "killed" /\ pc' = "ended"
     \/ pc' = "loaded" /\ UNCHANGED status
  /\ UNCHANGED <<file, m_elf, m_file, m_elf_header_loaded, scn, m_sections, m_program_header, m_symbol_table>>

ElfNext ==
  \/ CannotOpen \/ m_load_elf_header \/ LoadSection
  \/ m_load_program_header \/ m_load_symbol_table \/ DivideByZero

\* Mutant: the descriptor stays open.
KeepElf == m_file' = m_file

\* The destructor.
CloseElf == m_file' = "closed"

get_elf_header == IF m_elf_header_loaded THEN "header" ELSE "UNLOADED_ELF_HEADER"

get_section(name) ==
  CASE DOMAIN m_sections = {}    -> [error |-> "EMPTY_SECTION"]
    [] DOMAIN m_sections # {} /\ name \notin DOMAIN m_sections ->
         [error |-> "SECTION_NOT_FOUND"]
    [] name \in DOMAIN m_sections -> [error |-> None, section |-> m_sections[name]]

get_program_header ==
  IF m_program_header = <<>> THEN "EMPTY_PROGRAM" ELSE m_program_header

get_symbol_table ==
  IF m_symbol_table = <<>> THEN [error |-> "EMPTY_SYMBOL"]
  ELSE [error |-> None, symbols |-> m_symbol_table]

-----------------------------------------------------------------------------
HasData(k) == m_elf.sections[k].shdr /\ m_elf.sections[k].getdata

\* None of the calls for a section fails.
Readable(k) == HasData(k) /\ m_elf.sections[k].name # None

\* A section is handed out under its name exactly when the file has one for which
\* no call fails, and it is the first of them, with its own data and header.
\* That is so without a header as well, if the unset e_shstrndx happens to be
\* right: the loader does not return early, whatever elf_parser.hpp:250-251 says,
\* it keeps what it finds.  If it is not right no section has the name of one, but
\* what is handed out are the contents of one.  The getters that need the header
\* say that it is missing (elf_parser.cpp:83-142, 180-203, 205-235).
SectionsAreTheFiles ==
  LET read        == {k \in 1 .. scn : Readable(k)}
      named(name) == {k \in read : m_elf.sections[k].name = name}
      first(name) == CHOOSE k \in named(name) : \A j \in named(name) : k <= j
  IN  /\ NamesKnown =>
           /\ DOMAIN m_sections = {m_elf.sections[k].name : k \in read}
           /\ \A name \in DOMAIN m_sections :
                get_section(name).section = Contents(m_elf.sections[first(name)])
      /\ ~NamesKnown =>
           \A name \in DOMAIN m_sections :
             /\ name \in OtherStrings
             /\ \E k \in 1 .. scn : HasData(k) /\ m_sections[name] = Contents(m_elf.sections[k])
      /\ ~m_elf_header_loaded =>
           get_elf_header = "UNLOADED_ELF_HEADER" /\ get_program_header = "EMPTY_PROGRAM"
=============================================================================
