-------------------------------- MODULE Safe --------------------------------
(***************************************************************************)
(* The program (src/src/main.cpp): it checks its arguments, has ElfParser  *)
(* read the file, gives the symbols and .text to a Validator and           *)
(* .gcc_except_table to an LsdaParser, and reports for every function that *)
(* throws which handlers there are.                                        *)
(*                                                                         *)
(* A step is a call of main, or a step of a constructor: of ElfParser, and *)
(* of LsdaParser, which may throw, or not return at all.                   *)
(***************************************************************************)
EXTENDS ElfParser

CONSTANTS Arguments,      \* [argc, flag, exists, logs]: a command line, and what
                          \* the file system says of its file and of ../logs
          TypeinfoNames,  \* the names that demangle to "typeinfo ..."
          WordBits, WordSize, MaxLeb, Bytes2, Bytes4, Bytes8,
          MaxHandlers, Names, Behind

VARIABLES
  args,
  printed,  \* the functions whose catch sites are printed
  \* The LsdaParser.
  data, lsda_pc, index, tt, call, actions_start, call_sites, actions, type_table,
  scopes, site, action_index, handlers,
  \* The Validator.
  m_sym, m_text, rtti_sym, m_lsda, m_records, functions, result

lsdaVars == <<data, lsda_pc, index, tt, call, actions_start, call_sites, actions, type_table,
              scopes, site, action_index, handlers>>

validatorVars == <<m_sym, m_text, rtti_sym, m_lsda, m_records, functions, result>>

vars == <<elfVars, args, printed, lsdaVars, validatorVars>>

L == INSTANCE LsdaParser WITH pc <- lsda_pc, Inputs <- {<<>>}

V == INSTANCE Validator WITH Elfs <- {}, Lsdas <- {}

\* The parsers' own assumptions, and what the sections they are given hold.
ASSUME ProgramAssumption ==
  /\ L!WordAssumption
  /\ WordSize = HalfWord * HalfWord
  /\ Behind \subseteq Seq(L!Byte) /\ Behind # {}
  /\ None \notin V!Errors /\ None \notin V!Word
  /\ None \notin [scopes : Seq(V!Scope), types : Seq(V!Word)]
  /\ MaxHandlers \in Nat
  /\ OtherStrings \cap {".text", ".gcc_except_table", ".symtab", ".strtab"} = {}
  /\ \A f \in DOMAIN Files : \A k \in DOMAIN Files[f].sections :
       LET s == Files[f].sections[k]
       IN  /\ s.name = ".text" => s.addr \in L!Word /\ s.data \in Seq(L!Byte)
           /\ s.name = ".gcc_except_table" =>
                s.data \in Seq(L!Byte) /\ Len(s.data) <= MaxHandlers

SafeInit ==
  /\ ElfInit
  /\ pc = "args"
  /\ args \in Arguments
  /\ printed = {}
  /\ L!Init
  /\ m_sym = <<>> /\ m_text = None /\ rtti_sym = <<>>
  /\ m_lsda = None /\ m_records = <<>> /\ functions = None /\ result = None

\* main returns: elf is destroyed, if it was constructed.
Return(code) ==
  /\ status' = code
  /\ pc' = "ended"
  /\ IF m_file = "open" THEN CloseElf ELSE UNCHANGED m_file
  /\ UNCHANGED <<file, m_elf, m_elf_header_loaded, scn, m_sections, m_program_header, m_symbol_table>>

\* The steps of main that do not end it leave the ElfParser alone.
GoTo(place) ==
  /\ pc' = place
  /\ UNCHANGED <<file, m_elf, status, m_file, m_elf_header_loaded, scn,
                 m_sections, m_program_header, m_symbol_table>>

\* An exception that nobody catches ends the process; nothing is destroyed.
Terminate ==
  /\ status' = "terminated"
  /\ pc' = "ended"
  /\ UNCHANGED <<file, m_elf, m_file, m_elf_header_loaded, scn, m_sections, m_program_header,
                 m_symbol_table>>

WellFormed ==
  /\ args.argc \in {2, 3}
  /\ args.argc = 3 => args.flag = "-v"

\* The file system is asked for the file of a well-formed command line only: yes,
\* no, or an error, which std::filesystem::exists throws.
ValidArguments == WellFormed /\ args.exists = "yes"
ExistsThrows   == WellFormed /\ args.exists = "error"

validate_args ==
  /\ pc = "args"
  /\ \/ ValidArguments /\ GoTo("open")
     \/ ExistsThrows /\ Terminate
     \/ ~ValidArguments /\ ~ExistsThrows /\ Return("failure")
  /\ UNCHANGED <<args, printed, lsdaVars, validatorVars>>

ConstructElf ==
  /\ ElfNext
  /\ UNCHANGED <<args, printed, lsdaVars, validatorVars>>

\* What Validator asks of a symbol.
AsSymbol(sym) ==
  [name     |-> sym.name,
   value    |-> sym.value,
   size     |-> sym.size,
   func     |-> sym.type = 2,
   defined  |-> sym.shndx # 0,
   typeinfo |-> sym.name \in TypeinfoNames]

CanValidate == get_symbol_table.error = None /\ get_section(".text").error = None

ConstructValidator ==
  /\ pc = "loaded" /\ CanValidate /\ args.logs
  /\ m_sym' = [k \in DOMAIN get_symbol_table.symbols |-> AsSymbol(get_symbol_table.symbols[k])]
  /\ m_text' = [addr |-> get_section(".text").section.addr,
                data |-> get_section(".text").section.data]
  /\ rtti_sym' = V!collect_rtti_sym(m_sym')
  /\ GoTo("lsda")
  /\ UNCHANGED <<args, printed, lsdaVars, m_lsda, m_records, functions, result>>

\* The constructor of Validator makes the directory of its log, ../logs, and lets
\* the exception out when that fails.
ValidatorThrows ==
  /\ pc = "loaded" /\ CanValidate /\ ~args.logs
  /\ Terminate
  /\ UNCHANGED <<args, printed, lsdaVars, validatorVars>>

NothingToValidate ==
  /\ pc = "loaded" /\ ~CanValidate
  /\ Return("failure")
  /\ UNCHANGED <<args, printed, lsdaVars, validatorVars>>

NoExceptTable ==
  /\ pc = "lsda" /\ get_section(".gcc_except_table").error # None
  /\ Return("failure")
  /\ UNCHANGED <<args, printed, lsdaVars, validatorVars>>

\* Mutant: the section is taken for granted.
ConstructLsdaAnyway ==
  /\ pc = "lsda"
  /\ data' = IF get_section(".gcc_except_table").error = None
             THEN get_section(".gcc_except_table").section.data ELSE <<>>
  /\ GoTo("parse")
  /\ UNCHANGED <<args, printed, lsda_pc, index, tt, call, actions_start, call_sites,
                 actions, type_table, scopes, site, action_index, handlers, validatorVars>>

ConstructLsda ==
  /\ pc = "lsda" /\ get_section(".gcc_except_table").error = None
  /\ data' = get_section(".gcc_except_table").section.data
  /\ GoTo("parse")
  /\ UNCHANGED <<args, printed, lsda_pc, index, tt, call, actions_start, call_sites,
                 actions, type_table, scopes, site, action_index, handlers, validatorVars>>

ParseLsda ==
  /\ pc = "parse" /\ L!Next
  /\ UNCHANGED <<elfVars, args, printed, validatorVars>>

LsdaThrows ==
  /\ pc = "parse" /\ lsda_pc = "threw"
  /\ Terminate
  /\ UNCHANGED <<args, printed, lsdaVars, validatorVars>>

LoadLsda ==
  /\ pc = "parse" /\ lsda_pc = "done"
  /\ V!load_lsda([scopes |-> scopes, types |-> type_table])
  /\ GoTo("find")
  /\ UNCHANGED <<args, printed, lsdaVars>>

FindThrownFunctions ==
  /\ pc = "find"
  /\ V!find_thrown_functions
  /\ GoTo("catch_sites")
  /\ UNCHANGED <<args, printed, lsdaVars>>

\* The next function of the list that find_thrown_functions has returned.
NextFunction == CHOOSE k \in functions \ printed : \A j \in functions \ printed : k <= j

\* Mutant: a function that cannot be analysed is passed over.
PrintCatchSitesAnyway ==
  /\ pc = "catch_sites" /\ functions \ printed # {}
  /\ V!analyze_exceptions(m_sym[NextFunction].name)
  /\ GoTo("catch_sites") /\ printed' = printed \cup {NextFunction}
  /\ UNCHANGED <<args, lsdaVars>>

PrintCatchSites ==
  /\ pc = "catch_sites" /\ functions \ printed # {}
  /\ V!analyze_exceptions(m_sym[NextFunction].name)
  /\ IF result'.error = None
     THEN GoTo("catch_sites") /\ printed' = printed \cup {NextFunction}
     ELSE Return("failure") /\ UNCHANGED printed
  /\ UNCHANGED <<args, lsdaVars>>

EndOfReport ==
  /\ pc = "catch_sites" /\ functions \ printed = {}
  /\ Return("success")
  /\ UNCHANGED <<args, printed, lsdaVars, validatorVars>>

\* The steps of main but for those of the constructor of LsdaParser.
MainStep ==
  \/ validate_args \/ ConstructElf
  \/ NothingToValidate \/ ConstructValidator \/ ValidatorThrows
  \/ NoExceptTable \/ ConstructLsda \/ LsdaThrows \/ LoadLsda
  \/ FindThrownFunctions \/ PrintCatchSites \/ EndOfReport

SafeNext == MainStep \/ ParseLsda

Reading == pc = "parse" /\ lsda_pc \in {"header", "call_len", "call_site", "action", "type"}

BuildScopes ==
  /\ pc = "parse" /\ L!build_scopes
  /\ UNCHANGED <<elfVars, args, printed, validatorVars>>

\* Of the loops of LsdaParser, as in its own module, only build_scopes is asked
\* to go on: that the others end follows from LoopsAdvance.
SafeSpec == SafeInit /\ [][SafeNext]_vars /\ WF_vars(MainStep \/ BuildScopes)

-----------------------------------------------------------------------------
Places == {"args", "open", "sections", "symbols", "loaded", "lsda", "parse", "find",
           "catch_sites", "ended"}

SafeTypeOK ==
  /\ pc \in Places
  /\ status \in {"running", "success", "failure", "killed", "terminated"}
  /\ m_file \in {"none", "open", "closed"}
  /\ scn \in 0 .. Len(m_elf.sections)
  /\ L!TypeOK
  /\ DOMAIN m_sym \subseteq Nat
  /\ m_text # None => m_text \in V!Section
  /\ m_lsda # None => m_lsda = [scopes |-> scopes, types |-> type_table]
  /\ functions # None => functions \subseteq DOMAIN m_sym /\ printed \subseteq functions

\* "Closes the ELF descriptor" (elf_parser.hpp:109): the file is open from the
\* first section on for as long as the parser is in use, and closed when main
\* returns; no other end closes it (main.cpp:91, elf_parser.cpp:64-69).
FileIsClosedByMain ==
  /\ pc \in Places \ {"args", "open", "ended"} => m_file = "open"
  /\ m_file = "closed" => status \in {"success", "failure"}
  /\ (status = "success" \/ (status = "failure" /\ m_sections # <<>>)) => m_file = "closed"

\* A handler of the LSDA that was recovered is entered for the type whose RTTI
\* object is at an address.
EnteredFor(h, address) ==
  \/ h.type = "Cleanup"
  \/ /\ h.type = "Catch" /\ h.type_index <= Len(type_table)
     /\ type_table[Len(type_table) + 1 - h.type_index] = address

\* What the code of a function refers to, and whether there is a handler for
\* some of it.
Thrown(k, heap) == V!find_typeinfo(m_sym[k].name, heap)

HasHandler(k, heap) ==
  \E i \in DOMAIN Thrown(k, heap), s \in DOMAIN scopes :
    \E n \in DOMAIN scopes[s].handlers :
      EnteredFor(scopes[s].handlers[n], Thrown(k, heap)[i].value)

InsideText(k) == V!Inside(V!get_symbol(m_sym[k].name))

\* The report tells the truth from beginning to end.  Its functions are, of those
\* that lie in .text, the ones that refer to a type; of those printed the LSDA
\* recovered handles a type; a run that ends well has printed them all; and one
\* that fails has printed all before a function whose types the LSDA does not
\* handle, unless that function leaves .text (main.cpp:119-162).
ReportIsTrue ==
  functions # None =>
    /\ \A k \in DOMAIN m_sym : InsideText(k) =>
         (k \in functions <=>
            V!IsFunction(k) /\ \E heap \in Behind : DOMAIN Thrown(k, heap) # {})
    /\ \A k \in printed : \E heap \in Behind : HasHandler(k, heap)
    /\ status = "success" => printed = functions
    /\ status = "failure" =>
         \E k \in functions \ printed :
           /\ \A j \in functions : j < k => j \in printed
           /\ InsideText(k) => \A heap \in Behind : ~HasHandler(k, heap)

\* The section of the file that is handed out under a name: the first that can
\* be read, if the names are known.
First(name) ==
  LET named == {k \in DOMAIN m_elf.sections : Readable(k) /\ m_elf.sections[k].name = name}
  IN  {k \in named : NamesKnown /\ \A j \in named : k <= j}

\* What main needs of a file: symbols and code, and then an exception table.
HasCode ==
  /\ First(".text") # {} /\ First(".strtab") # {}
  /\ \E k \in First(".symtab") : m_elf.sections[k].entsize \in 1 .. m_elf.sections[k].size

HasAll == HasCode /\ First(".gcc_except_table") # {}

\* The process ends as its arguments, the file system and its file want it.  It
\* fails without a report when something is missing, and only then; it dies of a
\* size that is 0; and it comes to a verdict when all is there.  Three exceptions
\* terminate it, each at its own place: that of a file system that cannot say
\* whether the file exists, before it is opened; that of a directory for the log
\* that cannot be made, when there are symbols and code, whatever else is missing;
\* and that of LsdaParser, on the first exception table of the file
\* (main.cpp:66-76, 84-163, validator.hpp:58, elf_parser.cpp:19-52, 157).
ExitHasAReason ==
  LET opened  == ValidArguments /\ m_elf.open = "yes"
      verdict == m_lsda # None
      logged  == opened /\ HasCode /\ args.logs
      parsed  == /\ logged
                 /\ \E k \in First(".gcc_except_table") : data = Contents(m_elf.sections[k]).data
  IN  /\ status = "failure" /\ ~verdict =>
           ~ExistsThrows /\ ~(opened /\ HasCode /\ ~args.logs) /\ ~(opened /\ HasAll)
      /\ status = "killed" =>
           opened /\ ~verdict /\ \E k \in First(".symtab") : m_elf.sections[k].entsize = 0
      /\ status = "success" => verdict
      /\ status = "terminated" =>
           /\ ~verdict
           /\ \/ ExistsThrows /\ m_file = "none"
              \/ opened /\ HasCode /\ ~args.logs
              \/ parsed /\ lsda_pc = "threw"
      /\ verdict => parsed /\ lsda_pc = "done"
=============================================================================
