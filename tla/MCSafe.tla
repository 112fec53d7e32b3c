------------------------------- MODULE MCSafe -------------------------------
(***************************************************************************)
(* The program on the files of small programs of two functions, and on     *)
(* files that lack something.  A name of a file is                         *)
(*   [codes, variant, lsda]                                                *)
(* the code of the functions, as CodeImage takes it, what is wrong, and    *)
(* what the first LSDA of the section holds.                               *)
(***************************************************************************)
EXTENDS Safe, SequencesExt

MCWordSize == 2^22

MCHalfWord == 2^11

Code == INSTANCE CodeImage
Abi == INSTANCE LsdaImage

Start == 1000
A == 600
B == 1400
Ret == -195

Codes == {<<Ret>>, <<A, Ret>>, <<Ret, B>>, <<B, A>>}

\* What ElfParser cannot open, what it reads, and what it must do without.
Unopened == {"elf_version", "open", "elf_begin", "elf_kind"}
Complete == {"whole", "two .text"}
Headless == {"no ehdr", "no ehdr, other names", "no ehdr, no names"}
Variants == Unopened \cup Complete \cup Headless \cup
  {"no sections", "no .text", "no .gcc_except_table", "no .symtab", "no .strtab",
   "getshdr of .text", "strptr of .text", "getdata of .text", "nobits .text",
   "entsize 0", "st_name outside", "32-bit"}

One(pad, clauses, types) ==
  [sites |-> <<[pad |-> pad, clauses |-> clauses]>>, types |-> types, align |-> 0, trailer |-> <<>>]

\* No landing pad; a cleanup; a catch, and one before a cleanup; a catch with
\* the LSDA of another function behind it, or with bytes that are read as its
\* type table and give A; two records that link to each other; a table longer
\* than the section.
Lsdas ==
  [none    |-> Abi!Image(One(0, <<>>, <<>>)),
   cleanup |-> Abi!Image(One(9, <<>>, <<>>)),
   catch   |-> Abi!Image(One(9, <<1>>, <<300>>)),
   both    |-> Abi!Image(One(9, <<1, 0>>, <<300>>)),
   follow  |-> Abi!Image(One(9, <<1>>, <<300>>)) \o Abi!Image(One(9, <<>>, <<>>)),
   table   |-> Abi!Image(One(9, <<1>>, <<300>>)) \o Abi!TypeEntry(A),
   ring    |-> <<255, 255, 1, 4, 0, 3, 9, 1, 1, 2, 1, 126>>,
   torn    |-> <<255, 255, 1, 9, 0>>]

Programs ==
  [codes : Codes \X Codes, variant : {"whole"}, lsda : DOMAIN Lsdas]
    \cup [codes : {<<<<A, Ret>>, <<Ret, B>>>>}, variant : Variants, lsda : {"none", "cleanup"}]

Strings == <<"f", "g", "rtti">>

\* st_name, type, shndx, value and size of the symbols, the null symbol first.
Declared(p) ==
  <<<<0, 0, 0, 0, 0>>,
    <<1, 2, 1, Code!AddressOf(p.codes, 1, Start), Code!SizeOf(p.codes[1])>>,
    <<IF p.variant = "st_name outside" THEN 9 ELSE 2, 2, 1,
      Code!AddressOf(p.codes, 2, Start), Code!SizeOf(p.codes[2])>>,
    <<3, 1, 2, A, 16>>,
    <<3, 1, 2, B, 16>>>>

Elf64Sym(s) == <<s[1], s[2] + 16 * s[3], s[4] % MCHalfWord, s[4] \div MCHalfWord,
                 s[5] % MCHalfWord, s[5] \div MCHalfWord>>

Elf32Sym(s) == <<s[1], s[4], s[5], s[2] + 16 * s[3]>>

SymtabOf(p) ==
  FlattenSeq([k \in DOMAIN Declared(p) |->
    IF p.variant = "32-bit" THEN Elf32Sym(Declared(p)[k]) ELSE Elf64Sym(Declared(p)[k])])

EntsizeOf(p) == CASE p.variant = "32-bit"    -> 4
                  [] p.variant = "entsize 0" -> 0
                  [] OTHER                   -> 6

Scn(p, name, addr, entsize, contents) ==
  [name    |-> IF p.variant = "strptr of " \o name THEN None ELSE name,
   addr    |-> addr, entsize |-> entsize,
   size    |-> Len(contents), data |-> contents,
   shdr    |-> p.variant # "getshdr of " \o name,
   getdata |-> p.variant # "getdata of " \o name,
   nobits  |-> p.variant = "nobits " \o name]

AllSections(p) ==
  <<Scn(p, ".text", Start, 0, Code!Text(p.codes, Start)),
    Scn(p, ".gcc_except_table", 1500, 0, Lsdas[p.lsda]),
    Scn(p, ".symtab", 0, EntsizeOf(p), SymtabOf(p)),
    Scn(p, ".strtab", 0, 0, Strings)>>

SectionsOf(p) ==
  CASE p.variant = "no sections" -> <<>>
    [] p.variant = "two .text"   -> Append(AllSections(p), Scn(p, ".text", 0, 0, <<195>>))
    [] OTHER -> SelectSeq(AllSections(p), LAMBDA s : s.name = None \/ p.variant # "no " \o s.name)

MCFiles ==
  [p \in Programs |->
     [open     |-> IF p.variant \in Unopened THEN p.variant ELSE "yes",
      ehdr     |-> p.variant \notin Headless,
      names    |-> CASE p.variant = "no ehdr, other names" -> "other"
                     [] p.variant = "no ehdr, no names"    -> "none"
                     [] OTHER                              -> "own",
      sections |-> SectionsOf(p),
      phdrs    |-> <<TRUE, FALSE, TRUE>>]]

MCOtherStrings == {"f", "g"}

MCHeap == {[halves |-> <<0, 0>>, string |-> "f"], [halves |-> <<9, 0>>, string |-> "stray"]}

Arg(argc, flag, exists, logs) == [argc |-> argc, flag |-> flag, exists |-> exists, logs |-> logs]

\* Good and bad command lines, and for a good one every answer to its questions;
\* the file system is not asked for the file of a bad one.
MCArguments ==
  {Arg(1, "", "no", TRUE), Arg(3, "-x", "error", TRUE), Arg(3, "-v", "error", TRUE),
   Arg(2, "", "no", TRUE), Arg(2, "", "error", FALSE), Arg(2, "", "yes", FALSE),
   Arg(2, "", "yes", TRUE), Arg(3, "-v", "yes", TRUE)}

MCTypeinfoNames == {"rtti"}

MCNames == {"", "f", "g", "rtti", "stray"}

MCBehind == {<<0, 0, 0, 0, 0>>}

-----------------------------------------------------------------------------
\* A symbol read is the one declared.  The name of one whose st_name lies outside
\* .strtab is whatever is found there.
IsDeclared(sym, s) ==
  /\ s[1] = 0 => sym.name = ""
  /\ s[1] \in DOMAIN Strings => sym.name = Strings[s[1]]
  /\ <<sym.type, sym.shndx, sym.value, sym.size>> = <<s[2], s[3], s[4], s[5]>>

SymbolsAreDeclared ==
  /\ DOMAIN m_symbol_table = DOMAIN Declared(file)
  /\ \A k \in DOMAIN m_symbol_table : IsDeclared(m_symbol_table[k], Declared(file)[k])

\* The symbol table is that of a 64-bit file, or empty, as it is for want of one
\* of its sections or of the size of an entry.  A st_name outside .strtab costs
\* that symbol its name and nothing else (elf_parser.cpp:144-178).
SymbolsAreTheFiles ==
  /\ \A k \in DOMAIN m_symbol_table :
       m_symbol_table[k].type \in 0 .. 15 /\ m_symbol_table[k].name \in Names
  /\ file.variant # "32-bit" =>
       /\ m_symbol_table # <<>> => SymbolsAreDeclared
       /\ (pc = "loaded" /\ file.variant \in Complete \cup {"st_name outside"}) =>
            m_symbol_table # <<>>

\* "supporting both 32-bit and 64-bit architectures" (elf_parser.hpp:71): the
\* symbols read are those of the file.
EveryClassIsRead == m_symbol_table # <<>> => SymbolsAreDeclared

\* The types whose RTTI object the code of a function of the program loads, and
\* whether the LSDA in hand has a handler for one of them.
Types(k) == {A, B} \cap ToSet(file.codes[k])

Caught(k) ==
  \E s \in ToSet(m_lsda.scopes) : \E h \in ToSet(s.handlers) :
    \/ h.type = "Cleanup"
    \/ /\ h.type = "Catch" /\ h.type_index <= Len(m_lsda.types)
       /\ m_lsda.types[Len(m_lsda.types) + 1 - h.type_index] \in Types(k)

\* Function k of the program is symbol k + 1 of its file.
Throwers == {k \in {1, 2} : Types(k) # {}}

\* A run that ends well has printed every function of the program that throws,
\* and the LSDA recovered has a handler for each; a run that fails with an LSDA
\* in hand has met a function without (main.cpp:119-162).
ReportIsComplete ==
  (file.variant \in Complete /\ m_lsda # None) =>
    /\ status = "success" =>
         printed = {k + 1 : k \in Throwers} /\ \A k \in Throwers : Caught(k)
    /\ status = "failure" => \E k \in Throwers : ~Caught(k)

\* The program ends on every file whose action records do not link in a ring,
\* once the loops that read the LSDA have ended, as they do by LoopsAdvance
\* (main.cpp:84-163, abi_parse.cpp:63-135).
MainEnds == file.lsda # "ring" => (<>(status # "running") \/ <>[]Reading)
=============================================================================
