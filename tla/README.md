# A model of SAFE, the static analyser for exceptions

SAFE reads an ELF executable and says which of its functions throw, which types,
and which handlers would catch them. It is a batch program of one thread: `main`
opens the file, scans the machine code for references to RTTI symbols, parses the
exception table and correlates the two. A second tool chain in the same
repository reads GCC's whole-program dump into a call graph.

There is no concurrency and nothing is persisted. What is hard here is the data:
binary formats with relative offsets, variable-length numbers and links between
records, read from a file the program does not control; loops whose end depends on
those bytes; sums that wrap; errors reported from many places; objects that point
into each other; and calls whose answers depend on the order they are made in.

## 1. Inventory

| part | state | operations | hard behaviour |
|---|---|---|---|
| decoders (`abi_parse.cpp:17-61, 152-243`) | the cursor `index` | `read8` to `read64`, `read_uleb128`, `read_sleb128`, `r_encode` | truncation, overflow, sign, wrap-around |
| `LsdaParser` (`abi_parse.cpp:63-439`) | `data`, `call_sites`, `actions`, `type_table`, `scopes` | the constructor (`parse`: header, call sites, actions, types, scopes), `resolve_type` | overlapping tables, links between records, loops that may not end, an exception half way |
| `Validator` (`validator.cpp`) | the symbols, `.text`, `rtti_sym`, `m_lsda`, `m_records` | the constructor, `find_typeinfo`, `find_thrown_functions`, `load_lsda`, `analyze_exceptions` | order of calls, lookups by name, windows at the end of a function, pointers into replaced records |
| `ElfParser` (`elf_parser.cpp`) | descriptor, headers, sections, symbols | the constructor (four load steps over libelf), getters, the destructor | failures of single steps, a missing header, 32-bit files, first section of a name |
| dump reader (`gcc_parse.cpp:47-271`) | the line state machine `in_entry`, `is_function` | `parse_gcc_wpa`, `parse_fn_list` | entries dropped by a flag of their neighbour, attributes lost in a copy |
| `CallGraph` (`gcc_parse.cpp:16-45, 275-328`) | nodes, edges, throw callers | `parse_gcc_callgraph`, lookups | edges to filtered nodes, nodes that refer to a moved graph |
| `main` (`main.cpp`) | the objects above, in order | `validate_args`, the pipeline, the report | early exits, three exceptions nobody catches, a report cut in the middle |
| printers, formatters, test programs | none | | text only; not modelled |

How they meet: `main` gives `ElfParser`'s symbols and `.text` to `Validator` (the
symbols as a span, so they must outlive it), the bytes of `.gcc_except_table` to
`LsdaParser`, and the parser to `Validator::load_lsda`, which keeps a pointer to
it. `analyze_exceptions` returns pointers into `m_records`. The call graph is
used by its tests only.

What makes each part correct:

- decoders: they return what an assembler encoded, consume what they return, and
  never leave the buffer;
- `LsdaParser`: whatever the bytes, it stops, its tables do not overlap, a link
  names the record at its target, a scope belongs to one call site; and on what a
  compiler writes it recovers the handlers and types of the program;
- `Validator`: a function that throws is reported, a reported one can be analysed,
  an error means what its comment says, an answer uses the LSDA loaded now;
- `ElfParser`: a section is handed out exactly when the file has one that can be
  read, the symbols are the file's, and the descriptor is closed once;
- dump reader: one entry for each function, none for a variable, whatever the order
  of the symbols;
- call graph: the calls of the program and nothing else, all of it or an exception,
  and nodes that find their neighbours for as long as the graph lives;
- `main`: it ends, for a reason, and when it ends well the report is complete.

## 2. Modules

| module | models |
|---|---|
| `Leb128` | the decoders, in closed form: a decoder takes the buffer and the cursor and returns `[ok, val, next]`; `ok = FALSE` is a thrown `std::runtime_error` |
| `LebLoop` | the loops of `read_uleb128` and `read_sleb128` byte by byte; checked against `Leb128` |
| `Leb128Encode` | external: how an assembler writes such a number |
| `LsdaParser` | `parse()` and `build_scopes()`: one step is one iteration of a loop, or the code between two loops |
| `ScopeTable` | what `build_scopes` promises: one scope per landing pad, made whole, its handlers in chain order |
| `LsdaImage` | external: the bytes GCC writes for a function |
| `Validator` | the calls of a client, in any order |
| `CodeImage` | external: the machine code and the layout of `.text` |
| `ElfParser` | the constructor over libelf's answers, the getters, the destructor |
| `Safe` | `main`: it EXTENDS `ElfParser` and INSTANCEs `LsdaParser` and `Validator`, whose variables are its own |
| `GccDump` | `parse_gcc_wpa`: one step is one line of the dump, then one raw entry |
| `CallGraph` | EXTENDS `GccDump`: `parse_fn_list`, `parse_gcc_callgraph` one entry at a time, and a client that copies, moves and destroys graphs |
| `DumpImage` | external: the symbol table GCC dumps for a program |
| `MCLebLoop`, `MCLsdaBytes`, `MCLsdaAbi`, `MCValidator`, `MCSafe`, `MCCallGraph` | the instances TLC checks |
| `NatLemmas` | the arithmetic and the induction the proofs need |
| `Leb128Proofs`, `LebLoopProofs`, `LsdaParserProofs`, `ScopeTableProofs`, `ValidatorProofs`, `SafeProofs`, `CallGraphProofs` | the proofs about the modules they are named for |

Conventions. A cursor counts bytes consumed, as `index` does, so the code's
`data[i]` is `data[i + 1]`. `next_index` and `action_index` count from 0, with -1
for none, as in the code. `uint64_t` is a number below `WordSize`, and sums the
code makes in `size_t` are taken modulo it. `pc` in `LsdaParser` names the loop
`parse` is in; `"threw"` stands for an exception that leaves the constructor, after
which there is no object.

Two actions deserve a remark. `EndActions` is the whole second pass
(`abi_parse.cpp:405-439`): it reads nothing but offsets that no longer change, so
its iterations are independent. `FollowChain` appends at most `MaxHandlers`
handlers: the loop at `abi_parse.cpp:113` has no bound, and on a cyclic chain it
allocates until memory ends; the cap keeps the model finite, and it is larger than
any chain that ends (a record takes at least one byte, and `InputsAssumption`
demands a cap no smaller than the input).

In `Validator`, a vector whose elements come from ordered places is a function of
those places: `find_typeinfo` returns the symbols by the offset of their window,
`m_records` is indexed by scope and handler. A scan that runs beyond the bytes of
`.text` is undefined behaviour; each call chooses the bytes it finds there from
`Behind`. `load_lsda` forgets the previous answer, because its pointers dangle.
Demangling is reduced to the question the code asks of it, whether the name begins
with "typeinfo". `Init` is the state that a constructor leaves which returns; the one that
throws (`create_directories`, `validator.hpp:58`) leaves no Validator, and is the step
`ValidatorThrows` of `Safe`.

`ElfParser` takes from a file what libelf says of it: which call fails, and what each
section holds. `elf_strptr` may fail for one section of a file whose header was read, as
may `gelf_getshdr` and `elf_getdata`. The bytes of `.symtab` are kept, as half words of an
address, because the cast to `GElf_Sym` is what can go wrong there. Three reads of what
nobody wrote are choices: `e_shstrndx` when the header was not loaded, which may be right
by chance, lead to a string table that is not that of the names (`OtherStrings`), or to
none (the field `names` of a file); the data behind the last symbol; and the name of a
symbol whose `st_name` lies outside `.strtab` (both in `Heap`). A division by a zero `sh_entsize` kills the
process or gives 0, as the processor decides. In `Safe`, `status` is how the process
ends: `exit` and `return` give "failure" or "success", an uncaught exception
"terminated"; only `return` destroys the `ElfParser`. A command line (`args`) comes with
what the file system answers: whether the file exists, which `std::filesystem::exists`
may be unable to say and then throws (`ExistsThrows`), and whether `../logs` can be made.
The steps of the three
components are theirs, unchanged (`ElfNext`, `L!Next`, `V!load_lsda` and so on).

`GccDump` cuts a text into the pieces the code looks at: spaces, parentheses, and what
stands between them, with its number. `DeniesFunction` is the test for a "Type" line
as the code makes it, of every line. In `CallGraph` a node is a shared object, so the
objects of a client (`graphs`) hold ids, and `Home` is the object that
`parse_gcc_callgraph` fills, which by elision is the client's own: it is the one
`m_graph` of every node refers to.

## 3. Runs

| run | result | question |
|---|---|---|
| `leb` | pass | do the loops compute the closed forms, and do they undo the encoding? |
| `lsda_bytes` | pass | is `parse` well-behaved on arbitrary bytes, and does `build_scopes` implement `ScopeTable`? |
| `lsda_abi` | pass | what does it recover from the images of small programs? |
| `lsda_chain` | violation | does it recover every clause? |
| `lsda_types` | violation | does a type index resolve to its entry? |
| `validator` | pass | are throwers found, answers exact and errors true? |
| `validator_names` | violation | does every function reported throw? |
| `safe` | pass | does `main` end on every file, why, with which report, is the report true, and is the file closed? |
| `elf_32bit` | violation | are the symbols of a 32-bit file read? |
| `callgraph` | pass | is the table that of the lines, the graph that of the table and of the program, and when is there none? |
| `callgraph_attrs` | violation | does a call have the attributes of the dump? |
| `callgraph_moved` | violation | do the nodes of a graph that was moved find each other? |

Bounds. TLC's integers have 32 bits, so the word has 22: like 64 = 9 * 7 + 1,
22 = 3 * 7 + 1, so a LEB128 that fills the word has one bit left in its last byte
and the overflow check comes one byte later, as in the code. Fixed-width reads
take 1, 2 and 3 bytes for 2, 4 and 8; displacements in code take 2.

- `leb`: every buffer of up to four bytes from ten values with and without the
  continuation and sign bits, and five-byte ones past the overflow check.
- `lsda_bytes`: four families of inputs, each varying what one part of `parse` reads:
  headers (offsets that wrap included), call-site tables (lengths that wrap,
  omitted encodings), every action table of up to four bytes from six values
  (forward, backward and self links, truncated records) and of five bytes behind
  two call sites, and type tables that begin inside, at and behind the actions.
- `lsda_abi`: programs of one or two call sites with up to three clauses, type
  tables of up to three entries, padding, and bytes of the next function behind.
- `validator`: two functions of up to three instructions that load RTTI objects
  before and behind `.text`, at their start, middle and end; undefined symbols,
  functions outside `.text`, two symbols at one address, two functions of one
  name; a relocatable object whose function overruns the section; five LSDAs.
  Longer programs add nothing: each property speaks of one function, one answer
  and at most two loads.

- `safe`: programs of two functions, with every pair of four bodies (none, one or
  both of two types thrown), times eight contents of `.gcc_except_table`: no landing
  pad, a cleanup, a catch, both, a second LSDA behind, bytes behind that are read as
  the type thrown, a ring of records, a torn table. One program in 21 variants of its
  file: each of the four calls failing that open it, each of the three that read a
  section (its header, its name, its data), a section missing or without data, two
  sections of one name, no header and an unset `e_shstrndx` that is right, leads
  elsewhere or nowhere, a zero `sh_entsize`, a `st_name` outside `.strtab`, a 32-bit
  file. Eight command lines with the answers of the file system: bad ones, and for a good
  one a file that exists, does not, or cannot be asked for, and a directory for the log
  that can be made or not. A half word has 11 bits, so that the word of 22 is two of them. The
  variants are not multiplied with the programs: before the symbols are loaded
  nothing depends on the code.
- `callgraph`: every order of three of six symbols (a function, `__cxa_throw`, a
  personality function, a variable, and a function and a variable whose names begin
  with "Type"), every choice of calls among them (to itself, to one function twice,
  back to the caller), in the three styles of a call list (bare, attributes, the
  counts of -O2), an empty table, and a file that cannot be opened. Three symbols are
  one with a neighbour on each side, which is as far as a flag of the reader reaches.
  Every order of four (three functions and a variable) in the bare style has a symbol
  whose number, 4, is beyond `IntMax = 3`, the largest int: as a function it makes `stoi`
  throw behind nodes that are made already, as a variable it does no harm.
  A client holds two graph objects: a node refers to one of them, so a third would be
  another copy.

`CHECK_DEADLOCK FALSE` is set where the constructor or a decoder returns, or the
process ends: the program really stops.

What the runs show. On arbitrary bytes the tables never overlap in the vector and
every reading loop advances. With backward links only, the only kind compilers
emit, `build_scopes` ends; a forward or self link can make a cycle, and then the
constructor never returns (`ScopeTable` says so: such a call site gets no scope).
On a compiler's output `parse` throws nothing, but that is luck: it takes the type
table for actions, and an entry whose last byte has the top bit set, followed by
more section bytes, would make it throw; `LsdaImage` has no such entries and
`CompilerOutputParses` says so. What it recovers is a non-empty prefix of each
call site's clauses, of the right kinds.

On a complete file `main` prints every function that throws and returns 0 exactly when
the LSDA it recovered has a handler for each; otherwise the report stops at a function
without one (`ReportIsComplete`, against the program the image was made of). Of every
file `ReportIsTrue` says the same in terms of what was read: which functions are
reported, that the LSDA handles a type of each function printed, and that a failure
points at the first function it does not. `ExitHasAReason` is an account of every end in
terms of the arguments, the file system and the file: a section that is missing or cannot
be read, a `.symtab` without room for one symbol, a zero `sh_entsize`. Three exceptions
end the program uncaught: that of `std::filesystem::exists` (`main.cpp:66, 73`), before
the file is open; that of `create_directories` in the constructor of `Validator`
(`validator.hpp:58`), for which a file with symbols and code suffices; and that of
`LsdaParser`. The second and the third leave the descriptor open, as does `exit()` in the
constructor of `ElfParser`. Without an ELF header the loader keeps what it finds: all
sections under their names if the unset `e_shstrndx` is right by chance, and otherwise
none or some under strings of another table, each with the data of a section of the file.

`ErrorsMeanWhatTheySay` holds for four of the five errors that `validator.hpp:26-33`
comments on. Of the fifth it says what the code does: `TypeResolveFailed`,
"LSDA::resolve_type() failed for some index", is never returned. An index that does not
resolve is passed over (`validator.cpp:174-177`); the run has an LSDA with such a catch,
and its analysis ends with other handlers or with `NoCatchRecords`. A handler is
what `analyze_exceptions` takes for one, a cleanup included (`validator.cpp:163-166`),
although `validator.hpp:30` and `:48` speak of catch records and catch handlers: a
function whose types meet a cleanup only counts as handled in `MatchesAreExact`,
`ReportIsTrue` and `ReportIsComplete`, as it does in the report of the program.

`EntriesAreTheSymbols` says what the reader does with any lines: a symbol is a first line
that is at the margin, or comes after a line that closed an entry, with the lines up to
the next at the margin; each entry is what the lines of one symbol say, and no named
symbol is lost that is not denied by a "Type" line and is no personality function.
`GraphIsTheTable` goes on from there: the graph that is returned has the ids, names and
calls of the table, and `parse_gcc_callgraph` throws only for what stands in the table.
The other three properties compare with the program. The reader keeps the right entries,
with one exception that the run describes exactly: a symbol whose name begins with "Type" costs the entry of the
symbol before it and leaves a nameless one, on which `parse_gcc_callgraph` throws. It
throws also for the counts of -O2 and for calls of a personality function, and for no
other program.

The six violations are recorded as findings: links are resolved from the wrong base and
every chain a compiler writes is cut after its first handler (`abi_parse.cpp:414`); the
end of the type table is taken for its start (`abi_parse.cpp:264`); functions are
looked up by a name that need not be theirs (`validator.cpp:221`); symbols are read as
64-bit ones whatever the class of the file (`elf_parser.cpp:160`); the attributes of a
call are appended to a copy (`gcc_parse.cpp:138`); the nodes of a graph that was moved
ask the old object (`gcc_parse.cpp:292`).

Seen on the way, and not among the runs that end in a violation. `validator.hpp:31`
has an error `TypeResolveFailed` for an index that does not resolve, and
`analyze_exceptions` goes on to the next record (`validator.cpp:174-177`): that it never
returns the error is a conjunct of `ErrorsMeanWhatTheySay`, checked and proved.
`elf_parser.hpp:250-251` says that `m_load_section_header` returns early without a header,
and it goes on (`elf_parser.cpp:85-90`): what it then keeps is a part of
`SectionsAreTheFiles`. The rest has no property: `m_elf_class` is printed and never assigned
(`elf_parser.cpp:56`); the keys "visablity" and "avaliablity" of `gcc_parse.cpp:289-290`
exist in no entry, so both fields are always empty; the first line of the nameless
entry above is no name, and `gcc_parse.cpp:227-243` takes the pieces of nothing, which
is undefined and gives empty texts in the library the program is built with.

## 4. Fairness

`LsdaParser` has weak fairness of `build_scopes`: one thread runs `parse` and never
waits, so a step that is possible is taken. It is asked of `build_scopes` only,
because that is the loop whose end is in question; that the loops before it end
follows from `LoopsAdvance`, a safety property, and the length of the data. The
cap on handlers cannot hide a chain that does not end: `FollowChain` stays enabled
on a cycle. `LebLoop` has weak fairness of its only process. `Validator` has none:
nothing obliges a client to call. Nor has `CallGraph`: its properties are of safety.

`Safe` is one thread, so it has weak fairness of the steps of `main` together with
`build_scopes`. As in `LsdaParser`, none is asked for the loops that read the LSDA;
`MainEnds` therefore says that the program ends or stays in one of those for ever,
and `LoopsAdvance` excludes the second. A ring of action records is the one case in
which it does not end.

## 5. Proofs

The only assumptions are those the modules name:

- `WordAssumption` (`Leb128`): the word is wide enough for a byte, and a LEB128 takes as
  many bytes as the word needs;
- `BuffersAssumption`, `InputsAssumption`: the inputs are byte strings, and the cap on
  handlers is no smaller than an input;
- `ClientAssumption` (`Validator`): symbols and parsers are of the types the code gives
  them, and the heap behind `.text` holds something;
- `FilesAssumption`, `SymtabAssumption`, `ProgramAssumption` (`ElfParser`, `Safe`): what
  libelf returns of a section has its types (a name may be null); no string of another
  table is the name of one of the four sections that are looked up; `.text` and `.gcc_except_table` hold bytes,
  and behind the begin of `.symtab` there are as many half words as its entries take
  (those that are not in the section come from the heap); a word is two half words; the
  heap holds bytes; and `None`, which stands for a null pointer and for no error, is none
  of the values it is compared with;
- `DumpsAssumption` (`GccDump`), `HomeAssumption` and `IntAssumption` (`CallGraph`): a dump
  that can be opened is a sequence of lines, the largest int is a number, and the object that is filled is one of the client's.

The theorems hold for every set of inputs, of any length, and every word size that
satisfies them, 64 bits included. None of them bounds the number of sections, symbols,
entries, nodes or objects.

**`NatLemmas`.** Induction over data cannot be used here as the library states it,
because its theorems take an operator as a parameter. `Induction` states it of a SET: one
that holds 0 and the successor of each of its elements below N holds `0 .. N`.
`Recursion` gives a function its existence: what goes from a base by a step has a
solution on `0 .. N`. Both come from the least element of a set of naturals. With them a
recursive function of the model (`LittleEndian`, `Chain`, `Split`, `parse_fn_list`)
is shown to be what its equation says, and then of a type. The module also proves what is
needed of `\div`, `%` and powers of two: that `2^(n+1)` is twice `2^n` (from the number
of subsets), that exponents add, and what the top digits of a number say of its size.

**`Leb128Proofs`** shows of every decoder that it returns a word, that its cursor stays
between where it began and the end of the buffer, and that it moves when it did not
throw and there was a byte (`EncodedType`, hence the branch at
`abi_parse.cpp:297-302` is dead).

**`LebLoopProofs`** proves that the loops compute the closed forms, which all other
modules use, so nothing rests on the comparison at one word size. The invariant says what
the accumulator is in the middle: whatever bits are still to come are put above the
`7 * i` bits it has (`Accumulated`). An iteration moves seven of them below that line
(`PayloadAdded`), and at the end they are zeros, or the ones of the sign (`SignIsFill`).
`DecodeInverts` needs a second invariant, `Digested`: the accumulator has the payloads
read for its digits. For a number that leaves room in the word, its top digit says how
long its shortest form is (`UlebLength`, `SignedRange`), and the -(1 << shift) of the
code is the step from unsigned to signed (`SignedWord`).

**`LsdaParserProofs`** proves `Spec => []IInv`, where

    IInv == TypeOK /\ TablesInOrder /\ ActionsTile /\ LinksAreExact

No conjunct is inductive alone. That `entry_offset` is a natural number needs the
order of the tables; that a record ends inside the table needs both; and
`LinksAreExact` needs the tiling: the second pass takes the FIRST action at an
offset, which is the right one because records tile the table and no two share an
offset. `BackwardLinksDescend` follows from the tiling and the exact links, and
`LoopsAdvance` from the decoders' lemmas.

**`ScopeTableProofs`** adds what `build_scopes` knows: the scopes made so far mirror the
call sites passed, and the handlers collected are those of the first n records of the
chain it walks (`ChainInv`). The refinement of `ScopeTable` follows step by step
(`StepRefines`): the end of a chain is the abstract step, every link before it a stutter.
The hard case is a chain that comes back on itself. A chain that has not ended after as
many links as there are records never ends (`ChainComesBack`); the loop then stays in it,
and the abstract table gets no scope. The cap `MaxHandlers` cannot cut a chain that does
end, as there are no more records than bytes (`RecordsFit`).

**`ValidatorProofs`** starts from the fact that the symbols, `.text` and `rtti_sym` never
change after the constructor (`CodeReadsTheSame`). The key lemma is `SameTypes`: a
function that lies inside `.text` refers to the same types whatever the heap holds
behind the section, because the digits of a number depend on nothing but its bytes.
Three strengthenings make the properties inductive:

- `FoundOnce`: each function reported was found to throw with some heap. With
  `SameTypes` it was then found with every heap, hence `ReportedCanBeAnalysed`.
- `RecordsAreCurrent`: the records are those of the LSDA loaded last. Without it
  nothing ties `m_records` to the parser `resolve_type` asks; with it, and the order
  of the type table, `MatchesAreExact`.
- `Means`: the errors of one result, read in one state. A call of the client either
  replaces the result or leaves all that `Means` reads as it was, hence
  `ErrorsMeanWhatTheySay`. Its clause on windows needs `SameTypes` again, as the heap
  may have changed since the analysis. That `TypeResolveFailed` is no answer, and a
  handler of an answer no catch that does not resolve, is part of it.

**`SafeProofs`** proves of the whole program

    SafeInv == FileInv /\ SectionsInv /\ LsdaInv /\ ReportInv /\ TruthInv /\ WayInv

for every file: where `main` is and whether the file is open; that each section handed out
is the first of its name that could be read, after any number of `elf_nextscn` (or, when
the names are not known, that it is one of the file's); that the
`LsdaParser` has not begun or keeps all it keeps alone; that what is printed was found;
that it was found for its reason; and what `main` has met on its way.
`LsdaParser` is not proved again. Its step lemmas are cited through an instance: `P` is the
parser with every byte string up to `MaxHandlers` for its inputs, `SameReadings` and `SameParser` say
that its steps are those of the parser in `Safe`, and `LsdaParserIsKept` is what follows,
the scopes included. For this the bytes of a section must be bytes, which is
`SectionsInv` together with `ProgramAssumption`.

The Validator is not proved again either. `W` is an instance of `ValidatorProofs`, whose
lemmas about lookups are stated of any table of symbols (`CodeOK`), not of a behaviour;
`SameLookups` and `SameAnalysis` say that the Validator of `Safe` computes the same.
`TruthInv` has five parts:

- `SymbolsInv`: the symbols have values and sizes, because the half words of an entry are
  inside the data or the heap behind it (`SymtabAssumption`), and two of them are a word;
- `CodeInv`: once the Validator is constructed its symbols, code and RTTI map are what its
  lemmas ask for, so `SameTypes` holds in the program: what a function inside `.text`
  refers to is the same whatever the heap holds;
- `RecordsInv`: the records are those of the `LsdaParser` that has just ended. That its
  scopes are what a Validator takes needs the types of their handlers;
- `FoundInv` and `PrintedInv`: a function is reported because it was found to throw, and
  printed, or left out, because of what `analyze_exceptions` answered. With
  `HasHandling` the answer says whether the LSDA has a handler for a type of the function,
  hence `ReportIsTrue`.

`WayInv` says of each place of `main` what it has found by then (`HasEntries`, `HasText`,
`HasTable`, `HasVerdict`), and of the end which of four it is: nothing to report, a
division by zero, an uncaught exception, a verdict (`Terminated` tells the three
exceptions apart). `HandedOut` turns the map of sections into the sections of the file,
which have all been read by then, and `ExitHasAReason` follows; for this a name that is
looked up must not be a string of another table. That there is a symbol when the file has room for one is the
arithmetic of `RoomForOne`.

**`CallGraphProofs`** proves

    IInv == ReaderInv /\ PlaceInv /\ NodesInv /\ EdgesStayInside /\ GraphsInv

for every sequence of lines, well formed or not. `PlaceInv` ties the second half of
`parse_gcc_callgraph` to the first: the entries behind the place are nodes already, so an
entry whose edges are added IS a node, and the caller appended to `m_throw_callers` is one.
That a node is there once for each call of `__cxa_throw` is a count over a concatenation
of callee lists (`CountInConcat`). `GraphsInv` says that an object of a client has all
nodes or none, because a move takes them all; with it and `PlaceInv` the `get_names` of a
node finds every neighbour (`NodesSeeTheirGraph`).

Two more invariants say what the table and the graph are.

- `GraphIsTheTable` rests on `TableInv`. The nodes made so far have the ids of the entries
  passed (`NumbersInv`), the names of the first entry of their id (`NamesInv`), and the
  calls of their entry as far as the second loop has come (`ListsInv`); every exception
  has its entry (`ReasonInv`, `ThrowHasReason`). Ids need not differ: an entry whose id is
  not its own is told apart (`IsAlone`), as its lists would be those of another.
- `EntriesAreTheSymbols` rests on `SymbolsInv`, which follows the lines. A raw entry
  CARRIES the lines from b to j when an increasing map places its lines on those of the
  file that are not empty (`IsPlacing`). `ScanInv`, after p lines, says that the flag
  `in_entry` is what the lines before p make it (`IsIdle`), that the entry in hand carries
  the symbol that is open, if one is, and that every symbol that has ended before p is
  carried by a raw entry, and nothing else is. The case that makes the property worth
  proving is a "Type" line: it resets `is_function` for the entry in hand, and `ScanInv`
  holds because no symbol is open any more (`ScanDeniedLine`). At the end of the file the
  last symbol is pushed outside the loop (`FileEnds`). `EntryOfLines` then says what
  parsing makes of such an entry: the first line that is not blank gives the names and the
  id, and of two lines with one key the later one stays.

Not proved, only checked:

- `MainEnds` and `BackwardChainsEnd` are liveness, which these provers do not do. What
  they rest on is proved: `LoopsAdvance`, and `BackwardLinksDescend`, the measure of a
  chain.
- The comparisons with compilers and assemblers: `CompilerOutputParses`,
  `HandlersAreAPrefix`, `ThrowersAreReported`, `LoadedTypesAreAnswered`,
  `EntriesAreTheFunctions`, `GraphIsTheProgram`, `FailureHasAReason`,
  `SymbolsAreTheFiles`, `ReportIsComplete`. They relate the state to
  the program an image was made of, so they are statements about the images of an MC
  module, and their generators are recursive. What three of them have to do with any
  input is proved: `ReportIsTrue` for `ReportIsComplete`, `EntriesAreTheSymbols` for
  `EntriesAreTheFunctions` (but for the order of the entries and that there is no second
  one of a symbol), `GraphIsTheTable` for `GraphIsTheProgram` and `FailureHasAReason`.

## 6. Not modelled

- The printers of `LsdaParser`, the `std::formatter` specialisations and the log files
  write text and change no state. The one lookup a formatter makes, `get_names`, is in
  `CallGraph`.
- A line of the dump without a colon below a symbol: the code dereferences the end of a
  range (`gcc_parse.cpp:264`). `DumpImage` writes none.
- Two symbols of one id in `DumpImage`: GCC numbers its symbols apart. (The proofs about
  the table do not need it.) An id that is no int makes `stoi` throw, as modelled; a
  number that not even `stoul` holds counts as no number, as both throw in the first loop.
- Exceptions of memory and of output: `std::bad_alloc`, and the `std::system_error` of
  `std::print` when a stream cannot be written. Almost every call could throw them. The
  three exceptions above are those that a file or a directory can cause.
- A node whose graph object was destroyed: a client that asks it for its neighbours
  reads freed memory. `NodesSeeTheirGraph` is stated of graphs that live; in `main`
  declaration order keeps every object alive. Nor is an `LsdaParser` or `ElfParser`
  destroyed that a `Validator` still points to: no client in the repository does it.
- `throw.cpp`, the testing programs and `gcc_parse.py`: inputs and a prototype.

## 7. Plan

1. `LsdaParser` and its decoders: checked and proved, the loops and the refinement of
   `ScopeTable` included.
2. `Validator`: checked and proved.
3. `ElfParser`, `Safe`, `GccDump`, `CallGraph`: checked; type correctness and the safety
   invariants that are about every file and every dump are proved.
4. The Validator in the program, the report, the ends of the process, the table of the
   dump and the graph of the table: proved of every file and every dump.
5. What is left is named in section 5 as only checked: liveness, and the comparisons with
   the programs that images are made of.
