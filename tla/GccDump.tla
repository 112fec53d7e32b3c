------------------------------ MODULE GccDump -------------------------------
(***************************************************************************)
(* parse_gcc_wpa (src/src/gcc_parse.cpp): it reads the symbol table that   *)
(* GCC dumps with -fdump-ipa-whole-program and keeps an entry for every    *)
(* function of the program.                                                *)
(*                                                                         *)
(* A step is one line of the file, then one raw entry.  A text is a        *)
(* sequence of chunks [text, id]: one space, one parenthesis, or whatever  *)
(* stands between those, which is name/id when id is not None.  A line is  *)
(*   [margin, key, value]                                                  *)
(* where margin says that it does not begin with a space, key is           *)
(*   "empty"  for no character at all,   "blank" for nothing but spaces,   *)
(*   "table"  for the line "Symbol table:",                                *)
(*   "name"   for the first line of a symbol, name/id (demangled name),    *)
(* and otherwise the text before the first colon; value is the text        *)
(* between that and a second one, without spaces at its ends, or the whole *)
(* line for "name".                                                        *)
(***************************************************************************)
EXTENDS Integers, Sequences, FiniteSetsExt, SequencesExt

CONSTANTS Dumps,        \* file name -> its lines, or None when it cannot be opened
          TypeLike,     \* the names of symbols that begin with "Type"
          Personality,  \* the names that contain "__gxx_personality"
          None          \* no number; no file

Text == Seq([text : STRING, id : Nat \cup {None}])
Line == {line \in [margin : BOOLEAN, key : STRING, value : Text] :
           line.key = "name" => line.value # <<>>}

ASSUME DumpsAssumption ==
  /\ None \notin Nat
  /\ \A f \in DOMAIN Dumps : Dumps[f] # None => Dumps[f] \in Seq(Line)

VARIABLES
  file,           \* the name of the file
  rest,           \* the lines that are not read yet
  pc,
  in_entry, is_function,
  cur_raw_entry,  \* lines
  raw_entries,
  table_entries   \* [fn_name, id, demangled_name, fields]

readVars == <<file, rest, in_entry, is_function, cur_raw_entry, raw_entries>>
dumpVars == <<readVars, pc, table_entries>>

Word(text) == [text |-> text, id |-> None]
Space == Word(" ")
Open  == Word("(")
Close == Word(")")

-----------------------------------------------------------------------------
DumpInit ==
  /\ file \in DOMAIN Dumps
  /\ rest = <<>>
  /\ pc = "open"
  /\ in_entry = FALSE
  /\ is_function = TRUE
  /\ cur_raw_entry = <<>>
  /\ raw_entries = <<>>
  /\ table_entries = <<>>

CannotOpenFile ==
  /\ pc = "open" /\ Dumps[file] = None
  /\ pc' = "threw"
  /\ UNCHANGED <<readVars, table_entries>>

OpenFile ==
  /\ pc = "open" /\ Dumps[file] # None
  /\ rest' = Dumps[file]
  /\ pc' = "preamble"
  /\ UNCHANGED <<file, in_entry, is_function, cur_raw_entry, raw_entries, table_entries>>

SkipPreamble ==
  /\ pc = "preamble" /\ rest # <<>>
  /\ rest' = Tail(rest)
  /\ pc' = IF Head(rest).key = "table" THEN "table" ELSE "preamble"
  /\ UNCHANGED <<file, in_entry, is_function, cur_raw_entry, raw_entries, table_entries>>

\* What makes the reader give up a symbol: a line that begins with "Type" and
\* has no word "function".  The name of a symbol may begin so too.
DeniesFunction(line) ==
  \/ line.key = "Type" /\ Word("function") \notin ToSet(line.value)
  \/ line.key = "name" /\ line.value[1].text \in TypeLike

SkipEmptyLine ==
  /\ pc = "table" /\ rest # <<>> /\ Head(rest).key = "empty"
  /\ rest' = Tail(rest)
  /\ UNCHANGED <<file, pc, in_entry, is_function, cur_raw_entry, raw_entries, table_entries>>

NotAFunction ==
  /\ pc = "table" /\ rest # <<>> /\ DeniesFunction(Head(rest))
  /\ rest' = Tail(rest)
  /\ in_entry' = (in_entry /\ ~Head(rest).margin)
  /\ is_function' = FALSE
  /\ UNCHANGED <<file, pc, cur_raw_entry, raw_entries, table_entries>>

Kept == IF is_function /\ cur_raw_entry # <<>> THEN <<cur_raw_entry>> ELSE <<>>

\* Mutant: after a variable no entry is a function.
ReadLineForgetful ==
  /\ pc = "table" /\ rest # <<>>
  /\ LET line   == Head(rest)
         inside == in_entry /\ ~line.margin
     IN  /\ line.key # "empty" /\ ~DeniesFunction(line)
         /\ raw_entries' = IF inside THEN raw_entries ELSE raw_entries \o Kept
         /\ cur_raw_entry' = Append(IF inside THEN cur_raw_entry ELSE <<>>, line)
  /\ in_entry' = TRUE
  /\ rest' = Tail(rest)
  /\ UNCHANGED <<file, pc, is_function, table_entries>>

ReadLine ==
  /\ pc = "table" /\ rest # <<>>
  /\ LET line   == Head(rest)
         inside == in_entry /\ ~line.margin
     IN  /\ line.key # "empty" /\ ~DeniesFunction(line)
         /\ raw_entries' = IF inside THEN raw_entries ELSE raw_entries \o Kept
         /\ cur_raw_entry' = Append(IF inside THEN cur_raw_entry ELSE <<>>, line)
         /\ is_function' = (inside => is_function)
  /\ in_entry' = TRUE
  /\ rest' = Tail(rest)
  /\ UNCHANGED <<file, pc, table_entries>>

\* Mutant: the last symbol of the file is lost.
EndOfFileLosesLast ==
  /\ pc \in {"preamble", "table"} /\ rest = <<>>
  /\ pc' = "parse"
  /\ UNCHANGED <<file, rest, in_entry, is_function, cur_raw_entry, raw_entries, table_entries>>

\* No other symbol follows the last one to make the reader keep it.
EndOfFile ==
  /\ pc \in {"preamble", "table"} /\ rest = <<>>
  /\ raw_entries' = raw_entries \o (IF is_function THEN <<cur_raw_entry>> ELSE <<>>)
  /\ pc' = "parse"
  /\ UNCHANGED <<file, rest, in_entry, is_function, cur_raw_entry, table_entries>>

-----------------------------------------------------------------------------
\* Mutant: the space stays.
LowerOnly(key) ==
  CASE key = "Type"           -> "type"
    [] key = "Visibility"     -> "visibility"
    [] key = "Availability"   -> "availability"
    [] key = "Function flags" -> "function flags"
    [] key = "Varpool flags"  -> "varpool flags"
    [] key = "Called by"      -> "called by"
    [] key = "Calls"          -> "calls"

\* The key of a field: no capitals, and _ for a space.
Lower(key) ==
  CASE key = "Type"           -> "type"
    [] key = "Visibility"     -> "visibility"
    [] key = "Availability"   -> "availability"
    [] key = "Function flags" -> "function_flags"
    [] key = "Varpool flags"  -> "varpool_flags"
    [] key = "Called by"      -> "called_by"
    [] key = "Calls"          -> "calls"

\* From the first parenthesis of the line that opens to the last that closes.
Demangled(text) ==
  LET opens  == {k \in DOMAIN text : text[k] = Open}
      closes == {k \in DOMAIN text : text[k] = Close}
  IN  IF opens = {} \/ closes = {} THEN <<>>
      ELSE SubSeq(text, Min(opens) + 1, Max(closes) - 1)

\* The lines of a raw entry that are not blank, but for the first of them.
Lines(raw_entry) == {k \in DOMAIN raw_entry : raw_entry[k].key # "blank"}

Others(raw_entry) == Lines(raw_entry) \ {Min(Lines(raw_entry))}

\* Of the lines of a key the last one counts.
Fields(raw_entry) ==
  LET key(k) == Lower(raw_entry[k].key)
  IN  [f \in {key(k) : k \in Others(raw_entry)} |->
         raw_entry[Max({k \in Others(raw_entry) : key(k) = f})].value]

NoName == ""

\* A first line that is not a name has no text that ends with a number: the
\* pieces of nothing are read all the same, and are empty in the library the
\* program is built with.
Entry(raw_entry) ==
  LET first == raw_entry[Min(Lines(raw_entry))]
  IN  IF first.key = "name"
      THEN [fn_name        |-> first.value[1].text,
            id             |-> first.value[1].id,
            demangled_name |-> Demangled(first.value),
            fields         |-> Fields(raw_entry)]
      ELSE [fn_name |-> NoName, id |-> None, demangled_name |-> <<>>, fields |-> Fields(raw_entry)]

\* Mutant: personality functions are entries too.
ParsedAll(raw_entry) == IF Lines(raw_entry) = {} THEN <<>> ELSE <<Entry(raw_entry)>>

\* The entry of a raw entry, or nothing for one of blank lines and for a
\* personality function.
Parsed(raw_entry) ==
  IF Lines(raw_entry) = {} \/ Entry(raw_entry).fn_name \in Personality THEN <<>>
  ELSE <<Entry(raw_entry)>>

ParseEntry ==
  /\ pc = "parse" /\ raw_entries # <<>>
  /\ table_entries' = table_entries \o Parsed(Head(raw_entries))
  /\ raw_entries' = Tail(raw_entries)
  /\ UNCHANGED <<file, rest, pc, in_entry, is_function, cur_raw_entry>>

DumpNext ==
  \/ CannotOpenFile \/ OpenFile
  \/ SkipPreamble \/ SkipEmptyLine \/ NotAFunction \/ ReadLine \/ EndOfFile
  \/ ParseEntry
=============================================================================
