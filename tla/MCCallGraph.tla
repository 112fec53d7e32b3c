---------------------------- MODULE MCCallGraph -----------------------------
(***************************************************************************)
(* The dumps of programs of three symbols, and of four when the fourth     *)
(* number is no int any more.                                              *)
(***************************************************************************)
EXTENDS CallGraph

Image == INSTANCE DumpImage

MCTypeLike == {"TypeOf", "Type_v"}
MCPersonality == {"__gxx_personality_v0"}

Functions == {"f", "g", "__cxa_throw", "__gxx_personality_v0", "TypeOf"}
Variables == {"v", "Type_v"}

OrdersOf(n, names) == {s \in [1 .. n -> names] : \A j, k \in 1 .. n : s[j] = s[k] => j = k}

Orders == OrdersOf(3, (Functions \ {"g"}) \cup Variables)
            \cup OrdersOf(4, {"f", "g", "__cxa_throw", "v"})

IsFunction(s, k) == s[k] \in Functions

\* f may call nothing, another function, itself, one of them twice; another
\* function may call the first of the file.
CallsOf(s, k) ==
  CASE s[k] = "f" -> {c \in {<<>>, <<1>>, <<2, 3>>, <<3, 3, 2>>} :
                        \A n \in DOMAIN c : IsFunction(s, c[n])}
    [] s[k] \in Functions \ {"f"} -> {c \in {<<>>, <<1>>} : \A n \in DOMAIN c : IsFunction(s, c[n])}
    [] s[k] \in Variables -> {<<>>}

Programs(s) ==
  {[symbols |-> [k \in DOMAIN s |-> [name |-> s[k], function |-> IsFunction(s, k)]],
    calls   |-> c, style |-> style] :
      c \in {c \in [DOMAIN s -> UNION {CallsOf(s, k) : k \in DOMAIN s}] :
               \A k \in DOMAIN s : c[k] \in CallsOf(s, k)},
      style \in IF Len(s) = 3 THEN {"bare", "attrs", "counts"} ELSE {"bare"}}

Empty(style) == [symbols |-> <<>>, calls |-> <<>>, style |-> style]

Files == UNION {Programs(s) : s \in Orders} \cup {Empty("bare"), Empty("missing")}

MCDumps == [p \in Files |-> IF p.style = "missing" THEN None ELSE Image!Dump(p)]

-----------------------------------------------------------------------------
Name(p, k) == p.symbols[k].name

\* The symbols of the program whose entry carries their own name: neither it nor
\* the next one of the file has a name that begins with "Type".
Recognised(p) ==
  {k \in DOMAIN p.symbols :
     /\ p.symbols[k].function /\ Name(p, k) \notin Personality
     /\ \A j \in {k, k + 1} \cap DOMAIN p.symbols : Name(p, j) \notin TypeLike}

\* The table has the functions of the program in the order of the file, each
\* once and with its own id, and no variable.  A name that begins with "Type" is
\* taken for a line of the symbol before: it costs both their entries, and
\* leaves one without a name (gcc_parse.cpp:167-198, 204-268).
EntriesAreTheFunctions ==
  pc \in {"nodes", "edges", "returned"} =>
    LET named == SelectSeq(table_entries, LAMBDA e : e.id # None)
        ids   == {named[k].id : k \in DOMAIN named}
    IN  /\ ids = Recognised(file)
        /\ \A k \in DOMAIN named : named[k].fn_name = Name(file, named[k].id)
        /\ \A j, k \in DOMAIN named : j < k => named[j].id < named[k].id
        /\ Len(named) < Len(table_entries) <=>
             \E k \in DOMAIN file.symbols : Name(file, k) \in TypeLike

Callers(p, k) == Image!CallersOf(p, k)

\* A graph that is returned is the program's: its functions with their flags,
\* every call once for caller and callee, in the order of the dump, and among
\* the throwers each function once for every call of __cxa_throw
\* (gcc_parse.cpp:275-328).
GraphIsTheProgram ==
  pc = "returned" =>
    /\ DOMAIN m_nodes = Recognised(file)
    /\ \A k \in DOMAIN m_nodes :
         /\ m_nodes[k].fn_name = Name(file, k)
         /\ m_nodes[k].flags = <<Word("body")>>
         /\ Ids(m_nodes[k].callees) = file.calls[k]
         /\ Ids(m_nodes[k].callers) = Callers(file, k)
    /\ \A g \in DOMAIN graphs : \A k \in graphs[g] :
         get_node_from_name(g, Name(file, k)) = {k}
    /\ \A t \in DOMAIN m_nodes :
         Name(file, t) = "__cxa_throw" => m_throw_callers = Callers(file, t)

IsPersonality(p, k) == Name(p, k) \in Personality

\* The calls <<k, j>> that an entry of the table lists.
ListedCalls(p) ==
  {c \in UNION {{k} \X ToSet(p.calls[k]) : k \in DOMAIN p.calls} :
     ~(IsPersonality(p, c[1]) /\ IsPersonality(p, c[2]))}

\* What makes the reader fail: no file; a name that begins with "Type"; the
\* counts of -O2; a call from or to a function the table leaves out; a function
\* whose number is no int.
Beyond(p) ==
  \/ p.style = "missing"
  \/ \E k \in DOMAIN p.symbols : Name(p, k) \in TypeLike
  \/ p.style = "counts" /\ ListedCalls(p) # {}
  \/ \E c \in ListedCalls(p) : IsPersonality(p, c[1]) \/ IsPersonality(p, c[2])
  \/ \E k \in Recognised(p) : k > IntMax

\* The graph of every other program is built, none of those is, and there is no
\* half of one (gcc_parse.cpp:151-154, 284, 299, 310-319).
FailureHasAReason ==
  /\ pc = "threw"    => Beyond(file) /\ DOMAIN m_nodes = {}
  /\ pc = "returned" => ~Beyond(file)

\* "join tags in p.second into a comma-separated list" (gcc_parse.hpp:202), and
\* the test that prints "with attributes" (tests/gcc_callgraph.test.cpp:84-86): a call
\* that the dump gives attributes has them in the graph.
AttributesKept ==
  (pc = "returned" /\ file.style = "attrs") =>
    \A g \in DOMAIN graphs : \A id \in graphs[g] :
      \A n \in ToSet(get_names(m_nodes[id].callees)) : n.tags # <<>>
=============================================================================
