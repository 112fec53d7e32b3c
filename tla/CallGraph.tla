----------------------------- MODULE CallGraph ------------------------------
(***************************************************************************)
(* parse_gcc_callgraph (src/src/gcc_parse.cpp): it turns the entries of a  *)
(* dump into the graph of the program's calls, and what a client does with *)
(* that graph (src/include/gcc_parse.hpp).                                 *)
(*                                                                         *)
(* A step is one entry.  An exception anywhere destroys the whole graph.   *)
(* A node keeps a reference to the graph it was made for, which is a local *)
(* of parse_gcc_callgraph and, by elision, the first object of the client: *)
(* it is called Home.  The objects of a client share the nodes.            *)
(***************************************************************************)
EXTENDS GccDump

CONSTANTS Objects,  \* the graphs a client may hold
          Home,     \* the one that parse_gcc_callgraph returned
          IntMax    \* the greatest int

ASSUME HomeAssumption == Home \in Objects
ASSUME IntAssumption  == IntMax \in Nat

VARIABLES
  at,               \* the next entry
  m_nodes,          \* id -> node
  m_throw_callers,  \* ids
  graphs            \* object of a client -> the ids its m_nodes maps

vars == <<dumpVars, at, m_nodes, m_throw_callers, graphs>>

-----------------------------------------------------------------------------
(* parse_fn_list.                                                          *)

Ends(s, c) == IF s.attr THEN c = Close ELSE c = Space

\* One step of the splitter, whose state is the tokens found, the text of the
\* one it is in, and whether that is an attribute.
SplitStep(s, c) ==
  CASE s.buf = <<>> /\ c = Space -> s
    [] s.buf = <<>> /\ c = Open  -> [s EXCEPT !.buf = <<c>>, !.attr = TRUE]
    [] s.buf # <<>> /\ Ends(s, c) ->
         [tokens |-> Append(s.tokens, IF s.attr THEN Append(s.buf, c) ELSE s.buf),
          buf    |-> <<>>,
          attr   |-> FALSE]
    [] OTHER -> [s EXCEPT !.buf = Append(@, c)]

Split(inp) ==
  LET s[n \in 0 .. Len(inp)] ==
        IF n = 0 THEN [tokens |-> <<>>, buf |-> <<>>, attr |-> FALSE]
                 ELSE SplitStep(s[n - 1], inp[n])
      end == s[Len(inp)]
  IN  IF end.buf = <<>> THEN end.tokens ELSE Append(end.tokens, end.buf)

IsAttribute(token) == Len(token) > 2 /\ token[1] = Open /\ token[Len(token)] = Close

\* What follows the first slash.  A token with none has no number.
Number(token) ==
  LET slashed == {k \in DOMAIN token : token[k].id # None}
  IN  IF slashed = {} THEN None ELSE token[Min(slashed)].id

\* An attribute goes to prev, which is a copy of the last element of res.
ListStep(s, token) ==
  CASE IsAttribute(token) /\ s.prev = None -> [s EXCEPT !.threw = TRUE]
    [] IsAttribute(token) /\ s.prev # None ->
         [s EXCEPT !.prev.attribs = Append(@, SubSeq(token, 2, Len(token) - 1))]
    [] ~IsAttribute(token) ->
         LET p == [id |-> Number(token), attribs |-> <<>>]
         IN  [s EXCEPT !.res = Append(@, p), !.prev = p]

parse_fn_list(inp) ==
  LET tokens == Split(inp)
      s[n \in 0 .. Len(tokens)] ==
        IF n = 0 THEN [res |-> <<>>, prev |-> None, threw |-> FALSE]
                 ELSE ListStep(s[n - 1], tokens[n])
  IN  s[Len(tokens)]

-----------------------------------------------------------------------------
Init ==
  /\ DumpInit
  /\ at = 1
  /\ m_nodes = <<>>
  /\ m_throw_callers = <<>>
  /\ graphs = <<>>

StartGraph ==
  /\ pc = "parse" /\ raw_entries = <<>>
  /\ pc' = "nodes"
  /\ UNCHANGED <<readVars, table_entries, at, m_nodes, m_throw_callers, graphs>>

\* operator[]: a key that is missing reads as the empty text.
Field(entry, key) ==
  IF key \in DOMAIN entry.fields THEN entry.fields[key] ELSE <<>>

Node(entry) ==
  [fn_name        |-> entry.fn_name,
   demangled_name |-> entry.demangled_name,
   visibility     |-> Field(entry, "visablity"),
   availability   |-> Field(entry, "avaliablity"),
   flags          |-> Field(entry, "function_flags"),
   callers        |-> <<>>,
   callees        |-> <<>>]

Throw == pc' = "threw" /\ m_nodes' = <<>> /\ m_throw_callers' = <<>> /\ at' = 1

\* emplace keeps the node that has the id already.
Emplaced(id, entry) ==
  [n \in DOMAIN m_nodes \cup {id} |-> IF n \in DOMAIN m_nodes THEN m_nodes[n] ELSE Node(entry)]

\* Mutant: an entry without a number is a node.
AddNodeAnyway ==
  /\ pc = "nodes" /\ at <= Len(table_entries)
  /\ m_nodes' = Emplaced(table_entries[at].id, table_entries[at])
  /\ at' = at + 1
  /\ UNCHANGED <<readVars, pc, table_entries, m_throw_callers, graphs>>

AddNode ==
  /\ pc = "nodes" /\ at <= Len(table_entries)
  /\ LET entry == table_entries[at]
     IN  IF entry.id = None THEN Throw
         ELSE /\ m_nodes' = Emplaced(entry.id, entry)
              /\ at' = at + 1
              /\ UNCHANGED <<pc, m_throw_callers>>
  /\ UNCHANGED <<readVars, table_entries, graphs>>

EndOfNodes ==
  /\ pc = "nodes" /\ at > Len(table_entries)
  /\ pc' = "edges" /\ at' = 1
  /\ UNCHANGED <<readVars, table_entries, m_nodes, m_throw_callers, graphs>>

\* Mutant: the edges of an entry are added as soon as its node is made.
FailsAhead(list) ==
  list.threw \/ \E k \in DOMAIN list.res :
                  list.res[k].id \notin {table_entries[j].id : j \in 1 .. at}

\* stoul and value() throw at the first neighbour that is no node.
Fails(list) == list.threw \/ \E k \in DOMAIN list.res : list.res[k].id \notin DOMAIN m_nodes

\* Mutant: a function that calls __cxa_throw counts once.
ThrowCallsOnce(list) ==
  IF \E p \in ToSet(list.res) : m_nodes[p.id].fn_name = "__cxa_throw" THEN 1 ELSE 0

ThrowCalls(list) ==
  Cardinality({k \in DOMAIN list.res : m_nodes[list.res[k].id].fn_name = "__cxa_throw"})

\* The number was read with stoul for the node, and is read with stoi for the edges.
AddEdges ==
  /\ pc = "edges" /\ at <= Len(table_entries)
  /\ LET entry       == table_entries[at]
         caller_list == parse_fn_list(Field(entry, "called_by"))
         callee_list == parse_fn_list(Field(entry, "calls"))
     IN  IF entry.id > IntMax \/ Fails(caller_list) \/ Fails(callee_list) THEN Throw
         ELSE /\ m_nodes' = [m_nodes EXCEPT ![entry.id].callers = @ \o caller_list.res,
                                            ![entry.id].callees = @ \o callee_list.res]
              /\ m_throw_callers' = m_throw_callers \o
                   [k \in 1 .. ThrowCalls(callee_list) |-> entry.id]
              /\ at' = at + 1
              /\ UNCHANGED pc
  /\ UNCHANGED <<readVars, table_entries, graphs>>

ReturnGraph ==
  /\ pc = "edges" /\ at > Len(table_entries)
  /\ pc' = "returned"
  /\ graphs' = [g \in {Home} |-> DOMAIN m_nodes]
  /\ UNCHANGED <<readVars, table_entries, at, m_nodes, m_throw_callers>>

-----------------------------------------------------------------------------
(* The client.                                                             *)

clientUnchanged == UNCHANGED <<dumpVars, at, m_nodes, m_throw_callers>>

\* A new object, or one that is assigned to.
MayReceive(from, to) ==
  from \in DOMAIN graphs /\ to # from /\ (to = Home => Home \in DOMAIN graphs)

CopyGraph(from, to) ==
  /\ MayReceive(from, to)
  /\ graphs' = [g \in DOMAIN graphs \cup {to} |-> IF g = to THEN graphs[from] ELSE graphs[g]]
  /\ clientUnchanged

\* The map of a graph moved from is empty.
MoveGraph(from, to) ==
  /\ MayReceive(from, to)
  /\ graphs' = [g \in DOMAIN graphs \cup {to} |->
                  CASE g = to              -> graphs[from]
                    [] g = from            -> {}
                    [] g \notin {from, to} -> graphs[g]]
  /\ clientUnchanged

DestroyGraph(g) ==
  /\ g \in DOMAIN graphs
  /\ graphs' = [h \in DOMAIN graphs \ {g} |-> graphs[h]]
  /\ clientUnchanged

\* The nodes of this name: the order of the map decides which a client gets.
get_node_from_name(g, name) == {id \in graphs[g] : m_nodes[id].fn_name = name}

\* The node of this id, or none.
get_node_from_id(g, id) == {n \in graphs[g] : n = id}

\* The ids of the neighbours a node finds, by their places among all: it asks
\* the graph it was made for.
get_neigh_refs(neighs) ==
  [k \in {k \in DOMAIN neighs : get_node_from_id(Home, neighs[k].id) # {}} |-> neighs[k].id]

\* Mutant: the flag is the wrong way round.
callee_refs_swapped(id) == get_neigh_refs(m_nodes[id].callers)

callee_refs(id) == get_neigh_refs(m_nodes[id].callees)
caller_refs(id) == get_neigh_refs(m_nodes[id].callers)

\* The neighbours as the formatter prints them: by name, or by number when the
\* graph has no such node, with the tags of the call.
get_names(neighs) ==
  [k \in DOMAIN neighs |->
     [name |-> IF get_node_from_id(Home, neighs[k].id) # {}
               THEN m_nodes[neighs[k].id].fn_name ELSE "number",
      tags |-> neighs[k].attribs]]

Next ==
  \/ DumpNext /\ UNCHANGED <<at, m_nodes, m_throw_callers, graphs>>
  \/ StartGraph \/ AddNode \/ EndOfNodes \/ AddEdges \/ ReturnGraph
  \/ \E from, to \in Objects : CopyGraph(from, to) \/ MoveGraph(from, to)
  \/ \E g \in Objects : DestroyGraph(g)

Spec == Init /\ [][Next]_vars

-----------------------------------------------------------------------------
FnName   == STRING \cup {NoName}
Pairs    == Seq([id : Nat, attribs : Seq(Text)])
NodeType == [fn_name : FnName, demangled_name : Text, visibility : Text,
             availability : Text, flags : Text, callers : Pairs, callees : Pairs]

TypeOK ==
  /\ pc \in {"open", "preamble", "table", "parse", "nodes", "edges", "returned", "threw"}
  /\ in_entry \in BOOLEAN /\ is_function \in BOOLEAN
  /\ rest \in Seq(Line) /\ cur_raw_entry \in Seq(Line)
  /\ raw_entries \in Seq(Seq(Line))
  /\ \A k \in DOMAIN table_entries :
       LET e == table_entries[k]
       IN  /\ e.fn_name \in FnName /\ e.id \in Nat \cup {None} /\ e.demangled_name \in Text
           /\ \A key \in DOMAIN e.fields : e.fields[key] \in Text
  /\ at \in 1 .. Len(table_entries) + 1
  /\ \A id \in DOMAIN m_nodes : id \in Nat /\ m_nodes[id] \in NodeType
  /\ m_throw_callers \in Seq(DOMAIN m_nodes)
  /\ DOMAIN graphs \subseteq Objects
  /\ \A g \in DOMAIN graphs : graphs[g] \subseteq DOMAIN m_nodes

Ids(pairs) == [k \in DOMAIN pairs |-> pairs[k].id]

\* Every neighbour in a graph under construction is a node of it, so that the
\* lookups of a client never fail, and a node is a caller of __cxa_throw exactly
\* as often as it calls one (gcc_parse.cpp:309-324).
EdgesStayInside ==
  \A id \in DOMAIN m_nodes :
    LET n == m_nodes[id]
        throws(k) == m_nodes[n.callees[k].id].fn_name = "__cxa_throw"
    IN  /\ \A k \in DOMAIN n.callers : n.callers[k].id \in DOMAIN m_nodes
        /\ \A k \in DOMAIN n.callees : n.callees[k].id \in DOMAIN m_nodes
        /\ Cardinality({k \in DOMAIN m_throw_callers : m_throw_callers[k] = id}) =
             Cardinality({k \in DOMAIN n.callees : throws(k)})

-----------------------------------------------------------------------------
(* What the table says of the file, in terms of its lines alone.           *)

InTable(lines, m) == \E t \in 1 .. m - 1 : lines[t].key = "table"
Filled(line)      == line.key # "empty"
Breaks(line)      == Filled(line) /\ line.margin

\* A line of the table that the reader keeps, or would keep.
Counts(lines, k) == InTable(lines, k) /\ Filled(lines[k]) /\ ~DeniesFunction(lines[k])

\* Behind the lines 1 .. m the reader is in no symbol: since the last line it kept
\* there was one at the margin.
IsIdle(lines, m) ==
  \A k \in 1 .. m : Counts(lines, k) => \E n \in k + 1 .. m : Breaks(lines[n])

\* The lines b .. j are the beginning of a symbol that may be a function.
Opens(lines, b, j) ==
  /\ Counts(lines, b)
  /\ Breaks(lines[b]) \/ IsIdle(lines, b - 1)
  /\ \A m \in b + 1 .. j : ~Breaks(lines[m]) /\ ~DeniesFunction(lines[m])

\* They are all of it.  The line behind must not begin with "Type" either.
IsSymbol(lines, b, j) ==
  /\ Opens(lines, b, j)
  /\ j < Len(lines) => Breaks(lines[j + 1]) /\ ~DeniesFunction(lines[j + 1])

\* The lines among b .. j that say something.
Said(lines, b, j) == {m \in b .. j : lines[m].key \notin {"empty", "blank"}}

IsEntryOf(e, lines, b, j) ==
  LET said   == Said(lines, b, j)
      first  == lines[Min(said)]
      others == said \ {Min(said)}
      of(f)  == {m \in others : Lower(lines[m].key) = f}
  IN  /\ said # {}
      /\ first.key = "name" => /\ e.fn_name = first.value[1].text
                               /\ e.id = first.value[1].id
                               /\ e.demangled_name = Demangled(first.value)
      /\ first.key # "name" => e.fn_name = NoName /\ e.id = None
      /\ DOMAIN e.fields = {Lower(lines[m].key) : m \in others}
      /\ \A f \in DOMAIN e.fields : e.fields[f] = lines[Max(of(f))].value

\* Every entry of the table is what one symbol of the file says, no line of
\* another one in it, and no symbol is lost that has a name, is no personality
\* function and denies nowhere to be a function: not the first of the file, not
\* the last, whatever stands between (gcc_parse.cpp:156-198, 204-268).
EntriesAreTheSymbols ==
  pc = "nodes" =>
    LET lines == Dumps[file]
    IN  /\ \A k \in DOMAIN table_entries :
             \E b \in DOMAIN lines : \E j \in b .. Len(lines) :
               IsSymbol(lines, b, j) /\ IsEntryOf(table_entries[k], lines, b, j)
        /\ \A b \in DOMAIN lines : \A j \in b .. Len(lines) :
             (/\ IsSymbol(lines, b, j)
              /\ lines[b].key = "name" /\ lines[b].value[1].text \notin Personality) =>
               \E k \in DOMAIN table_entries : IsEntryOf(table_entries[k], lines, b, j)

-----------------------------------------------------------------------------
\* What the table says of a symbol: its numbers, the neighbours of an entry, and
\* whether those stop the construction.
Numbers == {table_entries[k].id : k \in DOMAIN table_entries}

CallersOf(entry) == parse_fn_list(Field(entry, "called_by"))
CalleesOf(entry) == parse_fn_list(Field(entry, "calls"))

Stops(entry) ==
  \/ entry.id = None \/ entry.id > IntMax
  \/ \E list \in {CallersOf(entry), CalleesOf(entry)} :
       list.threw \/ \E k \in DOMAIN list.res : list.res[k].id \notin Numbers

\* No entry before the k-th has its number; no other has it.
IsFirst(k) == \A j \in DOMAIN table_entries : j < k => table_entries[j].id # table_entries[k].id
IsAlone(k) == \A j \in DOMAIN table_entries : table_entries[j].id = table_entries[k].id => j = k

\* The graph that is returned has the entries of the table and nothing else: the
\* first of every number makes the node, and the lists of an entry whose number no
\* other has are the neighbours, those of no entry are lost or handed to another
\* node.  It is returned exactly when every number is an int and every neighbour
\* that the table names is in it (gcc_parse.cpp:281-330).
GraphIsTheTable ==
  /\ pc = "returned" =>
       /\ DOMAIN m_nodes = Numbers
       /\ \A k \in DOMAIN table_entries :
            LET entry == table_entries[k]
                node  == m_nodes[entry.id]
            IN  /\ ~Stops(entry)
                /\ IsFirst(k) => /\ node.fn_name = entry.fn_name
                                 /\ node.demangled_name = entry.demangled_name
                                 /\ node.flags = Field(entry, "function_flags")
                /\ IsAlone(k) => /\ node.callers = CallersOf(entry).res
                                 /\ node.callees = CalleesOf(entry).res
  /\ pc = "threw" => Dumps[file] = None \/ \E k \in DOMAIN table_entries : Stops(table_entries[k])

\* As long as the graph that was returned has its map, a node finds all its
\* neighbours and prints their names, through whatever copy a client reached
\* it, and whatever happened to the other objects
\* (gcc_parse.cpp:41-45, gcc_parse.hpp:37-40, 144-159, 188-216).
NodesSeeTheirGraph ==
  (Home \in DOMAIN graphs /\ graphs[Home] # {}) =>
    \A g \in DOMAIN graphs : \A id \in graphs[g] :
      /\ callee_refs(id) = Ids(m_nodes[id].callees)
      /\ caller_refs(id) = Ids(m_nodes[id].callers)
      /\ \A k \in DOMAIN get_names(m_nodes[id].callees) :
           get_names(m_nodes[id].callees)[k].name = m_nodes[m_nodes[id].callees[k].id].fn_name

\* "Gets all callees node references" (gcc_parse.hpp:113): a node that a client
\* holds in a graph finds its callees there.
NeighboursFound ==
  Home \in DOMAIN graphs =>
    \A g \in DOMAIN graphs : \A id \in graphs[g] :
      callee_refs(id) = Ids(m_nodes[id].callees)
=============================================================================
