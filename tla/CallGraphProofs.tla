--------------------------- MODULE CallGraphProofs ---------------------------
(***************************************************************************)
(* The graph of calls for every dump: what the reader and the splitter of  *)
(* its lists return, that a graph under construction is closed under its   *)
(* edges, and that the nodes of a client see the whole graph.              *)
(***************************************************************************)
EXTENDS CallGraph, NatLemmas, SequenceTheorems

Chunk == [text : STRING, id : Nat \cup {None}]

\* A text is a sequence, and what is not empty has a first chunk.
LEMMA TextIsChunks == Text = Seq(Chunk)
BY DEF Text, Chunk

LEMMA TextPlaces ==
  ASSUME NEW text \in Text
  PROVE  /\ Len(text) \in Nat /\ DOMAIN text = 1 .. Len(text)
         /\ \A k \in 1 .. Len(text) : text[k] \in Chunk
         /\ text # <<>> => Len(text) >= 1
<1>1. text \in Seq(Chunk)
  BY TextIsChunks
<1>. QED BY <1>1, LenProperties, ElementOfSeq, EmptySeq

\* The least and the greatest place of a set of places are among them.
LEMMA LeastPlace ==
  ASSUME NEW S \in SUBSET Nat, S # {}
  PROVE  Min(S) \in S
BY LeastNatural DEF Min

LEMMA BoundedGreatest ==
  ASSUME NEW N \in Nat, NEW S \in SUBSET (1 .. N), S # {}
  PROVE  \E x \in S : \A y \in S : x >= y
<1> DEFINE T == {N - k : k \in S}
<1>1. T \in SUBSET Nat /\ T # {}
  <2>1. \A k \in S : N - k \in Nat
    OBVIOUS
  <2>. QED BY <2>1
<1>2. PICK t \in T : \A n \in T : t <= n
  <2> HIDE DEF T
  <2>. QED BY <1>1, LeastNatural
<1>3. PICK m \in S : t = N - m
  BY <1>2
<1>4. \A n \in S : m >= n
  <2>1. ASSUME NEW n \in S PROVE m >= n
    <3>1. N - n \in T
      OBVIOUS
    <3>2. N - m <= N - n
      BY <1>2, <1>3, <3>1
    <3>. QED BY <3>2
  <2>. QED BY <2>1
<1>. QED BY <1>4

LEMMA GreatestPlace ==
  ASSUME NEW N \in Nat, NEW S \in SUBSET (1 .. N), S # {}
  PROVE  Max(S) \in S
BY BoundedGreatest DEF Max

-----------------------------------------------------------------------------
(* The entries of the table.                                               *)

\* What stands between two parentheses of a text is a text.
LEMMA DemangledType ==
  ASSUME NEW text \in Text
  PROVE  Demangled(text) \in Text
<1> DEFINE opens  == {k \in DOMAIN text : text[k] = Open}
           closes == {k \in DOMAIN text : text[k] = Close}
<1>1. DOMAIN text = 1 .. Len(text) /\ Len(text) \in Nat
  BY DEF Text
<1>2. CASE opens = {} \/ closes = {}
  BY <1>2 DEF Demangled, Text
<1>3. CASE opens # {} /\ closes # {}
  <2>1. opens \in SUBSET Nat /\ closes \in SUBSET (1 .. Len(text))
    BY <1>1
  <2> HIDE DEF opens, closes
  <2>2. Min(opens) \in opens /\ Max(closes) \in closes
    BY <1>1, <1>3, <2>1, LeastPlace, GreatestPlace
  <2> USE DEF opens, closes
  <2>3. Min(opens) \in 1 .. Len(text) /\ Max(closes) \in 1 .. Len(text)
    BY <1>1, <2>2
  <2>4. Demangled(text) = SubSeq(text, Min(opens) + 1, Max(closes) - 1)
    BY <1>3 DEF Demangled
  <2> HIDE DEF opens, closes
  <2>5. PICK m \in Int, n \in Int :
          m = Min(opens) + 1 /\ n = Max(closes) - 1 /\ 1 <= m /\ n <= Len(text)
    BY <1>1, <2>3
  <2>6. \A i \in m .. n : text[i] \in Chunk
    <3>1. ASSUME NEW i \in m .. n PROVE text[i] \in Chunk
      <4>1. i \in 1 .. Len(text)
        BY <1>1, <2>5
      <4>. QED BY <4>1, TextPlaces
    <3>. QED BY <3>1
  <2>7. SubSeq(text, m, n) \in Seq(Chunk)
    BY <2>6, SubSeqProperties
  <2>. QED BY <2>4, <2>5, <2>7 DEF Text, Chunk
<1>. QED BY <1>2, <1>3

\* Every field of a raw entry is the value of one of its lines.
LEMMA FieldsType ==
  ASSUME NEW raw_entry \in Seq(Line), NEW f \in DOMAIN Fields(raw_entry)
  PROVE  Fields(raw_entry)[f] \in Text
<1> DEFINE key(k) == Lower(raw_entry[k].key)
           places == {k \in Others(raw_entry) : key(k) = f}
<1>1. DOMAIN raw_entry = 1 .. Len(raw_entry) /\ Len(raw_entry) \in Nat
  OBVIOUS
<1>2. Others(raw_entry) \subseteq DOMAIN raw_entry
  BY DEF Others, Lines
<1>3. DOMAIN Fields(raw_entry) = {key(k) : k \in Others(raw_entry)}
  BY DEF Fields
<1>4. Fields(raw_entry)[f] = raw_entry[Max(places)].value
  BY DEF Fields
<1>5. places \in SUBSET (1 .. Len(raw_entry)) /\ places # {}
  BY <1>1, <1>2, <1>3
<1>6. Max(places) \in 1 .. Len(raw_entry)
  <2> HIDE DEF places
  <2>. QED BY <1>1, <1>5, GreatestPlace
<1>7. raw_entry[Max(places)].value \in Text
  <2> HIDE DEF places
  <2>1. raw_entry[Max(places)] \in Line
    BY <1>6
  <2>. QED BY <2>1 DEF Line
<1>. QED BY <1>4, <1>7

IsEntry(e) ==
  /\ e.fn_name \in FnName /\ e.id \in Nat \cup {None} /\ e.demangled_name \in Text
  /\ \A key \in DOMAIN e.fields : e.fields[key] \in Text

\* A raw entry gives an entry with a name, a number or none, and texts.
LEMMA EntryType ==
  ASSUME NEW raw_entry \in Seq(Line), Lines(raw_entry) # {}
  PROVE  IsEntry(Entry(raw_entry))
<1> DEFINE first == raw_entry[Min(Lines(raw_entry))]
           fields == Fields(raw_entry)
<1>1. Lines(raw_entry) \in SUBSET Nat
  BY DEF Lines
<1>2. Min(Lines(raw_entry)) \in DOMAIN raw_entry
  BY <1>1, LeastPlace DEF Lines
<1>3. first \in Line
  BY <1>2
<1>4. \A key \in DOMAIN fields : fields[key] \in Text
  BY FieldsType
<1> HIDE DEF fields
<1>5. CASE first.key = "name"
  <2>1. first.value \in Text /\ first.value # <<>>
    BY <1>3, <1>5 DEF Line
  <2>2. first.value[1].text \in STRING /\ first.value[1].id \in Nat \cup {None}
    <3>1. PICK value \in Text : value = first.value /\ value # <<>>
      BY <2>1
    <3> HIDE DEF first
    <3>2. value[1] \in Chunk
      BY <3>1, TextPlaces
    <3>. QED BY <3>1, <3>2 DEF Chunk
  <2>3. Demangled(first.value) \in Text
    BY <2>1, DemangledType
  <2>4. Entry(raw_entry) = [fn_name |-> first.value[1].text, id |-> first.value[1].id,
                            demangled_name |-> Demangled(first.value), fields |-> fields]
    BY <1>5 DEF Entry, fields
  <2> DEFINE e == Entry(raw_entry)
  <2>5. /\ e.fn_name = first.value[1].text /\ e.id = first.value[1].id
        /\ e.demangled_name = Demangled(first.value) /\ e.fields = fields
    <3> HIDE DEF first
    <3>. QED BY <2>4
  <2> HIDE DEF first, e
  <2>6. IsEntry(e)
    BY <1>4, <2>2, <2>3, <2>5 DEF IsEntry, FnName
  <2>. QED BY <2>6 DEF e
<1>6. CASE first.key # "name"
  <2>1. Entry(raw_entry) = [fn_name |-> NoName, id |-> None, demangled_name |-> <<>>,
                            fields |-> fields]
    BY <1>6 DEF Entry, fields
  <2> DEFINE e == Entry(raw_entry)
  <2>2. /\ e.fn_name = NoName /\ e.id = None /\ e.demangled_name = <<>> /\ e.fields = fields
    BY <2>1
  <2>3. <<>> \in Text
    BY DEF Text
  <2> HIDE DEF first, e
  <2>4. IsEntry(e)
    BY <1>4, <2>2, <2>3 DEF IsEntry, FnName
  <2>. QED BY <2>4 DEF e
<1>. QED BY <1>5, <1>6

-----------------------------------------------------------------------------
(* parse_fn_list.                                                          *)

SplitStates == [tokens : Seq(Text), buf : Text, attr : BOOLEAN]

LEMMA SplitStepType ==
  ASSUME NEW s \in SplitStates, NEW c \in Chunk
  PROVE  SplitStep(s, c) \in SplitStates
<1>1. s.tokens \in Seq(Text) /\ s.buf \in Text /\ s.attr \in BOOLEAN
  BY DEF SplitStates
<1>2. <<>> \in Text /\ <<c>> \in Text /\ Append(s.buf, c) \in Text
  BY <1>1, TextIsChunks
<1>3. CASE s.buf = <<>> /\ c = Space
  <2>1. c # Open
    BY <1>3 DEF Space, Open, Word
  <2>2. SplitStep(s, c) = s
    BY <1>3, <2>1 DEF SplitStep
  <2>. QED BY <2>2
<1>4. CASE s.buf = <<>> /\ c = Open /\ c # Space
  <2>1. SplitStep(s, c) = [s EXCEPT !.buf = <<c>>, !.attr = TRUE]
    BY <1>4 DEF SplitStep
  <2>. QED BY <1>2, <2>1 DEF SplitStates
<1>5. CASE s.buf # <<>> /\ Ends(s, c)
  <2> DEFINE token == IF s.attr THEN Append(s.buf, c) ELSE s.buf
  <2>1. SplitStep(s, c) = [tokens |-> Append(s.tokens, token), buf |-> <<>>, attr |-> FALSE]
    BY <1>5 DEF SplitStep
  <2>2. token \in Text
    BY <1>1, <1>2
  <2> HIDE DEF token
  <2>3. Append(s.tokens, token) \in Seq(Text)
    BY <1>1, <2>2
  <2>. QED BY <1>2, <2>1, <2>3 DEF SplitStates
<1>6. CASE /\ ~(s.buf = <<>> /\ c = Space) /\ ~(s.buf = <<>> /\ c = Open)
           /\ ~(s.buf # <<>> /\ Ends(s, c))
  <2>1. SplitStep(s, c) = [s EXCEPT !.buf = Append(@, c)]
    BY <1>6 DEF SplitStep
  <2>. QED BY <1>2, <2>1 DEF SplitStates
<1>. QED BY <1>3, <1>4, <1>5, <1>6

\* A list splits into texts, whatever it holds.
LEMMA SplitType ==
  ASSUME NEW inp \in Text
  PROVE  Split(inp) \in Seq(Text)
<1> DEFINE N == Len(inp)
           T == SplitStates
           base == [tokens |-> <<>>, buf |-> <<>>, attr |-> FALSE]
           step == [p \in T \X (1 .. N) |-> SplitStep(p[1], inp[p[2]])]
           Next0(f, n) == IF n = 0 THEN base ELSE SplitStep(f[n - 1], inp[n])
           s == CHOOSE f : f = [n \in 0 .. N |-> Next0(f, n)]
<1>1. N \in Nat /\ \A n \in 1 .. N : inp[n] \in Chunk
  BY TextPlaces
<1>2. base \in T
  BY DEF SplitStates, Text
<1>3. step \in [T \X (1 .. N) -> T]
  BY <1>1, SplitStepType
<1>4. HasIterates(N, T, base, step)
  <2> HIDE DEF T, step, N, base
  <2>. QED BY <1>1, <1>2, <1>3, Recursion
<1>5. PICK f \in [0 .. N -> T] : Iterates(f, N, base, step)
  BY <1>4 DEF HasIterates
<1>6. f = [n \in 0 .. N |-> Next0(f, n)]
  <2>1. ASSUME NEW n \in 0 .. N PROVE f[n] = Next0(f, n)
    <3>1. CASE n = 0
      BY <1>5, <3>1 DEF Iterates
    <3>2. CASE n # 0
      <4>1. n \in 1 .. N /\ n - 1 \in 0 .. N /\ f[n - 1] \in T
        BY <1>1, <3>2
      <4>2. f[n] = step[<<f[n - 1], n>>]
        BY <1>5, <4>1 DEF Iterates
      <4>3. step[<<f[n - 1], n>>] = SplitStep(f[n - 1], inp[n])
        <5> HIDE DEF T
        <5>. QED BY <4>1
      <4>. QED BY <3>2, <4>2, <4>3
    <3>. QED BY <3>1, <3>2
  <2>. QED BY <1>5, <2>1
<1>7. s = [n \in 0 .. N |-> Next0(s, n)]
  BY <1>6
<1>8. Split(inp) = IF s[N].buf = <<>> THEN s[N].tokens ELSE Append(s[N].tokens, s[N].buf)
  BY DEF Split
<1> HIDE DEF s
<1>9. s[N] \in T
  <2> DEFINE S == {n \in 0 .. N : s[n] \in T}
  <2>1. 0 \in S
    BY <1>1, <1>2, <1>7
  <2>2. ASSUME NEW n \in 0 .. N - 1, n \in S PROVE n + 1 \in S
    <3>1. n + 1 \in 1 .. N /\ n + 1 \in 0 .. N /\ n + 1 # 0 /\ (n + 1) - 1 = n
      BY <1>1
    <3>2. s[n + 1] = SplitStep(s[n], inp[n + 1])
      BY <1>7, <3>1
    <3>3. s[n] \in T /\ inp[n + 1] \in Chunk
      BY <1>1, <2>2, <3>1
    <3>4. s[n + 1] \in T
      BY <3>2, <3>3, SplitStepType
    <3>. QED BY <3>1, <3>4
  <2>3. 0 .. N \subseteq S
    <3> HIDE DEF S
    <3>. QED BY <1>1, <2>1, <2>2, Induction
  <2>. QED BY <1>1, <2>3
<1>10. s[N].tokens \in Seq(Text) /\ s[N].buf \in Text
  BY <1>9 DEF SplitStates
<1>11. Append(s[N].tokens, s[N].buf) \in Seq(Text)
  <2> HIDE DEF N
  <2>. QED BY <1>10
<1>. QED BY <1>8, <1>10, <1>11

Pair == [id : Nat \cup {None}, attribs : Seq(Text)]
ListStates == [res : Seq(Pair), prev : Pair \cup {None}, threw : BOOLEAN]

\* The number of a token is a number, or none.
LEMMA NumberType ==
  ASSUME NEW token \in Text
  PROVE  Number(token) \in Nat \cup {None}
<1> DEFINE slashed == {k \in DOMAIN token : token[k].id # None}
<1>1. slashed \in SUBSET Nat
  BY TextPlaces
<1>2. CASE slashed = {}
  BY <1>2 DEF Number
<1>3. CASE slashed # {}
  <2>1. Min(slashed) \in slashed
    <3> HIDE DEF slashed
    <3>. QED BY <1>1, <1>3, LeastPlace
  <2>2. Min(slashed) \in 1 .. Len(token)
    BY <2>1, TextPlaces
  <2>3. Number(token) = token[Min(slashed)].id
    BY <1>3 DEF Number
  <2> HIDE DEF slashed
  <2>4. token[Min(slashed)] \in Chunk
    BY <2>2, TextPlaces
  <2>. QED BY <2>3, <2>4 DEF Chunk
<1>. QED BY <1>2, <1>3

LEMMA ListStepType ==
  ASSUME NEW s \in ListStates, NEW token \in Text
  PROVE  ListStep(s, token) \in ListStates
<1>1. s.res \in Seq(Pair) /\ s.prev \in Pair \cup {None} /\ s.threw \in BOOLEAN
  BY DEF ListStates
<1>2. CASE IsAttribute(token) /\ s.prev = None
  <2>1. ListStep(s, token) = [s EXCEPT !.threw = TRUE]
    BY <1>2 DEF ListStep
  <2>. QED BY <2>1 DEF ListStates
<1>3. CASE IsAttribute(token) /\ s.prev # None
  <2>1. ListStep(s, token) =
          [s EXCEPT !.prev.attribs = Append(@, SubSeq(token, 2, Len(token) - 1))]
    BY <1>3 DEF ListStep
  <2>2. PICK inner : inner = SubSeq(token, 2, Len(token) - 1)
    OBVIOUS
  <2>3. inner \in Text
    <3>1. Len(token) \in Nat /\ Len(token) - 1 \in Int
      BY TextPlaces
    <3>2. \A i \in 2 .. Len(token) - 1 : token[i] \in Chunk
      BY TextPlaces
    <3>3. SubSeq(token, 2, Len(token) - 1) \in Seq(Chunk)
      BY <3>1, <3>2, SubSeqProperties
    <3>. QED BY <2>2, <3>3, TextIsChunks
  <2>4. PICK prev \in Pair : prev = s.prev
    BY <1>1, <1>3
  <2>5. [prev EXCEPT !.attribs = Append(@, inner)] \in Pair
    <3>1. prev.attribs \in Seq(Text)
      BY DEF Pair
    <3>2. Append(prev.attribs, inner) \in Seq(Text)
      BY <2>3, <3>1
    <3>. QED BY <3>2 DEF Pair
  <2>6. ListStep(s, token) = [s EXCEPT !.prev = [prev EXCEPT !.attribs = Append(@, inner)]]
    BY <2>1, <2>2, <2>4
  <2>. QED BY <2>5, <2>6 DEF ListStates
<1>4. CASE ~IsAttribute(token)
  <2>1. PICK p : p = [id |-> Number(token), attribs |-> <<>>]
    OBVIOUS
  <2>2. p \in Pair
    BY <2>1, NumberType DEF Pair
  <2>3. ListStep(s, token) = [s EXCEPT !.res = Append(@, p), !.prev = p]
    BY <1>4, <2>1 DEF ListStep
  <2>4. Append(s.res, p) \in Seq(Pair)
    BY <1>1, <2>2
  <2>. QED BY <2>2, <2>3, <2>4 DEF ListStates
<1>. QED BY <1>2, <1>3, <1>4

\* A list of neighbours is pairs of a number, or none, and texts.
LEMMA ListType ==
  ASSUME NEW inp \in Text
  PROVE  parse_fn_list(inp) \in ListStates
<1> DEFINE tokens == Split(inp)
           N == Len(tokens)
           T == ListStates
           base == [res |-> <<>>, prev |-> None, threw |-> FALSE]
           step == [p \in T \X (1 .. N) |-> ListStep(p[1], tokens[p[2]])]
           Next0(f, n) == IF n = 0 THEN base ELSE ListStep(f[n - 1], tokens[n])
           s == CHOOSE f : f = [n \in 0 .. N |-> Next0(f, n)]
<1>1. N \in Nat /\ \A n \in 1 .. N : tokens[n] \in Text
  BY SplitType
<1>2. base \in T
  BY DEF ListStates
<1>9. parse_fn_list(inp) = s[N]
  BY DEF parse_fn_list
<1> HIDE DEF tokens
<1>3. step \in [T \X (1 .. N) -> T]
  BY <1>1, ListStepType
<1>4. HasIterates(N, T, base, step)
  <2> HIDE DEF T, step, N, base
  <2>. QED BY <1>1, <1>2, <1>3, Recursion
<1>5. PICK f \in [0 .. N -> T] : Iterates(f, N, base, step)
  BY <1>4 DEF HasIterates
<1>6. f = [n \in 0 .. N |-> Next0(f, n)]
  <2>1. ASSUME NEW n \in 0 .. N PROVE f[n] = Next0(f, n)
    <3>1. CASE n = 0
      BY <1>5, <3>1 DEF Iterates
    <3>2. CASE n # 0
      <4>1. n \in 1 .. N /\ n - 1 \in 0 .. N /\ f[n - 1] \in T
        BY <1>1, <3>2
      <4>2. f[n] = step[<<f[n - 1], n>>]
        BY <1>5, <4>1 DEF Iterates
      <4>3. step[<<f[n - 1], n>>] = ListStep(f[n - 1], tokens[n])
        <5> HIDE DEF T
        <5>. QED BY <4>1
      <4>. QED BY <3>2, <4>2, <4>3
    <3>. QED BY <3>1, <3>2
  <2>. QED BY <1>5, <2>1
<1>7. s = [n \in 0 .. N |-> Next0(s, n)]
  BY <1>6
<1> HIDE DEF s
<1>8. s[N] \in T
  <2> DEFINE S == {n \in 0 .. N : s[n] \in T}
  <2>1. 0 \in S
    BY <1>1, <1>2, <1>7
  <2>2. ASSUME NEW n \in 0 .. N - 1, n \in S PROVE n + 1 \in S
    <3>1. n + 1 \in 1 .. N /\ n + 1 \in 0 .. N /\ n + 1 # 0 /\ (n + 1) - 1 = n
      BY <1>1
    <3>2. s[n + 1] = ListStep(s[n], tokens[n + 1])
      BY <1>7, <3>1
    <3>3. s[n] \in T /\ tokens[n + 1] \in Text
      BY <1>1, <2>2, <3>1
    <3>4. s[n + 1] \in T
      BY <3>2, <3>3, ListStepType
    <3>. QED BY <3>1, <3>4
  <2>3. 0 .. N \subseteq S
    <3> HIDE DEF S
    <3>. QED BY <1>1, <2>1, <2>2, Induction
  <2>. QED BY <1>1, <2>3
<1>. QED BY <1>8, <1>9

-----------------------------------------------------------------------------
(* The invariant.                                                          *)

HasElements(s) == \E S : s \in Seq(S)

\* The reader holds lines, and entries of texts.
ReaderInv ==
  /\ file \in DOMAIN Dumps
  /\ pc \in {"open", "preamble", "table", "parse", "nodes", "edges", "returned", "threw"}
  /\ in_entry \in BOOLEAN /\ is_function \in BOOLEAN
  /\ rest \in Seq(Line) /\ cur_raw_entry \in Seq(Line)
  /\ raw_entries \in Seq(Seq(Line))
  /\ HasElements(table_entries)
  /\ \A k \in DOMAIN table_entries : IsEntry(table_entries[k])

\* While there are nodes to make, the entries behind are nodes; then all are.
PlaceInv ==
  /\ at \in 1 .. Len(table_entries) + 1
  /\ pc \in {"open", "preamble", "table", "parse"} => at = 1
  /\ pc = "nodes" => \A k \in 1 .. at - 1 : table_entries[k].id \in DOMAIN m_nodes
  /\ pc \in {"edges", "returned"} =>
       \A k \in DOMAIN table_entries : table_entries[k].id \in DOMAIN m_nodes

NodesInv ==
  /\ \A id \in DOMAIN m_nodes : id \in Nat /\ m_nodes[id] \in NodeType
  /\ m_throw_callers \in Seq(DOMAIN m_nodes)

\* A client has graphs only of what was returned; each has all nodes or none.
GraphsInv ==
  /\ DOMAIN graphs \subseteq Objects
  /\ pc # "returned" => DOMAIN graphs = {}
  /\ \A g \in DOMAIN graphs : graphs[g] \in {{}, DOMAIN m_nodes}

IInv == ReaderInv /\ PlaceInv /\ NodesInv /\ EdgesStayInside /\ GraphsInv

LEMMA EmptyTable ==
  /\ \A S : <<>> \in Seq(S)
  /\ Len(<<>>) = 0 /\ DOMAIN <<>> = {}
OBVIOUS

LEMMA InitInv == Init => IInv
<1> SUFFICES ASSUME Init PROVE IInv
  OBVIOUS
<1>1. ReaderInv
  BY EmptyTable DEF Init, DumpInit, ReaderInv, HasElements
<1>2. PlaceInv
  BY EmptyTable DEF Init, DumpInit, PlaceInv
<1>3. NodesInv
  BY EmptyTable DEF Init, NodesInv
<1>4. EdgesStayInside
  BY EmptyTable DEF Init, EdgesStayInside
<1>5. GraphsInv
  BY EmptyTable DEF Init, GraphsInv
<1>. QED BY <1>1, <1>2, <1>3, <1>4, <1>5 DEF IInv

\* A table is a sequence.
LEMMA TableIsASequence ==
  ASSUME HasElements(table_entries)
  PROVE  Len(table_entries) \in Nat /\ DOMAIN table_entries = 1 .. Len(table_entries)
BY DEF HasElements

\* What becomes of a table to which an entry, or none, is added.
LEMMA TableGrows ==
  ASSUME NEW table, HasElements(table), NEW more, HasElements(more), 
         \A k \in DOMAIN table : IsEntry(table[k]),
         \A k \in DOMAIN more : IsEntry(more[k])
  PROVE  /\ HasElements(table \o more)
         /\ Len(table \o more) >= Len(table)
         /\ \A k \in DOMAIN (table \o more) : IsEntry((table \o more)[k])
<1>1. PICK S : table \in Seq(S)
  BY DEF HasElements
<1>2. PICK T : more \in Seq(T)
  BY DEF HasElements
<1>3. table \in Seq(S \cup T) /\ more \in Seq(S \cup T)
  BY <1>1, <1>2, SeqMonotonic
<1>4. /\ table \o more \in Seq(S \cup T)
      /\ Len(table \o more) = Len(table) + Len(more)
      /\ \A i \in 1 .. Len(table) + Len(more) :
           (table \o more)[i] = IF i <= Len(table) THEN table[i] ELSE more[i - Len(table)]
  BY <1>3, ConcatProperties
<1>5. Len(table) \in Nat /\ Len(more) \in Nat /\ DOMAIN table = 1 .. Len(table)
      /\ DOMAIN more = 1 .. Len(more)
  BY <1>3
<1>6. DOMAIN (table \o more) = 1 .. Len(table) + Len(more)
  BY <1>4
<1>7. ASSUME NEW k \in 1 .. Len(table) + Len(more) PROVE IsEntry((table \o more)[k])
  <2>1. CASE k <= Len(table)
    BY <1>4, <1>5, <2>1
  <2>2. CASE k > Len(table)
    <3>1. k - Len(table) \in DOMAIN more
      BY <1>5, <2>2
    <3>2. (table \o more)[k] = more[k - Len(table)]
      BY <1>4, <1>5, <2>2
    <3>. QED BY <3>1, <3>2
  <2>. QED BY <1>5, <2>1, <2>2
<1>8. HasElements(table \o more)
  BY <1>4 DEF HasElements
<1>9. Len(table \o more) >= Len(table)
  BY <1>4, <1>5
<1>. QED BY <1>6, <1>7, <1>8, <1>9

LEMMA ParsedType ==
  ASSUME NEW raw_entry \in Seq(Line)
  PROVE  /\ HasElements(Parsed(raw_entry))
         /\ \A k \in DOMAIN Parsed(raw_entry) : IsEntry(Parsed(raw_entry)[k])
<1>1. CASE Parsed(raw_entry) = <<>>
  BY <1>1, EmptyTable DEF HasElements
<1>2. CASE Parsed(raw_entry) # <<>>
  <2>1. Lines(raw_entry) # {} /\ Parsed(raw_entry) = <<Entry(raw_entry)>>
    BY <1>2 DEF Parsed
  <2>2. PICK e : e = Entry(raw_entry)
    OBVIOUS
  <2>3. IsEntry(e)
    BY <2>1, <2>2, EntryType
  <2>4. <<e>> \in Seq({e}) /\ DOMAIN <<e>> = {1} /\ <<e>>[1] = e
    OBVIOUS
  <2>5. HasElements(<<e>>)
    BY <2>4 DEF HasElements
  <2>. QED BY <2>1, <2>2, <2>3, <2>4, <2>5
<1>. QED BY <1>1, <1>2

\* The edges are said of the nodes and the throwers alone.
LEMMA EdgesKept ==
  ASSUME EdgesStayInside, m_nodes' = m_nodes, m_throw_callers' = m_throw_callers
  PROVE  EdgesStayInside'
BY DEF EdgesStayInside

\* The reader's steps leave the graph alone, which is not begun.
LEMMA DumpStep ==
  ASSUME IInv, DumpNext, UNCHANGED <<at, m_nodes, m_throw_callers, graphs>>
  PROVE  IInv'
<1>1. pc \in {"open", "preamble", "table", "parse"}
      /\ pc' \in {"open", "preamble", "table", "parse", "threw"}
      /\ file' = file
  BY DEF DumpNext, CannotOpenFile, OpenFile, SkipPreamble, SkipEmptyLine, NotAFunction,
         ReadLine, EndOfFile, ParseEntry, readVars
<1>2. ReaderInv' /\ Len(table_entries)' >= Len(table_entries)
  <2> USE DEF IInv
  <2>1. CASE CannotOpenFile
    BY <2>1, TableIsASequence DEF CannotOpenFile, readVars, ReaderInv
  <2>2. CASE OpenFile
    BY <2>2, TableIsASequence, DumpsAssumption DEF OpenFile, ReaderInv
  <2>3. CASE SkipPreamble
    BY <2>3, TableIsASequence DEF SkipPreamble, ReaderInv
  <2>4. CASE SkipEmptyLine
    BY <2>4, TableIsASequence DEF SkipEmptyLine, ReaderInv
  <2>5. CASE NotAFunction
    <3>1. in_entry' \in BOOLEAN /\ is_function' \in BOOLEAN
      BY <2>5 DEF NotAFunction
    <3>2. rest' \in Seq(Line)
      BY <2>5 DEF NotAFunction, ReaderInv
    <3>3. UNCHANGED <<file, pc, cur_raw_entry, raw_entries, table_entries>>
      BY <2>5 DEF NotAFunction
    <3>. QED BY <3>1, <3>2, <3>3, TableIsASequence DEF ReaderInv
  <2>6. CASE ReadLine
    <3> DEFINE line   == Head(rest)
               inside == in_entry /\ ~line.margin
    <3>1. line \in Line /\ Tail(rest) \in Seq(Line)
      BY <2>6 DEF ReadLine, ReaderInv
    <3>2. line.margin \in BOOLEAN
      BY <3>1 DEF Line
    <3> HIDE DEF line
    <3>3. is_function' \in BOOLEAN /\ in_entry' \in BOOLEAN
      BY <2>6 DEF ReadLine, line
    <3>4. Kept \in Seq(Seq(Line))
      BY DEF Kept, ReaderInv
    <3>5. raw_entries' \in Seq(Seq(Line))
      BY <2>6, <3>4 DEF ReadLine, ReaderInv
    <3>6. cur_raw_entry' \in Seq(Line)
      <4>1. cur_raw_entry' = Append(IF inside THEN cur_raw_entry ELSE <<>>, line)
        BY <2>6 DEF ReadLine, line
      <4>. QED BY <3>1, <4>1 DEF ReaderInv
    <3>7. rest' = Tail(rest) /\ UNCHANGED <<file, pc, table_entries>>
      BY <2>6 DEF ReadLine
    <3>. QED BY <3>1, <3>3, <3>5, <3>6, <3>7, TableIsASequence DEF ReaderInv
  <2>7. CASE EndOfFile
    BY <2>7, TableIsASequence DEF EndOfFile, ReaderInv
  <2>8. CASE ParseEntry
    <3>1. PICK raw_entry \in Seq(Line) : raw_entry = Head(raw_entries)
      BY <2>8 DEF ParseEntry, ReaderInv
    <3>2. PICK more : more = Parsed(raw_entry)
      OBVIOUS
    <3>3. HasElements(more) /\ \A k \in DOMAIN more : IsEntry(more[k])
      BY <3>2, ParsedType
    <3>4. table_entries' = table_entries \o more /\ raw_entries' = Tail(raw_entries)
          /\ UNCHANGED <<file, rest, pc, in_entry, is_function, cur_raw_entry>>
      BY <2>8, <3>1, <3>2 DEF ParseEntry
    <3>5. /\ HasElements(table_entries \o more)
          /\ Len(table_entries \o more) >= Len(table_entries)
          /\ \A k \in DOMAIN (table_entries \o more) : IsEntry((table_entries \o more)[k])
      BY <3>3, TableGrows DEF ReaderInv
    <3>6. Tail(raw_entries) \in Seq(Seq(Line))
      BY <2>8 DEF ParseEntry, ReaderInv
    <3>7. HasElements(table_entries)'
      BY <3>4, <3>5 DEF HasElements
    <3>. QED BY <1>1, <3>4, <3>5, <3>6, <3>7 DEF ReaderInv
  <2>. QED BY <2>1, <2>2, <2>3, <2>4, <2>5, <2>6, <2>7, <2>8 DEF DumpNext
<1>3. PlaceInv'
  <2>1. Len(table_entries) \in Nat /\ Len(table_entries)' \in Nat
    <3>1. HasElements(table_entries) /\ HasElements(table_entries)'
      BY <1>2 DEF IInv, ReaderInv
    <3>2. PICK table : table = table_entries' /\ HasElements(table)
      BY <3>1 DEF HasElements
    <3>. QED BY <3>1, <3>2 DEF HasElements
  <2>. QED BY <1>1, <1>2, <2>1 DEF IInv, PlaceInv
<1>4. NodesInv'
  BY DEF IInv, NodesInv
<1>5. EdgesStayInside'
  <2>1. EdgesStayInside
    BY DEF IInv
  <2>. QED BY <2>1, EdgesKept
<1>6. GraphsInv'
  BY <1>1 DEF IInv, GraphsInv
<1>. QED BY <1>2, <1>3, <1>4, <1>5, <1>6 DEF IInv

-----------------------------------------------------------------------------
(* The nodes.                                                              *)

\* A field that is there, or missing, is a text.
LEMMA FieldType ==
  ASSUME NEW entry, IsEntry(entry), NEW key
  PROVE  Field(entry, key) \in Text
BY TextIsChunks DEF Field, IsEntry

\* A new node has no neighbours.
LEMMA NodeIsNew ==
  ASSUME NEW entry, IsEntry(entry)
  PROVE  /\ Node(entry) \in NodeType
         /\ Node(entry).callers = <<>> /\ Node(entry).callees = <<>>
<1>1. PICK v \in Text, a \in Text, f \in Text :
        /\ v = Field(entry, "visablity") /\ a = Field(entry, "avaliablity")
        /\ f = Field(entry, "function_flags")
  BY FieldType
<1>2. Node(entry) = [fn_name |-> entry.fn_name, demangled_name |-> entry.demangled_name,
                     visibility |-> v, availability |-> a, flags |-> f,
                     callers |-> <<>>, callees |-> <<>>]
  BY <1>1 DEF Node
<1>3. <<>> \in Pairs
  BY DEF Pairs
<1>4. entry.fn_name \in FnName /\ entry.demangled_name \in Text
  BY DEF IsEntry
<1>. QED BY <1>2, <1>3, <1>4 DEF NodeType

\* A graph that throws is gone.
LEMMA ThrowInv ==
  ASSUME IInv, Throw, pc \in {"nodes", "edges"},
         UNCHANGED <<readVars, table_entries, graphs>>
  PROVE  IInv'
<1>1. ReaderInv'
  BY DEF IInv, ReaderInv, HasElements, Throw, readVars
<1>2. PlaceInv'
  BY TableIsASequence DEF IInv, ReaderInv, PlaceInv, Throw
<1>3. m_nodes' = <<>> /\ m_throw_callers' = <<>> /\ DOMAIN m_nodes' = {}
      /\ DOMAIN m_throw_callers' = {}
  BY EmptyTable DEF Throw
<1>4. NodesInv'
  BY <1>3, EmptyTable DEF NodesInv
<1>5. EdgesStayInside'
  BY <1>3 DEF EdgesStayInside
<1>6. GraphsInv'
  BY <1>3 DEF IInv, GraphsInv, Throw
<1>. QED BY <1>1, <1>2, <1>4, <1>5, <1>6 DEF IInv

\* What the graph knows of its throwers and of its edges is kept when it gets
\* a node without any.
LEMMA AddNodeInv ==
  ASSUME IInv, AddNode
  PROVE  IInv'
<1> DEFINE entry == table_entries[at]
<1>1. CASE entry.id = None
  BY <1>1, ThrowInv DEF AddNode
<1>2. CASE entry.id # None
  <2> DEFINE D == DOMAIN m_nodes
             id == entry.id
  <2>1. pc = "nodes" /\ at \in 1 .. Len(table_entries) /\ Len(table_entries) \in Nat
        /\ DOMAIN table_entries = 1 .. Len(table_entries)
    BY TableIsASequence DEF AddNode, IInv, ReaderInv, PlaceInv
  <2>2. IsEntry(entry) /\ id \in Nat
    BY <1>2, <2>1 DEF IInv, ReaderInv, IsEntry
  <2>3. m_nodes' = Emplaced(id, entry) /\ at' = at + 1
        /\ UNCHANGED <<pc, m_throw_callers, readVars, table_entries, graphs>>
    BY <1>2 DEF AddNode
  <2> HIDE DEF entry
  <2>4. PICK new : new = Node(entry)
    OBVIOUS
  <2>5. new \in NodeType /\ new.callers = <<>> /\ new.callees = <<>>
    BY <2>2, <2>4, NodeIsNew
  <2>6. m_nodes' = [n \in D \cup {id} |-> IF n \in D THEN m_nodes[n] ELSE new]
    BY <2>3, <2>4 DEF Emplaced
  <2>7. DOMAIN m_nodes' = D \cup {id}
    BY <2>6
  <2>8. \A n \in D : m_nodes'[n] = m_nodes[n]
    BY <2>6
  <2>9. id \notin D => m_nodes'[id] = new
    BY <2>6
  <2>10. NodesInv
    BY DEF IInv
  <2> HIDE DEF D, id
  <2>11. ReaderInv'
    BY <2>3 DEF IInv, ReaderInv, HasElements, readVars
  <2>12. PlaceInv'
    <3>1. at' \in 1 .. Len(table_entries) + 1 /\ table_entries' = table_entries /\ pc' = "nodes"
      BY <2>1, <2>3
    <3>2. ASSUME NEW k \in 1 .. at' - 1 PROVE table_entries[k].id \in DOMAIN m_nodes'
      <4>1. CASE k = at
        BY <2>7, <4>1 DEF id, entry
      <4>2. CASE k # at
        <5>1. k \in 1 .. at - 1
          BY <2>1, <2>3, <4>2
        <5>. QED BY <2>1, <2>7, <5>1 DEF IInv, PlaceInv, D
      <4>. QED BY <4>1, <4>2
    <3>. QED BY <3>1, <3>2 DEF PlaceInv
  <2>13. NodesInv'
    <3>1. \A n \in DOMAIN m_nodes' : n \in Nat /\ m_nodes'[n] \in NodeType
      BY <2>2, <2>5, <2>7, <2>8, <2>9, <2>10 DEF NodesInv, D
    <3>2. m_throw_callers' \in Seq(DOMAIN m_nodes')
      <4>1. m_throw_callers \in Seq(D) /\ D \subseteq D \cup {id}
        BY <2>10 DEF NodesInv, D
      <4>2. m_throw_callers \in Seq(D \cup {id})
        BY <4>1, SeqMonotonic
      <4>. QED BY <2>3, <2>7, <4>2
    <3>. QED BY <3>1, <3>2 DEF NodesInv
  <2>14. EdgesStayInside'
    <3> SUFFICES ASSUME NEW x \in DOMAIN m_nodes'
                 PROVE  LET n == m_nodes'[x]
                            throws(k) == m_nodes'[n.callees[k].id].fn_name = "__cxa_throw"
                        IN  /\ \A k \in DOMAIN n.callers : n.callers[k].id \in DOMAIN m_nodes'
                            /\ \A k \in DOMAIN n.callees : n.callees[k].id \in DOMAIN m_nodes'
                            /\ Cardinality({k \in DOMAIN m_throw_callers' :
                                              m_throw_callers'[k] = x}) =
                                 Cardinality({k \in DOMAIN n.callees : throws(k)})
      BY DEF EdgesStayInside
    <3>1. CASE x \in D
      <4> DEFINE n == m_nodes[x]
      <4>1. m_nodes'[x] = n
        BY <2>8, <3>1
      <4>2. /\ \A k \in DOMAIN n.callers : n.callers[k].id \in D
            /\ \A k \in DOMAIN n.callees : n.callees[k].id \in D
            /\ Cardinality({k \in DOMAIN m_throw_callers : m_throw_callers[k] = x}) =
                 Cardinality({k \in DOMAIN n.callees :
                                m_nodes[n.callees[k].id].fn_name = "__cxa_throw"})
        BY <3>1 DEF IInv, EdgesStayInside, D
      <4> HIDE DEF n
      <4>3. {k \in DOMAIN n.callees : m_nodes[n.callees[k].id].fn_name = "__cxa_throw"} =
            {k \in DOMAIN n.callees : m_nodes'[n.callees[k].id].fn_name = "__cxa_throw"}
        BY <2>8, <4>2
      <4>. QED BY <2>3, <2>7, <4>1, <4>2, <4>3
    <3>2. CASE x \notin D
      <4>1. x = id /\ m_nodes'[x] = new
        BY <2>7, <2>9, <3>2
      <4>2. DOMAIN new.callers = {} /\ DOMAIN new.callees = {}
        BY <2>5, EmptyTable
      <4>3. \A k \in DOMAIN m_throw_callers : m_throw_callers[k] \in D
        BY <2>10 DEF NodesInv, D
      <4>4. {k \in DOMAIN m_throw_callers : m_throw_callers[k] = x} = {}
        BY <3>2, <4>3
      <4>5. {k \in DOMAIN new.callees : m_nodes'[new.callees[k].id].fn_name = "__cxa_throw"} = {}
        BY <4>2
      <4>. QED BY <2>3, <4>1, <4>2, <4>4, <4>5
    <3>. QED BY <3>1, <3>2
  <2>15. GraphsInv'
    BY <2>1, <2>3 DEF IInv, GraphsInv
  <2>. QED BY <2>11, <2>12, <2>13, <2>14, <2>15 DEF IInv
<1>. QED BY <1>1, <1>2

-----------------------------------------------------------------------------
(* The edges.                                                              *)

\* Places of the second part of a sequence whose first part has n.
Shifted(n, Q) == {n + k : k \in Q}

\* Places in two parts of a sequence are counted one part after the other.
LEMMA CountInParts ==
  ASSUME NEW n \in Nat, NEW P \in SUBSET (1 .. n), NEW Q \in SUBSET (Nat \ {0}),
         IsFiniteSet(P), IsFiniteSet(Q)
  PROVE  Cardinality(P \cup Shifted(n, Q)) = Cardinality(P) + Cardinality(Q)
<1> DEFINE R == {n + k : k \in Q}
<1>1. IsFiniteSet(P) /\ IsFiniteSet(Q)
  OBVIOUS
<1>2. ExistsBijection(Q, R)
  <2> DEFINE f == [k \in Q |-> n + k]
  <2>1. f \in [Q -> R]
    OBVIOUS
  <2>2. ASSUME NEW j \in Q, NEW k \in Q, f[j] = f[k] PROVE j = k
    BY <2>2
  <2>3. \A r \in R : \E k \in Q : f[k] = r
    OBVIOUS
  <2>4. f \in Bijection(Q, R)
    BY <2>1, <2>2, <2>3 DEF Bijection, Injection, Surjection, IsInjective
  <2>. QED BY <2>4 DEF ExistsBijection
<1>3. IsFiniteSet(R) /\ Cardinality(R) = Cardinality(Q)
  <2> HIDE DEF R
  <2>. QED BY <1>1, <1>2, FS_Bijection
<1>4. P \cap R = {}
  <2>1. \A r \in R : ~(r <= n)
    OBVIOUS
  <2>2. \A p \in P : p <= n
    OBVIOUS
  <2> HIDE DEF R
  <2>. QED BY <2>1, <2>2
<1>5. Cardinality(P \cup R) = Cardinality(P) + Cardinality(R) - Cardinality(P \cap R)
  <2> HIDE DEF R
  <2>. QED BY <1>1, <1>3, FS_Union
<1>6. Cardinality(P \cap R) = 0
  BY <1>4, FS_EmptySet
<1>7. Cardinality(P) \in Nat /\ Cardinality(Q) \in Nat
  BY <1>1, FS_CardinalityType
<1> HIDE DEF R
<1>8. Cardinality(P \cup R) = Cardinality(P) + Cardinality(Q)
  BY <1>3, <1>5, <1>6, <1>7
<1>. QED BY <1>8 DEF R, Shifted

\* The places of a sequence whose element is in a set.
Marks(s, Marked) == {k \in DOMAIN s : s[k] \in Marked}

\* Such places of a concatenation are those of its parts.
LEMMA CountInConcat ==
  ASSUME NEW S, NEW s \in Seq(S), NEW t \in Seq(S), NEW Marked
  PROVE  Cardinality(Marks(s \o t, Marked)) =
           Cardinality(Marks(s, Marked)) + Cardinality(Marks(t, Marked))
<1> DEFINE n == Len(s)
           m == Len(t)
           P == {k \in DOMAIN s : s[k] \in Marked}
           Q == {k \in DOMAIN t : t[k] \in Marked}
           W == {k \in DOMAIN (s \o t) : (s \o t)[k] \in Marked}
<1>1. /\ n \in Nat /\ m \in Nat /\ DOMAIN s = 1 .. n /\ DOMAIN t = 1 .. m
      /\ DOMAIN (s \o t) = 1 .. n + m
      /\ \A k \in 1 .. n : (s \o t)[k] = s[k]
      /\ \A k \in 1 .. m : (s \o t)[n + k] = t[k]
  BY ConcatProperties, LenProperties
<1>2. ASSUME NEW k \in 1 .. n + m PROVE k \in W <=> k \in P \cup Shifted(n, Q)
  <2>1. CASE k <= n
    <3>1. k \in 1 .. n /\ \A q \in Q : k # n + q
      BY <1>1, <2>1
    <3>. QED BY <1>1, <3>1 DEF Shifted
  <2>2. CASE k > n
    <3>1. PICK j \in 1 .. m : k = n + j
      <4>1. k - n \in 1 .. m /\ k = n + (k - n)
        BY <1>1, <2>2
      <4>. QED BY <4>1
    <3>2. k \notin P
      BY <1>1, <2>2
    <3>3. k \in W <=> t[j] \in Marked
      BY <1>1, <3>1
    <3>4. \A q \in Q : k = n + q => q = j
      BY <1>1, <3>1
    <3>. QED BY <1>1, <3>1, <3>2, <3>3, <3>4 DEF Shifted
  <2>. QED BY <1>1, <2>1, <2>2
<1>3. W \subseteq 1 .. n + m /\ P \in SUBSET (1 .. n) /\ Q \in SUBSET (1 .. m)
  BY <1>1
<1>4. P \cup Shifted(n, Q) \subseteq 1 .. n + m
  BY <1>1, <1>3 DEF Shifted
<1>5. W = P \cup Shifted(n, Q)
  <2> HIDE DEF W, P, Q
  <2>. QED BY <1>2, <1>3, <1>4
<1> HIDE DEF W, P, Q, n, m
<1>6. Cardinality(W) = Cardinality(P) + Cardinality(Q)
  <2>1. IsFiniteSet(1 .. n) /\ IsFiniteSet(1 .. m)
    BY <1>1, FS_Interval
  <2>2. IsFiniteSet(P) /\ IsFiniteSet(Q)
    BY <1>3, <2>1, FS_Subset
  <2>3. P \in SUBSET (1 .. n) /\ Q \in SUBSET (Nat \ {0}) /\ n \in Nat
    BY <1>1, <1>3
  <2>4. Cardinality(P \cup Shifted(n, Q)) = Cardinality(P) + Cardinality(Q)
    BY <2>2, <2>3, CountInParts
  <2>. QED BY <1>5, <2>4
<1>. QED BY <1>6 DEF W, P, Q, Marks

\* They are finitely many.
LEMMA MarksAreCounted ==
  ASSUME NEW S, NEW s \in Seq(S), NEW Marked
  PROVE  Cardinality(Marks(s, Marked)) \in Nat
<1>1. Len(s) \in Nat /\ Marks(s, Marked) \in SUBSET (1 .. Len(s))
  BY DEF Marks
<1>2. IsFiniteSet(1 .. Len(s))
  BY <1>1, FS_Interval
<1>3. IsFiniteSet(Marks(s, Marked))
  BY <1>1, <1>2, FS_Subset
<1>. QED BY <1>3, FS_CardinalityType

\* An element of a list is a pair, and one of a concatenation is of a part.
LEMMA PairsElements ==
  ASSUME NEW s \in Pairs, NEW k \in DOMAIN s
  PROVE  s[k] \in [id : Nat, attribs : Seq(Text)]
BY ElementOfSeq, LenProperties DEF Pairs

LEMMA PairsConcat ==
  ASSUME NEW s \in Pairs, NEW t \in Pairs, NEW D,
         \A k \in DOMAIN s : s[k].id \in D, \A k \in DOMAIN t : t[k].id \in D
  PROVE  \A k \in DOMAIN (s \o t) : (s \o t)[k].id \in D
<1>1. /\ DOMAIN s = 1 .. Len(s) /\ DOMAIN t = 1 .. Len(t)
      /\ Len(s) \in Nat /\ Len(t) \in Nat
      /\ DOMAIN (s \o t) = 1 .. Len(s) + Len(t)
      /\ \A k \in 1 .. Len(s) + Len(t) :
           (s \o t)[k] = IF k <= Len(s) THEN s[k] ELSE t[k - Len(s)]
  BY ConcatProperties, LenProperties DEF Pairs
<1>2. ASSUME NEW k \in 1 .. Len(s) + Len(t) PROVE (s \o t)[k].id \in D
  <2>1. CASE k <= Len(s)
    BY <1>1, <2>1
  <2>2. CASE k > Len(s)
    <3>1. k - Len(s) \in DOMAIN t /\ (s \o t)[k] = t[k - Len(s)]
      BY <1>1, <2>2
    <3>. QED BY <3>1
  <2>. QED BY <1>1, <2>1, <2>2
<1>. QED BY <1>1, <1>2

\* A sequence is one of whatever set its elements are in.
LEMMA SeqOfElements ==
  ASSUME NEW S, NEW s \in Seq(S), NEW T, \A k \in 1 .. Len(s) : s[k] \in T
  PROVE  s \in Seq(T)
<1>1. Len(s) \in Nat /\ s \in [1 .. Len(s) -> S]
  BY LenProperties
<1>2. s \in [1 .. Len(s) -> T]
  BY <1>1
<1>. QED BY <1>1, <1>2, SeqDef

\* The neighbours of a list that does not fail are nodes.
LEMMA ListIsPairs ==
  ASSUME NEW inp \in Text, ~Fails(parse_fn_list(inp)), NodesInv
  PROVE  LET res == parse_fn_list(inp).res
         IN  /\ res \in Pairs
             /\ \A k \in DOMAIN res : res[k].id \in DOMAIN m_nodes
<1>1. PICK list \in ListStates : list = parse_fn_list(inp)
  BY ListType
<1>2. PICK res \in Seq(Pair) : res = list.res
  BY DEF ListStates
<1>3. \A k \in DOMAIN res : res[k].id \in DOMAIN m_nodes
  BY <1>1, <1>2 DEF Fails
<1>4. ASSUME NEW k \in 1 .. Len(res) PROVE res[k] \in [id : Nat, attribs : Seq(Text)]
  <2>1. res[k] \in Pair /\ res[k].id \in Nat
    BY <1>3 DEF NodesInv
  <2>. QED BY <2>1 DEF Pair
<1>5. res \in Pairs
  BY <1>4, SeqOfElements DEF Pairs
<1>. QED BY <1>1, <1>2, <1>3, <1>5

\* The calls of __cxa_throw among the neighbours of a list.
Throwing(nodes) == {p \in [id : Nat, attribs : Seq(Text)] : nodes[p.id].fn_name = "__cxa_throw"}

\* The neighbours that one entry adds to its node, and the throwers it adds, keep
\* the edges in the graph and the throwers counted.
LEMMA AddEdgesInv ==
  ASSUME IInv, AddEdges
  PROVE  IInv'
<1> DEFINE entry == table_entries[at]
           caller_list == parse_fn_list(Field(entry, "called_by"))
           callee_list == parse_fn_list(Field(entry, "calls"))
           D == DOMAIN m_nodes
           id == entry.id
<1>1. pc = "edges" /\ at \in 1 .. Len(table_entries) /\ Len(table_entries) \in Nat
      /\ DOMAIN table_entries = 1 .. Len(table_entries)
  BY TableIsASequence DEF AddEdges, IInv, ReaderInv, PlaceInv
<1>2. IsEntry(entry) /\ id \in D
  BY <1>1 DEF IInv, ReaderInv, PlaceInv
<1>3. CASE id > IntMax \/ Fails(caller_list) \/ Fails(callee_list)
  <2>1. Throw /\ UNCHANGED <<readVars, table_entries, graphs>>
    BY <1>3 DEF AddEdges
  <2>. QED BY <1>1, <2>1, ThrowInv
<1>4. CASE ~(id > IntMax) /\ ~Fails(caller_list) /\ ~Fails(callee_list)
  <2>1. /\ m_nodes' = [m_nodes EXCEPT ![id].callers = @ \o caller_list.res,
                                     ![id].callees = @ \o callee_list.res]
        /\ m_throw_callers' = m_throw_callers \o [k \in 1 .. ThrowCalls(callee_list) |-> id]
        /\ at' = at + 1
        /\ UNCHANGED <<pc, readVars, table_entries, graphs>>
    BY <1>4 DEF AddEdges
  <2>2. NodesInv
    BY DEF IInv
  <2>3. PICK ers \in Pairs : ers = caller_list.res /\ \A k \in DOMAIN ers : ers[k].id \in D
    <3>1. Field(entry, "called_by") \in Text
      BY <1>2, FieldType
    <3>. QED BY <1>4, <2>2, <3>1, ListIsPairs
  <2>4. PICK ees \in Pairs : ees = callee_list.res /\ \A k \in DOMAIN ees : ees[k].id \in D
    <3>1. Field(entry, "calls") \in Text
      BY <1>2, FieldType
    <3>. QED BY <1>4, <2>2, <3>1, ListIsPairs
  <2>5. PICK c : c = Cardinality({k \in DOMAIN ees : m_nodes[ees[k].id].fn_name = "__cxa_throw"})
    OBVIOUS
  <2>6. c = ThrowCalls(callee_list)
    BY <2>4, <2>5 DEF ThrowCalls
  <2> HIDE DEF caller_list, callee_list
  <2>7. c \in Nat
    <3> DEFINE K == {k \in DOMAIN ees : m_nodes[ees[k].id].fn_name = "__cxa_throw"}
    <3>1. Len(ees) \in Nat /\ K \in SUBSET (1 .. Len(ees))
      BY DEF Pairs
    <3>2. c = Cardinality(K)
      BY <2>5
    <3> HIDE DEF K
    <3>3. IsFiniteSet(1 .. Len(ees))
      BY <3>1, FS_Interval
    <3>4. IsFiniteSet(K)
      BY <3>1, <3>3, FS_Subset
    <3>. QED BY <3>2, <3>4, FS_CardinalityType
  <2> HIDE DEF entry, D, id
  <2>8. PICK old \in NodeType : old = m_nodes[id]
    BY <1>2, <2>2 DEF NodesInv, D
  <2>9. old.callers \in Pairs /\ old.callees \in Pairs
    BY DEF NodeType
  <2>10. PICK new : new = [old EXCEPT !.callers = @ \o ers, !.callees = @ \o ees]
    OBVIOUS
  <2>11. /\ new \in NodeType /\ new.fn_name = old.fn_name
         /\ new.callers = old.callers \o ers /\ new.callees = old.callees \o ees
    <3>1. old.callers \o ers \in Pairs /\ old.callees \o ees \in Pairs
      BY <2>9 DEF Pairs
    <3>. QED BY <2>10, <3>1 DEF NodeType
  <2>12. m_nodes' = [m_nodes EXCEPT ![id] = new]
    BY <1>2, <2>1, <2>3, <2>4, <2>8, <2>10 DEF D
  <2>13. /\ DOMAIN m_nodes' = D /\ m_nodes'[id] = new
         /\ \A n \in D : n # id => m_nodes'[n] = m_nodes[n]
         /\ \A n \in D : m_nodes'[n].fn_name = m_nodes[n].fn_name
    BY <1>2, <2>8, <2>11, <2>12 DEF D
  <2>14. ReaderInv'
    BY <2>1 DEF IInv, ReaderInv, HasElements, readVars
  <2>15. PlaceInv'
    BY <1>1, <2>1, <2>13 DEF IInv, PlaceInv, D
  <2>16. PICK calls \in Seq(D) : calls = [k \in 1 .. c |-> id]
    <3>1. [k \in 1 .. c |-> id] \in Seq(D)
      BY <1>2, <2>7
    <3>. QED BY <3>1
  <2>17. DOMAIN calls = 1 .. c /\ \A k \in 1 .. c : calls[k] = id
    BY <2>16
  <2>18. m_throw_callers \in Seq(D) /\ m_throw_callers' = m_throw_callers \o calls
    BY <2>1, <2>2, <2>6, <2>16 DEF NodesInv, D
  <2>19. NodesInv'
    <3>1. m_throw_callers' \in Seq(DOMAIN m_nodes')
      BY <2>13, <2>18
    <3>2. \A n \in DOMAIN m_nodes' : n \in Nat /\ m_nodes'[n] \in NodeType
      BY <2>2, <2>11, <2>13 DEF NodesInv, D
    <3>. QED BY <3>1, <3>2 DEF NodesInv
  <2>20. ASSUME NEW x \in D
         PROVE  Cardinality(Marks(m_throw_callers', {x})) =
                  Cardinality(Marks(m_throw_callers, {x})) + Cardinality(Marks(calls, {x}))
    <3>1. PICK before \in Seq(D) : before = m_throw_callers
      BY <2>18
    <3>2. Cardinality(Marks(before \o calls, {x})) =
            Cardinality(Marks(before, {x})) + Cardinality(Marks(calls, {x}))
      BY CountInConcat
    <3>. QED BY <2>18, <3>1, <3>2
  <2>21. EdgesStayInside'
    <3> SUFFICES ASSUME NEW x \in D
                 PROVE  LET n == m_nodes'[x]
                            throws(k) == m_nodes'[n.callees[k].id].fn_name = "__cxa_throw"
                        IN  /\ \A k \in DOMAIN n.callers : n.callers[k].id \in D
                            /\ \A k \in DOMAIN n.callees : n.callees[k].id \in D
                            /\ Cardinality({k \in DOMAIN m_throw_callers' :
                                              m_throw_callers'[k] = x}) =
                                 Cardinality({k \in DOMAIN n.callees : throws(k)})
      BY <2>13 DEF EdgesStayInside
    <3>1. PICK n \in NodeType : n = m_nodes[x]
      BY <2>2 DEF NodesInv, D
    <3>2. /\ \A k \in DOMAIN n.callers : n.callers[k].id \in D
          /\ \A k \in DOMAIN n.callees : n.callees[k].id \in D
          /\ Cardinality({k \in DOMAIN m_throw_callers : m_throw_callers[k] = x}) =
               Cardinality({k \in DOMAIN n.callees :
                              m_nodes[n.callees[k].id].fn_name = "__cxa_throw"})
      BY <3>1 DEF IInv, EdgesStayInside, D
    <3>3. /\ {k \in DOMAIN m_throw_callers : m_throw_callers[k] = x} = Marks(m_throw_callers, {x})
          /\ {k \in DOMAIN m_throw_callers' : m_throw_callers'[k] = x} = Marks(m_throw_callers', {x})
      BY DEF Marks
    <3>4. CASE x # id
      <4>1. m_nodes'[x] = n
        BY <2>13, <3>1, <3>4
      <4>2. {k \in DOMAIN n.callees : m_nodes'[n.callees[k].id].fn_name = "__cxa_throw"} =
            {k \in DOMAIN n.callees : m_nodes[n.callees[k].id].fn_name = "__cxa_throw"}
        BY <2>13, <3>2
      <4>3. Marks(calls, {x}) = {}
        BY <2>17, <3>4 DEF Marks
      <4>4. Cardinality(Marks(calls, {x})) = 0
        BY <4>3, FS_EmptySet
      <4>5. Cardinality(Marks(m_throw_callers, {x})) \in Nat
        BY <2>18, MarksAreCounted
      <4>6. Cardinality(Marks(m_throw_callers', {x})) = Cardinality(Marks(m_throw_callers, {x}))
        BY <2>20, <4>4, <4>5
      <4>. QED BY <3>2, <3>3, <4>1, <4>2, <4>6
    <3>5. CASE x = id
      <4> DEFINE M == Throwing(m_nodes)
      <4>1. m_nodes'[x] = new /\ n = old
        BY <2>8, <2>13, <3>1, <3>5
      <4>2. \A k \in DOMAIN new.callers : new.callers[k].id \in D
        BY <2>3, <2>9, <2>11, <3>2, <4>1, PairsConcat
      <4>3. \A k \in DOMAIN new.callees : new.callees[k].id \in D
        BY <2>4, <2>9, <2>11, <3>2, <4>1, PairsConcat
      <4>4. ASSUME NEW s \in Pairs, \A k \in DOMAIN s : s[k].id \in D
            PROVE  /\ {k \in DOMAIN s : m_nodes[s[k].id].fn_name = "__cxa_throw"} = Marks(s, M)
                   /\ {k \in DOMAIN s : m_nodes'[s[k].id].fn_name = "__cxa_throw"} = Marks(s, M)
        <5>1. \A k \in DOMAIN s : s[k] \in [id : Nat, attribs : Seq(Text)]
          BY PairsElements
        <5>. QED BY <2>13, <4>4, <5>1 DEF Marks, Throwing
      <4>5. /\ {k \in DOMAIN old.callees : m_nodes[old.callees[k].id].fn_name = "__cxa_throw"}
                 = Marks(old.callees, M)
            /\ {k \in DOMAIN ees : m_nodes[ees[k].id].fn_name = "__cxa_throw"} = Marks(ees, M)
            /\ {k \in DOMAIN new.callees : m_nodes'[new.callees[k].id].fn_name = "__cxa_throw"}
                 = Marks(new.callees, M)
        <5>1. new.callees \in Pairs
          BY <2>11 DEF NodeType
        <5> HIDE DEF M
        <5>. QED BY <2>4, <2>9, <3>2, <4>1, <4>3, <4>4, <5>1
      <4> HIDE DEF M
      <4>6. Cardinality(Marks(new.callees, M)) =
              Cardinality(Marks(old.callees, M)) + Cardinality(Marks(ees, M))
        BY <2>9, <2>11, CountInConcat DEF Pairs
      <4>7. Marks(calls, {x}) = 1 .. c
        BY <2>17, <3>5 DEF Marks
      <4>8. Cardinality(Marks(calls, {x})) = c
        BY <2>7, <4>7, FS_Interval
      <4>9. c = Cardinality(Marks(ees, M))
        BY <2>5, <4>5
      <4>10. Cardinality(Marks(m_throw_callers, {x})) = Cardinality(Marks(old.callees, M))
        BY <3>2, <3>3, <4>1, <4>5
      <4>11. Cardinality(Marks(m_throw_callers', {x})) = Cardinality(Marks(new.callees, M))
        BY <2>20, <4>6, <4>8, <4>9, <4>10
      <4>. QED BY <3>3, <4>1, <4>2, <4>3, <4>5, <4>11
    <3>. QED BY <3>4, <3>5
  <2>22. GraphsInv'
    BY <1>1, <2>1 DEF IInv, GraphsInv
  <2>. QED BY <2>14, <2>15, <2>19, <2>21, <2>22 DEF IInv
<1>. QED BY <1>3, <1>4

-----------------------------------------------------------------------------
(* The other steps, and the theorems.                                      *)

\* Steps that change neither the table nor a node.
LEMMA GraphKept ==
  ASSUME IInv, UNCHANGED <<readVars, table_entries, m_nodes, m_throw_callers>>,
         pc' \in {"nodes", "edges", "returned"}
  PROVE  ReaderInv' /\ NodesInv' /\ EdgesStayInside'
<1>1. ReaderInv'
  BY DEF IInv, ReaderInv, HasElements, readVars
<1>2. NodesInv'
  BY DEF IInv, NodesInv
<1>3. EdgesStayInside'
  <2>1. EdgesStayInside
    BY DEF IInv
  <2>. QED BY <2>1, EdgesKept
<1>. QED BY <1>1, <1>2, <1>3

LEMMA PhaseInv ==
  ASSUME IInv, StartGraph \/ EndOfNodes \/ ReturnGraph
  PROVE  IInv'
<1>1. Len(table_entries) \in Nat /\ DOMAIN table_entries = 1 .. Len(table_entries)
  BY TableIsASequence DEF IInv, ReaderInv
<1>2. UNCHANGED <<readVars, table_entries, m_nodes, m_throw_callers>>
      /\ pc' \in {"nodes", "edges", "returned"}
  BY DEF StartGraph, EndOfNodes, ReturnGraph
<1>3. CASE StartGraph
  <2>1. PlaceInv'
    BY <1>1, <1>3 DEF StartGraph, IInv, PlaceInv
  <2>2. GraphsInv'
    BY <1>3 DEF StartGraph, IInv, GraphsInv
  <2>. QED BY <1>2, <2>1, <2>2, GraphKept DEF IInv
<1>4. CASE EndOfNodes
  <2>1. at = Len(table_entries) + 1
    BY <1>1, <1>4 DEF EndOfNodes, IInv, PlaceInv
  <2>2. \A k \in DOMAIN table_entries : table_entries[k].id \in DOMAIN m_nodes
    BY <1>1, <1>4, <2>1 DEF EndOfNodes, IInv, PlaceInv
  <2>3. PlaceInv'
    BY <1>1, <1>4, <2>2 DEF EndOfNodes, PlaceInv
  <2>4. GraphsInv'
    BY <1>4 DEF EndOfNodes, IInv, GraphsInv
  <2>. QED BY <1>2, <2>3, <2>4, GraphKept DEF IInv
<1>5. CASE ReturnGraph
  <2>1. PlaceInv'
    BY <1>1, <1>5 DEF ReturnGraph, IInv, PlaceInv
  <2>2. GraphsInv'
    BY <1>5, HomeAssumption DEF ReturnGraph, GraphsInv
  <2>. QED BY <1>2, <2>1, <2>2, GraphKept DEF IInv
<1>. QED BY <1>3, <1>4, <1>5

\* A client passes graphs around whole, or empties them.
LEMMA ClientInv ==
  ASSUME IInv, NEW from \in Objects, NEW to \in Objects,
         CopyGraph(from, to) \/ MoveGraph(from, to) \/ DestroyGraph(from)
  PROVE  IInv'
<1>1. from \in DOMAIN graphs
  BY DEF CopyGraph, MoveGraph, DestroyGraph, MayReceive
<1>2. pc = "returned"
  BY <1>1 DEF IInv, GraphsInv
<1>3. UNCHANGED <<dumpVars, at, m_nodes, m_throw_callers>>
  BY DEF CopyGraph, MoveGraph, DestroyGraph, clientUnchanged
<1>4. PlaceInv'
  BY <1>3 DEF IInv, PlaceInv, dumpVars
<1>5. \A g \in DOMAIN graphs : g \in Objects /\ graphs[g] \in {{}, DOMAIN m_nodes}
  BY DEF IInv, GraphsInv
<1>6. DOMAIN graphs' \subseteq Objects /\ \A g \in DOMAIN graphs' : graphs'[g] \in {{}, DOMAIN m_nodes}
  <2>1. CASE CopyGraph(from, to)
    BY <1>1, <1>5, <2>1 DEF CopyGraph
  <2>2. CASE MoveGraph(from, to)
    <3>1. graphs' = [g \in DOMAIN graphs \cup {to} |->
                       CASE g = to              -> graphs[from]
                         [] g = from            -> {}
                         [] g \notin {from, to} -> graphs[g]]
          /\ to # from
      BY <2>2 DEF MoveGraph, MayReceive
    <3>2. DOMAIN graphs' = DOMAIN graphs \cup {to}
      BY <3>1
    <3>3. graphs'[to] = graphs[from] /\ graphs'[from] = {}
      BY <1>1, <3>1
    <3>4. \A g \in DOMAIN graphs : g \notin {from, to} => graphs'[g] = graphs[g]
      BY <3>1
    <3>. QED BY <1>1, <1>5, <3>2, <3>3, <3>4
  <2>3. CASE DestroyGraph(from)
    BY <1>5, <2>3 DEF DestroyGraph
  <2>. QED BY <2>1, <2>2, <2>3
<1>7. GraphsInv'
  BY <1>2, <1>3, <1>6 DEF GraphsInv, dumpVars
<1>8. ReaderInv' /\ NodesInv' /\ EdgesStayInside'
  BY <1>2, <1>3, GraphKept DEF dumpVars
<1>. QED BY <1>4, <1>7, <1>8 DEF IInv

LEMMA NextInv == IInv /\ [Next]_vars => IInv'
<1> SUFFICES ASSUME IInv, [Next]_vars PROVE IInv'
  OBVIOUS
<1>1. CASE DumpNext /\ UNCHANGED <<at, m_nodes, m_throw_callers, graphs>>
  BY <1>1, DumpStep
<1>2. CASE StartGraph \/ EndOfNodes \/ ReturnGraph
  BY <1>2, PhaseInv
<1>3. CASE AddNode
  BY <1>3, AddNodeInv
<1>4. CASE AddEdges
  BY <1>4, AddEdgesInv
<1>5. CASE \E from, to \in Objects : CopyGraph(from, to) \/ MoveGraph(from, to)
  BY <1>5, ClientInv
<1>6. CASE \E g \in Objects : DestroyGraph(g)
  BY <1>6, ClientInv
<1>7. CASE UNCHANGED vars
  <2>1. ReaderInv'
    BY <1>7 DEF IInv, ReaderInv, HasElements, vars, dumpVars, readVars
  <2>2. PlaceInv'
    BY <1>7 DEF IInv, PlaceInv, vars, dumpVars, readVars
  <2>3. NodesInv'
    BY <1>7 DEF IInv, NodesInv, vars
  <2>4. EdgesStayInside'
    <3>1. EdgesStayInside
      BY DEF IInv
    <3>2. m_nodes' = m_nodes /\ m_throw_callers' = m_throw_callers
      BY <1>7 DEF vars
    <3>. QED BY <3>1, <3>2, EdgesKept
  <2>5. GraphsInv'
    BY <1>7 DEF IInv, GraphsInv, vars, dumpVars
  <2>. QED BY <2>1, <2>2, <2>3, <2>4, <2>5 DEF IInv
<1>. QED BY <1>1, <1>2, <1>3, <1>4, <1>5, <1>6, <1>7 DEF Next

THEOREM Invariant == Spec => []IInv
BY InitInv, NextInv, PTL DEF Spec

LEMMA IInvIsTyped == IInv => TypeOK
<1> SUFFICES ASSUME IInv PROVE TypeOK
  OBVIOUS
<1>1. \A k \in DOMAIN table_entries : IsEntry(table_entries[k])
  BY DEF IInv, ReaderInv
<1>2. /\ DOMAIN graphs \subseteq Objects
      /\ \A g \in DOMAIN graphs : graphs[g] \subseteq DOMAIN m_nodes
  BY DEF IInv, GraphsInv
<1>. QED BY <1>1, <1>2 DEF IInv, ReaderInv, PlaceInv, NodesInv, IsEntry, TypeOK

\* Whatever the dump holds, the reader's table, the nodes and the graphs of a
\* client have their types: no number that is none gets into the graph, and a
\* lookup by id never fails.
THEOREM TypeCorrect == Spec => []TypeOK
BY Invariant, IInvIsTyped, PTL

\* The edges of a graph, finished or not, lead to its nodes, and a node is among
\* the throwers once for each of its calls of __cxa_throw, for every dump.
THEOREM EdgesInside == Spec => []EdgesStayInside
<1>1. IInv => EdgesStayInside
  BY DEF IInv
<1>. QED BY <1>1, Invariant, PTL

\* A node that sees its graph finds all of a list of neighbours in it.
LEMMA NeighboursAreFound ==
  ASSUME Home \in DOMAIN graphs, graphs[Home] = DOMAIN m_nodes,
         NEW neighs \in Pairs, \A k \in DOMAIN neighs : neighs[k].id \in DOMAIN m_nodes
  PROVE  /\ get_neigh_refs(neighs) = Ids(neighs)
         /\ \A k \in DOMAIN neighs :
              get_names(neighs)[k].name = m_nodes[neighs[k].id].fn_name
<1>1. \A k \in DOMAIN neighs : get_node_from_id(Home, neighs[k].id) # {}
  BY DEF get_node_from_id
<1>2. {k \in DOMAIN neighs : get_node_from_id(Home, neighs[k].id) # {}} = DOMAIN neighs
  BY <1>1
<1>3. get_neigh_refs(neighs) = Ids(neighs)
  BY <1>2 DEF get_neigh_refs, Ids
<1>4. ASSUME NEW k \in DOMAIN neighs
      PROVE  get_names(neighs)[k].name = m_nodes[neighs[k].id].fn_name
  <2>1. get_names(neighs)[k] =
          [name |-> m_nodes[neighs[k].id].fn_name, tags |-> neighs[k].attribs]
    BY <1>1 DEF get_names
  <2>. QED BY <2>1
<1>. QED BY <1>3, <1>4

\* As long as the graph that was returned has its nodes, a node finds all its
\* neighbours, by whatever copies and moves a client came to it.
THEOREM NodesSee == Spec => []NodesSeeTheirGraph
<1>1. ASSUME IInv PROVE NodesSeeTheirGraph
  <2> SUFFICES ASSUME Home \in DOMAIN graphs, graphs[Home] # {},
                      NEW g \in DOMAIN graphs, NEW id \in graphs[g]
               PROVE  /\ callee_refs(id) = Ids(m_nodes[id].callees)
                      /\ caller_refs(id) = Ids(m_nodes[id].callers)
                      /\ \A k \in DOMAIN get_names(m_nodes[id].callees) :
                           get_names(m_nodes[id].callees)[k].name =
                             m_nodes[m_nodes[id].callees[k].id].fn_name
    BY DEF NodesSeeTheirGraph
  <2>1. graphs[Home] = DOMAIN m_nodes /\ id \in DOMAIN m_nodes
    BY <1>1 DEF IInv, GraphsInv
  <2>2. PICK ers \in Pairs, ees \in Pairs :
          /\ ers = m_nodes[id].callers /\ ees = m_nodes[id].callees
          /\ \A k \in DOMAIN ers : ers[k].id \in DOMAIN m_nodes
          /\ \A k \in DOMAIN ees : ees[k].id \in DOMAIN m_nodes
    <3>1. m_nodes[id].callers \in Pairs /\ m_nodes[id].callees \in Pairs
      BY <1>1, <2>1 DEF IInv, NodesInv, NodeType
    <3>2. /\ \A k \in DOMAIN m_nodes[id].callers : m_nodes[id].callers[k].id \in DOMAIN m_nodes
          /\ \A k \in DOMAIN m_nodes[id].callees : m_nodes[id].callees[k].id \in DOMAIN m_nodes
      BY <1>1, <2>1 DEF IInv, EdgesStayInside
    <3>. QED BY <3>1, <3>2
  <2>3. get_neigh_refs(ers) = Ids(ers) /\ get_neigh_refs(ees) = Ids(ees)
        /\ \A k \in DOMAIN ees : get_names(ees)[k].name = m_nodes[ees[k].id].fn_name
    BY <2>1, <2>2, NeighboursAreFound
  <2>4. DOMAIN get_names(ees) = DOMAIN ees
    BY DEF get_names
  <2>. QED BY <2>2, <2>3, <2>4 DEF callee_refs, caller_refs
<1>. QED BY <1>1, Invariant, PTL

-----------------------------------------------------------------------------
(* The graph and the table.                                                *)

Reading == {"open", "preamble", "table", "parse"}
Built   == {"edges", "returned"}

NodeOf(k) == m_nodes[table_entries[k].id]

\* A node has the names of the first entry of its number.
IsNamed(k) ==
  /\ NodeOf(k).fn_name = table_entries[k].fn_name
  /\ NodeOf(k).demangled_name = table_entries[k].demangled_name
  /\ NodeOf(k).flags = Field(table_entries[k], "function_flags")

IsJoined(k) ==
  /\ NodeOf(k).callers = CallersOf(table_entries[k]).res
  /\ NodeOf(k).callees = CalleesOf(table_entries[k]).res

HasNone(node) == node.callers = <<>> /\ node.callees = <<>>

\* There is no node before the table is complete, then those of the entries
\* behind, then those of the table.
NumbersInv ==
  /\ pc \in Reading => DOMAIN m_nodes = {}
  /\ pc = "nodes" => \A id \in DOMAIN m_nodes : \E k \in 1 .. at - 1 : id = table_entries[k].id
  /\ pc \in Built => DOMAIN m_nodes = Numbers
  /\ pc = "returned" => at > Len(table_entries)

NamesInv ==
  pc \in Built \cup {"nodes"} =>
    \A k \in DOMAIN table_entries :
      IsFirst(k) /\ table_entries[k].id \in DOMAIN m_nodes => IsNamed(k)

\* A node gets its neighbours when the entry is reached.
ListsInv ==
  /\ pc = "nodes" => \A id \in DOMAIN m_nodes : HasNone(m_nodes[id])
  /\ pc \in Built =>
       \A k \in DOMAIN table_entries :
         /\ k < at => ~Stops(table_entries[k])
         /\ IsAlone(k) => IF k < at THEN IsJoined(k) ELSE HasNone(NodeOf(k))

ReasonInv ==
  pc = "threw" => Dumps[file] = None \/ \E k \in DOMAIN table_entries : Stops(table_entries[k])

TableInv == NumbersInv /\ NamesInv /\ ListsInv /\ ReasonInv

LEMMA TableInit == Init => TableInv
BY EmptyTable DEF Init, DumpInit, TableInv, NumbersInv, NamesInv, ListsInv, ReasonInv, Reading, Built

\* What is said of the table alone stays as long as the table.
LEMMA TableFixed ==
  ASSUME table_entries' = table_entries
  PROVE  /\ Numbers' = Numbers
         /\ \A k : /\ IsFirst(k)' <=> IsFirst(k)
                   /\ IsAlone(k)' <=> IsAlone(k)
                   /\ Stops(table_entries[k])' <=> Stops(table_entries[k])
BY DEF Numbers, IsFirst, IsAlone, Stops, CallersOf, CalleesOf

\* So does what is said of the nodes.
LEMMA TableKept ==
  ASSUME TableInv, UNCHANGED <<file, pc, at, table_entries, m_nodes>>
  PROVE  TableInv'
<1>1. \A k : /\ IsNamed(k)' <=> IsNamed(k)
             /\ IsJoined(k)' <=> IsJoined(k)
             /\ HasNone(NodeOf(k))' <=> HasNone(NodeOf(k))
             /\ HasNone(m_nodes[k])' <=> HasNone(m_nodes[k])
  BY DEF IsNamed, IsJoined, HasNone, NodeOf, CallersOf, CalleesOf
<1>. QED BY <1>1, TableFixed DEF TableInv, NumbersInv, NamesInv, ListsInv, ReasonInv

LEMMA TablePhases ==
  ASSUME IInv, TableInv, StartGraph \/ EndOfNodes \/ ReturnGraph
  PROVE  TableInv'
<1>1. Len(table_entries) \in Nat /\ DOMAIN table_entries = 1 .. Len(table_entries)
      /\ at \in 1 .. Len(table_entries) + 1
  BY TableIsASequence DEF IInv, ReaderInv, PlaceInv
<1>2. UNCHANGED <<file, table_entries, m_nodes>>
  BY DEF StartGraph, EndOfNodes, ReturnGraph, readVars
<1>3. \A k : /\ IsNamed(k)' <=> IsNamed(k)
             /\ IsJoined(k)' <=> IsJoined(k)
             /\ HasNone(NodeOf(k))' <=> HasNone(NodeOf(k))
             /\ HasNone(m_nodes[k])' <=> HasNone(m_nodes[k])
  BY <1>2 DEF IsNamed, IsJoined, HasNone, NodeOf, CallersOf, CalleesOf
<1>4. CASE StartGraph
  <2>1. pc \in Reading /\ pc' = "nodes"
    BY <1>4 DEF StartGraph, Reading
  <2>2. DOMAIN m_nodes = {}
    BY <2>1 DEF TableInv, NumbersInv
  <2>. QED BY <1>2, <2>1, <2>2 DEF TableInv, NumbersInv, NamesInv, ListsInv, ReasonInv, Reading, Built
<1>5. CASE EndOfNodes
  <2>1. pc = "nodes" /\ pc' = "edges" /\ at = Len(table_entries) + 1 /\ at' = 1
    BY <1>1, <1>5 DEF EndOfNodes
  <2>2. \A k \in DOMAIN table_entries : table_entries[k].id \in DOMAIN m_nodes
    BY <1>1, <2>1 DEF IInv, PlaceInv
  <2>3. \A id \in DOMAIN m_nodes : \E k \in DOMAIN table_entries : id = table_entries[k].id
    BY <1>1, <2>1 DEF TableInv, NumbersInv
  <2>4. DOMAIN m_nodes = Numbers
    BY <2>2, <2>3 DEF Numbers
  <2>5. NumbersInv'
    BY <1>2, <2>1, <2>4, TableFixed DEF NumbersInv, Reading, Built
  <2>6. NamesInv'
    BY <1>2, <1>3, <2>1, TableFixed DEF TableInv, NamesInv, Built
  <2>7. \A k \in DOMAIN table_entries : HasNone(NodeOf(k)) /\ ~(k < at')
    BY <1>1, <2>1, <2>2 DEF TableInv, ListsInv, NodeOf
  <2>8. ListsInv'
    BY <1>2, <1>3, <2>1, <2>7 DEF ListsInv, Built
  <2>. QED BY <2>1, <2>5, <2>6, <2>8 DEF TableInv, ReasonInv
<1>6. CASE ReturnGraph
  <2>1. pc = "edges" /\ pc' = "returned" /\ at > Len(table_entries) /\ at' = at
    BY <1>6 DEF ReturnGraph
  <2>2. NumbersInv'
    BY <1>2, <2>1, TableFixed DEF TableInv, NumbersInv, Reading, Built
  <2>3. NamesInv'
    BY <1>2, <1>3, <2>1, TableFixed DEF TableInv, NamesInv, Built
  <2>4. ListsInv'
    BY <1>2, <1>3, <2>1, TableFixed DEF TableInv, ListsInv, Built
  <2>. QED BY <2>1, <2>2, <2>3, <2>4 DEF TableInv, ReasonInv
<1>. QED BY <1>4, <1>5, <1>6

\* An entry that stops the construction is the reason of it.
LEMMA ThrowHasReason ==
  ASSUME Throw, UNCHANGED <<readVars, table_entries>>,
         NEW k \in DOMAIN table_entries, Stops(table_entries[k])
  PROVE  TableInv'
<1>1. pc' = "threw"
  BY DEF Throw
<1>2. Stops(table_entries[k])'
  BY TableFixed
<1>. QED BY <1>1, <1>2 DEF TableInv, NumbersInv, NamesInv, ListsInv, ReasonInv, Reading, Built

\* The first entry of a number makes its node, and later ones find it made.
LEMMA TableNodes ==
  ASSUME IInv, TableInv, AddNode
  PROVE  TableInv'
<1> DEFINE entry == table_entries[at]
           id    == entry.id
           D     == DOMAIN m_nodes
<1>1. /\ pc = "nodes" /\ at \in 1 .. Len(table_entries) /\ Len(table_entries) \in Nat
      /\ DOMAIN table_entries = 1 .. Len(table_entries)
  BY TableIsASequence DEF AddNode, IInv, ReaderInv, PlaceInv
<1>2. CASE id = None
  <2>1. Throw /\ UNCHANGED <<readVars, table_entries>>
    BY <1>2 DEF AddNode
  <2>2. Stops(entry)
    BY <1>2 DEF Stops
  <2> QED BY <1>1, <2>1, <2>2, ThrowHasReason
<1>3. CASE id # None
  <2>1. /\ m_nodes' = Emplaced(id, entry) /\ at' = at + 1
        /\ UNCHANGED <<file, pc, table_entries>>
    BY <1>3 DEF AddNode, readVars
  <2>2. PICK new : new = Node(entry)
    OBVIOUS
  <2>3. /\ new.callers = <<>> /\ new.callees = <<>>
        /\ new.fn_name = entry.fn_name /\ new.demangled_name = entry.demangled_name
        /\ new.flags = Field(entry, "function_flags")
    BY <2>2 DEF Node
  <2>4. m_nodes' = [n \in D \cup {id} |-> IF n \in D THEN m_nodes[n] ELSE new]
    BY <2>1, <2>2 DEF Emplaced
  <2>5. /\ DOMAIN m_nodes' = D \cup {id}
        /\ \A n \in D : m_nodes'[n] = m_nodes[n]
        /\ id \notin D => m_nodes'[id] = new
    BY <2>4
  <2> HIDE DEF entry
  <2>6. ASSUME NEW n \in DOMAIN m_nodes'
        PROVE  HasNone(m_nodes'[n]) /\ \E k \in 1 .. at' - 1 : n = table_entries[k].id
    <3>1. CASE n \in D
      <4>1. HasNone(m_nodes[n]) /\ \E k \in 1 .. at - 1 : n = table_entries[k].id
        BY <1>1, <3>1 DEF TableInv, NumbersInv, ListsInv
      <4> QED BY <1>1, <2>1, <2>5, <3>1, <4>1
    <3>2. CASE n \notin D
      <4>1. n = id /\ m_nodes'[n] = new
        BY <2>5, <3>2
      <4>2. HasNone(new)
        BY <2>3 DEF HasNone
      <4>3. at \in 1 .. at' - 1 /\ n = table_entries[at].id
        BY <1>1, <2>1, <4>1 DEF entry
      <4> QED BY <4>1, <4>2, <4>3
    <3> QED BY <3>1, <3>2
  <2>7. ASSUME NEW k \in DOMAIN table_entries, IsFirst(k), table_entries[k].id \in DOMAIN m_nodes'
        PROVE  IsNamed(k)'
    <3>1. CASE table_entries[k].id \in D
      <4>1. IsNamed(k)
        BY <1>1, <2>7, <3>1 DEF TableInv, NamesInv
      <4>2. NodeOf(k)' = NodeOf(k) /\ table_entries' = table_entries
        BY <2>1, <2>5, <3>1 DEF NodeOf
      <4> QED BY <4>1, <4>2 DEF IsNamed
    <3>2. CASE table_entries[k].id \notin D
      <4>1. table_entries[k].id = id
        BY <2>5, <2>7, <3>2
      <4>2. ~(at < k)
        BY <1>1, <2>7, <4>1 DEF IsFirst, entry
      <4>3. k \notin 1 .. at - 1
        BY <1>1, <3>2 DEF IInv, PlaceInv
      <4>4. k = at
        BY <1>1, <4>2, <4>3
      <4>5. m_nodes'[id] = new
        BY <2>5, <3>2, <4>1
      <4> QED BY <2>1, <2>3, <4>1, <4>4, <4>5 DEF IsNamed, NodeOf, entry
    <3> QED BY <3>1, <3>2
  <2>8. NumbersInv'
    BY <1>1, <2>1, <2>6 DEF NumbersInv, Reading, Built
  <2>9. NamesInv'
    BY <2>1, <2>7, TableFixed DEF NamesInv
  <2>10. ListsInv'
    BY <1>1, <2>1, <2>6 DEF ListsInv, HasNone, Built
  <2> QED BY <1>1, <2>1, <2>8, <2>9, <2>10 DEF TableInv, ReasonInv
<1> QED BY <1>2, <1>3

\* An entry whose number no other has gives its node both lists, whole.
LEMMA TableEdges ==
  ASSUME IInv, TableInv, AddEdges
  PROVE  TableInv'
<1> DEFINE entry == table_entries[at]
           id    == entry.id
           ers   == CallersOf(entry)
           ees   == CalleesOf(entry)
<1>1. /\ pc = "edges" /\ at \in 1 .. Len(table_entries) /\ Len(table_entries) \in Nat
      /\ DOMAIN table_entries = 1 .. Len(table_entries)
  BY TableIsASequence DEF AddEdges, IInv, ReaderInv, PlaceInv
<1>2. DOMAIN m_nodes = Numbers
  BY <1>1 DEF TableInv, NumbersInv, Built
<1>3. IsEntry(entry) /\ id \in DOMAIN m_nodes
  BY <1>1 DEF IInv, ReaderInv, PlaceInv
<1>4. id \in Nat /\ \A n \in DOMAIN m_nodes : m_nodes[n] \in NodeType
  BY <1>3 DEF IInv, NodesInv
<1>5. Stops(entry) <=> id > IntMax \/ Fails(ers) \/ Fails(ees)
  BY <1>2, <1>4, DumpsAssumption DEF Stops, Fails
<1>6. CASE id > IntMax \/ Fails(ers) \/ Fails(ees)
  <2>1. Throw /\ UNCHANGED <<readVars, table_entries>>
    BY <1>6 DEF AddEdges, CallersOf, CalleesOf
  <2> QED BY <1>1, <1>5, <1>6, <2>1, ThrowHasReason
<1>7. CASE ~(id > IntMax) /\ ~Fails(ers) /\ ~Fails(ees)
  <2>1. PICK r : r = ers.res
    OBVIOUS
  <2>2. PICK e : e = ees.res
    OBVIOUS
  <2>3. r \in Seq(Pair) /\ e \in Seq(Pair)
    <3>1. ers \in ListStates /\ ees \in ListStates
      BY <1>3, FieldType, ListType DEF CallersOf, CalleesOf
    <3> HIDE DEF ers, ees
    <3> QED BY <2>1, <2>2, <3>1 DEF ListStates
  <2>4. /\ m_nodes' = [m_nodes EXCEPT ![id].callers = @ \o r, ![id].callees = @ \o e]
        /\ at' = at + 1
        /\ UNCHANGED <<file, pc, table_entries>>
    BY <1>7, <2>1, <2>2 DEF AddEdges, CallersOf, CalleesOf, readVars
  <2> HIDE DEF entry, ers, ees
  <2>5. PICK old \in NodeType : old = m_nodes[id]
    BY <1>3, <1>4
  <2>6. PICK new : new = [old EXCEPT !.callers = @ \o r, !.callees = @ \o e]
    OBVIOUS
  <2>7. /\ new.fn_name = old.fn_name /\ new.demangled_name = old.demangled_name
        /\ new.flags = old.flags
        /\ new.callers = old.callers \o r /\ new.callees = old.callees \o e
    BY <2>6 DEF NodeType
  <2>8. m_nodes' = [m_nodes EXCEPT ![id] = new]
    BY <1>3, <2>4, <2>5, <2>6
  <2>9. /\ DOMAIN m_nodes' = DOMAIN m_nodes /\ m_nodes'[id] = new
        /\ \A n \in DOMAIN m_nodes : n # id => m_nodes'[n] = m_nodes[n]
    BY <1>3, <2>8
  <2>10. \A k \in DOMAIN table_entries : table_entries[k].id \in DOMAIN m_nodes
    BY <1>1 DEF IInv, PlaceInv
  <2>11. ASSUME NEW k \in DOMAIN table_entries, IsFirst(k) PROVE IsNamed(k)'
    <3>1. IsNamed(k)
      BY <1>1, <2>10, <2>11 DEF TableInv, NamesInv, Built
    <3>2. /\ NodeOf(k)'.fn_name = NodeOf(k).fn_name
          /\ NodeOf(k)'.demangled_name = NodeOf(k).demangled_name
          /\ NodeOf(k)'.flags = NodeOf(k).flags
      <4>1. CASE table_entries[k].id = id
        BY <2>4, <2>5, <2>7, <2>9, <4>1 DEF NodeOf
      <4>2. CASE table_entries[k].id # id
        BY <2>4, <2>9, <2>10, <4>2 DEF NodeOf
      <4> QED BY <4>1, <4>2
    <3> QED BY <2>4, <3>1, <3>2 DEF IsNamed
  <2>12. ASSUME NEW k \in DOMAIN table_entries
         PROVE  /\ k < at' => ~Stops(table_entries[k])
                /\ IsAlone(k) => IF k < at' THEN IsJoined(k)' ELSE HasNone(NodeOf(k)')
    <3>1. /\ k < at => ~Stops(table_entries[k])
          /\ IsAlone(k) => IF k < at THEN IsJoined(k) ELSE HasNone(NodeOf(k))
      BY <1>1 DEF TableInv, ListsInv, Built
    <3>2. k < at' <=> k < at \/ k = at
      BY <1>1, <2>4
    <3>3. CASE k = at
      <4>1. ~Stops(table_entries[k])
        BY <1>5, <1>7, <3>3 DEF entry
      <4>2. ASSUME IsAlone(k) PROVE IsJoined(k)'
        <5>1. HasNone(old)
          BY <1>1, <2>5, <3>1, <3>3, <4>2 DEF NodeOf, id, entry
        <5>2. <<>> \o r = r /\ <<>> \o e = e
          BY <2>3
        <5>3. new.callers = r /\ new.callees = e
          BY <2>7, <5>1, <5>2 DEF HasNone
        <5>4. NodeOf(k)' = new
          BY <2>4, <2>9, <3>3 DEF NodeOf, id, entry
        <5>5. CallersOf(table_entries[k])' = ers /\ CalleesOf(table_entries[k])' = ees
          BY <2>4, <3>3 DEF CallersOf, CalleesOf, ers, ees, entry
        <5> QED BY <2>1, <2>2, <5>3, <5>4, <5>5 DEF IsJoined
      <4> QED BY <3>2, <3>3, <4>1, <4>2
    <3>4. CASE k # at
      <4>1. ASSUME IsAlone(k) PROVE NodeOf(k)' = NodeOf(k)
        <5>1. table_entries[k].id # id
          BY <1>1, <3>4, <4>1 DEF IsAlone, id, entry
        <5> QED BY <2>4, <2>9, <2>10, <5>1 DEF NodeOf
      <4>2. ASSUME IsAlone(k), IsJoined(k) PROVE IsJoined(k)'
        BY <2>4, <4>1, <4>2 DEF IsJoined, CallersOf, CalleesOf
      <4> QED BY <3>1, <3>2, <3>4, <4>1, <4>2
    <3> QED BY <3>3, <3>4
  <2>13. NumbersInv'
    BY <1>1, <1>2, <2>4, <2>9, TableFixed DEF NumbersInv, Reading, Built
  <2>14. NamesInv'
    BY <2>4, <2>11, TableFixed DEF NamesInv
  <2>15. ListsInv'
    <3>1. \A k : HasNone(NodeOf(k))' <=> HasNone(NodeOf(k)')
      BY DEF HasNone
    <3> QED BY <1>1, <2>4, <2>12, <3>1, TableFixed DEF ListsInv, Built
  <2> QED BY <1>1, <2>4, <2>13, <2>14, <2>15 DEF TableInv, ReasonInv
<1> QED BY <1>6, <1>7

LEMMA TableNext == IInv /\ TableInv /\ [Next]_vars => TableInv'
<1> SUFFICES ASSUME IInv, TableInv, [Next]_vars PROVE TableInv'
  OBVIOUS
<1>1. CASE DumpNext /\ UNCHANGED <<at, m_nodes, m_throw_callers, graphs>>
  <2>1. /\ pc \in Reading /\ m_nodes' = m_nodes /\ file' = file
        /\ pc' \in Reading \/ (pc' = "threw" /\ Dumps[file] = None)
    BY <1>1 DEF DumpNext, CannotOpenFile, OpenFile, SkipPreamble, SkipEmptyLine, NotAFunction,
                ReadLine, EndOfFile, ParseEntry, readVars, Reading
  <2>2. DOMAIN m_nodes = {}
    BY <2>1 DEF TableInv, NumbersInv
  <2> QED BY <2>1, <2>2 DEF TableInv, NumbersInv, NamesInv, ListsInv, ReasonInv, Reading, Built
<1>2. CASE StartGraph \/ EndOfNodes \/ ReturnGraph
  BY <1>2, TablePhases
<1>3. CASE AddNode
  BY <1>3, TableNodes
<1>4. CASE AddEdges
  BY <1>4, TableEdges
<1>5. CASE \/ \E from, to \in Objects : CopyGraph(from, to) \/ MoveGraph(from, to)
           \/ \E g \in Objects : DestroyGraph(g)
           \/ UNCHANGED vars
  <2>1. UNCHANGED <<file, pc, at, table_entries, m_nodes>>
    BY <1>5 DEF CopyGraph, MoveGraph, DestroyGraph, clientUnchanged, vars, dumpVars, readVars
  <2> QED BY <2>1, TableKept
<1> QED BY <1>1, <1>2, <1>3, <1>4, <1>5 DEF Next

\* Whatever table the reader made, the graph that is returned is that table, and a
\* graph is not returned exactly for the reasons that lie in the table, or because
\* there is no file.
THEOREM GraphOfTheTable == Spec => []GraphIsTheTable
<1>1. ASSUME IInv, TableInv PROVE GraphIsTheTable
  <2>1. ASSUME pc = "returned", NEW k \in DOMAIN table_entries
        PROVE  /\ ~Stops(table_entries[k])
               /\ IsFirst(k) => IsNamed(k)
               /\ IsAlone(k) => IsJoined(k)
    <3>1. k < at
      BY <1>1, <2>1, TableIsASequence DEF IInv, ReaderInv, PlaceInv, TableInv, NumbersInv
    <3>2. table_entries[k].id \in DOMAIN m_nodes
      BY <1>1, <2>1 DEF IInv, PlaceInv
    <3> QED BY <1>1, <2>1, <3>1, <3>2 DEF TableInv, NamesInv, ListsInv, Built
  <2>2. pc = "returned" => DOMAIN m_nodes = Numbers
    BY <1>1 DEF TableInv, NumbersInv, Built
  <2>3. ReasonInv
    BY <1>1 DEF TableInv
  <2> QED BY <2>1, <2>2, <2>3 DEF GraphIsTheTable, ReasonInv, IsNamed, IsJoined, NodeOf
<1>2. Spec => []TableInv
  BY TableInit, TableNext, Invariant, PTL DEF Spec
<1> QED BY <1>1, <1>2, Invariant, PTL

-----------------------------------------------------------------------------
(* The lines of a symbol.                                                  *)

\* The next line is the end of the symbol it breaks, and the beginning of one
\* unless it is empty, inside of one, or denied.
LEMMA IdleNext ==
  ASSUME NEW lines, NEW p \in Nat
  PROVE  IsIdle(lines, p + 1) <=>
           (Breaks(lines[p + 1]) \/ IsIdle(lines, p)) /\ ~Counts(lines, p + 1)
<1>1. \A k \in 1 .. p + 1 : k \in 1 .. p \/ k = p + 1
  OBVIOUS
<1>2. \A k \in 1 .. p : k + 1 .. p + 1 = (k + 1 .. p) \cup {p + 1}
  OBVIOUS
<1>3. (p + 1) + 1 .. p + 1 = {} /\ p + 1 \in 1 .. p + 1 /\ 1 .. p \subseteq 1 .. p + 1
  OBVIOUS
<1>4. IsIdle(lines, p + 1) <=>
        /\ \A k \in 1 .. p : Counts(lines, k) =>
             Breaks(lines[p + 1]) \/ \E n \in k + 1 .. p : Breaks(lines[n])
        /\ ~Counts(lines, p + 1)
  <2>1. \A k \in 1 .. p : (\E n \in k + 1 .. p + 1 : Breaks(lines[n])) <=>
                            Breaks(lines[p + 1]) \/ \E n \in k + 1 .. p : Breaks(lines[n])
    BY <1>2
  <2>2. ~\E n \in (p + 1) + 1 .. p + 1 : Breaks(lines[n])
    BY <1>3
  <2> QED BY <1>1, <1>3, <2>1, <2>2 DEF IsIdle
<1> QED BY <1>4 DEF IsIdle

LEMMA OpensNext ==
  ASSUME NEW lines, NEW p \in Nat, NEW b \in 1 .. p
  PROVE  Opens(lines, b, p + 1) <=>
           Opens(lines, b, p) /\ ~Breaks(lines[p + 1]) /\ ~DeniesFunction(lines[p + 1])
<1>1. b + 1 .. p + 1 = (b + 1 .. p) \cup {p + 1}
  OBVIOUS
<1> QED BY <1>1 DEF Opens

LEMMA OpensFirst ==
  ASSUME NEW lines, NEW p \in Nat
  PROVE  Opens(lines, p + 1, p + 1) <=>
           Counts(lines, p + 1) /\ (Breaks(lines[p + 1]) \/ IsIdle(lines, p))
<1>1. (p + 1) + 1 .. p + 1 = {} /\ (p + 1) - 1 = p
  OBVIOUS
<1> QED BY <1>1 DEF Opens

LEMMA OpensIsNotIdle ==
  ASSUME NEW lines, NEW p \in Nat, NEW b \in 1 .. p, Opens(lines, b, p)
  PROVE  ~IsIdle(lines, p)
BY DEF Opens, IsIdle

-----------------------------------------------------------------------------
(* What a raw entry carries of the file.                                   *)

\* The lines of a raw entry have places in b .. j, in order, and leave none out
\* but the empty ones.
IsPlacing(pos, raw, lines, b, j) ==
  /\ pos \in [1 .. Len(raw) -> b .. j]
  /\ \A k \in 1 .. Len(raw) : raw[k] = lines[pos[k]] /\ Filled(lines[pos[k]])
  /\ \A i, k \in 1 .. Len(raw) : i < k => pos[i] < pos[k]
  /\ \A m \in b .. j : Filled(lines[m]) => \E k \in 1 .. Len(raw) : pos[k] = m

Carries(raw, lines, b, j) == \E pos : IsPlacing(pos, raw, lines, b, j)

LEMMA CarriesEmptyLine ==
  ASSUME NEW lines, NEW p \in Nat, NEW b \in 1 .. p, NEW raw \in Seq(Line),
         Carries(raw, lines, b, p), ~Filled(lines[p + 1])
  PROVE  Carries(raw, lines, b, p + 1)
<1>1. PICK pos : IsPlacing(pos, raw, lines, b, p)
  BY DEF Carries
<1>2. b .. p + 1 = (b .. p) \cup {p + 1}
  OBVIOUS
<1>3. pos \in [1 .. Len(raw) -> b .. p + 1]
  BY <1>1, <1>2 DEF IsPlacing
<1>4. IsPlacing(pos, raw, lines, b, p + 1)
  BY <1>1, <1>2, <1>3 DEF IsPlacing
<1> QED BY <1>4 DEF Carries

LEMMA CarriesLine ==
  ASSUME NEW lines, NEW p \in Nat, NEW b \in 1 .. p, NEW raw \in Seq(Line),
         Carries(raw, lines, b, p), Filled(lines[p + 1]), lines[p + 1] \in Line
  PROVE  Carries(Append(raw, lines[p + 1]), lines, b, p + 1)
<1>1. PICK pos : IsPlacing(pos, raw, lines, b, p)
  BY DEF Carries
<1>2. PICK n \in Nat : n = Len(raw)
  OBVIOUS
<1>3. PICK more \in Seq(Line) : more = Append(raw, lines[p + 1])
  <2>1. PICK line \in Line : line = lines[p + 1]
    OBVIOUS
  <2>2. Append(raw, line) \in Seq(Line)
    OBVIOUS
  <2> QED BY <2>1, <2>2
<1>4. /\ Len(more) = n + 1 /\ more[n + 1] = lines[p + 1]
      /\ \A k \in 1 .. n : more[k] = raw[k]
  BY <1>2, <1>3
<1> DEFINE next == [k \in 1 .. n + 1 |-> IF k = n + 1 THEN p + 1 ELSE pos[k]]
<1>5. /\ \A k \in 1 .. n : pos[k] \in b .. p
      /\ \A i, k \in 1 .. n : i < k => pos[i] < pos[k]
  BY <1>1, <1>2 DEF IsPlacing
<1>6. next[n + 1] = p + 1 /\ \A k \in 1 .. n : next[k] = pos[k]
  BY <1>2
<1>7. next \in [1 .. n + 1 -> b .. p + 1]
  BY <1>2, <1>5
<1> HIDE DEF next
<1>8. \A k \in 1 .. n + 1 : k \in 1 .. n \/ k = n + 1
  BY <1>2
<1>9. \A k \in 1 .. n + 1 : more[k] = lines[next[k]] /\ Filled(lines[next[k]])
  BY <1>1, <1>2, <1>4, <1>6, <1>8 DEF IsPlacing
<1>10. ASSUME NEW i \in 1 .. n + 1, NEW k \in 1 .. n + 1, i < k PROVE next[i] < next[k]
  <2>1. i \in 1 .. n
    BY <1>2, <1>10
  <2>2. next[i] = pos[i] /\ pos[i] \in b .. p
    BY <1>5, <1>6, <2>1
  <2>3. CASE k = n + 1
    BY <1>6, <2>2, <2>3
  <2>4. CASE k # n + 1
    BY <1>5, <1>6, <1>8, <1>10, <2>1, <2>4
  <2> QED BY <2>3, <2>4
<1>11. ASSUME NEW m \in b .. p + 1, Filled(lines[m]) PROVE \E k \in 1 .. n + 1 : next[k] = m
  <2>1. CASE m = p + 1
    <3>1. n + 1 \in 1 .. n + 1
      BY <1>2
    <3> QED BY <1>6, <2>1, <3>1
  <2>2. CASE m # p + 1
    <3>1. m \in b .. p
      BY <2>2
    <3>2. PICK k \in 1 .. n : pos[k] = m
      BY <1>1, <1>2, <1>11, <3>1 DEF IsPlacing
    <3>3. k \in 1 .. n + 1
      BY <1>2
    <3> QED BY <1>6, <3>2, <3>3
  <2> QED BY <2>1, <2>2
<1>12. IsPlacing(next, more, lines, b, p + 1)
  BY <1>4, <1>7, <1>9, <1>10, <1>11 DEF IsPlacing
<1> QED BY <1>3, <1>12 DEF Carries

LEMMA CarriesFirst ==
  ASSUME NEW lines, NEW b \in Nat, Filled(lines[b]), lines[b] \in Line
  PROVE  Carries(Append(<<>>, lines[b]), lines, b, b)
<1>1. PICK more : more = Append(<<>>, lines[b])
  OBVIOUS
<1>2. Len(more) = 1 /\ more[1] = lines[b]
  BY <1>1
<1> DEFINE pos == [k \in 1 .. 1 |-> b]
<1>3. IsPlacing(pos, more, lines, b, b)
  BY <1>2 DEF IsPlacing
<1> QED BY <1>1, <1>3 DEF Carries

\* Whatever is carried has the words of the symbol.
LEMMA LeastIs ==
  ASSUME NEW S \in SUBSET Nat, NEW x \in S, \A y \in S : x <= y
  PROVE  Min(S) = x
<1>0. \E z \in S : \A y \in S : z <= y
  OBVIOUS
<1>1. Min(S) \in S /\ \A y \in S : Min(S) <= y
  BY <1>0 DEF Min
<1>2. PICK m \in Nat : m = Min(S)
  BY <1>1
<1>3. m <= x /\ x <= m
  BY <1>1, <1>2
<1>4. m = x /\ x \in Nat
  BY <1>3
<1> QED BY <1>2, <1>4

LEMMA GreatestIs ==
  ASSUME NEW S \in SUBSET Nat, NEW x \in S, \A y \in S : x >= y
  PROVE  Max(S) = x
<1>0. \E z \in S : \A y \in S : z >= y
  OBVIOUS
<1>1. Max(S) \in S /\ \A y \in S : Max(S) >= y
  BY <1>0 DEF Max
<1>2. PICK m \in Nat : m = Max(S)
  BY <1>1
<1>3. m >= x /\ x >= m
  BY <1>1, <1>2
<1>4. m = x /\ x \in Nat
  BY <1>3
<1> QED BY <1>2, <1>4

\* Places keep the least and the greatest of a set.
LEMMA PlacedLeast ==
  ASSUME NEW n \in Nat, NEW pos \in [1 .. n -> Nat],
         \A i, k \in 1 .. n : i < k => pos[i] < pos[k],
         NEW S \in SUBSET (1 .. n), S # {}
  PROVE  /\ Min(S) \in S /\ Min({pos[k] : k \in S}) = pos[Min(S)]
         /\ Max(S) \in S /\ Max({pos[k] : k \in S}) = pos[Max(S)]
<1>1. S \in SUBSET Nat
  OBVIOUS
<1>2. PICK least \in S : least = Min(S) /\ \A y \in S : least <= y
  BY <1>1, LeastNatural DEF Min
<1>3. PICK greatest \in S : greatest = Max(S) /\ \A y \in S : greatest >= y
  <2>1. Max(S) \in S
    BY GreatestPlace
  <2>2. \E x \in S : \A y \in S : x >= y
    BY <2>1, BoundedGreatest
  <2> QED BY <2>2 DEF Max
<1>4. \A i, k \in 1 .. n : i <= k => pos[i] <= pos[k]
  OBVIOUS
<1> DEFINE P == {pos[k] : k \in S}
<1>5. P \in SUBSET Nat /\ pos[least] \in P /\ pos[greatest] \in P
  OBVIOUS
<1>6. \A y \in P : pos[least] <= y /\ pos[greatest] >= y
  BY <1>2, <1>3, <1>4
<1>7. Min(P) = pos[least] /\ Max(P) = pos[greatest]
  <2> HIDE DEF P
  <2> QED BY <1>5, <1>6, LeastIs, GreatestIs
<1> QED BY <1>2, <1>3, <1>7

LEMMA EntryOfLines ==
  ASSUME NEW lines \in Seq(Line), NEW b \in DOMAIN lines, NEW j \in b .. Len(lines),
         NEW raw \in Seq(Line), Carries(raw, lines, b, j), Lines(raw) # {}
  PROVE  IsEntryOf(Entry(raw), lines, b, j)
<1>1. PICK n \in Nat : n = Len(raw) /\ DOMAIN raw = 1 .. n
  OBVIOUS
<1>2. PICK pos : IsPlacing(pos, raw, lines, b, j)
  BY DEF Carries
<1>3. /\ pos \in [1 .. n -> Nat]
      /\ \A k \in 1 .. n : pos[k] \in b .. j
      /\ \A i, k \in 1 .. n : i < k => pos[i] < pos[k]
      /\ \A i, k \in 1 .. n : pos[i] = pos[k] => i = k
  <2>1. /\ pos \in [1 .. n -> b .. j]
        /\ \A i, k \in 1 .. n : i < k => pos[i] < pos[k]
    BY <1>1, <1>2 DEF IsPlacing
  <2>2. b \in Nat /\ b .. j \in SUBSET Nat
    BY LenProperties
  <2>3. pos \in [1 .. n -> Nat] /\ \A k \in 1 .. n : pos[k] \in b .. j
    BY <2>1, <2>2
  <2>4. ASSUME NEW i \in 1 .. n, NEW k \in 1 .. n, pos[i] = pos[k] PROVE i = k
    <3>1. pos[i] \in Nat /\ ~(pos[i] < pos[k]) /\ ~(pos[k] < pos[i])
      BY <2>3, <2>4
    <3>2. ~(i < k) /\ ~(k < i)
      BY <2>1, <3>1
    <3> QED BY <3>2
  <2> QED BY <2>1, <2>3, <2>4
<1>4. \A k \in 1 .. n : raw[k] = lines[pos[k]] /\ Filled(lines[pos[k]])
  BY <1>1, <1>2 DEF IsPlacing
<1>5. PICK S \in SUBSET (1 .. n) : S = Lines(raw) /\ S # {}
  BY <1>1 DEF Lines
<1>6. \A k \in 1 .. n : k \in S <=> raw[k].key # "blank"
  BY <1>1, <1>5 DEF Lines
<1>7. Said(lines, b, j) = {pos[k] : k \in S}
  <2>1. ASSUME NEW k \in S PROVE pos[k] \in Said(lines, b, j)
    BY <1>3, <1>4, <1>6 DEF Said, Filled
  <2>2. ASSUME NEW m \in Said(lines, b, j) PROVE \E k \in S : pos[k] = m
    <3>1. m \in b .. j /\ lines[m].key # "blank" /\ Filled(lines[m])
      BY DEF Said, Filled
    <3>2. PICK k \in 1 .. n : pos[k] = m
      BY <1>1, <1>2, <3>1 DEF IsPlacing
    <3> QED BY <1>4, <1>6, <3>1, <3>2
  <2> QED BY <2>1, <2>2
<1>8. PICK s \in S : s = Min(S) /\ Min(Said(lines, b, j)) = pos[s]
  <2>1. Min(S) \in S /\ Min({pos[k] : k \in S}) = pos[Min(S)]
    BY <1>3, <1>5, PlacedLeast
  <2> QED BY <1>7, <2>1
<1>9. PICK O \in SUBSET (1 .. n) : O = Others(raw) /\ O = S \ {s}
  BY <1>5, <1>8 DEF Others
<1>10. Said(lines, b, j) \ {pos[s]} = {pos[k] : k \in O}
  <2>1. PICK img : img = Said(lines, b, j) /\ \A m : m \in img <=> \E k \in S : pos[k] = m
    BY <1>7
  <2>2. ASSUME NEW m \in img \ {pos[s]} PROVE \E k \in O : pos[k] = m
    BY <1>9, <2>1, <2>2
  <2>3. ASSUME NEW k \in O PROVE pos[k] \in img \ {pos[s]}
    <3>1. k \in S /\ k # s
      BY <1>9
    <3>2. pos[k] # pos[s]
      BY <1>3, <3>1
    <3> QED BY <2>1, <3>1, <3>2
  <2>4. img \ {pos[s]} = {pos[k] : k \in O}
    BY <2>2, <2>3
  <2> QED BY <2>1, <2>4
<1> DEFINE first == raw[s]
           e     == Entry(raw)
           of(f) == {m \in {pos[k] : k \in O} : Lower(lines[m].key) = f}
           in(f) == {k \in O : Lower(raw[k].key) = f}
<1>11. first = lines[Min(Said(lines, b, j))]
  BY <1>4, <1>8
<1>12. e = IF first.key = "name"
           THEN [fn_name |-> first.value[1].text, id |-> first.value[1].id,
                 demangled_name |-> Demangled(first.value), fields |-> Fields(raw)]
           ELSE [fn_name |-> NoName, id |-> None, demangled_name |-> <<>>,
                 fields |-> Fields(raw)]
  BY <1>5, <1>8 DEF Entry
<1>13. /\ first.key = "name" => /\ e.fn_name = first.value[1].text
                                /\ e.id = first.value[1].id
                                /\ e.demangled_name = Demangled(first.value)
       /\ first.key # "name" => e.fn_name = NoName /\ e.id = None
       /\ e.fields = Fields(raw)
  <2> HIDE DEF first, e
  <2> QED BY <1>12
<1>14. DOMAIN Fields(raw) = {Lower(raw[k].key) : k \in O}
  BY <1>9 DEF Fields
<1>15. {Lower(raw[k].key) : k \in O} = {Lower(lines[m].key) : m \in {pos[k] : k \in O}}
  <2>1. \A k \in O : raw[k].key = lines[pos[k]].key
    BY <1>4
  <2> QED BY <2>1
<1>16. ASSUME NEW f \in DOMAIN Fields(raw) PROVE Fields(raw)[f] = lines[Max(of(f))].value
  <2>1. PICK A \in SUBSET (1 .. n) : A = in(f) /\ A # {}
    BY <1>14
  <2>2. Fields(raw)[f] = raw[Max(A)].value
    BY <1>9, <2>1 DEF Fields
  <2>3. of(f) = {pos[k] : k \in A}
    <3>1. \A k \in O : Lower(raw[k].key) = Lower(lines[pos[k]].key)
      BY <1>4
    <3> QED BY <2>1, <3>1
  <2>4. Max(A) \in A /\ Max({pos[k] : k \in A}) = pos[Max(A)]
    BY <1>3, <2>1, PlacedLeast
  <2>5. raw[Max(A)] = lines[pos[Max(A)]]
    BY <1>4, <2>4
  <2> QED BY <2>2, <2>3, <2>4, <2>5
<1>17. Said(lines, b, j) # {}
  BY <1>5, <1>7
<1> HIDE DEF e, first
<1>18. IsEntryOf(e, lines, b, j)
  BY <1>8, <1>10, <1>11, <1>13, <1>14, <1>15, <1>16, <1>17 DEF IsEntryOf
<1> QED BY <1>18 DEF e

-----------------------------------------------------------------------------
(* The reader and the lines behind it.                                     *)

FileLines == Dumps[file]

\* The lines that are not read yet are those behind the first p.
IsRest(more, lines, p) ==
  /\ Len(more) = Len(lines) - p
  /\ \A i \in 1 .. Len(more) : more[i] = lines[p + i]

\* A raw entry carries a symbol of the file; an entry tells one.
Holds(raw, lines) ==
  \E b \in DOMAIN lines : \E j \in b .. Len(lines) :
    IsSymbol(lines, b, j) /\ Carries(raw, lines, b, j)

Tells(e, lines) ==
  \E b \in DOMAIN lines : \E j \in b .. Len(lines) :
    IsSymbol(lines, b, j) /\ IsEntryOf(e, lines, b, j)

\* The flags say where the reader is; the entry it collects is the symbol it is
\* in; the symbols that end behind it are raw entries, and nothing else is.
ScanInv(lines, p) ==
  /\ in_entry <=> ~IsIdle(lines, p)
  /\ in_entry => cur_raw_entry # <<>>
  /\ is_function /\ cur_raw_entry # <<>> =>
       in_entry /\ \E b \in 1 .. p : Opens(lines, b, p) /\ Carries(cur_raw_entry, lines, b, p)
  /\ \A b \in 1 .. p : Opens(lines, b, p) =>
       is_function /\ cur_raw_entry # <<>> /\ Carries(cur_raw_entry, lines, b, p)
  /\ \A r \in DOMAIN raw_entries : Holds(raw_entries[r], lines)
  /\ \A b \in 1 .. p : \A j \in b .. p - 1 : IsSymbol(lines, b, j) =>
       \E r \in DOMAIN raw_entries : Carries(raw_entries[r], lines, b, j)

\* While the file is read.
FileInv ==
  pc \in {"preamble", "table"} =>
    \E p \in 0 .. Len(FileLines) :
      /\ IsRest(rest, FileLines, p)
      /\ InTable(FileLines, p + 1) <=> pc = "table"
      /\ ScanInv(FileLines, p)

\* A symbol that has a name, which is not that of a personality function.
IsNamedSymbol(lines, b, j) ==
  /\ IsSymbol(lines, b, j)
  /\ lines[b].key = "name" /\ lines[b].value[1].text \notin Personality

\* When it is read: its symbols are raw entries, or entries already.
ParseInv ==
  pc \in {"parse", "nodes"} =>
    /\ \A r \in DOMAIN raw_entries : raw_entries[r] = <<>> \/ Holds(raw_entries[r], FileLines)
    /\ \A k \in DOMAIN table_entries : Tells(table_entries[k], FileLines)
    /\ \A b \in DOMAIN FileLines : \A j \in b .. Len(FileLines) :
         IsNamedSymbol(FileLines, b, j) =>
           \/ \E r \in DOMAIN raw_entries : Carries(raw_entries[r], FileLines, b, j)
           \/ \E k \in DOMAIN table_entries : IsEntryOf(table_entries[k], FileLines, b, j)

EarlyInv ==
  /\ pc \in {"open", "preamble"} =>
       in_entry = FALSE /\ is_function = TRUE /\ cur_raw_entry = <<>> /\ raw_entries = <<>>
  /\ pc \in {"open", "preamble", "table"} => table_entries = <<>>
  /\ pc \in {"preamble", "table", "parse", "nodes"} => Dumps[file] # None
  /\ pc = "nodes" => raw_entries = <<>>

SymbolsInv == EarlyInv /\ FileInv /\ ParseInv

LEMMA SymbolsInit == Init => SymbolsInv
BY DEF Init, DumpInit, SymbolsInv, EarlyInv, FileInv, ParseInv

LEMMA NextLine ==
  ASSUME NEW lines \in Seq(Line), NEW p \in 0 .. Len(lines), NEW more \in Seq(Line),
         IsRest(more, lines, p), more # <<>>
  PROVE  /\ p + 1 \in 0 .. Len(lines) /\ p + 1 \in DOMAIN lines
         /\ Head(more) = lines[p + 1] /\ lines[p + 1] \in Line
         /\ IsRest(Tail(more), lines, p + 1)
<1>1. PICK n \in Nat : n = Len(lines) /\ DOMAIN lines = 1 .. n
  OBVIOUS
<1>2. PICK m \in Nat : m = Len(more) /\ m >= 1 /\ m = n - p
  <2>1. Len(more) \in Nat /\ Len(more) # 0
    BY EmptySeq, LenProperties
  <2>2. Len(more) >= 1
    BY <2>1
  <2> QED BY <1>1, <2>1, <2>2 DEF IsRest
<1>3. p + 1 \in 1 .. n /\ p \in Nat
  BY <1>1, <1>2
<1>4. Head(more) = lines[p + 1]
  BY <1>2 DEF IsRest
<1>5. lines[p + 1] \in Line
  BY <1>1, <1>3
<1>6. /\ Tail(more) \in Seq(Line) /\ Len(Tail(more)) = m - 1
      /\ \A i \in 1 .. m - 1 : Tail(more)[i] = more[i + 1]
  BY <1>2, HeadTailProperties
<1>7. m - 1 = n - (p + 1)
  BY <1>2, <1>3
<1>8. ASSUME NEW i \in 1 .. m - 1 PROVE Tail(more)[i] = lines[(p + 1) + i]
  <2>1. i + 1 \in 1 .. m /\ p + (i + 1) = (p + 1) + i
    BY <1>2, <1>3
  <2>2. more[i + 1] = lines[p + (i + 1)]
    BY <1>2, <2>1 DEF IsRest
  <2> QED BY <1>6, <2>1, <2>2
<1>9. IsRest(Tail(more), lines, p + 1)
  BY <1>1, <1>6, <1>7, <1>8 DEF IsRest
<1> QED BY <1>1, <1>3, <1>4, <1>5, <1>9

\* No line is the reader's before the heading of the table.
LEMMA NothingRead ==
  ASSUME NEW lines, NEW p \in Nat, ~InTable(lines, p)
  PROVE  /\ \A k \in 1 .. p : ~Counts(lines, k)
         /\ IsIdle(lines, p)
         /\ \A b \in 1 .. p : \A j : ~Opens(lines, b, j) /\ ~IsSymbol(lines, b, j)
<1>1. ASSUME NEW k \in 1 .. p PROVE ~InTable(lines, k)
  <2>1. 1 .. k - 1 \subseteq 1 .. p - 1
    OBVIOUS
  <2> QED BY <2>1 DEF InTable
<1>2. \A k \in 1 .. p : ~Counts(lines, k)
  BY <1>1 DEF Counts
<1>3. \A b \in 1 .. p : \A j : ~Opens(lines, b, j)
  BY <1>2 DEF Opens
<1>4. \A b \in 1 .. p : \A j : ~IsSymbol(lines, b, j)
  BY <1>3 DEF IsSymbol
<1> QED BY <1>2, <1>3, <1>4 DEF IsIdle

LEMMA InTableNext ==
  ASSUME NEW lines, NEW p \in Nat
  PROVE  InTable(lines, (p + 1) + 1) <=>
           InTable(lines, p + 1) \/ lines[p + 1].key = "table"
<1>1. 1 .. ((p + 1) + 1) - 1 = (1 .. (p + 1) - 1) \cup {p + 1}
  OBVIOUS
<1> QED BY <1>1 DEF InTable

\* A symbol ends at a line that is not the last when the next one ends it.
LEMMA SymbolEnds ==
  ASSUME NEW lines, Len(lines) \in Nat, NEW p \in Nat, p < Len(lines), NEW b
  PROVE  IsSymbol(lines, b, p) <=>
           Opens(lines, b, p) /\ Breaks(lines[p + 1]) /\ ~DeniesFunction(lines[p + 1])
BY DEF IsSymbol

\* The step of one line that begins no symbol after another adds no raw entry.
LEMMA SymbolsBehind ==
  ASSUME NEW lines \in Seq(Line), NEW p \in Nat, p < Len(lines), ScanInv(lines, p),
         ~Breaks(lines[p + 1]) \/ DeniesFunction(lines[p + 1]),
         NEW b \in 1 .. p + 1, NEW j \in b .. p, IsSymbol(lines, b, j)
  PROVE  \E r \in DOMAIN raw_entries : Carries(raw_entries[r], lines, b, j)
<1>1. Len(lines) \in Nat
  OBVIOUS
<1>2. j # p
  BY <1>1, SymbolEnds
<1>3. b \in 1 .. p /\ j \in b .. p - 1
  BY <1>2
<1> QED BY <1>3 DEF ScanInv

LEMMA ScanEmptyLine ==
  ASSUME NEW lines \in Seq(Line), NEW p \in Nat, p < Len(lines), ScanInv(lines, p),
         cur_raw_entry \in Seq(Line), ~Filled(lines[p + 1]),
         UNCHANGED <<in_entry, is_function, cur_raw_entry, raw_entries>>
  PROVE  ScanInv(lines, p + 1)'
<1> DEFINE line == lines[p + 1]
<1>1. ~Breaks(line) /\ ~DeniesFunction(line) /\ ~Counts(lines, p + 1)
  BY DEF Breaks, DeniesFunction, Counts, Filled
<1>2. IsIdle(lines, p + 1) <=> IsIdle(lines, p)
  BY <1>1, IdleNext
<1>3. ~Opens(lines, p + 1, p + 1)
  BY <1>1, OpensFirst
<1>4. \A b \in 1 .. p : Opens(lines, b, p + 1) <=> Opens(lines, b, p)
  BY <1>1, OpensNext
<1>5. \A b \in 1 .. p : Carries(cur_raw_entry, lines, b, p) =>
                        Carries(cur_raw_entry, lines, b, p + 1)
  BY CarriesEmptyLine
<1>6. \A b \in 1 .. p + 1 : \A j \in b .. p : IsSymbol(lines, b, j) =>
        \E r \in DOMAIN raw_entries : Carries(raw_entries[r], lines, b, j)
  BY <1>1, SymbolsBehind
<1>7. 1 .. p \subseteq 1 .. p + 1 /\ (p + 1) - 1 = p
      /\ \A b \in 1 .. p + 1 : b \in 1 .. p \/ b = p + 1
  OBVIOUS
<1> QED BY <1>2, <1>3, <1>4, <1>5, <1>6, <1>7 DEF ScanInv

LEMMA ScanDeniedLine ==
  ASSUME NEW lines \in Seq(Line), NEW p \in Nat, p < Len(lines), ScanInv(lines, p),
         DeniesFunction(lines[p + 1]), in_entry \in BOOLEAN,
         in_entry' = (in_entry /\ ~lines[p + 1].margin), is_function' = FALSE,
         UNCHANGED <<cur_raw_entry, raw_entries>>
  PROVE  ScanInv(lines, p + 1)'
<1> DEFINE line == lines[p + 1]
<1>1. Filled(line) /\ ~Counts(lines, p + 1) /\ (Breaks(line) <=> line.margin)
  BY DEF DeniesFunction, Counts, Filled, Breaks
<1>2. IsIdle(lines, p + 1) <=> line.margin \/ IsIdle(lines, p)
  BY <1>1, IdleNext
<1>3. \A b \in 1 .. p + 1 : ~Opens(lines, b, p + 1)
  <2>1. ~Opens(lines, p + 1, p + 1)
    BY <1>1, OpensFirst
  <2>2. \A b \in 1 .. p : ~Opens(lines, b, p + 1)
    BY OpensNext
  <2>3. \A b \in 1 .. p + 1 : b \in 1 .. p \/ b = p + 1
    OBVIOUS
  <2> QED BY <2>1, <2>2, <2>3
<1>4. \A b \in 1 .. p + 1 : \A j \in b .. p : IsSymbol(lines, b, j) =>
        \E r \in DOMAIN raw_entries : Carries(raw_entries[r], lines, b, j)
  BY SymbolsBehind
<1>5. in_entry' <=> ~IsIdle(lines, p + 1)
  BY <1>2 DEF ScanInv
<1>6. (p + 1) - 1 = p
  OBVIOUS
<1>7. \A r \in DOMAIN raw_entries : Holds(raw_entries[r], lines)
  BY DEF ScanInv
<1> QED BY <1>3, <1>4, <1>5, <1>6, <1>7 DEF ScanInv

\* A line that is kept goes on with the symbol it is in.
LEMMA ScanInnerLine ==
  ASSUME NEW lines \in Seq(Line), NEW p \in Nat, p < Len(lines), ScanInv(lines, p),
         Counts(lines, p + 1), ~Breaks(lines[p + 1]), lines[p + 1] \in Line,
         cur_raw_entry \in Seq(Line), in_entry, in_entry' = TRUE,
         cur_raw_entry' = Append(cur_raw_entry, lines[p + 1]),
         is_function' = is_function, raw_entries' = raw_entries
  PROVE  ScanInv(lines, p + 1)'
<1> DEFINE line == lines[p + 1]
<1>1. Filled(line) /\ ~DeniesFunction(line)
  BY DEF Counts
<1>2. ~IsIdle(lines, p) /\ ~IsIdle(lines, p + 1)
  BY IdleNext DEF ScanInv
<1>3. ~Opens(lines, p + 1, p + 1)
  BY <1>2, OpensFirst
<1>4. \A b \in 1 .. p : Opens(lines, b, p + 1) <=> Opens(lines, b, p)
  BY <1>1, OpensNext
<1>5. PICK more : more = Append(cur_raw_entry, line)
  OBVIOUS
<1>6. more # <<>>
  BY <1>5, AppendProperties
<1>7. \A b \in 1 .. p : Carries(cur_raw_entry, lines, b, p) => Carries(more, lines, b, p + 1)
  BY <1>1, <1>5, CarriesLine
<1>8. \A b \in 1 .. p + 1 : \A j \in b .. p : IsSymbol(lines, b, j) =>
        \E r \in DOMAIN raw_entries : Carries(raw_entries[r], lines, b, j)
  BY SymbolsBehind
<1>9. 1 .. p \subseteq 1 .. p + 1 /\ (p + 1) - 1 = p
      /\ \A b \in 1 .. p + 1 : b \in 1 .. p \/ b = p + 1
  OBVIOUS
<1>10. is_function => \E b \in 1 .. p : Opens(lines, b, p) /\ Carries(cur_raw_entry, lines, b, p)
  BY DEF ScanInv
<1>11. is_function => \E b \in 1 .. p + 1 : Opens(lines, b, p + 1) /\ Carries(more, lines, b, p + 1)
  BY <1>4, <1>7, <1>9, <1>10
<1>12. \A b \in 1 .. p + 1 : Opens(lines, b, p + 1) => is_function /\ Carries(more, lines, b, p + 1)
  BY <1>3, <1>4, <1>7, <1>9 DEF ScanInv
<1>13. \A r \in DOMAIN raw_entries : Holds(raw_entries[r], lines)
  BY DEF ScanInv
<1> QED BY <1>2, <1>5, <1>6, <1>8, <1>9, <1>11, <1>12, <1>13 DEF ScanInv

\* What is behind the reader when a new symbol begins: the one it was in, if it
\* may be a function, is a raw entry now.
LEMMA KeptSymbol ==
  ASSUME NEW lines \in Seq(Line), NEW p \in Nat, p < Len(lines), ScanInv(lines, p),
         raw_entries \in Seq(Seq(Line)), cur_raw_entry \in Seq(Line),
         Counts(lines, p + 1), ~in_entry \/ Breaks(lines[p + 1])
  PROVE  LET raw == raw_entries \o Kept
         IN  /\ \A r \in DOMAIN raw : Holds(raw[r], lines)
             /\ \A b \in 1 .. p + 1 : \A j \in b .. p : IsSymbol(lines, b, j) =>
                  \E r \in DOMAIN raw : Carries(raw[r], lines, b, j)
<1> DEFINE raw == raw_entries \o Kept
<1>1. PICK n \in Nat : n = Len(lines) /\ DOMAIN lines = 1 .. n
  OBVIOUS
<1>2. PICK m \in Nat : m = Len(raw_entries) /\ DOMAIN raw_entries = 1 .. m
  OBVIOUS
<1>3. ~DeniesFunction(lines[p + 1])
  BY DEF Counts
<1>4. \A b \in 1 .. p : \A j \in b .. p - 1 : IsSymbol(lines, b, j) =>
        \E r \in DOMAIN raw_entries : Carries(raw_entries[r], lines, b, j)
  BY DEF ScanInv
<1>5. \A b \in 1 .. p + 1 : \A j \in b .. p : b \in 1 .. p /\ (j \in b .. p - 1 \/ j = p)
  OBVIOUS
<1>6. CASE is_function /\ cur_raw_entry # <<>>
  <2>1. Kept = <<cur_raw_entry>>
    BY <1>6 DEF Kept
  <2>2. PICK cur \in Seq(Line) : cur = cur_raw_entry
    OBVIOUS
  <2>3. /\ DOMAIN raw = 1 .. m + 1 /\ raw[m + 1] = cur
        /\ \A r \in 1 .. m : raw[r] = raw_entries[r]
    BY <1>2, <2>1, <2>2
  <2> HIDE DEF raw
  <2>4. PICK b \in 1 .. p : Opens(lines, b, p) /\ Carries(cur, lines, b, p)
    BY <1>6, <2>2 DEF ScanInv
  <2>5. Breaks(lines[p + 1])
    BY <1>6 DEF ScanInv
  <2>6. IsSymbol(lines, b, p)
    BY <1>1, <1>3, <2>4, <2>5, SymbolEnds
  <2>7. Holds(cur, lines)
    <3>1. b \in DOMAIN lines /\ p \in b .. Len(lines)
      BY <1>1
    <3> QED BY <2>4, <2>6, <3>1 DEF Holds
  <2>8. \A r \in 1 .. m + 1 : r \in 1 .. m \/ r = m + 1
    OBVIOUS
  <2>9. \A r \in DOMAIN raw : Holds(raw[r], lines)
    BY <1>2, <2>3, <2>7, <2>8 DEF ScanInv
  <2>10. ASSUME NEW c \in 1 .. p, NEW j \in c .. p, IsSymbol(lines, c, j)
         PROVE  \E r \in DOMAIN raw : Carries(raw[r], lines, c, j)
    <3>1. CASE j = p
      <4>1. Opens(lines, c, p)
        BY <2>10, <3>1 DEF IsSymbol
      <4>2. Carries(raw[m + 1], lines, c, j) /\ m + 1 \in DOMAIN raw
        BY <2>2, <2>3, <3>1, <4>1 DEF ScanInv
      <4> QED BY <4>2
    <3>2. CASE j # p
      <4>1. PICK r \in 1 .. m : Carries(raw_entries[r], lines, c, j)
        BY <1>2, <1>4, <1>5, <2>10, <3>2
      <4>2. r \in DOMAIN raw /\ raw[r] = raw_entries[r]
        BY <1>2, <2>3
      <4> QED BY <4>1, <4>2
    <3> QED BY <3>1, <3>2
  <2> QED BY <1>5, <2>9, <2>10 DEF raw
<1>7. CASE ~(is_function /\ cur_raw_entry # <<>>)
  <2>1. Kept = <<>>
    BY <1>7 DEF Kept
  <2>2. raw = raw_entries
    BY <2>1
  <2>3. \A b \in 1 .. p : ~IsSymbol(lines, b, p)
    BY <1>7 DEF ScanInv, IsSymbol
  <2> HIDE DEF raw
  <2>4. \A b \in 1 .. p + 1 : \A j \in b .. p : IsSymbol(lines, b, j) =>
          \E r \in DOMAIN raw : Carries(raw[r], lines, b, j)
    BY <1>4, <1>5, <2>2, <2>3
  <2>5. \A r \in DOMAIN raw : Holds(raw[r], lines)
    BY <2>2 DEF ScanInv
  <2> QED BY <2>4, <2>5 DEF raw
<1> QED BY <1>6, <1>7

\* A line that is kept begins a symbol, whose first line it is.
LEMMA ScanFirstLine ==
  ASSUME NEW lines \in Seq(Line), NEW p \in Nat, p < Len(lines), ScanInv(lines, p),
         raw_entries \in Seq(Seq(Line)), cur_raw_entry \in Seq(Line),
         Counts(lines, p + 1), lines[p + 1] \in Line, ~in_entry \/ Breaks(lines[p + 1]),
         in_entry' = TRUE, is_function' = TRUE,
         cur_raw_entry' = Append(<<>>, lines[p + 1]),
         raw_entries' = raw_entries \o Kept
  PROVE  ScanInv(lines, p + 1)'
<1> DEFINE line == lines[p + 1]
<1>1. Filled(line) /\ ~DeniesFunction(line)
  BY DEF Counts
<1>2. Breaks(line) \/ IsIdle(lines, p)
  BY DEF ScanInv
<1>3. ~IsIdle(lines, p + 1)
  BY IdleNext
<1>4. Opens(lines, p + 1, p + 1)
  BY <1>2, OpensFirst
<1>5. PICK more : more = Append(<<>>, line)
  OBVIOUS
<1>6. more # <<>>
  BY <1>5
<1>7. Carries(more, lines, p + 1, p + 1)
  BY <1>1, <1>5, CarriesFirst
<1>8. \A b \in 1 .. p : ~Opens(lines, b, p + 1)
  BY <1>2, OpensNext, OpensIsNotIdle
<1>9. /\ \A b \in 1 .. p + 1 : b \in 1 .. p \/ b = p + 1
      /\ p + 1 \in 1 .. p + 1 /\ (p + 1) - 1 = p
  OBVIOUS
<1>10. PICK raw : raw = raw_entries \o Kept
  OBVIOUS
<1>11. /\ \A r \in DOMAIN raw : Holds(raw[r], lines)
       /\ \A b \in 1 .. p + 1 : \A j \in b .. p : IsSymbol(lines, b, j) =>
            \E r \in DOMAIN raw : Carries(raw[r], lines, b, j)
  BY <1>10, KeptSymbol
<1> QED BY <1>3, <1>4, <1>5, <1>6, <1>7, <1>8, <1>9, <1>10, <1>11 DEF ScanInv

LEMMA ScanNothing ==
  ASSUME NEW lines, NEW p \in Nat, ~InTable(lines, p),
         in_entry' = FALSE, cur_raw_entry' = <<>>, raw_entries' = <<>>
  PROVE  ScanInv(lines, p)'
<1>1. /\ IsIdle(lines, p)
      /\ \A b \in 1 .. p : \A j : ~Opens(lines, b, j) /\ ~IsSymbol(lines, b, j)
  BY NothingRead
<1>2. DOMAIN raw_entries' = {}
  BY EmptyTable
<1> QED BY <1>1, <1>2 DEF ScanInv

\* What the reader has read is told by the lines.
LEMMA LinesNext ==
  ASSUME IInv, SymbolsInv,
         SkipPreamble \/ SkipEmptyLine \/ NotAFunction \/ ReadLine
  PROVE  FileInv'
<1> DEFINE line == Head(rest)
<1>1. /\ pc \in {"preamble", "table"} /\ rest # <<>> /\ rest' = Tail(rest) /\ file' = file
  BY DEF SkipPreamble, SkipEmptyLine, NotAFunction, ReadLine
<1>2. PICK lines \in Seq(Line) : lines = FileLines
  BY <1>1, DumpsAssumption DEF SymbolsInv, EarlyInv, IInv, ReaderInv, FileLines
<1>3. PICK p \in 0 .. Len(lines) :
        /\ IsRest(rest, lines, p)
        /\ InTable(lines, p + 1) <=> pc = "table"
        /\ ScanInv(lines, p)
  BY <1>1, <1>2 DEF SymbolsInv, FileInv
<1>4. rest \in Seq(Line) /\ cur_raw_entry \in Seq(Line) /\ raw_entries \in Seq(Seq(Line))
      /\ in_entry \in BOOLEAN
  BY DEF IInv, ReaderInv
<1>5. /\ p + 1 \in 0 .. Len(lines) /\ line = lines[p + 1] /\ lines[p + 1] \in Line
      /\ IsRest(Tail(rest), lines, p + 1)
  BY <1>1, <1>3, <1>4, NextLine
<1>6. p \in Nat /\ p < Len(lines) /\ p + 1 \in Nat
  BY <1>5, LenProperties
<1>7. InTable(lines, (p + 1) + 1) <=> InTable(lines, p + 1) \/ line.key = "table"
  BY <1>5, <1>6, InTableNext
<1> SUFFICES /\ InTable(lines, (p + 1) + 1) <=> pc' = "table"
             /\ ScanInv(lines, p + 1)'
  <2>1. FileLines' = lines
    BY <1>1, <1>2 DEF FileLines
  <2> QED BY <1>1, <1>5, <2>1 DEF FileInv
<1> HIDE DEF line
<1>8. CASE SkipPreamble
  <2>1. /\ pc = "preamble" /\ pc' = IF line.key = "table" THEN "table" ELSE "preamble"
        /\ UNCHANGED <<in_entry, cur_raw_entry, raw_entries>>
    BY <1>8 DEF SkipPreamble, line
  <2>2. in_entry' = FALSE /\ cur_raw_entry' = <<>> /\ raw_entries' = <<>>
    BY <2>1 DEF SymbolsInv, EarlyInv
  <2>3. ~InTable(lines, p + 1)
    BY <1>3, <2>1
  <2>4. ScanInv(lines, p + 1)'
    BY <1>6, <2>2, <2>3, ScanNothing
  <2> QED BY <1>7, <2>1, <2>3, <2>4
<1>9. ASSUME pc = "table", pc' = pc PROVE InTable(lines, (p + 1) + 1) <=> pc' = "table"
  BY <1>3, <1>7, <1>9
<1>10. CASE SkipEmptyLine
  <2>1. ~Filled(lines[p + 1]) /\ pc = "table" /\ pc' = pc
        /\ UNCHANGED <<in_entry, is_function, cur_raw_entry, raw_entries>>
    BY <1>5, <1>10 DEF SkipEmptyLine, Filled, line
  <2>2. ScanInv(lines, p + 1)'
    BY <1>3, <1>4, <1>6, <2>1, ScanEmptyLine
  <2> QED BY <1>9, <2>1, <2>2
<1>11. CASE NotAFunction
  <2>1. /\ DeniesFunction(lines[p + 1]) /\ pc = "table" /\ pc' = pc
        /\ in_entry' = (in_entry /\ ~lines[p + 1].margin) /\ is_function' = FALSE
        /\ UNCHANGED <<cur_raw_entry, raw_entries>>
    BY <1>5, <1>11 DEF NotAFunction, line
  <2>2. ScanInv(lines, p + 1)'
    BY <1>3, <1>4, <1>6, <2>1, ScanDeniedLine
  <2> QED BY <1>9, <2>1, <2>2
<1>12. CASE ReadLine
  <2> DEFINE inside == in_entry /\ ~line.margin
  <2>1. /\ pc = "table" /\ pc' = pc /\ in_entry' = TRUE
        /\ line.key # "empty" /\ ~DeniesFunction(line)
        /\ raw_entries' = IF inside THEN raw_entries ELSE raw_entries \o Kept
        /\ cur_raw_entry' = Append(IF inside THEN cur_raw_entry ELSE <<>>, line)
        /\ is_function' = (inside => is_function)
    BY <1>12 DEF ReadLine, line
  <2>2. Counts(lines, p + 1)
    BY <1>3, <1>5, <2>1 DEF Counts, Filled
  <2>3. Breaks(lines[p + 1]) <=> line.margin
    BY <1>5, <2>1 DEF Breaks, Filled
  <2>4. is_function \in BOOLEAN
    BY DEF IInv, ReaderInv
  <2>5. CASE inside
    <3>1. /\ ~Breaks(lines[p + 1]) /\ in_entry
          /\ cur_raw_entry' = Append(cur_raw_entry, lines[p + 1])
          /\ is_function' = is_function /\ raw_entries' = raw_entries
      BY <1>5, <2>1, <2>3, <2>4, <2>5
    <3>2. ScanInv(lines, p + 1)'
      BY <1>3, <1>4, <1>5, <1>6, <2>1, <2>2, <3>1, ScanInnerLine
    <3> QED BY <1>9, <2>1, <3>2
  <2>6. CASE ~inside
    <3>1. /\ ~in_entry \/ Breaks(lines[p + 1])
          /\ cur_raw_entry' = Append(<<>>, lines[p + 1])
          /\ is_function' = TRUE /\ raw_entries' = raw_entries \o Kept
      BY <1>5, <2>1, <2>3, <2>6
    <3>2. ScanInv(lines, p + 1)'
      BY <1>3, <1>4, <1>5, <1>6, <2>1, <2>2, <3>1, ScanFirstLine
    <3> QED BY <1>9, <2>1, <3>2
  <2> QED BY <2>5, <2>6
<1> QED BY <1>8, <1>10, <1>11, <1>12

\* At the end of the file every symbol is a raw entry.
LEMMA FileEnds ==
  ASSUME IInv, SymbolsInv, EndOfFile
  PROVE  ParseInv'
<1>1. /\ pc \in {"preamble", "table"} /\ rest = <<>> /\ pc' = "parse"
      /\ raw_entries' = raw_entries \o (IF is_function THEN <<cur_raw_entry>> ELSE <<>>)
      /\ UNCHANGED <<file, table_entries>>
  BY DEF EndOfFile
<1>2. PICK lines \in Seq(Line) : lines = FileLines
  BY <1>1, DumpsAssumption DEF SymbolsInv, EarlyInv, IInv, ReaderInv, FileLines
<1>3. PICK n \in Nat : n = Len(lines) /\ DOMAIN lines = 1 .. n
  OBVIOUS
<1>4. ScanInv(lines, n)
  <2>1. PICK p \in 0 .. Len(lines) : IsRest(rest, lines, p) /\ ScanInv(lines, p)
    BY <1>1, <1>2 DEF SymbolsInv, FileInv
  <2>2. p = n
    BY <1>1, <1>3, <2>1, EmptyTable DEF IsRest
  <2> QED BY <2>1, <2>2
<1>5. PICK cur \in Seq(Line) : cur = cur_raw_entry
  BY DEF IInv, ReaderInv
<1>6. PICK m \in Nat : m = Len(raw_entries) /\ DOMAIN raw_entries = 1 .. m
  BY DEF IInv, ReaderInv
<1>7. \A b \in 1 .. n : IsSymbol(lines, b, n) <=> Opens(lines, b, n)
  BY <1>3 DEF IsSymbol
<1>8. /\ DOMAIN raw_entries' = 1 .. (IF is_function THEN m + 1 ELSE m)
      /\ \A r \in 1 .. m : raw_entries'[r] = raw_entries[r]
      /\ is_function => raw_entries'[m + 1] = cur
  <2>1. raw_entries \in Seq(Seq(Line))
    BY DEF IInv, ReaderInv
  <2>2. CASE is_function
    BY <1>1, <1>5, <1>6, <2>1, <2>2
  <2>3. CASE ~is_function
    BY <1>1, <1>6, <2>1, <2>3
  <2> QED BY <2>2, <2>3
<1>9. ASSUME NEW r \in DOMAIN raw_entries'
      PROVE  raw_entries'[r] = <<>> \/ Holds(raw_entries'[r], lines)
  <2>1. CASE r \in 1 .. m
    BY <1>4, <1>6, <1>8, <2>1 DEF ScanInv
  <2>2. CASE r \notin 1 .. m /\ cur # <<>>
    <3>1. is_function /\ r = m + 1
      BY <1>6, <1>8, <1>9, <2>2
    <3>2. PICK b \in 1 .. n : Opens(lines, b, n) /\ Carries(cur, lines, b, n)
      BY <1>4, <1>5, <2>2, <3>1 DEF ScanInv
    <3>3. b \in DOMAIN lines /\ n \in b .. Len(lines)
      BY <1>3
    <3> QED BY <1>7, <1>8, <3>1, <3>2, <3>3 DEF Holds
  <2>3. CASE r \notin 1 .. m /\ cur = <<>>
    <3>1. is_function /\ r = m + 1
      BY <1>6, <1>8, <1>9, <2>3
    <3> QED BY <1>8, <2>3, <3>1
  <2> QED BY <2>1, <2>2, <2>3
<1>10. ASSUME NEW b \in 1 .. n, NEW j \in b .. n, IsSymbol(lines, b, j)
       PROVE  \E r \in DOMAIN raw_entries' : Carries(raw_entries'[r], lines, b, j)
  <2>1. CASE j = n
    <3>1. is_function /\ Carries(cur, lines, b, n)
      BY <1>4, <1>5, <1>7, <1>10, <2>1 DEF ScanInv
    <3>2. m + 1 \in DOMAIN raw_entries'
      BY <1>8, <3>1
    <3> QED BY <1>8, <2>1, <3>1, <3>2
  <2>2. CASE j # n
    <3>1. j \in b .. n - 1
      BY <2>2
    <3>2. PICK r \in 1 .. m : Carries(raw_entries[r], lines, b, j)
      BY <1>4, <1>6, <1>10, <3>1 DEF ScanInv
    <3>3. r \in DOMAIN raw_entries'
      BY <1>8
    <3> QED BY <1>8, <3>2, <3>3
  <2> QED BY <2>1, <2>2
<1>11. DOMAIN table_entries' = {}
  BY <1>1, EmptyTable DEF SymbolsInv, EarlyInv
<1>12. FileLines' = lines
  BY <1>1, <1>2 DEF FileLines
<1> QED BY <1>1, <1>3, <1>9, <1>10, <1>11, <1>12 DEF ParseInv, IsNamedSymbol

LEMMA HeldIsTold ==
  ASSUME NEW lines \in Seq(Line), NEW raw \in Seq(Line), Holds(raw, lines), Lines(raw) # {}
  PROVE  Tells(Entry(raw), lines)
<1>0. PICK b \in DOMAIN lines : \E j \in b .. Len(lines) :
        IsSymbol(lines, b, j) /\ Carries(raw, lines, b, j)
  BY DEF Holds
<1>1. PICK j \in b .. Len(lines) : IsSymbol(lines, b, j) /\ Carries(raw, lines, b, j)
  BY <1>0
<1>2. IsEntryOf(Entry(raw), lines, b, j)
  BY <1>1, EntryOfLines
<1> QED BY <1>1, <1>2 DEF Tells

\* A symbol with a name becomes an entry.
LEMMA NamedIsParsed ==
  ASSUME NEW lines \in Seq(Line), NEW b \in DOMAIN lines, NEW j \in b .. Len(lines),
         NEW raw \in Seq(Line), IsNamedSymbol(lines, b, j), Carries(raw, lines, b, j)
  PROVE  Parsed(raw) = <<Entry(raw)>> /\ IsEntryOf(Entry(raw), lines, b, j)
<1>1. b \in Nat /\ j \in Nat /\ b <= j
  BY LenProperties
<1>2. lines[b].key = "name" /\ Filled(lines[b]) /\ lines[b].key # "blank"
  BY DEF IsNamedSymbol, Filled
<1>3. PICK pos : IsPlacing(pos, raw, lines, b, j)
  BY DEF Carries
<1>4. PICK k \in 1 .. Len(raw) : pos[k] = b
  BY <1>1, <1>2, <1>3 DEF IsPlacing
<1>5. raw[k] = lines[b] /\ k \in DOMAIN raw
  BY <1>3, <1>4 DEF IsPlacing
<1>6. Lines(raw) # {}
  BY <1>2, <1>5 DEF Lines
<1>7. IsEntryOf(Entry(raw), lines, b, j)
  BY <1>6, EntryOfLines
<1>8. Min(Said(lines, b, j)) = b
  <2>1. b \in Said(lines, b, j)
    BY <1>1, <1>2 DEF Said, Filled
  <2>2. Said(lines, b, j) \in SUBSET Nat /\ \A m \in Said(lines, b, j) : b <= m
    BY <1>1 DEF Said
  <2> QED BY <2>1, <2>2, LeastIs
<1>9. Entry(raw).fn_name = lines[b].value[1].text
  BY <1>2, <1>7, <1>8 DEF IsEntryOf
<1>10. Entry(raw).fn_name \notin Personality
  BY <1>9 DEF IsNamedSymbol
<1> QED BY <1>6, <1>7, <1>10 DEF Parsed

LEMMA TableOfOneMore ==
  ASSUME NEW table, HasElements(table), NEW e
  PROVE  /\ table \o <<>> = table
         /\ Len(table) \in Nat /\ DOMAIN table = 1 .. Len(table)
         /\ DOMAIN (table \o <<e>>) = 1 .. Len(table) + 1
         /\ \A k \in 1 .. Len(table) : (table \o <<e>>)[k] = table[k]
         /\ (table \o <<e>>)[Len(table) + 1] = e
<1>1. PICK S : table \in Seq(S)
  BY DEF HasElements
<1>2. table \in Seq(S \cup {e}) /\ <<e>> \in Seq(S \cup {e})
  BY <1>1, SeqMonotonic
<1>3. PICK n \in Nat : n = Len(table)
  BY <1>1
<1>4. /\ Len(table \o <<e>>) = n + 1 /\ table \o <<e>> \in Seq(S \cup {e})
      /\ \A k \in 1 .. n + 1 : (table \o <<e>>)[k] = IF k <= n THEN table[k] ELSE <<e>>[k - n]
  BY <1>2, <1>3, ConcatProperties
<1>5. (table \o <<e>>)[n + 1] = e
  <2>1. n + 1 \in 1 .. n + 1 /\ ~(n + 1 <= n) /\ (n + 1) - n = 1
    OBVIOUS
  <2>2. (table \o <<e>>)[n + 1] = <<e>>[(n + 1) - n]
    BY <1>4, <2>1
  <2>3. <<e>>[(n + 1) - n] = <<e>>[1]
    BY <2>1
  <2>4. <<e>>[1] = e
    OBVIOUS
  <2> QED BY <2>2, <2>3, <2>4
<1>6. \A k \in 1 .. n : (table \o <<e>>)[k] = table[k]
  BY <1>4
<1>7. DOMAIN (table \o <<e>>) = 1 .. n + 1
  BY <1>4
<1>8. table \o <<>> = table
  BY <1>1, ConcatEmptySeq
<1> QED BY <1>1, <1>3, <1>5, <1>6, <1>7, <1>8

LEMMA EntryParsed ==
  ASSUME IInv, SymbolsInv, ParseEntry
  PROVE  ParseInv'
<1>1. /\ pc = "parse" /\ pc' = "parse" /\ raw_entries # <<>> /\ raw_entries' = Tail(raw_entries)
      /\ table_entries' = table_entries \o Parsed(Head(raw_entries))
      /\ file' = file
  BY DEF ParseEntry
<1>2. PICK lines \in Seq(Line) : lines = FileLines
  BY <1>1, DumpsAssumption DEF SymbolsInv, EarlyInv, IInv, ReaderInv, FileLines
<1>3. /\ \A r \in DOMAIN raw_entries : raw_entries[r] = <<>> \/ Holds(raw_entries[r], lines)
      /\ \A k \in DOMAIN table_entries : Tells(table_entries[k], lines)
      /\ \A b \in DOMAIN lines : \A j \in b .. Len(lines) :
           IsNamedSymbol(lines, b, j) =>
             \/ \E r \in DOMAIN raw_entries : Carries(raw_entries[r], lines, b, j)
             \/ \E k \in DOMAIN table_entries : IsEntryOf(table_entries[k], lines, b, j)
  BY <1>1, <1>2 DEF SymbolsInv, ParseInv
<1>4. PICK all \in Seq(Seq(Line)) : all = raw_entries /\ all # <<>>
  BY <1>1 DEF IInv, ReaderInv
<1>5. PICK m \in Nat : m = Len(all) /\ DOMAIN all = 1 .. m /\ m >= 1
  BY <1>4, EmptySeq
<1>6. /\ Tail(all) \in Seq(Seq(Line)) /\ DOMAIN Tail(all) = 1 .. m - 1
      /\ \A r \in 1 .. m - 1 : Tail(all)[r] = all[r + 1]
  BY <1>4, <1>5, HeadTailProperties
<1>7. PICK raw \in Seq(Line) : raw = Head(all) /\ raw = all[1]
  BY <1>4, <1>5
<1>8. PICK e : e = Entry(raw)
  OBVIOUS
<1>9. PICK t \in Nat :
        /\ t = Len(table_entries) /\ DOMAIN table_entries = 1 .. t
        /\ table_entries \o <<>> = table_entries
        /\ DOMAIN (table_entries \o <<e>>) = 1 .. t + 1
        /\ \A k \in 1 .. t : (table_entries \o <<e>>)[k] = table_entries[k]
        /\ (table_entries \o <<e>>)[t + 1] = e
  BY TableOfOneMore DEF IInv, ReaderInv
<1>10. table_entries' = table_entries \o Parsed(raw)
  BY <1>1, <1>4, <1>7
<1>11. \/ Parsed(raw) = <<>> /\ table_entries' = table_entries
       \/ Parsed(raw) = <<e>> /\ table_entries' = table_entries \o <<e>> /\ Lines(raw) # {}
  BY <1>8, <1>9, <1>10 DEF Parsed
<1>12. \A k \in DOMAIN table_entries :
         k \in DOMAIN table_entries' /\ table_entries'[k] = table_entries[k]
  BY <1>9, <1>11
<1>13. ASSUME Parsed(raw) = <<e>>
       PROVE  t + 1 \in DOMAIN table_entries' /\ table_entries'[t + 1] = e
  BY <1>9, <1>10, <1>13
<1>14. ASSUME NEW r \in DOMAIN raw_entries'
       PROVE  raw_entries'[r] = <<>> \/ Holds(raw_entries'[r], lines)
  <2>1. r \in 1 .. m - 1 /\ r + 1 \in 1 .. m /\ raw_entries'[r] = raw_entries[r + 1]
    BY <1>1, <1>4, <1>5, <1>6, <1>14
  <2> QED BY <1>3, <1>4, <1>5, <2>1
<1>15. ASSUME NEW k \in DOMAIN table_entries' PROVE Tells(table_entries'[k], lines)
  <2>1. CASE k \in 1 .. t
    BY <1>3, <1>9, <1>12, <2>1
  <2>2. CASE k \notin 1 .. t
    <3>1. Lines(raw) # {} /\ k = t + 1 /\ table_entries'[k] = e
      BY <1>9, <1>11, <1>15, <2>2
    <3>2. raw # <<>>
      BY <3>1, EmptyTable DEF Lines
    <3>3. Holds(raw, lines)
      <4>1. 1 \in DOMAIN raw_entries /\ raw_entries[1] = raw
        BY <1>4, <1>5, <1>7
      <4>2. raw = <<>> \/ Holds(raw, lines)
        BY <1>3, <4>1
      <4> QED BY <3>2, <4>2
    <3> QED BY <1>8, <3>1, <3>3, HeldIsTold
  <2> QED BY <2>1, <2>2
<1>16. ASSUME NEW b \in DOMAIN lines, NEW j \in b .. Len(lines), IsNamedSymbol(lines, b, j)
       PROVE  \/ \E r \in DOMAIN raw_entries' : Carries(raw_entries'[r], lines, b, j)
              \/ \E k \in DOMAIN table_entries' : IsEntryOf(table_entries'[k], lines, b, j)
  <2>1. CASE \E k \in DOMAIN table_entries : IsEntryOf(table_entries[k], lines, b, j)
    BY <1>12, <2>1
  <2>2. CASE Carries(raw, lines, b, j)
    <3>1. Parsed(raw) = <<e>> /\ IsEntryOf(e, lines, b, j)
      BY <1>8, <1>16, <2>2, NamedIsParsed
    <3> QED BY <1>13, <3>1
  <2>3. CASE \E r \in 2 .. m : Carries(all[r], lines, b, j)
    <3>1. PICK r \in 2 .. m : Carries(all[r], lines, b, j)
      BY <2>3
    <3>2. PICK s \in 1 .. m - 1 : r = s + 1
      <4>1. r - 1 \in 1 .. m - 1 /\ r = (r - 1) + 1
        OBVIOUS
      <4> QED BY <4>1
    <3>3. s \in DOMAIN raw_entries' /\ raw_entries'[s] = all[r]
      BY <1>1, <1>4, <1>6, <3>2
    <3> QED BY <3>1, <3>3
  <2>4. \A r \in DOMAIN raw_entries : r = 1 \/ r \in 2 .. m
    BY <1>4, <1>5
  <2> QED BY <1>3, <1>4, <1>7, <1>16, <2>1, <2>2, <2>3, <2>4
<1>17. FileLines' = lines
  BY <1>1, <1>2 DEF FileLines
<1> QED BY <1>14, <1>15, <1>16, <1>17 DEF ParseInv

LEMMA SymbolsNext == IInv /\ SymbolsInv /\ [Next]_vars => SymbolsInv'
<1> SUFFICES ASSUME IInv, SymbolsInv, [Next]_vars PROVE SymbolsInv'
  OBVIOUS
<1>1. CASE CannotOpenFile
  BY <1>1 DEF CannotOpenFile, SymbolsInv, EarlyInv, FileInv, ParseInv
<1>2. CASE OpenFile
  <2>1. /\ pc = "open" /\ pc' = "preamble" /\ rest' = FileLines /\ Dumps[file] # None
        /\ UNCHANGED <<file, in_entry, is_function, cur_raw_entry, raw_entries, table_entries>>
    BY <1>2 DEF OpenFile, FileLines
  <2>2. PICK lines \in Seq(Line) : lines = FileLines
    BY <2>1, DumpsAssumption DEF IInv, ReaderInv, FileLines
  <2>3. EarlyInv'
    BY <2>1 DEF SymbolsInv, EarlyInv
  <2>4. ~InTable(lines, 0 + 1) /\ ~InTable(lines, 0)
    BY DEF InTable
  <2>5. ScanInv(lines, 0)'
    BY <2>1, <2>4, ScanNothing DEF SymbolsInv, EarlyInv
  <2>6. IsRest(lines, lines, 0) /\ 0 \in 0 .. Len(lines)
    BY DEF IsRest
  <2>7. FileLines' = lines
    BY <2>1, <2>2 DEF FileLines
  <2>8. FileInv'
    BY <2>1, <2>2, <2>4, <2>5, <2>6, <2>7 DEF FileInv
  <2> QED BY <2>1, <2>3, <2>8 DEF SymbolsInv, ParseInv
<1>3. CASE SkipPreamble \/ SkipEmptyLine \/ NotAFunction \/ ReadLine
  <2>1. FileInv'
    BY <1>3, LinesNext
  <2>2. EarlyInv'
    BY <1>3 DEF SkipPreamble, SkipEmptyLine, NotAFunction, ReadLine, SymbolsInv, EarlyInv
  <2>3. pc' \in {"preamble", "table"}
    BY <1>3 DEF SkipPreamble, SkipEmptyLine, NotAFunction, ReadLine
  <2> QED BY <2>1, <2>2, <2>3 DEF SymbolsInv, ParseInv
<1>4. CASE EndOfFile
  <2>1. ParseInv'
    BY <1>4, FileEnds
  <2>2. EarlyInv' /\ pc' = "parse"
    BY <1>4 DEF EndOfFile, SymbolsInv, EarlyInv
  <2> QED BY <2>1, <2>2 DEF SymbolsInv, FileInv
<1>5. CASE ParseEntry
  <2>1. ParseInv'
    BY <1>5, EntryParsed
  <2>2. EarlyInv' /\ pc' = "parse"
    BY <1>5 DEF ParseEntry, SymbolsInv, EarlyInv
  <2> QED BY <2>1, <2>2 DEF SymbolsInv, FileInv
<1>6. CASE StartGraph \/ (AddNode /\ pc' = "nodes") \/ UNCHANGED vars
  <2>1. UNCHANGED <<file, raw_entries, table_entries>>
        /\ (pc' = pc \/ (pc = "parse" /\ pc' = "nodes" /\ raw_entries = <<>>))
        /\ (pc' \in {"open", "preamble", "table"} =>
              UNCHANGED <<rest, in_entry, is_function, cur_raw_entry>>)
    BY <1>6 DEF StartGraph, AddNode, Throw, vars, dumpVars, readVars
  <2>2. EarlyInv'
    BY <2>1 DEF SymbolsInv, EarlyInv
  <2>3. ParseInv'
    BY <2>1 DEF SymbolsInv, ParseInv, FileLines
  <2>4. FileInv'
    BY <2>1 DEF SymbolsInv, FileInv, FileLines, ScanInv
  <2> QED BY <2>2, <2>3, <2>4 DEF SymbolsInv
<1>7. ASSUME pc' \in {"edges", "returned", "threw"} PROVE SymbolsInv'
  BY <1>7 DEF SymbolsInv, EarlyInv, FileInv, ParseInv
<1>8. CASE AddNode \/ EndOfNodes \/ AddEdges \/ ReturnGraph
  BY <1>6, <1>7, <1>8 DEF AddNode, EndOfNodes, AddEdges, ReturnGraph, Throw
<1>9. CASE \/ \E from, to \in Objects : CopyGraph(from, to) \/ MoveGraph(from, to)
           \/ \E g \in Objects : DestroyGraph(g)
  <2>1. DOMAIN graphs # {} /\ pc' = pc
    BY <1>9 DEF CopyGraph, MoveGraph, DestroyGraph, MayReceive, clientUnchanged, dumpVars
  <2> QED BY <1>7, <2>1 DEF IInv, GraphsInv
<1> QED BY <1>1, <1>2, <1>3, <1>4, <1>5, <1>6, <1>8, <1>9 DEF Next, DumpNext

\* Of whatever file, the table holds what its symbols say: an entry mixes no two
\* of them and makes none up, and no function with a name is lost.
THEOREM TableOfTheFile == Spec => []EntriesAreTheSymbols
<1>1. ASSUME SymbolsInv PROVE EntriesAreTheSymbols
  <2> SUFFICES ASSUME pc = "nodes" PROVE EntriesAreTheSymbols
    BY DEF EntriesAreTheSymbols
  <2>1. DOMAIN raw_entries = {}
    BY <1>1, EmptyTable DEF SymbolsInv, EarlyInv
  <2>2. /\ \A k \in DOMAIN table_entries : Tells(table_entries[k], FileLines)
        /\ \A b \in DOMAIN FileLines : \A j \in b .. Len(FileLines) :
             IsNamedSymbol(FileLines, b, j) =>
               \E k \in DOMAIN table_entries : IsEntryOf(table_entries[k], FileLines, b, j)
    BY <1>1, <2>1 DEF SymbolsInv, ParseInv
  <2> QED BY <2>2 DEF EntriesAreTheSymbols, Tells, IsNamedSymbol, FileLines
<1>2. Spec => []SymbolsInv
  BY SymbolsInit, SymbolsNext, Invariant, PTL DEF Spec
<1> QED BY <1>1, <1>2, PTL
=============================================================================
