----------------------------- MODULE MCLsdaAbi ------------------------------
(***************************************************************************)
(* LsdaParser on the images of small programs, as a compiler writes them   *)
(* (LsdaImage): what the parser recovers, compared with the program.       *)
(***************************************************************************)
EXTENDS LsdaParser, SequencesExt, TLC

MCWordSize == 2^22

Abi == INSTANCE LsdaImage

\* The clauses of a call site: nothing but a cleanup, catches of the types 1
\* to 3, a catch and then a cleanup, an exception specification (a filter).
ClauseLists == {<<>>, <<1>>, <<2, 1>>, <<1, 2, 3>>, <<1, 0>>, <<-1>>}

Sites == [pad : {0, 9}, clauses : ClauseLists]

SecondSites == [pad : {5}, clauses : {<<>>, <<2>>, <<3, 2, 1>>}]

\* The entry of a type is what the linker leaves there; 0 is catch (...).
TypeLists == {<<>>, <<300>>, <<300, 0>>, <<300, 5, 700>>}

\* Nothing, an exception specification table, the LSDA of another function.
Trailers == {<<>>, <<1, 0>>, <<255, 255, 1, 0>>}

\* A landing pad is there for the clauses, the types are those the clauses
\* name, and a filter has type 1 and the table it selects from.
WellFormed(p) ==
  LET clauses == UNION {Range(p.sites[k].clauses) : k \in DOMAIN p.sites}
      filters == {c \in clauses : c < 0}
  IN  /\ \A k \in DOMAIN p.sites : p.sites[k].pad = 0 => p.sites[k].clauses = <<>>
      /\ clauses \ (filters \cup {0}) \subseteq DOMAIN p.types
      /\ DOMAIN p.types \subseteq clauses \cup (IF filters = {} THEN {} ELSE {1})
      /\ filters # {} <=> p.trailer = <<1, 0>>
      /\ filters # {} => p.types # <<>>

SiteLists == {<<s>> : s \in Sites} \cup {<<s, r>> : s \in Sites, r \in SecondSites}

Programs ==
  {p \in [sites : SiteLists, types : TypeLists, align : {0, 1}, trailer : Trailers] :
     WellFormed(p)}

ImageOf == [p \in Programs |-> Abi!Image(p)]

Images == {ImageOf[p] : p \in Programs}

-----------------------------------------------------------------------------
\* The programs whose image is being parsed.
Sources == {p \in Programs : ImageOf[p] = data}

Pads(p) == LET Padded(s) == s.pad # 0 IN SelectSeq(p.sites, Padded)

Clauses(s) == IF s.clauses = <<>> THEN <<0>> ELSE s.clauses

ScopeClauses(scope) ==
  [n \in DOMAIN scope.handlers |-> scope.handlers[n].type_index]

\* parse() accepts what a compiler writes, although it takes the bytes of the
\* type table for further actions (abi_parse.cpp:263-264, 279): none of its
\* limit checks fires on them as long as no type entry ends in a byte with
\* the LEB128 continuation bit.
CompilerOutputParses == pc # "threw"

\* Of the scopes of a program none is missing and none is invented, and the
\* handlers of each are a non-empty prefix of the clauses the compiler wrote
\* for it, of the right kinds: a truncated chain loses clauses, and never
\* brings in one of another call site or one of the records made of the bytes
\* of the type table (abi_parse.cpp:63-135, 373-438).
HandlersAreAPrefix ==
  pc = "done" =>
    \A p \in Sources :
      LET pads == Pads(p)
      IN  /\ Len(scopes) = Len(pads)
          /\ \A k \in DOMAIN pads :
               /\ scopes[k].handlers # <<>>
               /\ IsPrefix(ScopeClauses(scopes[k]), Clauses(pads[k]))
               /\ \A n \in DOMAIN scopes[k].handlers :
                    scopes[k].handlers[n] =
                      Handler(Clauses(pads[k])[n], [landing_pad |-> pads[k].pad])

\* "Follow action chain" (abi_parse.cpp:112), "next action in list"
\* (abi_parse.hpp:31), "offset of next action field" (abi_parse.hpp:34): a
\* scope has a handler for every clause of its call site, in order.
EveryClauseIsHandled ==
  pc = "done" =>
    \A p \in Sources :
      \A k \in DOMAIN Pads(p) :
        ScopeClauses(scopes[k]) = Clauses(Pads(p)[k])

\* "1 -> last, 2 -> second-to-last, etc." (abi_parse.cpp:332): a type index
\* resolves to the entry the compiler wrote for it.
TypesResolve ==
  pc = "done" =>
    \A p \in Sources :
      \A t \in DOMAIN p.types : resolve_type(t) = p.types[t]
=============================================================================
