----------------------------- MODULE LsdaImage ------------------------------
(***************************************************************************)
(* The other side of the file format: the bytes a compiler that follows    *)
(* the Itanium C++ ABI writes into .gcc_except_table for a function.  The  *)
(* repository has no code for it; the layout is that of the LSDA of        *)
(* src/testing_programs/simple.cpp as GCC compiles it:                     *)
(*                                                                         *)
(*   ff 9b <ttype offset> 01 <call-site length>                            *)
(*   call sites, actions, types in reverse order                           *)
(*                                                                         *)
(* where the ttype offset leads to the END of the type table and the       *)
(* displacement of an action record counts from its own next field.        *)
(*                                                                         *)
(* A program is [sites, types, align, trailer]: a landing pad (0 for none) *)
(* and a list of clauses for every call site, the type each positive       *)
(* clause names, the padding before the types, and the bytes behind this   *)
(* LSDA in its section.                                                    *)
(***************************************************************************)
EXTENDS Leb128Encode, Sequences, SequencesExt

CONSTANT Bytes4  \* bytes of a type entry (DW_EH_PE_sdata4)

\* The record of the k-th clause.  It follows the record of clause k + 1 and
\* links back to it, across that record (a displacement takes one byte) and
\* its own type field; the last clause ends the chain.
ActionBytes(clauses, k) ==
  LET type == SlebOf(clauses[k])
      back == Len(type) + Len(SlebOf(clauses[k + 1])) + 1
  IN  type \o SlebOf(IF k = Len(clauses) THEN 0 ELSE -back)

ChainBytes(clauses) ==
  FlattenSeq(Reverse([k \in 1 .. Len(clauses) |-> ActionBytes(clauses, k)]))

\* Where the record of the first clause begins among those bytes.
HeadRecord(clauses) == Len(ChainBytes(clauses)) - Len(ActionBytes(clauses, 1))

ActionTable(sites) ==
  FlattenSeq([k \in 1 .. Len(sites) |-> ChainBytes(sites[k].clauses)])

\* The action field of a call site: one more than the offset of its first
\* record, 0 when it has no clauses (only a cleanup, or nothing at all).
ActionField(sites, k) ==
  IF sites[k].clauses = <<>> THEN 0
  ELSE Len(ActionTable(SubSeq(sites, 1, k - 1))) + HeadRecord(sites[k].clauses) + 1

SiteBytes(sites, k) ==
  UlebOf(4 * k) \o UlebOf(3) \o UlebOf(sites[k].pad) \o UlebOf(ActionField(sites, k))

TypeEntry(t) == [n \in 1 .. Bytes4 |-> (t \div 256^(n - 1)) % 256]

\* Type 1 is the last entry.
TypeBytes(types) == FlattenSeq(Reverse([k \in 1 .. Len(types) |-> TypeEntry(types[k])]))

Image(program) ==
  LET sites == FlattenSeq([k \in 1 .. Len(program.sites) |-> SiteBytes(program.sites, k)])
      acts  == ActionTable(program.sites)
      types == [k \in 1 .. program.align |-> 0] \o TypeBytes(program.types)
      table == <<1>> \o UlebOf(Len(sites)) \o sites \o acts \o types
  IN  <<255>> \o (IF program.types = <<>> THEN <<255>> ELSE <<155>> \o UlebOf(Len(table)))
      \o table \o program.trailer
=============================================================================
