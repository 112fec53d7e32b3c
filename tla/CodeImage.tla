----------------------------- MODULE CodeImage ------------------------------
(***************************************************************************)
(* What a compiler and a linker put into .text and .symtab, as far as      *)
(* Validator looks at it.  A function is a sequence of instructions: an    *)
(* address, for the `lea disp32(%rip)` that loads the RTTI object there    *)
(* before __cxa_throw, or a negative number, for a one-byte instruction.   *)
(* The displacement is the last field of its instruction and counts from   *)
(* the next one.  The repository has no code for it.                       *)
(***************************************************************************)
EXTENDS Integers, Sequences, SequencesExt

CONSTANT Bytes4  \* bytes of a displacement

Little(n) == [k \in 1 .. Bytes4 |-> (n \div 256^(k - 1)) % 256]

IsLea(instruction) == instruction >= 0

LengthOf(instruction) == IF IsLea(instruction) THEN 1 + Bytes4 ELSE 1

SizeOf(code) == FoldLeft(LAMBDA n, instruction : n + LengthOf(instruction), 0, code)

\* The bytes of the k-th instruction of a function at this address.
BytesOf(code, k, address) ==
  LET next == address + SizeOf(SubSeq(code, 1, k))
  IN  IF IsLea(code[k]) THEN <<141>> \o Little(code[k] - next) ELSE <<-code[k]>>

FunctionBytes(code, address) ==
  FlattenSeq([k \in 1 .. Len(code) |-> BytesOf(code, k, address)])

\* The address of the k-th function, one behind the other from the start.
AddressOf(functions, k, start) == start + SizeOf(FlattenSeq(SubSeq(functions, 1, k - 1)))

Text(functions, start) ==
  FlattenSeq([k \in 1 .. Len(functions) |->
                FunctionBytes(functions[k], AddressOf(functions, k, start))])
=============================================================================
