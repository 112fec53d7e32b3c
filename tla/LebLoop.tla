------------------------------ MODULE LebLoop -------------------------------
(***************************************************************************)
(* The loops of LsdaParser::read_uleb128 and read_sleb128 one byte at a    *)
(* time, with the accumulator, the shift and the last byte the code keeps. *)
(* Leb128 gives what they return in closed form; this module is where the  *)
(* closed form is checked against the loop.                                *)
(***************************************************************************)
EXTENDS Leb128, Sequences

CONSTANT Buffers  \* the byte buffers the loop is run on

ASSUME BuffersAssumption == Buffers \subseteq Seq(Byte)

VARIABLES pc,      \* "loop", "done" or "threw"
          buf,     \* const std::vector<uint8_t>& buf
          signed,  \* TRUE in read_sleb128, FALSE in read_uleb128
          i,       \* size_t& i
          result,  \* uint64_t / int64_t result, as WordBits bits
          shift,   \* int shift
          byte     \* uint8_t byte, the last one read

vars == <<pc, buf, signed, i, result, shift, byte>>

Init ==
  /\ pc = "loop"
  /\ buf \in Buffers
  /\ signed \in BOOLEAN
  /\ i = 0
  /\ result = 0
  /\ shift = 0
  /\ byte = 0

\* Mutants: the sign is taken from the continuation bit; no sign at all.
SignExtendedByTopBit(r, s, b) ==
  IF signed /\ s < WordBits /\ b >= 128 THEN (r + WordSize - 2^s) % WordSize ELSE r

NeverSignExtended(r, s, b) == r

\* The part after the loop: the sign of the last byte is spread upwards.
SignExtended(r, s, b) ==
  IF signed /\ s < WordBits /\ b % 128 >= 64
  THEN (r + WordSize - 2^s) % WordSize
  ELSE r

\* Mutant: one more byte is let through.
OverflowsLate(s) == s > 7 * MaxLeb

Overflows(s) == s >= WordBits

\* One iteration.  read_uleb128 leaves the loop before shift += 7.  The payload lands on bits that are still zero, so the |=
\* of the code is an addition.
ReadByte ==
  /\ pc = "loop"
  /\ i < Len(buf)
  /\ LET b == buf[i + 1]
         r == (result + (b % 128) * 2^shift) % WordSize
     IN  /\ i' = i + 1
         /\ byte' = b
         /\ shift' = IF signed \/ b >= 128 THEN shift + 7 ELSE shift
         /\ \/ /\ b < 128
               /\ result' = SignExtended(r, shift', b)
               /\ pc' = "done"
            \/ /\ b >= 128
               /\ result' = r
               /\ pc' = IF Overflows(shift') THEN "threw" ELSE "loop"
  /\ UNCHANGED <<buf, signed>>

\* The buffer ends in the middle of the number: no exception, the loop stops.
EndOfBuffer ==
  /\ pc = "loop"
  /\ i >= Len(buf)
  /\ result' = SignExtended(result, shift, byte)
  /\ pc' = "done"
  /\ UNCHANGED <<buf, signed, i, shift, byte>>

Next == ReadByte \/ EndOfBuffer

Spec == Init /\ [][Next]_vars /\ WF_vars(Next)

-----------------------------------------------------------------------------
TypeOK ==
  /\ pc \in {"loop", "done", "threw"}
  /\ buf \in Seq(Byte)
  /\ signed \in BOOLEAN
  /\ i \in 0 .. Len(buf)
  /\ result \in Word
  /\ shift \in {7 * n : n \in 0 .. MaxLeb}
  /\ byte \in Byte

\* What the loop leaves in `result` and `i`, or that it throws, is what the
\* closed form of Leb128 says, on every buffer: truncated numbers, numbers
\* that fill the word exactly and numbers one byte too long included
\* (abi_parse.cpp:152-190).
LoopIsClosedForm ==
  LET r == IF signed THEN read_sleb128(buf, 0) ELSE read_uleb128(buf, 0)
  IN  /\ pc = "done"  => r = Got(result, i)
      /\ pc = "threw" => ~r.ok

Encode == INSTANCE Leb128Encode

\* A number written whole, in the shortest way, that fits the word.
Shortest(s) ==
  /\ 7 * Len(s) < WordBits
  /\ s[Len(s)] < 128
  /\ Len(s) > 1 =>
       LET top == s[Len(s)]
           low == s[Len(s) - 1] % 128 >= 64
       IN  IF signed THEN ~(top = 0 /\ ~low) /\ ~(top = 127 /\ low) ELSE top # 0

\* Decoding undoes the assembler's encoding: the number the loop returns for
\* a shortest encoding is the number whose encoding these bytes are, sign
\* included (abi_parse.cpp:186-188).
DecodeInvertsEncode ==
  LET read == SubSeq(buf, 1, i)
  IN  (pc = "done" /\ i > 0 /\ Shortest(read)) =>
        read = IF signed THEN Encode!SlebOf(Signed(result))
                         ELSE Encode!UlebOf(result)
=============================================================================
