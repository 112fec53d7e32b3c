------------------------------- MODULE Leb128 -------------------------------
(***************************************************************************)
(* The value decoders of LsdaParser (src/src/abi_parse.cpp): fixed-width   *)
(* little-endian reads, ULEB128, SLEB128 and the DW_EH_PE dispatcher       *)
(* r_encode.  They are pure: every one takes the buffer and the cursor and *)
(* returns a reading [ok, val, next], where ok = FALSE stands for a thrown *)
(* std::runtime_error and next is the cursor after the read.               *)
(*                                                                         *)
(* The cursor counts bytes consumed, as `index` does, so the byte the code *)
(* calls data[i] is data[i + 1] here.  A uint64_t is a number below        *)
(* WordSize; the arithmetic of the code is modulo WordSize.                *)
(***************************************************************************)
EXTENDS Integers, Sequences, FiniteSetsExt

CONSTANTS WordBits,  \* bits of uint64_t: 64
          WordSize,  \* 2^WordBits
          MaxLeb,    \* bytes a LEB128 may take before shift >= WordBits: 10
          Bytes2,    \* bytes of a read16: 2
          Bytes4,    \* bytes of a read32: 4
          Bytes8     \* bytes of a read64: 8

ASSUME WordAssumption ==
  /\ WordBits \in Nat \ {0}
  /\ WordSize \in Nat \ {0}
  /\ WordSize = 2^WordBits
  /\ 255 < WordSize
  /\ MaxLeb \in Nat \ {0}
  /\ 7 * (MaxLeb - 1) < WordBits
  /\ WordBits <= 7 * MaxLeb
  /\ {Bytes2, Bytes4, Bytes8} \subseteq Nat \ {0}

Byte == 0 .. 255
Word == 0 .. WordSize - 1
Ones == WordSize - 1  \* every bit set

\* The encoding byte that says "this value is omitted".
Omit == 255

Got(v, n)   == [ok |-> TRUE, val |-> v, next |-> n]
Threw(data) == [ok |-> FALSE, val |-> 0, next |-> Len(data)]
Reading     == [ok : BOOLEAN, val : Word, next : Nat]

\* static_cast<int64_t>
Signed(w) == IF 2 * w >= WordSize THEN w - WordSize ELSE w

-----------------------------------------------------------------------------
\* The bytes consumed between cursors i and e as digits of a little-endian
\* number in the given base, above which every bit repeats fill (0 or Ones).
LittleEndian(data, i, e, base, fill) ==
  LET v[k \in i .. e] ==
        IF k = e THEN fill
                 ELSE ((data[k + 1] % base) + base * v[k + 1]) % WordSize
  IN  v[i]

FixedWidth(data, i, n, signed) ==
  IF i + n > Len(data)
  THEN Threw(data)
  ELSE Got(LittleEndian(data, i, i + n, 256,
                        IF signed /\ data[i + n] >= 128 THEN Ones ELSE 0),
           i + n)

read8(data, i) == IF i < Len(data) THEN Got(data[i + 1], i + 1) ELSE Threw(data)

\* Mutant: a number cut by the end of the buffer gives its bytes back.
LebEndRewinds(data, i) ==
  LET last == {k \in i + 1 .. Len(data) : data[k] < 128}
  IN  IF last = {} THEN i ELSE Min(last)

\* The cursor where a LEB128 that starts at i ends: after its first byte
\* without a continuation bit, or at the end of the buffer.
LebEnd(data, i) ==
  LET last == {k \in i + 1 .. Len(data) : data[k] < 128}
  IN  IF last = {} THEN Len(data) ELSE Min(last)

\* shift has reached the width of the word and the number still goes on.
LebOverflow(data, i) ==
  /\ i + MaxLeb <= Len(data)
  /\ \A k \in i + 1 .. i + MaxLeb : data[k] >= 128

read_uleb128(data, i) ==
  IF LebOverflow(data, i)
  THEN Threw(data)
  ELSE LET e == LebEnd(data, i)
       IN  Got(LittleEndian(data, i, e, 128, 0), e)

\* The sign bit is that of the last byte consumed, and it is spread only
\* while shift is below the width: not after MaxLeb bytes.
SignFill(data, i, e) ==
  IF /\ i < e
     /\ e - i < MaxLeb
     /\ data[e] % 128 >= 64
  THEN Ones ELSE 0

\* The 64 bits of the int64_t that read_sleb128 returns; Signed gives its value.
read_sleb128(data, i) ==
  IF LebOverflow(data, i)
  THEN Threw(data)
  ELSE LET e == LebEnd(data, i)
       IN  Got(LittleEndian(data, i, e, 128, SignFill(data, i, e)), e)

-----------------------------------------------------------------------------
Form(enc)       == enc % 16
IsPcRel(enc)    == (enc \div 16) % 8 = 1

r_encode(data, i, enc, pcrel) ==
  LET raw == CASE Form(enc) \in {0, 4, 12} -> FixedWidth(data, i, Bytes8, FALSE)
               [] Form(enc) = 1            -> read_uleb128(data, i)
               [] Form(enc) = 2            -> FixedWidth(data, i, Bytes2, FALSE)
               [] Form(enc) = 3            -> FixedWidth(data, i, Bytes4, FALSE)
               [] Form(enc) = 9            -> read_sleb128(data, i)
               [] Form(enc) = 11           -> FixedWidth(data, i, Bytes4, TRUE)
               [] OTHER                    -> Threw(data)
  IN  IF enc = Omit
      THEN Got(0, i)
      ELSE [raw EXCEPT !.val = IF IsPcRel(enc) THEN (@ + pcrel) % WordSize ELSE @]
=============================================================================
