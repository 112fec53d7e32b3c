---------------------------- MODULE LebLoopProofs ----------------------------
(***************************************************************************)
(* The loops of read_uleb128 and read_sleb128 compute the closed forms of  *)
(* Leb128, and what they compute of the shortest encoding of a number is   *)
(* that number, for every buffer and every word size.                      *)
(***************************************************************************)
EXTENDS LebLoop, Leb128Proofs

\* The loop has read i continued bytes, and whatever bits are still to come
\* are to be put above the 7 * i it has accumulated.
Accumulated ==
  pc = "loop" =>
    /\ i < MaxLeb
    /\ shift = 7 * i
    /\ \A k \in 1 .. i : buf[k] >= 128
    /\ byte = IF i = 0 THEN 0 ELSE buf[i]
    /\ \A fill \in Word :
         LittleEndian(buf, 0, i, 128, fill) = (result + 2^shift * fill) % WordSize

IInv == TypeOK /\ Accumulated /\ LoopIsClosedForm

-----------------------------------------------------------------------------
\* A word is its own remainder.
LEMMA WordMod ==
  ASSUME NEW w \in Word
  PROVE  w % WordSize = w
<1>1. w \in Int /\ WordSize \in Nat \ {0} /\ w \in 0 .. WordSize - 1
  BY WordAssumption DEF Word
<1>2. w \div WordSize \in Int /\ w % WordSize \in 0 .. WordSize - 1
      /\ w = WordSize * (w \div WordSize) + (w % WordSize)
  BY <1>1, DivMod
<1>3. WordSize * (w \div WordSize) + (w % WordSize) = WordSize * 0 + w
  BY <1>1, <1>2
<1>. QED BY <1>1, <1>2, <1>3, DivModUnique

\* Nothing above the shift leaves the word alone; ones above the shift are the
\* -(1 << shift) of read_sleb128.
LEMMA Fills ==
  ASSUME NEW r \in Word, NEW s \in Nat
  PROVE  /\ (r + 2^s * 0) % WordSize = r
         /\ (r + 2^s * Ones) % WordSize = (r + WordSize - 2^s) % WordSize
<1>1. r \in Int /\ WordSize \in Nat \ {0}
  BY WordAssumption DEF Word
<1> DEFINE p == 2^s
<1>2. p \in Nat \ {0}
  BY SevenBits
<1> HIDE DEF p
<1>3. (r + p * 0) % WordSize = r
  BY <1>1, <1>2, WordMod, r + p * 0 = r
<1>4. (r + p * Ones) % WordSize = (r + WordSize - p) % WordSize
  <2>1. r + WordSize - p \in Int /\ p - 1 \in Int
    BY <1>1, <1>2
  <2>2. r + p * Ones = (r + WordSize - p) + WordSize * (p - 1)
    BY <1>1, <1>2 DEF Ones
  <2>. QED BY <1>1, <2>1, <2>2, ModShift
<1>. QED BY <1>3, <1>4 DEF p

\* While fewer than MaxLeb bytes are in, the shift is below the width of the
\* word, and with MaxLeb bytes it is not.
LEMMA ShiftBelowWidth ==
  ASSUME NEW n \in 0 .. MaxLeb
  PROVE  7 * n < WordBits <=> n < MaxLeb
<1>1. CASE n < MaxLeb
  BY <1>1, WordAssumption
<1>2. CASE ~(n < MaxLeb)
  <2>1. n = MaxLeb
    BY <1>2, WordAssumption
  <2>. QED BY <2>1, WordAssumption
<1>. QED BY <1>1, <1>2

\* The constants a proof of the loop needs as members of a type.
LEMMA LoopTypes ==
  /\ WordBits \in Nat \ {0}
  /\ MaxLeb \in Nat \ {0}
  /\ WordSize \in Nat \ {0}
  /\ Word \subseteq Nat
  /\ 0 \in Word
  /\ Ones \in Word
BY WordAssumption DEF Word, Ones

\* A further byte: its payload goes to the shift, and the bits above it seven
\* higher.
LEMMA PayloadAdded ==
  ASSUME NEW data \in Seq(Byte), NEW n \in 0 .. Len(data) - 1,
         NEW r \in Word, NEW s \in Nat,
         \A fill \in Word :
           LittleEndian(data, 0, n, 128, fill) = (r + 2^s * fill) % WordSize
  PROVE  LET more == (r + (data[n + 1] % 128) * 2^s) % WordSize
         IN  /\ more \in Word
             /\ \A fill \in Word :
                  LittleEndian(data, 0, n + 1, 128, fill)
                    = (more + 2^(s + 7) * fill) % WordSize
<1> DEFINE d == data[n + 1] % 128
           p == 2^s
           q == 2^(s + 7)
           more == (r + d * p) % WordSize
<1>1. d \in Int
  <2>1. data[n + 1] \in Byte
    OBVIOUS
  <2>. QED BY <2>1, ByteType
<1>2. p \in Nat \ {0} /\ q = 128 * p
  BY SevenBits
<1>3. r \in Int /\ WordSize \in Nat \ {0}
  BY LoopTypes
<1> HIDE DEF d, p, q
<1>4. d * p \in Int /\ r + d * p \in Int
  BY <1>1, <1>2, <1>3
<1>5. more \in Word
  BY <1>4, ModWord
<1>6. ASSUME NEW fill \in Word
      PROVE  LittleEndian(data, 0, n + 1, 128, fill) = (more + q * fill) % WordSize
  <2> DEFINE x == d + 128 * fill
             top == x % WordSize
  <2>1. fill \in Int /\ x \in Int
    BY <1>1, LoopTypes
  <2>2. top \in Word /\ LittleEndian(data, 0, n + 1, 128, fill) = LittleEndian(data, 0, n, 128, top)
    <3>1. 0 \in 0 .. n /\ 128 \in Nat \ {0}
      OBVIOUS
    <3>. QED BY <3>1, LittleEndianExtended DEF d
  <2>3. LittleEndian(data, 0, n, 128, top) = (r + p * top) % WordSize
    BY <2>2 DEF p
  <2> HIDE DEF x
  <2>4. (r + p * top) % WordSize = (r + p * x) % WordSize
    <3>1. p \in Int
      BY <1>2
    <3>2. PICK w \in Nat \ {0} : w = WordSize
      BY <1>3
    <3> DEFINE a == x \div w
               y == x % w
               z == r + p * y
    <3>3. a \in Int /\ y \in 0 .. w - 1 /\ x = w * a + y
      <4> HIDE DEF x
      <4>. QED BY <2>1, <3>2, DivMod
    <3> HIDE DEF a, y
    <3>4. z \in Int /\ z = r + p * y
      BY <1>3, <3>1, <3>3
    <3> HIDE DEF z
    <3>5. r + p * x = z + w * (p * a) /\ p * a \in Int
      BY <1>3, <3>1, <3>2, <3>3, <3>4
    <3>6. (z + w * (p * a)) % w = z % w
      BY <3>4, <3>5, ModShift
    <3>. QED BY <3>2, <3>4, <3>5, <3>6 DEF y
  <2>5. r + p * x = (r + d * p) + q * fill /\ q * fill \in Int
    BY <1>1, <1>2, <1>3, <2>1 DEF x
  <2>6. (more + q * fill) % WordSize = ((r + d * p) + q * fill) % WordSize
    BY <1>3, <1>4, <2>5, ModSum
  <2>. QED BY <2>2, <2>3, <2>4, <2>5, <2>6
<1>. QED BY <1>5, <1>6 DEF d, p, q

-----------------------------------------------------------------------------
\* The closed forms when the bytes up to n are continued and the number ends
\* at e: with the byte behind them, or because the buffer does.
LEMMA LebEnds ==
  ASSUME NEW data \in Seq(Byte), NEW n \in 0 .. Len(data), n < MaxLeb,
         \A k \in 1 .. n : data[k] >= 128, NEW e \in n .. n + 1,
         \/ n < Len(data) /\ e = n + 1 /\ data[e] < 128
         \/ n = Len(data) /\ e = n
  PROVE  ~LebOverflow(data, 0) /\ LebEnd(data, 0) = e
<1> DEFINE last == {k \in 0 + 1 .. Len(data) : data[k] < 128}
<1>1. \A k \in 1 .. Len(data) : data[k] \in Int
  <2>1. \A k \in 1 .. Len(data) : data[k] \in Byte
    OBVIOUS
  <2>. QED BY <2>1, ByteType
<1>2. CASE n < Len(data) /\ e = n + 1 /\ data[e] < 128
  <2>1. e \in last /\ last \in SUBSET Nat
    BY <1>2
  <2>2. \A k \in last : e <= k
    BY <1>1, <1>2
  <2>3. Min(last) \in last /\ Min(last) <= e
    <3> HIDE DEF last
    <3>. QED BY <2>1, MinOfNaturals
  <2>4. Min(last) = e
    <3> HIDE DEF last
    <3>1. e \in Nat /\ Min(last) \in Nat
      BY <2>1, <2>3
    <3>. QED BY <2>2, <2>3, <3>1
  <2>5. LebEnd(data, 0) = e
    BY <2>1, <2>4 DEF LebEnd
  <2>6. ~LebOverflow(data, 0)
    <3>1. e \in 0 + 1 .. 0 + MaxLeb /\ e \in 1 .. Len(data)
      BY <1>2, LoopTypes
    <3>. QED BY <1>1, <1>2, <3>1 DEF LebOverflow
  <2>. QED BY <2>5, <2>6
<1>3. CASE n = Len(data) /\ e = n
  <2>1. last = {}
    BY <1>1, <1>3
  <2>2. LebEnd(data, 0) = e
    BY <1>3, <2>1 DEF LebEnd
  <2>3. ~LebOverflow(data, 0)
    BY <1>3, LoopTypes DEF LebOverflow
  <2>. QED BY <2>2, <2>3
<1>. QED BY <1>2, <1>3

\* The sign step of the loop is the fill of the closed form.
LEMMA SignIsFill ==
  ASSUME NEW data \in Seq(Byte), NEW e \in 0 .. Len(data), e <= MaxLeb,
         NEW r \in Word, NEW b \in Byte, b = IF e = 0 THEN 0 ELSE data[e],
         \A fill \in Word :
           LittleEndian(data, 0, e, 128, fill) = (r + 2^(7 * e) * fill) % WordSize,
         NEW s, signed => s = 7 * e, signed \in BOOLEAN
  PROVE  /\ SignExtended(r, s, b) \in Word
         /\ SignExtended(r, s, b) =
              LittleEndian(data, 0, e, 128, IF signed THEN SignFill(data, 0, e) ELSE 0)
<1>1. 7 * e \in Nat /\ e \in 0 .. MaxLeb
  BY LoopTypes
<1>2. /\ LittleEndian(data, 0, e, 128, 0) = r
      /\ LittleEndian(data, 0, e, 128, Ones) = (r + WordSize - 2^(7 * e)) % WordSize
  <2>1. /\ (r + 2^(7 * e) * 0) % WordSize = r
        /\ (r + 2^(7 * e) * Ones) % WordSize = (r + WordSize - 2^(7 * e)) % WordSize
    <3>1. PICK s7 \in Nat : s7 = 7 * e
      BY <1>1
    <3>. QED BY <3>1, Fills
  <2>2. 0 \in Word /\ Ones \in Word
    BY LoopTypes
  <2>. QED BY <2>1, <2>2
<1>3. (r + WordSize - 2^(7 * e)) % WordSize \in Word
  <2>1. 2^(7 * e) \in Nat
    BY <1>1, SevenBits
  <2>2. r + WordSize - 2^(7 * e) \in Int
    BY <2>1, LoopTypes
  <2>. QED BY <2>2, ModWord
<1>4. CASE ~signed
  BY <1>2, <1>4 DEF SignExtended
<1>5. CASE signed
  <2>1. s < WordBits <=> e < MaxLeb
    BY <1>1, <1>5, ShiftBelowWidth
  <2>2. CASE e = 0
    BY <1>2, <1>5, <2>2 DEF SignExtended, SignFill
  <2>3. CASE e # 0
    <3>1. 0 < e /\ e - 0 = e /\ b = data[e]
      BY <2>3
    <3>. QED BY <1>2, <1>3, <1>5, <2>1, <3>1 DEF SignExtended, SignFill
  <2>. QED BY <2>2, <2>3
<1>. QED BY <1>4, <1>5

-----------------------------------------------------------------------------
LEMMA InitInv == Init => IInv
<1> SUFFICES ASSUME Init PROVE IInv
  OBVIOUS
<1>1. buf \in Seq(Byte) /\ 0 \in 0 .. Len(buf)
  BY BuffersAssumption DEF Init
<1>2. TypeOK
  BY <1>1, LoopTypes, 0 \in 0 .. MaxLeb, 7 * 0 = 0 DEF Init, TypeOK, Byte
<1>3. Accumulated
  <2>1. ASSUME NEW fill \in Word
        PROVE  LittleEndian(buf, 0, 0, 128, fill) = (0 + 2^0 * fill) % WordSize
    <3>1. 2^0 = 1 /\ fill \in Int
      BY LoopTypes
    <3>2. 0 + 2^0 * fill = fill
      BY <3>1
    <3>3. LittleEndian(buf, 0, 0, 128, fill) = fill
      BY <1>1, LittleEndianEmpty, 128 \in Nat \ {0}
    <3>. QED BY <3>2, <3>3, WordMod
  <2>. QED BY <2>1, LoopTypes DEF Init, Accumulated
<1>4. LoopIsClosedForm
  BY DEF Init, LoopIsClosedForm
<1>. QED BY <1>2, <1>3, <1>4 DEF IInv

LEMMA StepInv == IInv /\ [Next]_vars => IInv'
<1> SUFFICES ASSUME IInv, [Next]_vars PROVE IInv'
  OBVIOUS
<1> DEFINE Read == IF signed THEN read_sleb128(buf, 0) ELSE read_uleb128(buf, 0)
<1>1. CASE UNCHANGED vars
  BY <1>1 DEF IInv, vars, TypeOK, Accumulated, LoopIsClosedForm
<1>2. CASE pc = "loop" /\ Next
  <2>1. /\ buf \in Seq(Byte) /\ signed \in BOOLEAN /\ result \in Word /\ byte \in Byte
        /\ i \in 0 .. Len(buf) /\ i < MaxLeb /\ i \in 0 .. MaxLeb /\ shift = 7 * i
        /\ \A k \in 1 .. i : buf[k] >= 128
        /\ byte = IF i = 0 THEN 0 ELSE buf[i]
        /\ \A fill \in Word :
             LittleEndian(buf, 0, i, 128, fill) = (result + 2^shift * fill) % WordSize
    <3>1. i \in 0 .. Len(buf) /\ i < MaxLeb => i \in 0 .. MaxLeb
      BY LoopTypes
    <3>. QED BY <1>2, <3>1 DEF IInv, TypeOK, Accumulated
  \* What is left to show where the loop ends with a result.
  <2>2. ASSUME NEW e \in 0 .. Len(buf), ~LebOverflow(buf, 0), LebEnd(buf, 0) = e
        PROVE  Read = Got(LittleEndian(buf, 0, e, 128,
                                       IF signed THEN SignFill(buf, 0, e) ELSE 0), e)
    BY <2>2, <2>1 DEF read_sleb128, read_uleb128
  <2>3. CASE EndOfBuffer
    <3>1. i = Len(buf)
      BY <2>1, <2>3 DEF EndOfBuffer
    <3>2. ~LebOverflow(buf, 0) /\ LebEnd(buf, 0) = i
      BY <2>1, <3>1, i \in i .. i + 1, LebEnds
    <3>3. /\ SignExtended(result, shift, byte) \in Word
          /\ SignExtended(result, shift, byte) =
               LittleEndian(buf, 0, i, 128, IF signed THEN SignFill(buf, 0, i) ELSE 0)
      BY <2>1, i <= MaxLeb, LoopTypes, SignIsFill
    <3>4. Read = Got(result', i)
      BY <2>1, <2>2, <2>3, <3>2, <3>3 DEF EndOfBuffer
    <3>5. TypeOK'
      BY <2>3, <3>3 DEF IInv, TypeOK, EndOfBuffer
    <3>6. Accumulated' /\ LoopIsClosedForm'
      BY <2>3, <3>4 DEF Accumulated, LoopIsClosedForm, EndOfBuffer
    <3>. QED BY <3>5, <3>6 DEF IInv
  <2>4. CASE ReadByte
    <3> DEFINE b == buf[i + 1]
               r == (result + (b % 128) * 2^shift) % WordSize
    <3>1. /\ i \in 0 .. Len(buf) - 1 /\ i + 1 \in 1 .. Len(buf) /\ i + 1 \in 0 .. MaxLeb
          /\ b \in Byte /\ b \in Int /\ shift \in Nat /\ shift + 7 = 7 * (i + 1)
      <4>1. i < Len(buf)
        BY <2>4 DEF ReadByte
      <4>2. i + 1 \in 1 .. Len(buf) /\ i \in 0 .. Len(buf) - 1
        BY <2>1, <4>1
      <4>3. b \in Byte /\ b \in Int
        <5>1. buf \in Seq(Byte) /\ i + 1 \in 1 .. Len(buf)
          BY <2>1, <4>2
        <5>2. b \in Byte
          BY <5>1
        <5>. QED BY <5>2, ByteType
      <4>4. i + 1 \in 0 .. MaxLeb /\ shift \in Nat /\ shift + 7 = 7 * (i + 1)
        BY <2>1, LoopTypes
      <4>. QED BY <4>2, <4>3, <4>4
    <3>2. /\ r \in Word
          /\ \A fill \in Word :
               LittleEndian(buf, 0, i + 1, 128, fill)
                 = (r + 2^(7 * (i + 1)) * fill) % WordSize
      BY <2>1, <3>1, PayloadAdded
    <3>3. /\ i' = i + 1 /\ byte' = b /\ buf' = buf /\ signed' = signed
          /\ shift' = IF signed \/ b >= 128 THEN shift + 7 ELSE shift
          /\ \/ b < 128 /\ result' = SignExtended(r, shift', b) /\ pc' = "done"
             \/ b >= 128 /\ result' = r /\ pc' = IF Overflows(shift') THEN "threw" ELSE "loop"
      BY <2>4 DEF ReadByte
    <3> HIDE DEF b, r
    <3>4. b = buf[i + 1]
      BY DEF b
    <3>5. shift' \in {7 * n : n \in 0 .. MaxLeb}
      BY <2>1, <3>1, <3>3
    <3>6. i' \in 0 .. Len(buf') /\ byte' \in Byte /\ i + 1 \in 0 .. Len(buf) /\ i + 1 <= MaxLeb
      BY <3>1, <3>3
    <3>7. CASE b < 128
      <4>1. ~LebOverflow(buf, 0) /\ LebEnd(buf, 0) = i + 1
        BY <2>1, <3>1, <3>4, <3>7, i + 1 \in i .. i + 1, i < Len(buf), LebEnds
      <4>2. /\ SignExtended(r, shift', b) \in Word
            /\ SignExtended(r, shift', b) =
                 LittleEndian(buf, 0, i + 1, 128,
                              IF signed THEN SignFill(buf, 0, i + 1) ELSE 0)
        <5>1. i + 1 # 0 /\ (signed => shift' = 7 * (i + 1))
          BY <3>1, <3>3
        <5>2. b = IF i + 1 = 0 THEN 0 ELSE buf[i + 1]
          BY <3>4, <5>1
        <5>. QED BY <2>1, <3>1, <3>2, <3>6, <5>1, <5>2, SignIsFill
      <4>3. result' = SignExtended(r, shift', b) /\ pc' = "done"
        BY <3>1, <3>3, <3>7
      <4>4. Read = Got(result', i')
        BY <2>2, <3>3, <3>6, <4>1, <4>2, <4>3
      <4>5. TypeOK'
        BY <2>1, <3>3, <3>5, <3>6, <4>2, <4>3 DEF TypeOK
      <4>6. Accumulated' /\ LoopIsClosedForm'
        BY <3>3, <4>3, <4>4 DEF Accumulated, LoopIsClosedForm
      <4>. QED BY <4>5, <4>6 DEF IInv
    <3>8. CASE b >= 128
      <4>1. /\ result' = r /\ shift' = 7 * (i + 1)
            /\ pc' = IF 7 * (i + 1) >= WordBits THEN "threw" ELSE "loop"
        BY <3>1, <3>3, <3>8 DEF Overflows
      <4>2. \A k \in 1 .. i + 1 : buf[k] >= 128
        <5>1. \A k \in 1 .. i + 1 : k = i + 1 \/ k \in 1 .. i
          BY <3>1
        <5>. QED BY <2>1, <3>4, <3>8, <5>1
      <4>3. TypeOK'
        BY <2>1, <3>2, <3>3, <3>5, <3>6, <4>1 DEF TypeOK
      <4>4. CASE 7 * (i + 1) < WordBits
        <5>1. pc' = "loop" /\ i + 1 < MaxLeb
          BY <3>1, <4>1, <4>4, LoopTypes, ShiftBelowWidth
        <5>2. byte' = IF i + 1 = 0 THEN 0 ELSE buf[i + 1]
          BY <3>1, <3>3, <3>4
        <5>3. Accumulated'
          BY <3>2, <3>3, <4>1, <4>2, <5>1, <5>2 DEF Accumulated
        <5>4. LoopIsClosedForm'
          BY <5>1 DEF LoopIsClosedForm
        <5>. QED BY <4>3, <5>3, <5>4 DEF IInv
      <4>5. CASE ~(7 * (i + 1) < WordBits)
        <5>1. pc' = "threw" /\ i + 1 = MaxLeb
          BY <3>1, <4>1, <4>5, LoopTypes, ShiftBelowWidth
        <5>2. LebOverflow(buf, 0)
          BY <3>1, <4>2, <5>1 DEF LebOverflow
        <5>3. Read = Threw(buf)
          BY <5>2 DEF read_uleb128, read_sleb128
        <5>4. Accumulated' /\ LoopIsClosedForm'
          BY <3>3, <5>1, <5>3 DEF Accumulated, LoopIsClosedForm, Threw
        <5>. QED BY <4>3, <5>4 DEF IInv
      <4>. QED BY <4>4, <4>5
    <3>. QED BY <3>1, <3>7, <3>8
  <2>. QED BY <1>2, <2>3, <2>4 DEF Next
<1>3. Next => pc = "loop"
  BY DEF Next, ReadByte, EndOfBuffer
<1>. QED BY <1>1, <1>2, <1>3

LEMMA Invariant == Spec => []IInv
<1>. QED BY InitInv, StepInv, PTL DEF Spec

\* The loop keeps its variables in range: the accumulator is a word, and the
\* shift is never above seven times the bytes a number may have, so that
\* `1 << shift` below the width check is defined (abi_parse.cpp:152-190).
THEOREM TypeCorrect == Spec => []TypeOK
<1>1. IInv => TypeOK
  BY DEF IInv
<1>. QED BY <1>1, Invariant, PTL

\* The loops of read_uleb128 and read_sleb128 return what the closed forms of
\* Leb128, which every other module uses, say they return, and throw where
\* these do (abi_parse.cpp:152-190).
THEOREM ClosedForm == Spec => []LoopIsClosedForm
<1>1. IInv => LoopIsClosedForm
  BY DEF IInv
<1>. QED BY <1>1, Invariant, PTL

-----------------------------------------------------------------------------
\* r is the number whose n digits are the payloads of the first n bytes.
HasDigits(r, s, n) ==
  /\ r \in 0 .. 2^(7 * n) - 1
  /\ \A k \in 1 .. n : DigitOf(r, k - 1) = s[k] % 128

\* The bytes 1 .. n are written as one number: all but the last are continued.
OneNumber(s, n) == s[n] < 128 /\ \A k \in 1 .. n - 1 : s[k] >= 128

\* The payload of a byte, and its continuation bit.
LEMMA Payload ==
  ASSUME NEW b \in Byte
  PROVE  /\ b \in Nat /\ b % 128 \in 0 .. 127
         /\ b < 128 => b = b % 128
         /\ b >= 128 => b = (b % 128) + 128
BY DEF Byte

\* A further byte is a further digit.
LEMMA DigitAdded ==
  ASSUME NEW s \in Seq(Byte), NEW n \in 0 .. Len(s) - 1, NEW r, HasDigits(r, s, n)
  PROVE  HasDigits(r + (s[n + 1] % 128) * 2^(7 * n), s, n + 1)
<1> DEFINE c == s[n + 1] % 128
           p == 2^(7 * n)
           x == r + c * p
<1>1. n \in Nat /\ 7 * n \in Nat /\ 7 * (n + 1) = 7 * n + 7
  OBVIOUS
<1>2. p \in Nat \ {0} /\ 2^(7 * (n + 1)) = 128 * p
  BY <1>1, SevenBits
<1>3. c \in 0 .. 127
  <2>1. s[n + 1] \in Byte
    OBVIOUS
  <2>. QED BY <2>1, Payload
<1>4. r \in 0 .. p - 1
  BY DEF HasDigits
<1> HIDE DEF c, p
<1>5. c * p \in Nat /\ c * p <= 127 * p
  BY <1>2, <1>3
<1>6. x \in 0 .. 128 * p - 1
  BY <1>2, <1>4, <1>5
<1>7. ASSUME NEW k \in 1 .. n
      PROVE  DigitOf(x, k - 1) = s[k] % 128
  <2> DEFINE m == k - 1
  <2>1. m \in Nat /\ m < n /\ r \in Int /\ c \in Int
    BY <1>1, <1>2, <1>3, <1>4
  <2> HIDE DEF m
  <2>2. DigitOf(r + c * 2^(7 * n), m) = DigitOf(r, m)
    BY <1>1, <2>1, DigitBelow
  <2>3. DigitOf(x, m) = DigitOf(r, m)
    BY <2>2 DEF p
  <2>. QED BY <2>3 DEF HasDigits, m
<1>8. DigitOf(x, (n + 1) - 1) = c
  <2> DEFINE q == x \div p
             m == x % p
  <2>1. (n + 1) - 1 = n
    BY <1>1
  <2>2. q \in Int /\ m \in 0 .. p - 1 /\ x = p * q + m
    <3> HIDE DEF x
    <3>1. x \in Int
      BY <1>2, <1>6
    <3>. QED BY <1>2, <3>1, DivMod
  <2>3. x = p * c + r
    BY <1>2, <1>3, <1>4
  <2> HIDE DEF x, q, m
  <2>4. q = c
    BY <1>2, <1>3, <1>4, <2>2, <2>3, DivModUnique
  <2>5. c % 128 = c
    BY <1>3
  <2>. QED BY <2>1, <2>4, <2>5 DEF q, p, DigitOf
<1> HIDE DEF x
<1>9. ASSUME NEW k \in 1 .. n + 1
      PROVE  DigitOf(x, k - 1) = s[k] % 128
  <2>1. k \in 1 .. n \/ k = n + 1
    BY <1>1
  <2>. QED BY <1>7, <1>8, <2>1 DEF c
<1>10. HasDigits(x, s, n + 1)
  BY <1>2, <1>6, <1>9 DEF HasDigits
<1>. QED BY <1>10 DEF x, c, p

-----------------------------------------------------------------------------
\* The least length that will do.
LEMMA LeastLength ==
  ASSUME NEW S \in SUBSET (1 .. MaxLeb), NEW n \in S, \A d \in 1 .. n - 1 : d \notin S
  PROVE  Encode!Min(S) = n
<1>1. S \in SUBSET Nat /\ MaxLeb \in Nat
  BY LoopTypes
<1>2. \A d \in S : n <= d
  BY <1>1
<1>3. n \in Nat
  BY <1>1
<1>4. Encode!Min(S) \in S /\ \A d \in S : Encode!Min(S) <= d
  <2>1. PICK m \in S : \A d \in S : m <= d
    BY <1>1, LeastNatural
  <2>. QED BY <2>1 DEF Encode!Min
<1>5. Encode!Min(S) \in Nat
  BY <1>1, <1>4
<1>. QED BY <1>2, <1>3, <1>4, <1>5

\* A number with a digit other than 0 on top takes as many bytes as digits.
LEMMA UlebLength ==
  ASSUME NEW n \in 1 .. MaxLeb, NEW v \in Nat, v < 2^(7 * n),
         n > 1 => 2^(7 * (n - 1)) <= v
  PROVE  Encode!UlebOf(v) = Encode!Digits(v, n)
<1> DEFINE S == {d \in 1 .. MaxLeb : v < 2^(7 * d)}
<1>1. n \in S /\ S \in SUBSET (1 .. MaxLeb)
  OBVIOUS
<1>2. ASSUME NEW d \in 1 .. n - 1 PROVE d \notin S
  <2>1. 7 * d \in Nat /\ 7 * (n - 1) \in Nat /\ 7 * d <= 7 * (n - 1) /\ n > 1
    BY LoopTypes
  <2>2. 2^(7 * d) <= 2^(7 * (n - 1)) /\ 2^(7 * d) \in Nat /\ 2^(7 * (n - 1)) \in Nat
    BY <2>1, Doubling, PowerMonotone
  <2>3. ~(v < 2^(7 * d))
    BY <2>1, <2>2
  <2>. QED BY <2>3
<1>3. Encode!Min(S) = n
  <2> HIDE DEF S
  <2>. QED BY <1>1, <1>2, LeastLength
<1>. QED BY <1>3 DEF Encode!UlebOf

\* A number outside the range of one digit less takes as many bytes as digits.
LEMMA SlebLength ==
  ASSUME NEW n \in 1 .. MaxLeb, NEW v \in Int,
         -(2^(7 * n - 1)) <= v, v < 2^(7 * n - 1),
         n > 1 => 2^(7 * (n - 1) - 1) <= v \/ v < -(2^(7 * (n - 1) - 1))
  PROVE  Encode!SlebOf(v) = Encode!Digits(v, n)
<1> DEFINE S == {d \in 1 .. MaxLeb : -(2^(7 * d - 1)) <= v /\ v < 2^(7 * d - 1)}
<1>1. n \in S /\ S \in SUBSET (1 .. MaxLeb)
  OBVIOUS
<1>2. ASSUME NEW d \in 1 .. n - 1 PROVE d \notin S
  <2>1. 7 * d - 1 \in Nat /\ 7 * (n - 1) - 1 \in Nat /\ 7 * d - 1 <= 7 * (n - 1) - 1 /\ n > 1
    BY LoopTypes
  <2>2. /\ 2^(7 * d - 1) <= 2^(7 * (n - 1) - 1)
        /\ 2^(7 * d - 1) \in Nat /\ 2^(7 * (n - 1) - 1) \in Nat
    BY <2>1, Doubling, PowerMonotone
  <2>3. ~(-(2^(7 * d - 1)) <= v /\ v < 2^(7 * d - 1))
    BY <2>1, <2>2
  <2>. QED BY <2>3
<1>3. Encode!Min(S) = n
  <2> HIDE DEF S
  <2>. QED BY <1>1, <1>2, LeastLength
<1>. QED BY <1>3 DEF Encode!SlebOf

\* The bytes of one number are its digits with the continuation bits.
LEMMA BytesAreDigits ==
  ASSUME NEW s \in Seq(Byte), NEW n \in Nat \ {0}, Len(s) = n, OneNumber(s, n), NEW v \in Int,
         \A k \in 1 .. n : DigitOf(v, k - 1) = s[k] % 128
  PROVE  s = Encode!Digits(v, n)
<1>1. ASSUME NEW k \in 1 .. n
      PROVE  s[k] = ((v \div 2^(7 * (k - 1))) % 128) + IF k < n THEN 128 ELSE 0
  <2>1. s[k] \in Byte
    OBVIOUS
  <2> USE DEF DigitOf
  <2>2. CASE k < n
    <3>1. k \in 1 .. n - 1
      BY <2>2
    <3>2. s[k] >= 128
      BY <3>1 DEF OneNumber
    <3>3. s[k] = (s[k] % 128) + 128
      BY <2>1, <3>2, Payload
    <3>. QED BY <2>2, <3>3
  <2>3. CASE ~(k < n)
    <3>1. k = n /\ s[k] < 128
      BY <2>3 DEF OneNumber
    <3>2. s[k] = (s[k] % 128) + 0
      BY <2>1, <3>1, Payload
    <3>. QED BY <2>3, <3>2
  <2>. QED BY <2>2, <2>3
<1>2. s = [k \in 1 .. n |-> s[k]]
  OBVIOUS
<1>. QED BY <1>1, <1>2 DEF Encode!Digits

\* Half of a power of 128.
LEMMA HalfPower ==
  ASSUME NEW n \in Nat \ {0}
  PROVE  /\ 2^(7 * (n - 1)) \in Nat \ {0}
         /\ 2^(7 * n) = 128 * 2^(7 * (n - 1))
         /\ 2^(7 * n - 1) = 64 * 2^(7 * (n - 1))
<1>1. 7 * (n - 1) \in Nat /\ 7 * (n - 1) + 7 = 7 * n /\ 7 * n - 1 \in Nat /\ (7 * n - 1) + 1 = 7 * n
  OBVIOUS
<1> DEFINE p == 2^(7 * (n - 1))
           h == 2^(7 * n - 1)
<1>2. p \in Nat \ {0} /\ 2^(7 * n) = 128 * p
  BY <1>1, SevenBits
<1>3. h \in Nat /\ 2^(7 * n) = 2 * h
  BY <1>1, Doubling
<1> HIDE DEF p, h
<1>4. h = 64 * p
  BY <1>2, <1>3
<1>. QED BY <1>2, <1>4 DEF p, h

\* The last byte of one number is its top digit.
LEMMA LastByte ==
  ASSUME NEW s \in Seq(Byte), NEW n \in Nat \ {0}, Len(s) = n, OneNumber(s, n),
         NEW r, HasDigits(r, s, n)
  PROVE  LET p == 2^(7 * (n - 1))
         IN  /\ s[n] \in 0 .. 127 /\ r \in Nat
             /\ p * s[n] <= r /\ r < p * (s[n] + 1)
             /\ r \div p = s[n]
<1> DEFINE p   == 2^(7 * (n - 1))
           top == r \div p
           rest == r % p
<1>1. n - 1 \in Nat /\ (n - 1) + 1 = n /\ n \in 1 .. n
  OBVIOUS
<1>2. r \in 0 .. 2^(7 * ((n - 1) + 1)) - 1
  BY <1>1 DEF HasDigits
<1>3. top \in 0 .. 127 /\ top % 128 = top /\ rest \in 0 .. p - 1 /\ r = p * top + rest
  BY <1>1, <1>2, TopDigit
<1>4. s[n] \in Byte /\ s[n] < 128
  BY <1>1 DEF OneNumber
<1>5. s[n] = s[n] % 128
  BY <1>4, Payload
<1>6. DigitOf(r, n - 1) = s[n] % 128
  BY <1>1 DEF HasDigits
<1>7. top = s[n]
  BY <1>3, <1>5, <1>6 DEF DigitOf
<1>8. p \in Nat \ {0}
  BY HalfPower
<1> HIDE DEF p, rest
<1>9. p * s[n] <= r /\ r < p * (s[n] + 1) /\ r \in Nat
  <2> HIDE DEF top
  <2>1. r = p * s[n] + rest /\ s[n] \in 0 .. 127
    BY <1>3, <1>7
  <2>2. PICK t \in 0 .. 127 : t = s[n]
    BY <2>1
  <2>3. p * t \in Nat /\ p * (t + 1) = p * t + p
    BY <1>8
  <2>. QED BY <1>3, <1>8, <2>1, <2>2, <2>3
<1>. QED BY <1>3, <1>7, <1>9 DEF p

\* The bytes of an unsigned number in its shortest form are its encoding.
LEMMA UlebRead ==
  ASSUME NEW s \in Seq(Byte), NEW n \in 1 .. MaxLeb, Len(s) = n, OneNumber(s, n),
         NEW r, HasDigits(r, s, n), n > 1 => s[n] # 0
  PROVE  s = Encode!UlebOf(r)
<1>1. n \in Nat \ {0}
  BY LoopTypes
<1>2. s[n] \in 0 .. 127 /\ r \in Nat /\ r \in Int /\ 2^(7 * (n - 1)) * s[n] <= r
  BY <1>1, LastByte
<1>3. r < 2^(7 * n)
  <2>1. 2^(7 * n) \in Nat
    BY <1>1, HalfPower
  <2>. QED BY <2>1 DEF HasDigits
<1>4. n > 1 => 2^(7 * (n - 1)) <= r
  <2> DEFINE p == 2^(7 * (n - 1))
  <2>1. p \in Nat
    BY <1>1, HalfPower
  <2> HIDE DEF p
  <2>2. PICK t \in 0 .. 127 : t = s[n]
    BY <1>2
  <2>3. t # 0 => p <= p * t
    BY <2>1
  <2>4. p * t <= r /\ p * t \in Nat
    <3>1. p * t <= r
      BY <1>2, <2>2 DEF p
    <3>. QED BY <2>1, <3>1
  <2>. QED BY <1>2, <2>1, <2>2, <2>3, <2>4 DEF p
<1>5. Encode!UlebOf(r) = Encode!Digits(r, n)
  BY <1>2, <1>3, <1>4, UlebLength
<1>6. \A k \in 1 .. n : DigitOf(r, k - 1) = s[k] % 128
  BY DEF HasDigits
<1>7. s = Encode!Digits(r, n)
  BY <1>1, <1>2, <1>6, BytesAreDigits
<1>. QED BY <1>5, <1>7

\* The number that n digits stand for when the top one is signed.
SignedDigits(r, s, n) == IF s[n] >= 64 THEN r - 2^(7 * n) ELSE r

\* The shortest form of a signed number: its last byte says more than the sign
\* of the one before.
SignedShortest(s, n) ==
  n > 1 => /\ ~(s[n] = 0 /\ ~(s[n - 1] % 128 >= 64))
           /\ ~(s[n] = 127 /\ s[n - 1] % 128 >= 64)

\* A number of digits is in the range of its length, and not in that of one
\* digit less when its form is the shortest.
LEMMA SignedRange ==
  ASSUME NEW s \in Seq(Byte), NEW n \in Nat \ {0}, Len(s) = n, OneNumber(s, n),
         NEW r, HasDigits(r, s, n), SignedShortest(s, n),
         NEW v, v = SignedDigits(r, s, n)
  PROVE  /\ v \in Int
         /\ -(2^(7 * n - 1)) <= v /\ v < 2^(7 * n - 1)
         /\ n > 1 => 2^(7 * (n - 1) - 1) <= v \/ v < -(2^(7 * (n - 1) - 1))
<1> DEFINE p == 2^(7 * (n - 1))
<1>1. p \in Nat \ {0} /\ 2^(7 * n) = 128 * p /\ 2^(7 * n - 1) = 64 * p
  BY HalfPower
<1>2. PICK t \in 0 .. 127 : t = s[n]
  BY LastByte
<1>3. r \in Nat /\ p * t <= r /\ r < p * (t + 1)
  BY <1>2, LastByte
<1>4. v = IF t >= 64 THEN r - 128 * p ELSE r
  BY <1>1, <1>2 DEF SignedDigits
<1> HIDE DEF p
<1>5. v \in Int /\ -(64 * p) <= v /\ v < 64 * p
  <2>1. p * (t + 1) = p * t + p /\ p * t \in Nat
    BY <1>1
  <2>2. CASE t >= 64
    <3>1. p * t >= p * 64 /\ p * (t + 1) <= p * 128
      BY <1>1, <2>2
    <3>. QED BY <1>1, <1>3, <1>4, <2>1, <2>2, <3>1
  <2>3. CASE t <= 63
    <3>1. p * (t + 1) <= p * 64
      BY <1>1, <2>3
    <3>. QED BY <1>1, <1>3, <1>4, <2>1, <2>3, <3>1
  <2>. QED BY <2>2, <2>3
<1>6. ASSUME n > 1
      PROVE  2^(7 * (n - 1) - 1) <= v \/ v < -(2^(7 * (n - 1) - 1))
  <2> DEFINE q   == 2^(7 * (n - 2))
  <2>1. n - 1 \in Nat \ {0} /\ n - 2 \in Nat /\ (n - 1) - 1 = n - 2 /\ (n - 2) + 2 = n /\ (n - 2) + 1 = n - 1
    BY <1>6
  <2>2. q \in Nat \ {0} /\ p = 128 * q /\ 2^(7 * (n - 1) - 1) = 64 * q
    <3>1. PICK m \in Nat \ {0} : m = n - 1
      BY <2>1
    <3>2. /\ 2^(7 * (m - 1)) \in Nat \ {0} /\ 2^(7 * m) = 128 * 2^(7 * (m - 1))
          /\ 2^(7 * m - 1) = 64 * 2^(7 * (m - 1))
      BY HalfPower
    <3>3. m - 1 = n - 2
      BY <2>1, <3>1
    <3>. QED BY <3>1, <3>2, <3>3 DEF p
  <2>3. PICK l \in 0 .. 127 : /\ l = s[n - 1] % 128
                              /\ 128 * (q * t) + q * l <= r /\ r < 128 * (q * t) + q * (l + 1)
    <3>1. r \in 0 .. 2^(7 * ((n - 2) + 2)) - 1
      BY <2>1 DEF HasDigits
    <3>2. r \div 2^(7 * ((n - 2) + 1)) = t
      <4>1. r \div 2^(7 * (n - 1)) = t
        BY <1>2, LastByte
      <4>. QED BY <2>1, <4>1
    <3>3. DigitOf(r, n - 2) = s[n - 1] % 128
      <4>1. n - 1 \in 1 .. n
        BY <2>1
      <4>. QED BY <2>1, <4>1 DEF HasDigits
    <3>4. PICK m \in Nat : m = n - 2
      BY <2>1
    <3>5. r \in 0 .. 2^(7 * (m + 2)) - 1
      BY <3>1, <3>4
    <3>6. /\ DigitOf(r, m) \in 0 .. 127
          /\ 128 * (2^(7 * m) * (r \div 2^(7 * (m + 1)))) + 2^(7 * m) * DigitOf(r, m) <= r
          /\ r < 128 * (2^(7 * m) * (r \div 2^(7 * (m + 1)))) + 2^(7 * m) * (DigitOf(r, m) + 1)
      BY <3>5, TopDigits
    <3>. QED BY <3>2, <3>3, <3>4, <3>6
  <2> HIDE DEF q
  <2>4. ~(t = 0 /\ ~(l >= 64)) /\ ~(t = 127 /\ l >= 64)
    BY <1>2, <1>6, <2>3 DEF SignedShortest
  <2>5. q * t \in Nat /\ q * l \in Nat /\ q * (l + 1) = q * l + q
    BY <2>2
  <2>6. CASE t = 0
    <3>1. q * l >= q * 64 /\ q * t = 0
      BY <2>2, <2>4, <2>6
    <3>. QED BY <1>3, <1>4, <2>2, <2>3, <2>5, <2>6, <3>1
  <2>7. CASE t \in 1 .. 63
    <3>1. q * t >= q
      BY <2>2, <2>7
    <3>2. v = r
      BY <1>4, <2>7
    <3>3. 64 * q <= r
      <4>1. 128 * (q * t) + q * l <= r
        BY <2>3
      <4>. QED BY <1>3, <2>2, <2>5, <3>1, <4>1
    <3>. QED BY <2>2, <3>2, <3>3
  <2>8. CASE t \in 64 .. 126
    <3>1. q * t <= q * 126 /\ q * l <= q * 127
      BY <2>2, <2>8
    <3>2. v = r - 128 * (128 * q)
      BY <1>4, <2>2, <2>8
    <3>3. r < 128 * (q * t) + (q * l + q)
      BY <2>3, <2>5
    <3>4. v < -(64 * q)
      BY <1>3, <2>2, <2>5, <3>1, <3>2, <3>3
    <3>. QED BY <2>2, <3>4
  <2>9. CASE t = 127
    <3>1. q * t = q * 127 /\ q * l <= q * 63
      BY <2>2, <2>4, <2>9
    <3>. QED BY <1>3, <1>4, <2>2, <2>3, <2>5, <2>9, <3>1
  <2>. QED BY <2>6, <2>7, <2>8, <2>9
<1>. QED BY <1>1, <1>5, <1>6

\* The bytes of a signed number in its shortest form are its encoding.
LEMMA SlebRead ==
  ASSUME NEW s \in Seq(Byte), NEW n \in 1 .. MaxLeb, Len(s) = n, OneNumber(s, n),
         NEW r, HasDigits(r, s, n), SignedShortest(s, n)
  PROVE  s = Encode!SlebOf(SignedDigits(r, s, n))
<1>1. n \in Nat \ {0} /\ r \in Int /\ (-1) \in Int
  <2>1. n \in Nat \ {0}
    BY LoopTypes
  <2>. QED BY <2>1, LastByte
<1>2. PICK v : v = SignedDigits(r, s, n)
  OBVIOUS
<1>3. /\ v \in Int
      /\ -(2^(7 * n - 1)) <= v /\ v < 2^(7 * n - 1)
      /\ n > 1 => 2^(7 * (n - 1) - 1) <= v \/ v < -(2^(7 * (n - 1) - 1))
  BY <1>1, <1>2, SignedRange
<1>4. Encode!SlebOf(v) = Encode!Digits(v, n)
  BY <1>3, SlebLength
<1>5. ASSUME NEW k \in 1 .. n
      PROVE  DigitOf(v, k - 1) = s[k] % 128
  <2>1. DigitOf(r, k - 1) = s[k] % 128
    BY DEF HasDigits
  <2>2. CASE v = r
    BY <2>1, <2>2
  <2>3. CASE v = r + (-1) * 2^(7 * n)
    <3> DEFINE m == k - 1
    <3>1. m \in Nat /\ m < n /\ n \in Nat
      BY <1>1
    <3> HIDE DEF m
    <3>2. DigitOf(r + (-1) * 2^(7 * n), m) = DigitOf(r, m)
      BY <1>1, <3>1, DigitBelow
    <3>. QED BY <2>1, <2>3, <3>2 DEF m
  <2>4. v = r \/ v = r + (-1) * 2^(7 * n)
    <3>1. 2^(7 * n) \in Nat
      BY <1>1, HalfPower
    <3>. QED BY <1>1, <1>2, <3>1 DEF SignedDigits
  <2>. QED BY <2>2, <2>3, <2>4
<1>6. s = Encode!Digits(v, n)
  BY <1>1, <1>3, <1>5, BytesAreDigits
<1>. QED BY <1>2, <1>4, <1>6

-----------------------------------------------------------------------------
\* A number that leaves room in the word fits it.
LEMMA Fits ==
  ASSUME NEW n \in Nat \ {0}, 7 * n < WordBits, NEW r, NEW s, HasDigits(r, s, n)
  PROVE  r \in Word /\ 2^(7 * n) <= WordSize
<1>1. 7 * n \in Nat /\ 7 * n <= WordBits /\ WordBits \in Nat
  BY LoopTypes
<1>2. 2^(7 * n) <= 2^WordBits
  BY <1>1, PowerMonotone
<1>3. 2^(7 * n) \in Nat
  BY <1>1, Doubling
<1>4. 2^WordBits = WordSize /\ WordSize \in Nat
  BY WordAssumption
<1>. QED BY <1>2, <1>3, <1>4 DEF HasDigits, Word

\* The sign step of the loop gives the word that stands for the signed number.
LEMMA SignedWord ==
  ASSUME signed, NEW s \in Seq(Byte), NEW n \in Nat \ {0}, Len(s) = n, OneNumber(s, n),
         7 * n < WordBits, NEW r, HasDigits(r, s, n)
  PROVE  Signed(SignExtended(r, 7 * n, s[n])) = SignedDigits(r, s, n)
<1> DEFINE p == 2^(7 * (n - 1))
<1>1. p \in Nat \ {0} /\ 2^(7 * n) = 128 * p
  BY HalfPower
<1>2. r \in Word /\ 128 * p <= WordSize /\ WordSize \in Nat \ {0}
  BY <1>1, Fits, LoopTypes
<1>3. PICK t \in 0 .. 127 : t = s[n]
  BY LastByte
<1>4. r \in Nat /\ p * t <= r /\ r < p * (t + 1)
  BY <1>3, LastByte
<1>5. t % 128 = t
  <2>1. t \in 0 .. 127
    BY <1>3
  <2>. QED BY <2>1
<1>6. SignExtended(r, 7 * n, s[n]) =
        IF t >= 64 THEN (r + WordSize - 128 * p) % WordSize ELSE r
  <2>1. t % 128 >= 64 <=> t >= 64
    BY <1>5
  <2> HIDE DEF p
  <2>. QED BY <1>1, <1>3, <2>1 DEF SignExtended
<1>7. SignedDigits(r, s, n) = IF t >= 64 THEN r - 128 * p ELSE r
  BY <1>1, <1>3 DEF SignedDigits
<1> HIDE DEF p
<1>8. p * (t + 1) = p * t + p /\ p * t \in Nat
  BY <1>1
<1>9. CASE t >= 64
  <2>1. p * t >= p * 64 /\ p * (t + 1) <= p * 128
    BY <1>1, <1>9
  <2> DEFINE w == r + WordSize - 128 * p
  <2>2. w \in Word
    BY <1>1, <1>2, <1>4, <1>8, <2>1 DEF Word
  <2>3. w % WordSize = w
    <3> HIDE DEF w
    <3>. QED BY <2>2, WordMod
  <2>4. Signed(w) = r - 128 * p
    <3>1. 2 * w >= WordSize /\ w - WordSize = r - 128 * p
      BY <1>1, <1>2, <1>4, <1>8, <2>1
    <3>. QED BY <3>1 DEF Signed
  <2>. QED BY <1>6, <1>7, <1>9, <2>3, <2>4
<1>10. CASE ~(t >= 64)
  <2>1. p * (t + 1) <= p * 64
    BY <1>1, <1>10
  <2>2. ~(2 * r >= WordSize)
    BY <1>1, <1>2, <1>4, <1>8, <2>1
  <2>3. Signed(r) = r
    BY <2>2 DEF Signed
  <2>. QED BY <1>6, <1>7, <1>10, <2>3
<1>. QED BY <1>9, <1>10

\* While the loop runs the accumulator has the bytes read for digits.
Digested == pc = "loop" => HasDigits(result, buf, i)

DecodeInv == IInv /\ Digested /\ DecodeInvertsEncode

\* A step that reads the last byte of a number in its shortest form.
LEMMA NumberRead ==
  ASSUME NEW n \in 1 .. MaxLeb, n <= Len(buf), buf \in Seq(Byte), signed \in BOOLEAN,
         OneNumber(buf, n), NEW r, HasDigits(r, buf, n), Shortest(SubSeq(buf, 1, n)),
         NEW w, w = SignExtended(r, 7 * n, buf[n])
  PROVE  SubSeq(buf, 1, n) = IF signed THEN Encode!SlebOf(Signed(w)) ELSE Encode!UlebOf(w)
<1>1. PICK s : s = SubSeq(buf, 1, n)
  OBVIOUS
<1>2. n \in Nat \ {0} /\ n \in 1 .. n
  BY LoopTypes
<1>3. s \in Seq(Byte) /\ Len(s) = n /\ \A k \in 1 .. n : s[k] = buf[k]
  BY <1>1, <1>2
<1>4. OneNumber(s, n) /\ HasDigits(r, s, n)
  <2>1. OneNumber(s, n)
    BY <1>2, <1>3 DEF OneNumber
  <2>2. HasDigits(r, s, n)
    BY <1>2, <1>3 DEF HasDigits
  <2>. QED BY <2>1, <2>2
<1>5. 7 * n < WordBits /\ s[n] = buf[n] /\ Shortest(s)
  BY <1>1, <1>2, <1>3 DEF Shortest
<1>6. CASE signed
  <2>1. SignedShortest(s, n)
    BY <1>3, <1>5, <1>6 DEF Shortest, SignedShortest
  <2>2. s = Encode!SlebOf(SignedDigits(r, s, n))
    BY <1>3, <1>4, <2>1, SlebRead
  <2>3. Signed(w) = SignedDigits(r, s, n)
    BY <1>2, <1>3, <1>4, <1>5, <1>6, SignedWord
  <2>. QED BY <1>1, <1>6, <2>2, <2>3
<1>7. CASE ~signed
  <2>1. n > 1 => s[n] # 0
    BY <1>3, <1>5, <1>7 DEF Shortest
  <2>2. s = Encode!UlebOf(r)
    BY <1>3, <1>4, <2>1, UlebRead
  <2>3. w = r
    BY <1>7 DEF SignExtended
  <2>. QED BY <1>1, <1>7, <2>2, <2>3
<1>. QED BY <1>6, <1>7

LEMMA DecodeStep ==
  ASSUME DecodeInv, [Next]_vars
  PROVE  Digested' /\ DecodeInvertsEncode'
<1>1. CASE UNCHANGED vars
  <2>1. /\ pc' = pc /\ buf' = buf /\ signed' = signed /\ i' = i /\ result' = result
    BY <1>1 DEF vars
  <2>2. Digested'
    BY <2>1 DEF DecodeInv, Digested
  <2>3. DecodeInvertsEncode'
    BY <2>1 DEF DecodeInv, DecodeInvertsEncode, Shortest
  <2>. QED BY <2>2, <2>3
<1>2. CASE pc = "loop" /\ Next
  <2>1. /\ buf \in Seq(Byte) /\ signed \in BOOLEAN /\ result \in Word
        /\ i \in 0 .. Len(buf) /\ i < MaxLeb /\ shift = 7 * i
        /\ \A k \in 1 .. i : buf[k] >= 128
        /\ HasDigits(result, buf, i)
    BY <1>2 DEF DecodeInv, Digested, IInv, TypeOK, Accumulated
  <2>2. CASE EndOfBuffer
    <3>1. i = Len(buf) /\ pc' = "done" /\ i' = i /\ buf' = buf /\ signed' = signed
      BY <2>1, <2>2 DEF EndOfBuffer
    <3>2. ASSUME i > 0 PROVE ~Shortest(SubSeq(buf, 1, i))'
      <4>1. PICK s : s = SubSeq(buf, 1, i)
        OBVIOUS
      <4>2. i \in 1 .. i
        BY <2>1, <3>2
      <4>3. Len(s) = i /\ s[i] = buf[i] /\ s[i] \in Int
        <5>1. Len(s) = i /\ s[i] = buf[i]
          BY <2>1, <3>1, <4>1, <4>2
        <5>2. buf[i] \in Byte
          BY <2>1, <3>1, <4>2
        <5>. QED BY <5>1, <5>2, ByteType
      <4>4. s[i] >= 128
        BY <2>1, <4>2, <4>3
      <4>5. ~(s[Len(s)] < 128)
        BY <4>3, <4>4
      <4>. QED BY <3>1, <4>1, <4>5 DEF Shortest
    <3>3. DecodeInvertsEncode'
      BY <3>1, <3>2 DEF DecodeInvertsEncode
    <3>. QED BY <3>1, <3>3 DEF Digested
  <2>3. CASE ReadByte
    <3> DEFINE b == buf[i + 1]
               sum == result + (b % 128) * 2^(7 * i)
               r == sum % WordSize
               n == i + 1
    <3>1. i < Len(buf) /\ i \in 0 .. Len(buf) - 1 /\ n \in 1 .. Len(buf) /\ n \in 1 .. MaxLeb
          /\ n \in Nat \ {0}
      <4>1. i < Len(buf)
        BY <2>3 DEF ReadByte
      <4>. QED BY <2>1, <4>1, LoopTypes
    <3>2. HasDigits(sum, buf, n)
      BY <2>1, <3>1, DigitAdded
    <3>3. 7 * n < WordBits => r = sum
      <4> HIDE DEF sum, n
      <4>1. ASSUME 7 * n < WordBits PROVE sum \in Word
        BY <3>1, <3>2, <4>1, Fits
      <4>. QED BY <4>1, WordMod
    <3>4. /\ i' = n /\ buf' = buf /\ signed' = signed
          /\ shift' = IF signed \/ b >= 128 THEN shift + 7 ELSE shift
          /\ \/ b < 128 /\ result' = SignExtended(r, shift', b) /\ pc' = "done"
             \/ b >= 128 /\ result' = r /\ pc' = IF Overflows(shift') THEN "threw" ELSE "loop"
      BY <2>1, <2>3 DEF ReadByte
    <3>5. b \in Int
      <4>1. b \in Byte
        BY <2>1, <3>1
      <4>. QED BY <4>1, ByteType
    <3>6. shift + 7 = 7 * n
      BY <2>1
    <3> HIDE DEF r, sum
    <3>7. CASE b < 128
      <4>1. pc' = "done" /\ result' = SignExtended(r, shift', b)
        BY <3>4, <3>5, <3>7
      <4>2. ASSUME Shortest(SubSeq(buf, 1, n))
            PROVE  SubSeq(buf, 1, n)
                     = IF signed THEN Encode!SlebOf(Signed(result')) ELSE Encode!UlebOf(result')
        <5>1. Len(SubSeq(buf, 1, n)) = n
          BY <2>1, <3>1
        <5>2. 7 * n < WordBits
          BY <4>2, <5>1 DEF Shortest
        <5>3. r = sum
          BY <3>3, <5>2
        <5>4. OneNumber(buf, n)
          <6>1. n - 1 = i
            BY <2>1
          <6>. QED BY <2>1, <3>7, <6>1 DEF OneNumber
        <5>5. result' = SignExtended(sum, 7 * n, buf[n])
          <6>1. CASE signed
            BY <3>4, <3>6, <4>1, <5>3, <6>1
          <6>2. CASE ~signed
            BY <4>1, <5>3, <6>2 DEF SignExtended
          <6>. QED BY <6>1, <6>2
        <5>6. PICK w : w = result'
          OBVIOUS
        <5>7. n <= Len(buf)
          BY <3>1
        <5> HIDE DEF n
        <5>. QED BY <2>1, <3>1, <3>2, <4>2, <5>4, <5>5, <5>6, <5>7, NumberRead
      <4>3. DecodeInvertsEncode'
        BY <3>4, <4>2 DEF DecodeInvertsEncode, Shortest
      <4>. QED BY <4>1, <4>3 DEF Digested
    <3>8. CASE b >= 128
      <4>1. pc' # "done" /\ result' = r /\ pc' = IF Overflows(7 * n) THEN "threw" ELSE "loop"
        BY <3>4, <3>5, <3>6, <3>8
      <4>2. DecodeInvertsEncode'
        BY <4>1 DEF DecodeInvertsEncode
      <4>3. ASSUME pc' = "loop" PROVE HasDigits(result', buf', i')
        <5>1. ~(7 * n >= WordBits)
          BY <4>1, <4>3 DEF Overflows
        <5>2. 7 * n < WordBits
          BY <3>1, <5>1, LoopTypes
        <5>. QED BY <3>2, <3>3, <3>4, <4>1, <5>2
      <4>. QED BY <4>2, <4>3 DEF Digested
    <3>. QED BY <3>5, <3>7, <3>8
  <2>. QED BY <1>2, <2>2, <2>3 DEF Next
<1>3. Next => pc = "loop"
  BY DEF Next, ReadByte, EndOfBuffer
<1>. QED BY <1>1, <1>2, <1>3

LEMMA DecodeInit == Init => Digested /\ DecodeInvertsEncode
<1>1. 0 \in 0 .. 2^(7 * 0) - 1
  <2>1. 2^(7 * 0) \in Nat \ {0}
    BY Doubling, 7 * 0 \in Nat
  <2>. QED BY <2>1
<1>. QED BY <1>1 DEF Init, Digested, HasDigits, DecodeInvertsEncode

\* Decoding undoes the assembler's encoding: what the loop returns for the
\* shortest encoding of a number is that number, its sign included, for every
\* word size and every length that leaves room in the word
\* (abi_parse.cpp:152-190).
THEOREM DecodeInverts == Spec => []DecodeInvertsEncode
<1>1. Init => DecodeInv
  BY InitInv, DecodeInit DEF DecodeInv
<1>2. DecodeInv /\ [Next]_vars => DecodeInv'
  BY StepInv, DecodeStep DEF DecodeInv
<1>3. DecodeInv => DecodeInvertsEncode
  BY DEF DecodeInv
<1>. QED BY <1>1, <1>2, <1>3, PTL DEF Spec
=============================================================================
