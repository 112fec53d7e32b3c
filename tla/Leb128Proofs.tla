---------------------------- MODULE Leb128Proofs ----------------------------
(***************************************************************************)
(* What the decoders of Leb128 return, for every buffer and every word     *)
(* size: a value that fits the word and a cursor that stays in the buffer. *)
(***************************************************************************)
EXTENDS Leb128, NatLemmas

\* The shape of what a decoder started at cursor i returns: no decoder reads
\* or moves outside the buffer, and a failed one is marked as such.
IsReading(r, data, i) ==
  /\ r \in Reading
  /\ r.next \in i .. Len(data)

\* The Min of the community modules is that least element.
LEMMA MinOfNaturals ==
  ASSUME NEW S \in SUBSET Nat, S # {}
  PROVE  /\ Min(S) \in S
         /\ \A n \in S : Min(S) <= n
BY LeastNatural DEF Min

\* A byte is an integer.
LEMMA ByteType == \A b \in Byte : b \in Int
BY DEF Byte

\* Arithmetic modulo the word size stays in the word.
LEMMA ModWord ==
  ASSUME NEW x \in Int
  PROVE  x % WordSize \in Word
BY WordAssumption DEF Word

\* The int64_t a word stands for is an integer, negative or not.
LEMMA SignedType ==
  ASSUME NEW w \in Word
  PROVE  Signed(w) \in Int
BY WordAssumption DEF Signed, Word

-----------------------------------------------------------------------------
\* What LittleEndian's recursive function is: v gives every suffix of the bytes
\* between i and e its number.
Suffixes(v, data, i, e, base, fill) ==
  v = [k \in i .. e |-> IF k = e THEN fill
                                ELSE ((data[k + 1] % base) + base * v[k + 1]) % WordSize]

HasSuffixes(data, i, e, base, fill) ==
  \E v \in [i .. e -> Word] : /\ Suffixes(v, data, i, e, base, fill)
                             /\ LittleEndian(data, i, e, base, fill) = v[i]

\* The recursion of a little-endian number has a solution on every interval of
\* a buffer, and every value of it is reduced.
LEMMA LittleEndianSolved ==
  ASSUME NEW data \in Seq(Byte), NEW e \in 0 .. Len(data), NEW i \in 0 .. e,
         NEW base \in Nat \ {0}, NEW fill \in Word
  PROVE  HasSuffixes(data, i, e, base, fill)
<1> DEFINE Digit(f, k) ==
             IF k = e THEN fill
                      ELSE ((data[k + 1] % base) + base * f[k + 1]) % WordSize
           Solved(n) ==
             \E f \in [e - n .. e -> Word] : f = [k \in e - n .. e |-> Digit(f, k)]
<1>1. ASSUME NEW k \in 0 .. e, NEW x \in Word, k # e
      PROVE  ((data[k + 1] % base) + base * x) % WordSize \in Word
  <2>1. data[k + 1] \in Int
    <3>1. k + 1 \in 1 .. Len(data)
      BY <1>1
    <3>2. data[k + 1] \in Byte
      BY <3>1
    <3>. QED BY <3>2, ByteType
  <2>2. data[k + 1] % base \in Int
    BY <2>1
  <2>3. base * x \in Int
    BY WordAssumption DEF Word
  <2>. QED BY <2>2, <2>3, ModWord
<1>2. Solved(0)
  <2>1. e - 0 .. e = {e}
    OBVIOUS
  <2>2. [k \in {e} |-> fill] = [k \in {e} |-> Digit([m \in {e} |-> fill], k)]
    OBVIOUS
  <2>. QED BY <2>1, <2>2
<1>3. ASSUME NEW n \in 0 .. e - 1, Solved(n)
      PROVE  Solved(n + 1)
  <2>1. PICK f \in [e - n .. e -> Word] : f = [k \in e - n .. e |-> Digit(f, k)]
    BY <1>3
  <2> DEFINE low == e - (n + 1)
             g == [k \in low .. e |->
                     IF k = low
                     THEN ((data[k + 1] % base) + base * f[k + 1]) % WordSize
                     ELSE f[k]]
  <2>2. low \in 0 .. e /\ low # e /\ low + 1 = e - n /\ low + 1 \in e - n .. e
    OBVIOUS
  <2>3. ASSUME NEW k \in low .. e PROVE g[k] \in Word
    <3>1. CASE k = low
      <4>1. f[k + 1] \in Word
        BY <3>1, <2>2
      <4>2. k \in 0 .. e /\ k # e
        BY <3>1, <2>2
      <4>3. ((data[k + 1] % base) + base * f[k + 1]) % WordSize \in Word
        BY <1>1, <4>1, <4>2
      <4>. QED BY <3>1, <4>3
    <3>2. CASE k # low
      <4>1. k \in e - n .. e
        BY <3>2
      <4>. QED BY <3>2, <4>1
    <3>. QED BY <3>1, <3>2
  <2>4. ASSUME NEW k \in low .. e PROVE g[k] = Digit(g, k)
    <3>1. CASE k = low
      <4>1. g[k + 1] = f[k + 1]
        BY <3>1, <2>2
      <4>. QED BY <3>1, <4>1, <2>2
    <3>2. CASE k # low
      <4>1. k \in e - n .. e
        BY <3>2
      <4>2. g[k] = Digit(f, k)
        BY <2>1, <3>2, <4>1
      <4>3. k # e => g[k + 1] = f[k + 1]
        BY <4>1
      <4>. QED BY <4>2, <4>3
    <3>. QED BY <3>1, <3>2
  <2>5. g \in [low .. e -> Word] /\ g = [k \in low .. e |-> Digit(g, k)]
    BY <2>3, <2>4
  <2>. QED BY <2>5
<1> HIDE DEF Solved
<1>4. \A n \in 0 .. e : Solved(n)
  <2> DEFINE S == {n \in 0 .. e : ~Solved(n)}
  <2>1. SUFFICES ASSUME S # {} PROVE FALSE
    OBVIOUS
  <2>2. S \in SUBSET Nat
    OBVIOUS
  <2> HIDE DEF S
  <2>3. PICK m \in S : \A n \in S : m <= n
    BY <2>1, <2>2, LeastNatural
  <2> USE DEF S
  <2>4. m \in 0 .. e /\ ~Solved(m)
    BY <2>3
  <2>5. m # 0
    BY <2>4, <1>2
  <2>6. m - 1 \in 0 .. e - 1 /\ m - 1 \in 0 .. e
    BY <2>4, <2>5
  <2>7. Solved(m - 1)
    BY <2>3, <2>6
  <2>8. Solved((m - 1) + 1)
    BY <2>6, <2>7, <1>3
  <2>9. (m - 1) + 1 = m
    BY <2>4
  <2>. QED BY <2>4, <2>8, <2>9
<1> DEFINE v == CHOOSE f : f = [k \in i .. e |-> Digit(f, k)]
<1>5. v = [k \in i .. e |-> Digit(v, k)]
  <2>1. e - i \in 0 .. e /\ e - (e - i) = i
    OBVIOUS
  <2>2. Solved(e - i)
    BY <1>4, <2>1
  <2>3. \E f \in [i .. e -> Word] : f = [k \in i .. e |-> Digit(f, k)]
    BY <2>1, <2>2 DEF Solved
  <2>. QED BY <2>3
<1> HIDE DEF v
<1>6. ASSUME NEW n \in 0 .. e - i PROVE v[e - n] \in Word
  <2> DEFINE S == {k \in 0 .. e - i : v[e - k] \notin Word}
  <2>1. SUFFICES ASSUME S # {} PROVE FALSE
    OBVIOUS
  <2>2. S \in SUBSET Nat
    OBVIOUS
  <2> HIDE DEF S
  <2>3. PICK m \in S : \A k \in S : m <= k
    BY <2>1, <2>2, LeastNatural
  <2> USE DEF S
  <2>4. m \in 0 .. e - i /\ v[e - m] \notin Word
    BY <2>3
  <2>5. m # 0
    BY <2>4, <1>5
  <2>6. m - 1 \in 0 .. e - i /\ m - 1 < m
    BY <2>4, <2>5
  <2>7. v[e - (m - 1)] \in Word
    BY <2>3, <2>4, <2>6
  <2> DEFINE k == e - m
  <2>8. k \in i .. e /\ k \in 0 .. e /\ k # e /\ k + 1 = e - (m - 1)
    BY <2>4, <2>5
  <2> HIDE DEF k
  <2>9. v[k] = ((data[k + 1] % base) + base * v[k + 1]) % WordSize
    BY <1>5, <2>8
  <2>10. v[k] \in Word
    BY <2>7, <2>8, <2>9, <1>1
  <2>. QED BY <2>4, <2>10 DEF k
<1>7. v \in [i .. e -> Word]
  <2>1. ASSUME NEW k \in i .. e PROVE v[k] \in Word
    <3>1. e - k \in 0 .. e - i /\ e - (e - k) = k
      OBVIOUS
    <3>. QED BY <1>6, <3>1
  <2>. QED BY <1>5, <2>1
<1>8. LittleEndian(data, i, e, base, fill) = v[i]
  BY DEF LittleEndian, v, Digit
<1>. QED BY <1>5, <1>7, <1>8 DEF HasSuffixes, Suffixes

\* So the little-endian number between two cursors is a word.
LEMMA LittleEndianType ==
  ASSUME NEW data \in Seq(Byte), NEW e \in 0 .. Len(data), NEW i \in 0 .. e,
         NEW base \in Nat \ {0}, NEW fill \in Word
  PROVE  LittleEndian(data, i, e, base, fill) \in Word
<1>1. HasSuffixes(data, i, e, base, fill)
  BY LittleEndianSolved
<1>2. i \in i .. e
  OBVIOUS
<1>. QED BY <1>1, <1>2 DEF HasSuffixes

\* One byte more: the number up to e + 1 is the one up to e, with the last byte
\* read, and what is above it, in the place of the bits above e.
LEMMA LittleEndianExtended ==
  ASSUME NEW data \in Seq(Byte), NEW e \in 0 .. Len(data) - 1, NEW i \in 0 .. e,
         NEW base \in Nat \ {0}, NEW fill \in Word
  PROVE  LET top == ((data[e + 1] % base) + base * fill) % WordSize
         IN  /\ top \in Word
             /\ LittleEndian(data, i, e + 1, base, fill)
                  = LittleEndian(data, i, e, base, top)
<1> DEFINE top == ((data[e + 1] % base) + base * fill) % WordSize
<1>1. e + 1 \in 0 .. Len(data) /\ e \in 0 .. Len(data) /\ i \in 0 .. e + 1
      /\ e + 1 \in 1 .. Len(data)
  OBVIOUS
<1>2. top \in Word
  <2>1. data[e + 1] \in Byte
    BY <1>1
  <2>2. data[e + 1] % base \in Int
    BY <2>1, ByteType
  <2>3. base * fill \in Int
    BY WordAssumption DEF Word
  <2>. QED BY <2>2, <2>3, ModWord
<1> HIDE DEF top
<1>3. HasSuffixes(data, i, e + 1, base, fill) /\ HasSuffixes(data, i, e, base, top)
  BY <1>1, <1>2, LittleEndianSolved
<1>4. PICK v \in [i .. e + 1 -> Word] :
        /\ Suffixes(v, data, i, e + 1, base, fill)
        /\ LittleEndian(data, i, e + 1, base, fill) = v[i]
  BY <1>3 DEF HasSuffixes
<1>5. PICK w \in [i .. e -> Word] :
        /\ Suffixes(w, data, i, e, base, top)
        /\ LittleEndian(data, i, e, base, top) = w[i]
  BY <1>3 DEF HasSuffixes
<1> DEFINE S == {n \in 0 .. e - i : v[e - n] = w[e - n]}
<1>6. 0 \in S
  <2>1. e \in i .. e + 1 /\ e \in i .. e /\ e + 1 \in i .. e + 1 /\ e # e + 1 /\ e - 0 = e
        /\ 0 \in 0 .. e - i
    OBVIOUS
  <2>2. v[e + 1] = fill
    BY <1>4, <2>1 DEF Suffixes
  <2>3. v[e] = ((data[e + 1] % base) + base * v[e + 1]) % WordSize
    BY <1>4, <2>1 DEF Suffixes
  <2>4. w[e] = top
    BY <1>5, <2>1 DEF Suffixes
  <2>. QED BY <2>1, <2>2, <2>3, <2>4 DEF top
<1>7. ASSUME NEW n \in 0 .. (e - i) - 1, n \in S PROVE n + 1 \in S
  <2> DEFINE k == e - (n + 1)
  <2>1. k \in i .. e + 1 /\ k \in i .. e /\ k # e /\ k # e + 1 /\ k + 1 = e - n
        /\ n + 1 \in 0 .. e - i
    OBVIOUS
  <2> HIDE DEF k
  <2>2. v[k + 1] = w[k + 1]
    BY <1>7, <2>1
  <2>3. v[k] = ((data[k + 1] % base) + base * v[k + 1]) % WordSize
    BY <1>4, <2>1 DEF Suffixes
  <2>4. w[k] = ((data[k + 1] % base) + base * w[k + 1]) % WordSize
    BY <1>5, <2>1 DEF Suffixes
  <2>. QED BY <2>1, <2>2, <2>3, <2>4 DEF k
<1>8. v[i] = w[i]
  <2>1. e - i \in Nat /\ e - i \in 0 .. e - i /\ e - (e - i) = i
    OBVIOUS
  <2>2. 0 .. e - i \subseteq S
    <3> HIDE DEF S
    <3>. QED BY <1>6, <1>7, <2>1, Induction
  <2>. QED BY <2>1, <2>2
<1>. QED BY <1>2, <1>4, <1>5, <1>8 DEF top

\* No byte, no digit.
LEMMA LittleEndianEmpty ==
  ASSUME NEW data \in Seq(Byte), NEW i \in 0 .. Len(data),
         NEW base \in Nat \ {0}, NEW fill \in Word
  PROVE  LittleEndian(data, i, i, base, fill) = fill
<1>1. HasSuffixes(data, i, i, base, fill)
  BY i \in 0 .. i, LittleEndianSolved
<1>. QED BY <1>1, i \in i .. i DEF HasSuffixes, Suffixes

-----------------------------------------------------------------------------
\* A LEB128 ends in the buffer, behind its first byte if there is one.
LEMMA LebEndType ==
  ASSUME NEW data \in Seq(Byte), NEW i \in 0 .. Len(data)
  PROVE  /\ LebEnd(data, i) \in i .. Len(data)
         /\ i < Len(data) => i < LebEnd(data, i)
<1> DEFINE last == {k \in i + 1 .. Len(data) : data[k] < 128}
<1>1. last \in SUBSET Nat
  OBVIOUS
<1>2. CASE last = {}
  BY <1>2 DEF LebEnd
<1>3. CASE last # {}
  <2>1. Min(last) \in last
    <3> HIDE DEF last
    <3>. QED BY <1>1, <1>3, MinOfNaturals
  <2>2. Min(last) \in i + 1 .. Len(data)
    BY <2>1
  <2>3. LebEnd(data, i) = Min(last)
    BY <1>3 DEF LebEnd
  <2>. QED BY <2>2, <2>3
<1>. QED BY <1>2, <1>3

\* The two results of a decoder have the shape of a reading.
LEMMA GotReading ==
  ASSUME NEW data \in Seq(Byte), NEW i \in 0 .. Len(data),
         NEW n \in i .. Len(data), NEW v \in Word
  PROVE  IsReading(Got(v, n), data, i)
BY DEF IsReading, Reading, Got

LEMMA ThrewReading ==
  ASSUME NEW data \in Seq(Byte), NEW i \in 0 .. Len(data)
  PROVE  IsReading(Threw(data), data, i) /\ ~Threw(data).ok
BY WordAssumption DEF IsReading, Reading, Threw, Word

\* Both LEB128 decoders: the cursor moves over the bytes of the number.
LEMMA Uleb128Type ==
  ASSUME NEW data \in Seq(Byte), NEW i \in 0 .. Len(data)
  PROVE  LET r == read_uleb128(data, i)
         IN  /\ IsReading(r, data, i)
             /\ r.ok /\ i < Len(data) => i < r.next
<1> DEFINE e == LebEnd(data, i)
<1>1. e \in 0 .. Len(data) /\ i \in 0 .. e /\ e \in i .. Len(data)
      /\ (i < Len(data) => i < e)
  BY LebEndType
<1>2. LittleEndian(data, i, e, 128, 0) \in Word
  <2> HIDE DEF e
  <2>1. 0 \in Word /\ 128 \in Nat \ {0}
    BY WordAssumption DEF Word
  <2>. QED BY <1>1, <2>1, LittleEndianType
<1>3. IsReading(Got(LittleEndian(data, i, e, 128, 0), e), data, i)
  <2> HIDE DEF e
  <2>. QED BY <1>1, <1>2, GotReading
<1>4. CASE LebOverflow(data, i)
  BY <1>4, ThrewReading DEF read_uleb128
<1>5. CASE ~LebOverflow(data, i)
  <2>1. read_uleb128(data, i) = Got(LittleEndian(data, i, e, 128, 0), e)
    BY <1>5 DEF read_uleb128
  <2>. QED BY <2>1, <1>1, <1>3 DEF Got
<1>. QED BY <1>4, <1>5

LEMMA Sleb128Type ==
  ASSUME NEW data \in Seq(Byte), NEW i \in 0 .. Len(data)
  PROVE  LET r == read_sleb128(data, i)
         IN  /\ IsReading(r, data, i)
             /\ r.ok /\ i < Len(data) => i < r.next
<1> DEFINE e == LebEnd(data, i)
           fill == SignFill(data, i, e)
<1>1. e \in 0 .. Len(data) /\ i \in 0 .. e /\ e \in i .. Len(data)
      /\ (i < Len(data) => i < e)
  BY LebEndType
<1>2. LittleEndian(data, i, e, 128, fill) \in Word
  <2>1. fill \in Word /\ 128 \in Nat \ {0}
    BY WordAssumption DEF Word, SignFill, Ones
  <2> HIDE DEF e, fill
  <2>. QED BY <1>1, <2>1, LittleEndianType
<1>3. IsReading(Got(LittleEndian(data, i, e, 128, fill), e), data, i)
  <2> HIDE DEF e, fill
  <2>. QED BY <1>1, <1>2, GotReading
<1>4. CASE LebOverflow(data, i)
  BY <1>4, ThrewReading DEF read_sleb128
<1>5. CASE ~LebOverflow(data, i)
  <2>1. read_sleb128(data, i) = Got(LittleEndian(data, i, e, 128, fill), e)
    BY <1>5 DEF read_sleb128
  <2>. QED BY <2>1, <1>1, <1>3 DEF Got
<1>. QED BY <1>4, <1>5

\* Fixed-width reads: the check comes first, so what is read is there.
LEMMA FixedWidthType ==
  ASSUME NEW data \in Seq(Byte), NEW i \in 0 .. Len(data),
         NEW n \in Nat \ {0}, NEW signed \in BOOLEAN
  PROVE  LET r == FixedWidth(data, i, n, signed)
         IN  /\ IsReading(r, data, i)
             /\ r.ok => i < r.next
<1> DEFINE fill == IF signed /\ data[i + n] >= 128 THEN Ones ELSE 0
           v == LittleEndian(data, i, i + n, 256, fill)
<1>1. CASE i + n > Len(data)
  BY <1>1, ThrewReading DEF FixedWidth
<1>2. CASE ~(i + n > Len(data))
  <2>1. i + n \in 0 .. Len(data) /\ i \in 0 .. i + n /\ i + n \in i .. Len(data)
    BY <1>2
  <2>2. fill \in Word /\ 256 \in Nat \ {0}
    BY WordAssumption DEF Word, Ones
  <2>3. v \in Word
    <3> HIDE DEF fill
    <3>. QED BY <2>1, <2>2, LittleEndianType
  <2>4. FixedWidth(data, i, n, signed) = Got(v, i + n)
    BY <1>2 DEF FixedWidth
  <2>5. IsReading(Got(v, i + n), data, i)
    <3> HIDE DEF v
    <3>. QED BY <2>1, <2>3, GotReading
  <2>. QED BY <2>4, <2>5 DEF Got
<1>. QED BY <1>1, <1>2

\* read8 returns a byte and moves over it, or the buffer is exhausted.
LEMMA Read8Type ==
  ASSUME NEW data \in Seq(Byte), NEW i \in 0 .. Len(data)
  PROVE  LET r == read8(data, i)
         IN  /\ IsReading(r, data, i)
             /\ r.val \in Byte
             /\ r.ok => i < r.next
<1>1. CASE i < Len(data)
  <2>1. data[i + 1] \in Byte
    BY <1>1
  <2>2. Byte \subseteq Word
    BY WordAssumption DEF Byte, Word
  <2>3. i + 1 \in i .. Len(data) /\ i < i + 1
    BY <1>1
  <2>4. read8(data, i) = Got(data[i + 1], i + 1)
    BY <1>1 DEF read8
  <2>5. IsReading(Got(data[i + 1], i + 1), data, i)
    BY <2>1, <2>2, <2>3, GotReading
  <2>. QED BY <2>1, <2>3, <2>4, <2>5 DEF Got
<1>2. CASE ~(i < Len(data))
  BY <1>2, ThrewReading DEF read8, Threw, Byte
<1>. QED BY <1>1, <1>2

\* r_encode never leaves the buffer, and it consumes at least one byte of it
\* unless the encoding says the value is omitted: the branch of parse() for a
\* type entry that makes no progress (abi_parse.cpp:297-302) is never taken.
LEMMA EncodedType ==
  ASSUME NEW data \in Seq(Byte), NEW i \in 0 .. Len(data),
         NEW enc \in Int, NEW pcrel \in Int
  PROVE  LET r == r_encode(data, i, enc, pcrel)
         IN  /\ IsReading(r, data, i)
             /\ r.ok /\ enc # Omit /\ i < Len(data) => i < r.next
<1> DEFINE raw == CASE Form(enc) \in {0, 4, 12} -> FixedWidth(data, i, Bytes8, FALSE)
                    [] Form(enc) = 1            -> read_uleb128(data, i)
                    [] Form(enc) = 2            -> FixedWidth(data, i, Bytes2, FALSE)
                    [] Form(enc) = 3            -> FixedWidth(data, i, Bytes4, FALSE)
                    [] Form(enc) = 9            -> read_sleb128(data, i)
                    [] Form(enc) = 11           -> FixedWidth(data, i, Bytes4, TRUE)
                    [] OTHER                    -> Threw(data)
           moved == [raw EXCEPT !.val = IF IsPcRel(enc) THEN (@ + pcrel) % WordSize
                                                        ELSE @]
<1> DEFINE Fine(r) == IsReading(r, data, i) /\ (r.ok /\ i < Len(data) => i < r.next)
<1>1. /\ Fine(FixedWidth(data, i, Bytes8, FALSE))
      /\ Fine(FixedWidth(data, i, Bytes2, FALSE))
      /\ Fine(FixedWidth(data, i, Bytes4, FALSE))
      /\ Fine(FixedWidth(data, i, Bytes4, TRUE))
  BY FixedWidthType, WordAssumption
<1>2. Fine(read_uleb128(data, i)) /\ Fine(read_sleb128(data, i))
  BY Uleb128Type, Sleb128Type
<1>3. Fine(Threw(data))
  BY ThrewReading
<1> HIDE DEF Fine
<1>4. Fine(raw)
  BY <1>1, <1>2, <1>3
<1> HIDE DEF raw
<1> USE DEF Fine
<1>5. Fine(moved)
  <2>1. raw.val \in Int
    BY <1>4 DEF IsReading, Reading, Word
  <2>2. (raw.val + pcrel) % WordSize \in Word
    BY <2>1, ModWord
  <2>. QED BY <1>4, <2>2 DEF IsReading, Reading
<1>6. CASE enc = Omit
  <2>1. r_encode(data, i, enc, pcrel) = Got(0, i)
    BY <1>6 DEF r_encode
  <2>2. 0 \in Word
    BY WordAssumption DEF Word
  <2>. QED BY <1>6, <2>1, <2>2, GotReading
<1>7. CASE enc # Omit
  <2>1. r_encode(data, i, enc, pcrel) = moved
    BY <1>7 DEF r_encode, raw
  <2>. QED BY <2>1, <1>5
<1>. QED BY <1>6, <1>7
=============================================================================
