------------------------------ MODULE NatLemmas ------------------------------
(***************************************************************************)
(* Induction over natural numbers, stated with sets and functions instead  *)
(* of predicates, so that the provers can use it, and the facts about      *)
(* remainders and powers of two that arithmetic modulo a word needs.       *)
(***************************************************************************)
EXTENDS Integers, FiniteSetTheorems, WellFoundedInduction, TLAPS

\* A set of natural numbers with an element has a least one.
LEMMA LeastNatural ==
  ASSUME NEW S \in SUBSET Nat, S # {}
  PROVE  \E m \in S : \A n \in S : m <= n
<1>1. PICK m \in S : \A n \in S : <<n, m>> \notin OpToRel(<, Nat)
  BY NatLessThanWellFounded, WFMin
<1>2. ASSUME NEW n \in S PROVE m <= n
  <2>1. <<n, m>> \notin {p \in Nat \X Nat : p[1] < p[2]}
    BY <1>1 DEF OpToRel
  <2>. QED BY <2>1
<1>. QED BY <1>2

\* A set with 0, and with the successor of each of its elements below N, holds
\* every number up to N.
LEMMA Induction ==
  ASSUME NEW N \in Nat, NEW S, 0 \in S,
         \A n \in 0 .. N - 1 : n \in S => n + 1 \in S
  PROVE  0 .. N \subseteq S
<1> DEFINE T == (0 .. N) \ S
<1>1. SUFFICES ASSUME T # {} PROVE FALSE
  OBVIOUS
<1>2. T \in SUBSET Nat
  OBVIOUS
<1> HIDE DEF T
<1>3. PICK m \in T : \A n \in T : m <= n
  BY <1>1, <1>2, LeastNatural
<1> USE DEF T
<1>4. m \in 0 .. N /\ m \notin S /\ m # 0
  BY <1>3
<1>5. m - 1 \in 0 .. N - 1 /\ m - 1 \in 0 .. N /\ ~(m <= m - 1) /\ (m - 1) + 1 = m
  BY <1>4
<1>6. m - 1 \in S
  BY <1>3, <1>5
<1>. QED BY <1>4, <1>5, <1>6

\* f goes from base by step: f[0] is base, and step makes f[n] of f[n - 1] and n.
Iterates(f, N, base, step) ==
  /\ f[0] = base
  /\ \A n \in 1 .. N : f[n] = step[<<f[n - 1], n>>]

HasIterates(N, T, base, step) == \E f \in [0 .. N -> T] : Iterates(f, N, base, step)

\* The recursive function on 0 .. N that begins with base and goes on by step
\* exists.
LEMMA Recursion ==
  ASSUME NEW N \in Nat, NEW T, NEW base \in T, NEW step \in [T \X (1 .. N) -> T]
  PROVE  HasIterates(N, T, base, step)
<1> DEFINE Solved(m) == \E f \in [0 .. m -> T] : Iterates(f, m, base, step)
           S         == {m \in 0 .. N : Solved(m)}
<1>1. 0 \in S
  <2> DEFINE f == [n \in 0 .. 0 |-> base]
  <2>1. f \in [0 .. 0 -> T] /\ Iterates(f, 0, base, step)
    BY DEF Iterates
  <2>2. Solved(0)
    <3> HIDE DEF f
    <3>. QED BY <2>1
  <2>. QED BY <2>2
<1>2. ASSUME NEW m \in 0 .. N - 1, m \in S PROVE m + 1 \in S
  <2>1. PICK f \in [0 .. m -> T] : Iterates(f, m, base, step)
    BY <1>2
  <2> DEFINE g == [n \in 0 .. m + 1 |-> IF n = m + 1 THEN step[<<f[m], m + 1>>] ELSE f[n]]
  <2>2. f[m] \in T /\ m + 1 \in 1 .. N /\ m + 1 \in 0 .. N
    OBVIOUS
  <2>3. step[<<f[m], m + 1>>] \in T
    BY <2>2
  <2>4. \A n \in 0 .. m + 1 : n # m + 1 => n \in 0 .. m
    OBVIOUS
  <2>5. g \in [0 .. m + 1 -> T]
    BY <2>3, <2>4
  <2>6. g[0] = base
    BY <2>1 DEF Iterates
  <2>7. ASSUME NEW n \in 1 .. m + 1 PROVE g[n] = step[<<g[n - 1], n>>]
    <3>1. n - 1 \in 0 .. m /\ n - 1 \in 0 .. m + 1 /\ n - 1 # m + 1
      OBVIOUS
    <3>2. g[n - 1] = f[n - 1]
      BY <3>1
    <3>3. CASE n = m + 1
      <4>1. n \in 0 .. m + 1 /\ n - 1 = m /\ g[n] = step[<<f[m], m + 1>>]
        BY <3>3
      <4> HIDE DEF g
      <4>2. g[n - 1] = f[m]
        BY <3>2, <4>1
      <4>. QED BY <3>3, <4>1, <4>2
    <3>4. CASE n # m + 1
      <4>1. n \in 1 .. m /\ n \in 0 .. m + 1
        BY <3>4
      <4>2. g[n] = f[n] /\ f[n] = step[<<f[n - 1], n>>]
        BY <2>1, <3>4, <4>1 DEF Iterates
      <4>. QED BY <3>2, <4>2
    <3>. QED BY <3>3, <3>4
  <2>8. Solved(m + 1)
    <3> HIDE DEF g
    <3>. QED BY <2>5, <2>6, <2>7 DEF Iterates
  <2> HIDE DEF Solved
  <2>. QED BY <2>2, <2>8
<1>3. N \in S
  <2> HIDE DEF S
  <2>1. 0 .. N \subseteq S
    BY <1>1, <1>2, Induction
  <2>. QED BY <2>1
<1>. QED BY <1>3 DEF HasIterates

-----------------------------------------------------------------------------
\* Quotient and remainder, as the provers know them.
LEMMA DivMod ==
  ASSUME NEW N \in Nat \ {0}, NEW x \in Int
  PROVE  x \div N \in Int /\ (x % N) \in 0 .. N - 1 /\ x = N * (x \div N) + (x % N)
BY SMT

\* There is one quotient and one remainder.
LEMMA DivModUnique ==
  ASSUME NEW N \in Nat \ {0}, NEW q \in Int, NEW p \in Int, NEW r \in 0 .. N-1, NEW s \in 0 .. N-1,
   N*q + r = N*p + s
  PROVE q = p /\ r = s
<1>1. N * (q - p) = s - r
  OBVIOUS
<1>2. CASE q - p >= 1
   <2>1. N * (q - p) >= N
      BY <1>2
   <2>. QED BY <2>1, <1>1
<1>3. CASE p - q >= 1
   <2>1. N * (p - q) >= N
      BY <1>3
   <2>. QED BY <2>1, <1>1
<1>4. CASE p = q
   BY <1>1, <1>4
<1>. QED BY <1>2, <1>3, <1>4

\* A multiple of N more does not change the remainder.
LEMMA ModShift ==
  ASSUME NEW N \in Nat \ {0}, NEW x \in Int, NEW q \in Int
  PROVE  (x + N * q) % N = x % N
<1> DEFINE y == x + N * q
<1>1. y \in Int /\ N*q \in Int
   OBVIOUS
<1>2. /\ x \div N \in Int /\ (x % N) \in 0 .. N - 1 /\ x = N * (x \div N) + (x % N)
  BY DivMod
<1> HIDE DEF y
<1>3. y \div N \in Int /\ (y % N) \in 0 .. N - 1 /\ y = N * (y \div N) + (y % N)
  BY DivMod, <1>1
<1> DEFINE a == x \div N
           b == x % N
           c == y \div N
           d == y % N
<1>4. a \in Int /\ c \in Int /\ b \in 0 .. N-1 /\ d \in 0 .. N-1 /\ x = N*a+b /\ y = N*c+d
  BY <1>2, <1>3
<1> HIDE DEF a,b,c,d
<1>5. N*(a+q) + b = N*c+d
  BY <1>4 DEF y
<1>6. a+q \in Int
  BY <1>4
<1>7. b = d
  BY <1>4, <1>5, <1>6, DivModUnique
<1>. QED BY <1>7 DEF b, d, y

\* A term of a sum may be reduced before the sum is.
LEMMA ModSum ==
  ASSUME NEW N \in Nat \ {0}, NEW x \in Int, NEW y \in Int
  PROVE  ((x % N) + y) % N = (x + y) % N
<1> DEFINE a == x \div N
           b == x % N
<1>1. a \in Int /\ b \in 0 .. N - 1 /\ x = N * a + b
  BY DivMod
<1> HIDE DEF a, b
<1>2. b + y \in Int /\ x + y = (b + y) + N * a
  BY <1>1
<1>3. ((b + y) + N * a) % N = (b + y) % N
  BY <1>1, <1>2, ModShift
<1>. QED BY <1>2, <1>3 DEF b

-----------------------------------------------------------------------------
\* The subsets of 1 .. n + 1 are those of 1 .. n, with n + 1 and without.
LEMMA Doubling ==
  ASSUME NEW n \in Nat
  PROVE  2^n \in Nat \ {0} /\ 2^(n + 1) = 2 * 2^n
<1> DEFINE S == 1 .. n
           A == SUBSET S
           B == {T \cup {n + 1} : T \in A}
<1>1. IsFiniteSet(S) /\ Cardinality(S) = n
  BY FS_Interval
<1>2. IsFiniteSet(1 .. n + 1) /\ Cardinality(1 .. n + 1) = n + 1
  BY FS_Interval
<1>3. IsFiniteSet(A) /\ Cardinality(A) = 2^n
  BY <1>1, FS_SUBSET
<1>4. Cardinality(SUBSET (1 .. n + 1)) = 2^(n + 1)
  BY <1>2, FS_SUBSET
<1>5. SUBSET (1 .. n + 1) = A \cup B
  <2>1. ASSUME NEW T \in SUBSET (1 .. n + 1) PROVE T \in A \cup B
    <3>1. CASE n + 1 \in T
      <4>1. T \ {n + 1} \in A /\ T = (T \ {n + 1}) \cup {n + 1}
        BY <3>1
      <4>. QED BY <4>1
    <3>2. CASE n + 1 \notin T
      BY <3>2
    <3>. QED BY <3>1, <3>2
  <2>2. ASSUME NEW T \in A PROVE T \in SUBSET (1 .. n + 1) /\ T \cup {n + 1} \in SUBSET (1 .. n + 1)
    OBVIOUS
  <2>3. B \subseteq SUBSET (1 .. n + 1)
    <3>1. ASSUME NEW U \in B PROVE U \in SUBSET (1 .. n + 1)
      <4>1. PICK T \in A : U = T \cup {n + 1}
        OBVIOUS
      <4> HIDE DEF A, B
      <4>. QED BY <2>2, <4>1
    <3> HIDE DEF B
    <3>. QED BY <3>1
  <2>4. A \subseteq SUBSET (1 .. n + 1)
    BY <2>2
  <2> HIDE DEF A, B
  <2>. QED BY <2>1, <2>3, <2>4
<1>6. A \cap B = {}
  OBVIOUS
<1>7. IsFiniteSet(B) /\ Cardinality(B) = 2^n
  <2> DEFINE f == [T \in A |-> T \cup {n + 1}]
  <2>1. f \in Bijection(A, B)
    <3>1. f \in [A -> B]
      OBVIOUS
    <3>2. ASSUME NEW T \in A, NEW U \in A, f[T] = f[U] PROVE T = U
      <4>1. n + 1 \notin T /\ n + 1 \notin U
        OBVIOUS
      <4>2. T \cup {n + 1} = U \cup {n + 1}
        BY <3>2
      <4>. QED BY <4>1, <4>2
    <3>3. \A U \in B : \E T \in A : f[T] = U
      OBVIOUS
    <3>. QED BY <3>1, <3>2, <3>3 DEF Bijection, Injection, Surjection, IsInjective
  <2>2. ExistsBijection(A, B)
    BY <2>1 DEF ExistsBijection
  <2> HIDE DEF A, B
  <2>. QED BY <1>3, <2>2, FS_Bijection
<1>8. Cardinality(A \cup B) = Cardinality(A) + Cardinality(B) - Cardinality(A \cap B)
  <2> HIDE DEF A, B
  <2>. QED BY <1>3, <1>7, FS_Union
<1>9. Cardinality(A \cap B) = 0
  BY <1>6, FS_EmptySet
<1>10. 2^n \in Nat
  <2> HIDE DEF A
  <2>. QED BY <1>3, FS_CardinalityType
<1>11. 2^n # 0
  <2>1. {} \in A
     OBVIOUS
  <2> HIDE DEF A
  <2>. QED BY <1>3, <2>1, FS_EmptySet
<1>12. 2^(n + 1) = 2^n + 2^n
  <2>1. Cardinality(A \cup B) = 2^(n + 1)
    BY <1>4, <1>5
  <2> HIDE DEF A, B
  <2>. QED BY <1>3, <1>7, <1>8, <1>9, <1>10, <2>1
<1>. QED BY <1>10, <1>11, <1>12

\* Seven bits further.
LEMMA SevenBits ==
  ASSUME NEW n \in Nat
  PROVE  2^n \in Nat \ {0} /\ 2^(n + 7) = 128 * 2^n
<1>1. \A m \in Nat : 2^m \in Nat \ {0} /\ 2^(m + 1) = 2 * 2^m
  BY Doubling
<1>2. 2^(n + 2) = 4 * 2^n
  BY <1>1, n + 1 \in Nat, (n + 1) + 1 = n + 2
<1>3. 2^(n + 4) = 16 * 2^n
  BY <1>1, <1>2, n + 2 \in Nat, n + 3 \in Nat, (n + 2) + 1 = n + 3, (n + 3) + 1 = n + 4
<1>4. 2^(n + 6) = 64 * 2^n
  BY <1>1, <1>3, n + 4 \in Nat, n + 5 \in Nat, (n + 4) + 1 = n + 5, (n + 5) + 1 = n + 6
<1>. QED BY <1>1, <1>4, n + 6 \in Nat, (n + 6) + 1 = n + 7

\* Powers of two multiply by adding their exponents.
LEMMA PowerOfSum ==
  ASSUME NEW a \in Nat, NEW b \in Nat
  PROVE  2^(a + b) = 2^a * 2^b
<1> DEFINE S == {n \in 0 .. b : 2^(a + n) = 2^a * 2^n}
<1>1. 0 \in S
  <2>1. 2^a \in Nat /\ 2^0 = 1 /\ a + 0 = a
    BY Doubling
  <2>. QED BY <2>1
<1>2. ASSUME NEW n \in 0 .. b - 1, n \in S PROVE n + 1 \in S
  <2>1. 2^(a + n + 1) = 2 * 2^(a + n) /\ 2^(n + 1) = 2 * 2^n /\ 2^a \in Nat /\ 2^n \in Nat
    BY Doubling, a + n \in Nat, n \in Nat
  <2>2. 2 * (2^a * 2^n) = 2^a * (2 * 2^n)
    <3> DEFINE p == 2^a
               q == 2^n
    <3>1. p \in Nat /\ q \in Nat
      BY <2>1
    <3> HIDE DEF p, q
    <3>2. 2 * (p * q) = p * (2 * q)
      BY <3>1
    <3>. QED BY <3>2 DEF p, q
  <2>3. 2^(a + (n + 1)) = 2^a * 2^(n + 1)
    BY <1>2, <2>1, <2>2, a + (n + 1) = a + n + 1
  <2>. QED BY <2>3
<1>3. 0 .. b \subseteq S
  <2> HIDE DEF S
  <2>. QED BY <1>1, <1>2, Induction
<1>. QED BY <1>3

\* A larger exponent makes a larger power.
LEMMA PowerMonotone ==
  ASSUME NEW a \in Nat, NEW b \in Nat, a <= b
  PROVE  2^a <= 2^b
<1> DEFINE p == 2^a
           q == 2^(b - a)
<1>1. b - a \in Nat /\ a + (b - a) = b
  OBVIOUS
<1>2. p \in Nat /\ q \in Nat \ {0}
  BY <1>1, Doubling
<1>3. 2^b = p * q
  BY <1>1, PowerOfSum
<1> HIDE DEF p, q
<1>4. p <= p * q
  BY <1>2
<1>. QED BY <1>3, <1>4 DEF p

\* A multiple of the divisor adds to the quotient.
LEMMA DivShift ==
  ASSUME NEW N \in Nat \ {0}, NEW x \in Int, NEW q \in Int
  PROVE  (x + N * q) \div N = (x \div N) + q
<1> DEFINE y == x + N * q
           a == x \div N
           b == x % N
           c == y \div N
           e == y % N
<1>1. y \in Int
  OBVIOUS
<1>2. a \in Int /\ b \in 0 .. N - 1 /\ x = N * a + b
  BY DivMod
<1>3. c \in Int /\ e \in 0 .. N - 1 /\ y = N * c + e
  BY <1>1, DivMod
<1>4. y = x + N * q
  OBVIOUS
<1> HIDE DEF a, b, c, e, y
<1>5. N * (a + q) + b = N * c + e
  <2>1. N * (a + q) = N * a + N * q
    BY <1>2
  <2>. QED BY <1>2, <1>3, <1>4, <2>1
<1>6. a + q = c
  BY <1>2, <1>3, <1>5, DivModUnique
<1>. QED BY <1>6 DEF a, c, y

\* The digit of x before which there are n lower ones, in base 128.
DigitOf(x, n) == (x \div 2^(7 * n)) % 128

\* A multiple of a higher power of 128 leaves the digits below it alone.
LEMMA DigitBelow ==
  ASSUME NEW x \in Int, NEW c \in Int, NEW m \in Nat, NEW n \in Nat, m < n
  PROVE  DigitOf(x + c * 2^(7 * n), m) = DigitOf(x, m)
<1> DEFINE p == 2^(7 * m)
           q == 2^(7 * (n - m - 1))
<1>1. 7 * m \in Nat /\ 7 * (n - m - 1) \in Nat
  OBVIOUS
<1>2. p \in Nat \ {0} /\ q \in Nat
  BY <1>1, Doubling
<1>3. 2^(7 * n) = p * (128 * q)
  <2>1. 7 * (n - m - 1) + 7 \in Nat /\ 7 * n = 7 * m + (7 * (n - m - 1) + 7)
    OBVIOUS
  <2>2. 2^(7 * (n - m - 1) + 7) = 128 * q
    BY <1>1, SevenBits
  <2>3. 2^(7 * m + (7 * (n - m - 1) + 7)) = p * 2^(7 * (n - m - 1) + 7)
    BY <1>1, <2>1, PowerOfSum
  <2>. QED BY <2>1, <2>2, <2>3
<1> HIDE DEF p, q
<1>4. c * q \in Int /\ 128 * (c * q) \in Int
  BY <1>2
<1>5. c * (p * (128 * q)) = p * (128 * (c * q))
  <2>1. c * (p * (128 * q)) = 128 * (c * p * q) /\ p * (128 * (c * q)) = 128 * (c * p * q)
    BY <1>2
  <2>. QED BY <2>1
<1>6. (x + p * (128 * (c * q))) \div p = (x \div p) + 128 * (c * q)
  BY <1>2, <1>4, DivShift
<1>7. ((x \div p) + 128 * (c * q)) % 128 = (x \div p) % 128
  <2>1. x \div p \in Int
    BY <1>2, DivMod
  <2>. QED BY <1>4, <2>1, ModShift
<1>. QED BY <1>3, <1>5, <1>6, <1>7 DEF p, DigitOf

\* The top digit of a number of n digits.
LEMMA TopDigit ==
  ASSUME NEW n \in Nat, NEW x \in 0 .. 2^(7 * (n + 1)) - 1
  PROVE  LET p   == 2^(7 * n)
             top == x \div p
         IN  /\ top \in 0 .. 127 /\ top % 128 = top
             /\ x % p \in 0 .. p - 1 /\ x = p * top + (x % p)
<1> DEFINE p   == 2^(7 * n)
           top == x \div p
           rest == x % p
<1>1. 7 * n \in Nat /\ 7 * (n + 1) = 7 * n + 7
  OBVIOUS
<1>2. p \in Nat \ {0} /\ 2^(7 * (n + 1)) = 128 * p
  BY <1>1, SevenBits
<1>3. x \in Int /\ x >= 0 /\ x < 128 * p
  BY <1>2
<1>4. top \in Int /\ rest \in 0 .. p - 1 /\ x = p * top + rest
  BY <1>2, <1>3, DivMod
<1> HIDE DEF p, top, rest
<1>5. ~(top >= 128)
  <2>1. top >= 128 => p * top >= p * 128
    BY <1>2, <1>4
  <2>. QED BY <1>2, <1>3, <1>4, <2>1
<1>6. ~(top <= -1)
  <2>1. top <= -1 => p * top <= p * (-1)
    BY <1>2, <1>4
  <2>. QED BY <1>2, <1>3, <1>4, <2>1
<1>7. top \in 0 .. 127
  BY <1>4, <1>5, <1>6
<1>8. top % 128 = top
  BY <1>7
<1>. QED BY <1>4, <1>7, <1>8 DEF p, top, rest

\* The two top digits of a number of n + 2 digits.
LEMMA TopDigits ==
  ASSUME NEW n \in Nat, NEW x \in 0 .. 2^(7 * (n + 2)) - 1
  PROVE  LET q   == 2^(7 * n)
             top == x \div 2^(7 * (n + 1))
             low == DigitOf(x, n)
         IN  /\ top \in 0 .. 127 /\ low \in 0 .. 127
             /\ 128 * (q * top) + q * low <= x
             /\ x < 128 * (q * top) + q * (low + 1)
<1> DEFINE q    == 2^(7 * n)
           p    == 2^(7 * (n + 1))
           top  == x \div p
           rest == x % p
           low  == rest \div q
           tail == rest % q
<1>1. 7 * n \in Nat /\ 7 * (n + 1) = 7 * n + 7 /\ n + 1 \in Nat /\ (n + 1) + 1 = n + 2
  OBVIOUS
<1>2. q \in Nat \ {0} /\ p = 128 * q
  BY <1>1, SevenBits
<1>3. top \in 0 .. 127 /\ rest \in 0 .. p - 1 /\ x = p * top + rest
  <2>1. x \in 0 .. 2^(7 * ((n + 1) + 1)) - 1 /\ n + 1 \in Nat
    BY <1>1
  <2>. QED BY <2>1, TopDigit
<1>4. rest \in Int /\ low \in 0 .. 127 /\ low % 128 = low /\ tail \in 0 .. q - 1 /\ rest = q * low + tail
  <2> HIDE DEF rest
  <2>1. rest \in 0 .. 2^(7 * (n + 1)) - 1
    BY <1>3 DEF p
  <2>. QED BY <2>1, TopDigit
<1>5. DigitOf(x, n) = low
  <2> HIDE DEF p, q, top, rest, low
  <2>1. x = rest + q * (128 * top) /\ 128 * top \in Int
    BY <1>2, <1>3, <1>4
  <2>2. (rest + q * (128 * top)) \div q = (rest \div q) + 128 * top
    BY <1>2, <1>4, <2>1, DivShift
  <2>3. (low + 128 * top) % 128 = low % 128
    BY <1>3, <1>4, ModShift
  <2>. QED BY <1>4, <2>1, <2>2, <2>3 DEF low, q, DigitOf
<1> HIDE DEF p, q, top, rest, low, tail
<1>6. x = 128 * (q * top) + q * low + tail /\ q * (low + 1) = q * low + q
  BY <1>2, <1>3, <1>4
<1>7. q * top \in Int /\ q * low \in Int
  BY <1>2, <1>3, <1>4
<1>8. 128 * (q * top) + q * low <= x /\ x < 128 * (q * top) + q * (low + 1)
  BY <1>2, <1>4, <1>6, <1>7
<1>. QED BY <1>3, <1>4, <1>5, <1>8 DEF p, q, top
=============================================================================
