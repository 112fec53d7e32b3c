---------------------------- MODULE Leb128Encode ----------------------------
(***************************************************************************)
(* The encoders of the other side: how an assembler writes a number as     *)
(* ULEB128 or SLEB128 (`.uleb128`, `.sleb128`).  The repository only reads *)
(* what they write, so they are external to it.                            *)
(***************************************************************************)
EXTENDS Integers, FiniteSetsExt

CONSTANT MaxLeb  \* the longest encoding considered, in bytes

\* d seven-bit digits of n (floored, so n may be negative), all but the last
\* marked as continued.
Digits(n, d) ==
  [k \in 1 .. d |-> ((n \div 2^(7 * (k - 1))) % 128) + IF k < d THEN 128 ELSE 0]

UlebOf(n) == Digits(n, Min({d \in 1 .. MaxLeb : n < 2^(7 * d)}))

SlebOf(n) ==
  Digits(n, Min({d \in 1 .. MaxLeb : /\ -(2^(7 * d - 1)) <= n
                                     /\ n < 2^(7 * d - 1)}))
=============================================================================
