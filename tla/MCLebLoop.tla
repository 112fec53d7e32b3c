----------------------------- MODULE MCLebLoop ------------------------------
(***************************************************************************)
(* A 22-bit word: like 64 = 9 * 7 + 1, 22 = 3 * 7 + 1, so the last payload *)
(* byte that fits has one bit left, and TLC's integers hold every product. *)
(***************************************************************************)
EXTENDS LebLoop, TLC

MCWordSize == 2^22

\* Payloads with and without the sign bit, with and without continuation.
SomeBytes == {0, 1, 63, 64, 127, 128, 129, 191, 192, 255}

MCBuffers == UNION {[1 .. n -> SomeBytes] : n \in 0 .. 4} \cup
             {<<a, b, 255, 128, c>> : a, b, c \in {0, 1, 128, 255}}
=============================================================================
