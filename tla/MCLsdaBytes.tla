---------------------------- MODULE MCLsdaBytes -----------------------------
(***************************************************************************)
(* LsdaParser on byte strings nobody wrote with care.  Each family varies  *)
(* what one part of parse() reads.  A 22-bit word: like 64 = 9 * 7 + 1,    *)
(* 22 = 3 * 7 + 1, and TLC's integers hold every product.                  *)
(***************************************************************************)
EXTENDS LsdaParser, TLC

MCWordSize == 2^22

UpTo(S, n) == UNION {[1 .. k -> S] : k \in 0 .. n}

\* LPStart, its encoding, and the encoding and the offset of the type table;
\* <<255, 255, 255, 1>> is 2^22 - 1, so the sum with the cursor wraps.
HeaderBytes ==
  {<<255, t>> \o o \o b : t \in {1, 155, 255},
                          o \in {<<>>, <<4>>, <<255, 255, 255, 1>>,
                                 <<255, 255, 255, 255>>},
                          b \in UpTo({0, 1, 2}, 2)} \cup
  {<<p>> \o b \o <<255, 1, 0>> : p \in {0, 1, 2, 9, 10, 17, 27},
                                 b \in UpTo({3, 129}, 3)}

\* The call-site table: encodings, lengths (one of them 2^22 - 4, which
\* wraps) and records cut anywhere.
SiteTables ==
  {<<255, 255, e>> \o l \o <<0, 1>> \o b :
     e \in {1, 2, 9, 10, 255},
     l \in {<<0>>, <<1>>, <<4>>, <<5>>, <<8>>, <<252, 255, 255, 1>>},
     b \in UpTo({0, 1, 130}, 4)}

\* One call site with landing pad 2, and every short action table.
\* 126 and 127 are -2 and -1, 125 is -3.
ActionTables ==
  {<<255, 255, 1, 4, 0, 1, 2, a>> \o b :
     a \in {0, 1, 2, 3, 127}, b \in UpTo({0, 1, 2, 125, 126, 128}, 4)} \cup
  {<<255, 255, 1, 8, 0, 1, 2, 3, 1, 1, 3, 1>> \o b :
     b \in [1 .. 5 -> {0, 1, 125, 126}]}

\* A type table of some encoding that begins somewhere in or after the
\* actions.
TypeTables ==
  {<<255, t, o, 1, 4, 0, 1, 2, 1>> \o b :
     t \in {1, 2, 9, 10, 27},
     o \in {0, 5, 6, 7, 8, 9, 10, 11},
     b \in UpTo({0, 3, 130}, 4)}

ArbitraryBytes == HeaderBytes \cup SiteTables \cup ActionTables \cup TypeTables
=============================================================================
