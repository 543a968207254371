--------------------------- MODULE MCUuid7Layout ----------------------------
(* Values for TLC: an identifier with a single free bit set, for every free *)
(* bit, beside empty and full ones; and, for every bit that orders live     *)
(* identifiers, the one with that bit beside the one with all below it.     *)
EXTENDS Uuid7Layout

Live(ms, first, second) ==
  [live |-> TRUE, ms |-> ms, first |-> first, second |-> second]
Past(ms, first, second) ==
  [live |-> FALSE, ms |-> ms, first |-> first, second |-> second]

\* A live identifier with these of its 154 input bits set, 0 the lowest.
OfBits(S) ==
  Live({b - 106 : b \in S \cap 106 .. 153}, {b - 64 : b \in S \cap 64 .. 105}, S \cap Bits(64))

Corners ==
  { OfBits({}), OfBits(Bits(154)), OfBits(Bits(106)), OfBits(106 .. 153),
    Past(Bits(48), Bits(64), Bits(64)), Past({}, {}, {}) }

Singles ==
  {OfBits({b}) : b \in Bits(154)}
    \cup {Past({b}, {}, {}) : b \in Bits(48)}
    \cup {Past({}, {b}, {}) : b \in Bits(64)} \cup {Past({}, {}, {b}) : b \in Bits(64)}

MCPairs ==
  (Singles \X Corners) \cup {<<OfBits(Bits(b)), OfBits({b})>> : b \in Bits(154)}
=============================================================================
