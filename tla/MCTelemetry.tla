---------------------------- MODULE MCTelemetry -----------------------------
(* Instances for TLC: readings at the edges of their ranges, items that    *)
(* are unusable, empty or repeated, plates around the layout threshold.    *)
EXTENDS Telemetry

Text(char, n) == [i \in 1..n |-> char]

\* Just north of the equator and west of Greenwich with an almost empty
\* battery; far south-east, heading almost north.
MCStarts ==
  {[lat |-> 4, lon |-> -15, heading |-> 3599, speed |-> 8999, alt |-> 300,
    battery |-> 503],
   [lat |-> -899999999, lon |-> 1799999999, heading |-> 0, speed |-> 1001,
    alt |-> 180, battery |-> 10000]}
MCMoves ==
  {[lat |-> -11, lon |-> 17, heading |-> 120, speed |-> 500, alt |-> 2],
   [lat |-> 26, lon |-> -9, heading |-> -120, speed |-> -500, alt |-> -2]}
MCClocks == {<<99, 12, 31, 23, 59, 59>>, <<0, 1, 10, 0, 9, 0>>}
MCHeaders ==
  {[alarm |-> 0, status |-> 0], [alarm |-> 1 + 2^7 + 2^16, status |-> 2 + 15 * 65536]}
MCItems ==
  {[id |-> 235, val |-> <<100>>], [id |-> 235, val |-> <<101>>],
   [id |-> 99, val |-> <<>>], [id |-> 100, val |-> <<0>>],
   [id |-> 37, val |-> <<255, 255>>], [id |-> 37, val |-> <<0, 1>>],
   [id |-> 37, val |-> <<14, 16>>], [id |-> 37, val |-> <<14>>],
   [id |-> 48, val |-> <<200>>], [id |-> 48, val |-> <<>>]}
Fix(alt) == [i \in 1..28 |-> IF i = 18 THEN alt ELSE 0]
MCPoints == {Fix(1), Fix(2) \o <<235, 1, 50>>, <<7, 7, 7>>, <<>>}
IMEI == <<48, 49, 51, 57, 56, 55, 54, 53, 52, 51, 50, 49>>
MCRegistrations ==
  {[layout |-> "standard", model |-> Text(77, n), id |-> SubSeq(IMEI, 1, k),
     plate |-> Text(80, p)]
     : n \in {0, 4, 20}, k \in {0, 7, 12}, p \in 0..13}
  \cup
  {[layout |-> "compact", model |-> Text(77, n), id |-> SubSeq(IMEI, 1, k),
     plate |-> Text(80, p)]
     : n \in {0, 8}, k \in {0, 7}, p \in 0..13}
  \cup
  {[layout |-> "stripped", model |-> <<>>, id |-> SubSeq(IMEI, 1, 7),
     plate |-> <<>>]}
=============================================================================
