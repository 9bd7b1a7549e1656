------------------------------ MODULE MCLatency ------------------------------
(* Pages of four lines, a hole that is not a whole number of pages, and one   *)
(* mapping whose masks reach over line and page bits.                         *)
EXTENDS Latency

Mapping == [channel |-> <<{0, 1, 2, 3}>>, rank |-> <<{4}>>, bank_group |-> <<{0, 2}>>,
            bank |-> <<{1, 3}>>, row |-> {2, 3, 4}, column |-> {0}]
SmallMaps == [small |-> Mapping, stale |-> Mapping, bare |-> Mapping]
\* Lines 7 and 21 as Python decodes them; the vector of "stale" is another mapping's.
Vector(n, a, c, r, g, b, w, l) ==
    [name |-> n, addr |-> a, expected |-> [channel |-> c, rank |-> r, bank_group |-> g,
                                           bank |-> b, row |-> w, col |-> l]]
Vectors == {Vector("small", {0, 1, 2}, {1}, {}, {}, {1}, {2}, {0}),
            Vector("small", {0, 2, 4}, {}, {1}, {}, {}, {2, 4}, {0}),
            Vector("stale", {0, 1, 2}, {}, {}, {}, {1}, {2}, {0})}
SmallRequests == [pages : 0 .. 2, pairs : 1 .. 2, reps : {1}, map : {""}]
                    \cup [pages : {1}, pairs : 0 .. 1, reps : 0 .. 1, map : {"small", "stale", "bare", "none"}]
\* Page 1 has lines in the hole.
SmallRegions == {[s \in 0 .. 0 |-> 2], [s \in 0 .. 1 |-> 2 + s], [s \in 0 .. 1 |-> 4 - 4 * s]}
=============================================================================
