----------------------------- MODULE MCRandRead -----------------------------
(* Two-byte cachelines in pages of 32 bytes, an 8-bit LFSR with a cycle of 21,  *)
(* and a mapping whose functions reach over row, column and page bits.         *)
EXTENDS RandRead

Feedback == {0, 1, 3, 6}
TwoBanks == [low |-> <<{1, 3, 4}, {2}>>, high |-> <<{2}, {1, 3, 4}>>,
             fun |-> <<{1, 3, 7}, {3, 4, 6}>>, row |-> {5, 7}, column |-> {1, 2}]
OneStep == [low |-> <<{1}>>, high |-> <<{1}>>,
            fun |-> <<{3, 6}>>, row |-> {4, 5, 7}, column |-> {1}]
SmallMaps == [two |-> TwoBanks, one |-> OneStep]
SmallWidths == {1, 2, 4}
SmallRequests == {r \in [pages : 1 .. 3, lines : 1 .. 4, mode : 0 .. 2,
                         map : {"", "one", "none"}, iters : {6, 12}] :
                    r.map = "none" => r.mode = 1}
\* Page 3 is the hole when its size is one page.
SmallRegions == {[s \in 0 .. 0 |-> 2], [s \in 0 .. 0 |-> 5], [s \in 0 .. 1 |-> 7 - 6 * s],
                 [s \in 0 .. 1 |-> 4 + s], [s \in 0 .. 2 |-> 2 * s]}
=============================================================================
