---------------------------- MODULE MCColumnSteps ----------------------------
(* Every pair of bank-selection functions over five address bits, under the *)
(* ways rows and columns can lie among them: low, high, split, at the ends. *)
EXTENDS ColumnSteps

FiveBits == 0 .. 4
Layouts == {<<{}, {0, 2}>>, <<{4}, {1}>>, <<{3}, {0, 1}>>, <<{1}, {2, 4}>>,
            <<{}, {4}>>, <<{0, 1}, {2, 3, 4}>>}
SmallMappings == {[fun |-> <<f, g>>, row |-> l[1], column |-> l[2]] :
                     f \in SUBSET FiveBits, g \in SUBSET FiveBits, l \in Layouts}
SmallAddresses == {{}, {0, 2}, {1, 2, 3, 4}}
BothEnds == {TRUE, FALSE}
=============================================================================
