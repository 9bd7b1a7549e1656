------------------------------- MODULE Systems -------------------------------
(***************************************************************************)
(* The mappings registered in SYSTEMS of address_mapping.py: for each, the *)
(* physical address bits of every bank-selection function, of the row and  *)
(* of the column.  chbal/ and the top directory register different sets,   *)
(* and different bits under some of the same names (those of the top       *)
(* directory carry the prefix root_ here); Temp/ registers a subset of     *)
(* what chbal/ does.                                                       *)
(***************************************************************************)
EXTENDS Naturals, Sequences

\* Row and column bits are copied; the functions are kept by field, and in the
\* order _bank_functions() lists them.
System(channel, rank, bankGroup, bank, row, column) ==
    [channel |-> channel, fun |-> channel \o rank \o bankGroup \o bank,
     row |-> row, column |-> column]

arrow_1ch_1dpc_2rank_32gb == System(<<{9, 10, 13, 19}>>, <<{17, 20, 25, 30}>>,
    <<{8, 13, 18, 26, 31}, {14, 22, 27, 32}, {15, 23, 28, 33}>>, <<{16, 19, 24, 29, 34}, {18, 21}>>,
    19 .. 34, {11, 12} \cup (6 .. 9))
arrow_1ch_1dpc_1rank_16gb == System(<<{9, 10, 13, 19}>>, <<>>,
    <<{8, 13, 20, 25, 30}, {14, 21, 26, 31}, {15, 22, 27, 32}>>, <<{16, 18, 23, 28, 33}, {17, 19, 24, 29}>>,
    18 .. 33, {11, 12} \cup (6 .. 9))
arrow_1ch_1dpc_1rank_32gb_Bit35 == System(<<{9, 13, 19, 35}>>, <<>>,
    <<{8, 13, 20, 25, 30}, {14, 21, 26, 31}, {15, 22, 27, 32}>>, <<{16, 18, 23, 28, 33}, {17, 19, 24, 29}>>,
    18 .. 34, {11, 12} \cup (6 .. 9))
arrow_1ch_1dpc_1rank_32gb == System(<<{9, 10, 13, 19}>>, <<>>,
    <<{8, 13, 20, 25, 30}, {14, 21, 26, 31}, {15, 22, 27, 32}>>, <<{16, 18, 23, 28, 33}, {17, 19, 24, 29}>>,
    18 .. 34, {11, 12} \cup (6 .. 9))
raptor_1ch_1dpc_2rank_32gb == System(<<{9, 10, 13, 19}>>, <<{17, 20, 25, 30}>>,
    <<{8, 13, 18, 26, 31}, {14, 22, 27, 32}, {15, 23, 28, 33}>>, <<{16, 19, 24, 29, 34}, {18, 21}>>,
    19 .. 34, {11, 12} \cup (6 .. 9))
raptor_1ch_1dpc_1rank_16gb == System(<<{9, 10, 13, 19}>>, <<>>,
    <<{8, 13, 20, 25, 30}, {14, 21, 26, 31}, {15, 22, 27, 32}>>, <<{16, 18, 23, 28, 33}, {17, 19, 24, 29}>>,
    18 .. 33, {11, 12} \cup (6 .. 9))
alder_1ch_1dpc_1rank_16gb == System(<<{9, 12, 13, 18, 19}>>, <<>>,
    <<{8, 12, 19}, {18, 22, 27, 31}, {15, 20, 24, 28, 32}>>, <<{16, 21, 25, 29, 33}, {17, 22, 26, 30}>>,
    18 .. 33, 6 .. 11)
zen4_1ch_1dpc_1rank_16gb == System(<<{6} \cup (18 .. 33)>>, <<>>,
    <<{8, 20, 25, 30}, {9, 21, 26, 31}, {12, 22, 27, 32}>>, <<{10, 18, 23, 28, 33}, {11, 19, 24, 29}>>,
    18 .. 33, {7} \cup (13 .. 17))
zen4_1ch_1dpc_2rank_32gb == System(<<{6} \cup (19 .. 34)>>, <<{18}>>,
    <<{8, 21, 26, 31}, {9, 22, 27, 32}, {12, 23, 28, 33}>>, <<{10, 19, 24, 29, 34}, {11, 20, 25, 30}>>,
    19 .. 34, {7} \cup (13 .. 17))
spr_1ch_1dpc_1rank_32gb == System(<<{6}>>, <<>>,
    <<{7, 27}, {8, 28}, {9, 31}>>, <<{10, 29}, {11, 30}>>,
    19 .. 34, 12 .. 18)
spr_1ch_1dpc_2rank_64gb == System(<<{6}>>, <<{7}>>,
    <<{8, 28}, {9, 29}, {10, 12, 32}>>, <<{11, 30}, {12, 31}>>,
    20 .. 35, 13 .. 19)
cascade_1ch_1dpc_2rank_32gb == System(<<>>, <<{13}>>,
    <<{6}, {18}>>, <<{19}, {20}>>,
    (15 .. 17) \cup (21 .. 34), {14} \cup (7 .. 12))
cascade_1ch_1dpc_1rank_16gb == System(<<>>, <<>>,
    <<{6}, {17}>>, <<{18}, {19}>>,
    (14 .. 16) \cup (20 .. 33), 7 .. 13)
cascade_4ch_1dpc_2rank_32gb == System(<<{8}, {36}>>, <<{14}>>,
    <<{6}, {19}>>, <<{20}, {21}>>,
    (16 .. 18) \cup (22 .. 35), {7, 15} \cup (9 .. 13))
ice_1ch_1dpc_2rank_x8_16gb == System(<<>>, <<{13}>>,
    <<{6, 21}, {18, 22}>>, <<{19, 23}, {20, 24}>>,
    (15 .. 17) \cup (21 .. 33), {14} \cup (7 .. 12))
root_arrow_1ch_1dpc_1rank_16gb == System(<<{9, 10, 13, 19}>>, <<>>,
    <<{8, 13, 20, 25, 30}, {14, 21, 26, 31, 35}, {15, 22, 27, 32}>>, <<{16, 18, 23, 28, 33}, {17, 19, 24, 29}>>,
    18 .. 33, {11, 12} \cup (6 .. 9))
root_raptor_1ch_1dpc_2rank_32gb == System(<<{9, 12, 13, 18, 19}>>, <<{16, 22}>>,
    <<{8, 12, 19}, {15, 21, 26, 30, 34}, {14, 20, 25, 29, 33}>>, <<{17, 23, 27, 31}, {18, 24, 28, 32}>>,
    18 .. 34, 6 .. 11)
root_raptor_1ch_1dpc_1rank_16gb == System(<<{9, 12, 13, 18, 19}>>, <<>>,
    <<{8, 12, 19}, {14, 18, 23, 27, 31}, {15, 20, 24, 28, 32}>>, <<{16, 21, 25, 29, 33}, {17, 22, 26, 30}>>,
    18 .. 33, 6 .. 11)
alder_1ch_1dpc_2rank_32gb == System(<<{9, 12, 13, 18, 19}>>, <<{16, 22}>>,
    <<{8, 12, 19}, {15, 21, 26, 30, 34}, {14, 20, 25, 29, 33}>>, <<{17, 23, 27, 31}, {18, 24, 28, 32}>>,
    18 .. 34, 6 .. 11)
root_alder_1ch_1dpc_1rank_16gb == System(<<{9, 12, 13, 18, 19}>>, <<>>,
    <<{8, 12, 19}, {14, 18, 23, 27, 31}, {15, 20, 24, 28, 32}>>, <<{16, 21, 25, 29, 33}, {17, 22, 26, 30}>>,
    18 .. 33, 6 .. 11)
alder_1ch_1dpc_1rank_16gb_2 == System(<<{8, 9, 13, 18}>>, <<>>,
    <<{8, 12, 19}, {18, 22, 27, 31}, {15, 20, 24, 28, 32}>>, <<{16, 21, 25, 29, 33}, {17, 22, 26, 30}>>,
    18 .. 33, 6 .. 11)

ChbalSystems ==
    {arrow_1ch_1dpc_2rank_32gb, arrow_1ch_1dpc_1rank_16gb,
     arrow_1ch_1dpc_1rank_32gb, raptor_1ch_1dpc_2rank_32gb,
     raptor_1ch_1dpc_1rank_16gb, alder_1ch_1dpc_1rank_16gb,
     zen4_1ch_1dpc_1rank_16gb, zen4_1ch_1dpc_2rank_32gb, spr_1ch_1dpc_1rank_32gb,
     spr_1ch_1dpc_2rank_64gb, cascade_1ch_1dpc_2rank_32gb,
     cascade_1ch_1dpc_1rank_16gb, cascade_4ch_1dpc_2rank_32gb,
     ice_1ch_1dpc_2rank_x8_16gb}
TopSystems ==
    {arrow_1ch_1dpc_2rank_32gb, root_arrow_1ch_1dpc_1rank_16gb,
     arrow_1ch_1dpc_1rank_32gb, root_raptor_1ch_1dpc_2rank_32gb,
     root_raptor_1ch_1dpc_1rank_16gb, alder_1ch_1dpc_2rank_32gb,
     root_alder_1ch_1dpc_1rank_16gb, alder_1ch_1dpc_1rank_16gb_2,
     zen4_1ch_1dpc_1rank_16gb, zen4_1ch_1dpc_2rank_32gb, spr_1ch_1dpc_1rank_32gb,
     spr_1ch_1dpc_2rank_64gb, cascade_1ch_1dpc_2rank_32gb,
     cascade_1ch_1dpc_1rank_16gb, cascade_4ch_1dpc_2rank_32gb,
     ice_1ch_1dpc_2rank_x8_16gb}
TempSystems ==
    {arrow_1ch_1dpc_2rank_32gb, arrow_1ch_1dpc_1rank_16gb,
     arrow_1ch_1dpc_1rank_32gb, raptor_1ch_1dpc_2rank_32gb,
     raptor_1ch_1dpc_1rank_16gb, alder_1ch_1dpc_1rank_16gb,
     zen4_1ch_1dpc_1rank_16gb, zen4_1ch_1dpc_2rank_32gb, spr_1ch_1dpc_1rank_32gb,
     spr_1ch_1dpc_2rank_64gb}
=============================================================================
