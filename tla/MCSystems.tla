------------------------------ MODULE MCSystems ------------------------------
(* The column steps and the channel classes of every mapping the three        *)
(* address_mapping.py register, with the DRAM hole of config_template.py.     *)
EXTENDS ColumnSteps, Systems

Registered == ChbalSystems \cup TopSystems \cup TempSystems
\* Cacheline-aligned addresses: the ends of the region, and alternating bits.
Samples == {{}, 6 .. 35, {n \in 6 .. 35 : n % 2 = 0}, {n \in 6 .. 35 : n % 3 = 1}}
BothEnds == {TRUE, FALSE}

Chan == INSTANCE ChannelClass WITH HoleEnd <- 4, HoleSize <- 2

\* What ChannelBalance asks of a machine holds of every registered one.
ASSUME RegisteredIndependent == \A s \in Registered : Chan!Independent(s)

------------------------------------------------------------------------------
\* The row's bits reach to the top of the memory a mapping is for.
OffsetBits == 6
LineBits == OffsetBits .. Max(sys.row)

\* Decoding is linear, and copies the bits of row and column: two lines decode alike if
\* and only if the bits in which they differ are others that decode like none (theorem
\* DifferencesDecide).
DecodesApart == pc = "done" => TellsApart(LineBits)

\* No two lines of the memory have the same channel, rank, bank group, bank, row and
\* column: a mask typed in wrong would give two lines one place in the DRAM, and
\* latency_bw.cpp would measure row hits as conflicts.  Two mappings are known to fail.
Folded == {alder_1ch_1dpc_1rank_16gb, alder_1ch_1dpc_1rank_16gb_2}
LinesApart == sys \notin Folded => DecodesApart

\* address_mapping.py:82 (chbal/): "DDR5, Alder Lake (alder02), 1 channel, 1 DPC, 1 rank,
\* 16GB": the decode of each registered mapping tells the lines of that memory apart.
EveryMappingDecodesApart == DecodesApart
=============================================================================
