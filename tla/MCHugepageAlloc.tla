-------------------------- MODULE MCHugepageAlloc --------------------------
(* Small machines for hp_alloc.                                             *)
EXTENDS ChannelBalance

\* Four channels, of which a page reaches two: one function as that of zen4, with bits of the
\* page and bits above, and one as cascade's second, constant throughout a page.
FourChannels == [channel |-> <<{8, 35}, {36}>>]
TheirClasses == nclass(Machine)
Classified == [p \in Page |-> classify(Machine, DramBase(p))]

Pages4 == 64 .. 67
OneNode == [p \in Page |-> 0]
TwoNodes == [p \in Page |-> p % 2]
LastOnNode1 == [p \in Page |-> IF p = 98 THEN 1 ELSE 0]
AllFaults == Syscalls
NoFaults == {}
\* Above the hole, with every value of address bits 35 and 36, bit 36 set in two.
Pages5 == {4, 5, 34, 66, 98}
ProbeFaults == {"pread"}
=============================================================================
