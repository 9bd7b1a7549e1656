--------------------------- MODULE ChannelBalance ---------------------------
(***************************************************************************)
(* hp_alloc on a machine: the classes it balances are those of the pages'  *)
(* addresses under the mapping it is called with, and what it is after is  *)
(* that a benchmark which reads the region keeps every channel as busy as  *)
(* the others.                                                             *)
(***************************************************************************)
EXTENDS HugepageAlloc, ChannelClass

CONSTANT Machine    \* the mapping hp_alloc is called with

ASSUME MachineAssumption == /\ Machine.channel \in Seq(SUBSET Nat)
                            /\ PageBits \in Nat
                            /\ K = nclass(Machine)
                            /\ PageClass = [p \in Page |-> classify(Machine, DramBase(p))]
ASSUME IndependenceAssumption == Independent(Machine)

\* How often channel C is reached by the addresses of a region.
Uses(C) == Cardinality({h \in Slot \X ChannelOffsets(Machine) :
                            ChannelsAt(Machine, RegionPage(h[1]), h[2]) = C})

QuotaOf(C) == Quota(ClassOfChannel(Machine, C))

\* hugepage_alloc.h:118-119, "Balancing means picking equally many pages of each class":
\* a region reported balanced, whichever way its pages were obtained, uses the channels in
\* proportion to the quotas of their classes, all alike if the classes divide the pages.
\* With a hole of part of a page hp_alloc does not balance, and the plain mapping's report
\* says nothing of channels.
ChannelsEven ==
    pc = "ready" /\ balanced /\ env.holeAligned =>
        \A C, D \in SUBSET DOMAIN Machine.channel : Uses(C) * QuotaOf(D) = Uses(D) * QuotaOf(C)
=============================================================================
