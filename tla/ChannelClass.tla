---------------------------- MODULE ChannelClass ----------------------------
(***************************************************************************)
(* chbal/hugepage_alloc.h: a channel function whose bits are all above the *)
(* page offset has one value throughout a hugepage; those functions split  *)
(* the pages into classes.  Pages are numbered by physical address, and    *)
(* the controller sees a page above the DRAM hole HoleSize pages lower.    *)
(***************************************************************************)
EXTENDS Integers, Sequences, FiniteSets

CONSTANTS
    PageBits,   \* address bits inside a hugepage, 30
    HoleEnd,    \* DECODE_HOLE_END, in pages
    HoleSize    \* DECODE_HOLE_SIZE, in pages: a whole number, or hp_alloc does not balance

InPage == 0 .. PageBits - 1
Parity(S) == Cardinality(S) % 2

\* phys_to_dram of a page's base, and the bits of that base.
DramPage(p) == IF p >= HoleEnd THEN p - HoleSize ELSE p
DramBase(p) == {PageBits + b : b \in {b \in 0 .. 15 : (DramPage(p) \div 2 ^ b) % 2 = 1}}

\* hp_class_info: the channel functions a page cannot vary.
ClassFns_AnyHighBit(s) == {f \in DOMAIN s.channel : s.channel[f] \ InPage # {}}
ClassFns(s) == {f \in DOMAIN s.channel : s.channel[f] # {} /\ s.channel[f] \cap InPage = {}}

\* Each of them doubles the number of classes: Classes(s)[f] is 1 << n after the first f
\* channel functions.
Classes(s) == LET w[f \in 0 .. Len(s.channel)] ==
                      IF f = 0 THEN 1 ELSE IF f \in ClassFns(s) THEN 2 * w[f - 1] ELSE w[f - 1]
              IN  w
nclass(s) == Classes(s)[Len(s.channel)]

\* The class whose page-constant functions have the values they have in channel C: the
\* loop of classify shifts one bit in for each.
ClassOfChannel(s, C) ==
    LET n[f \in 0 .. Len(s.channel)] ==
            IF f = 0 THEN 0
            ELSE n[f - 1] + (IF f \in C \cap ClassFns(s) THEN Classes(s)[f - 1] ELSE 0)
    IN  n[Len(s.channel)]

\* The channel functions that are 1 at an address.
Selected(s, a) == {f \in DOMAIN s.channel : Parity(s.channel[f] \cap a) = 1}

classify(s, base) == ClassOfChannel(s, Selected(s, base))

------------------------------------------------------------------------------
\* The channel of offset o of page p.
ChannelsAt(s, p, o) == Selected(s, DramBase(p) \cup o)

\* The offset bits channel functions look at: no others can change the channel.
ChannelOffsets(s) == SUBSET (InPage \cap UNION {s.channel[f] : f \in DOMAIN s.channel})

\* The channels that agree with class c in every page-constant function.
ChannelsOfClass(s, c) == {C \in SUBSET DOMAIN s.channel : ClassOfChannel(s, C) = c}

\* The offsets at which page p is on channel C.
Reaching(s, p, C) == {o \in ChannelOffsets(s) : ChannelsAt(s, p, o) = C}

\* hugepage_alloc.h:117, "every other channel function still toggles within the page": the
\* offset bits can give those functions any values.
Independent(s) == \A C \in SUBSET (DOMAIN s.channel \ ClassFns(s)) :
                      \E o \in ChannelOffsets(s) : Selected(s, o) = C

\* hugepage_alloc.h:115-119: the addresses of a page of class c reach every channel
\* of that class and no other, and each of them equally often, so that a region with
\* as many pages of each class uses all channels alike.
ReachesItsChannels(s, p) ==
    \A C \in SUBSET DOMAIN s.channel :
        Cardinality(Reaching(s, p, C)) * Cardinality(ChannelsOfClass(s, classify(s, DramBase(p)))) =
            IF C \in ChannelsOfClass(s, classify(s, DramBase(p)))
            THEN Cardinality(ChannelOffsets(s)) ELSE 0
=============================================================================
