--------------------------- MODULE HugepageAlloc ---------------------------
(***************************************************************************)
(* chbal/hugepage_alloc.h: hp_alloc() obtains NPages 1GB hugepages as one  *)
(* contiguous region.  With balancing on it probes candidate pages through *)
(* a hugetlb memfd, classifies each one by the channel functions that are  *)
(* constant inside a page, and maps a selection in which VA slot i holds a *)
(* page of class i % K.  Everything else goes through one plain anonymous  *)
(* mmap.  Every system call may fail, and other processes take pages from  *)
(* the same pool, and give them back, between any two steps.               *)
(*                                                                         *)
(* The kernel is external: a reservation is counted against the whole      *)
(* pool, a fault takes a page from the nodes the mempolicy allows, and a   *)
(* fault that finds none there kills the process with SIGBUS.              *)
(***************************************************************************)
EXTENDS Integers, Sequences, FiniteSets, Functions

CONSTANTS
    Page,         \* the 1GB hugepages of the machine
    NoPage,       \* no page: a hole in the file, a translation that failed
    NodeOf,       \* the NUMA node of each page
    PageClass,    \* the channel class of each page (ChannelClass computes it)
    K,            \* number of channel classes, HpClassInfo::nclass()
    NPages,       \* pages requested
    Policy,       \* the mempolicy numactl installed
    PolicyNodes,  \* its node mask
    Faults        \* the system calls that may fail without a reason of the pool

Syscalls == {"memfd", "ftruncate", "mmap", "pread", "reserve", "mapfixed", "punch"}

ASSUME PageAssumption == IsFiniteSet(Page) /\ NoPage \notin Page
ASSUME ClassAssumption == K \in Nat \ {0} /\ PageClass \in [Page -> 0 .. K - 1]
ASSUME SizeAssumption == NPages \in Nat \ {0}
ASSUME KernelAssumption == /\ Policy \in {"default", "preferred", "bind", "interleave"}
                           /\ Faults \subseteq Syscalls
                           /\ DOMAIN NodeOf = Page

VARIABLES
    free,       \* the kernel's pool of free hugepages
    reserved,   \* pages of the pool this process has reserved and not faulted
    file,       \* the memfd: the page behind each file index
    anon,       \* the plain anonymous mapping: the page behind each slot
    env,        \* the request and the process's rights, fixed at the start
    pc,         \* where hp_alloc is
    cap,        \* pages the memfd was truncated to
    probed,     \* number of pages probed and classified
    byClass,    \* by_class: probed file indexes of each class, in probe order
    chosen,     \* file index picked for each slot so far
    chosenCls,  \* class that index was filed under
    next,       \* how many indexes of each class have been picked
    i,          \* loop counter of the choose, map, punch, verify and fault loops
    base,       \* what the VA range is: "null", "shared" (memfd) or "anon"
    phys,       \* r.phys: the page each slot was seen to hold
    cls,        \* r.cls: the class computed from it, -1 when unknown
    balanced    \* r.balanced

pool == <<free, reserved>>
memory == <<file, anon>>
choice == <<chosen, chosenCls, next>>
report == <<phys, cls>>
vars == <<free, reserved, file, anon, env, pc, cap, probed, byClass,
          chosen, chosenCls, next, i, base, phys, cls, balanced>>

Class == 0 .. K - 1
Slot == 0 .. NPages - 1

MaxOf(a, b) == IF a >= b THEN a ELSE b

\* Upper bound of cap, the number of file indexes a run can use.
FileSize == MaxOf(NPages, Cardinality(Page))
Index == 0 .. FileSize - 1

Held == ({file[n] : n \in Index} \cup {anon[s] : s \in Slot}) \ {NoPage}

EmptyFile == [n \in Index |-> NoPage]
EmptyAnon == [s \in Slot |-> NoPage]

------------------------------------------------------------------------------
(* The kernel, as the allocator uses it.                                   *)

\* Pages a fault of this process may take: only MPOL_BIND restricts it.
Faultable == IF Policy = "bind" THEN {p \in Page : NodeOf[p] \in PolicyNodes} ELSE Page

\* hp_free_pages_available: the free pages of the policy's nodes, or the global
\* counter when there is no mask or the sum is 0.
FreePagesAvailable ==
    LET onMask == {p \in free : NodeOf[p] \in PolicyNodes}
    IN  IF Policy # "default" /\ onMask # {} THEN Cardinality(onMask) ELSE Cardinality(free)

\* mmap reserves n pages of the whole pool.
CanReserve(n) == Cardinality(free) - reserved >= n

\* mmap fails: the pool cannot cover the reservation; the policy's nodes cannot
\* (kernels that account the mempolicy); or for a reason of its own.
MayRefuse(n) ==
    \/ ~CanReserve(n)
    \/ Cardinality(free \cap Faultable) < n
    \/ "mmap" \in Faults

\* Pagemap::virt_to_phys of a mapped page: NoPage stands for the result 0.
Translate(p) ==
    IF env.pagemap = "visible" /\ p # NoPage
    THEN {p} \cup (IF "pread" \in Faults THEN {NoPage} ELSE {})
    ELSE {NoPage}

\* Every page of the process goes back: its mappings and its memfd are gone.
ReturnPages == /\ free' = free \cup Held
               /\ file' = EmptyFile
               /\ anon' = EmptyAnon

------------------------------------------------------------------------------
(* The allocator's pure helpers.                                           *)

\* hp_quota: NPages spread over the classes as evenly as they allow.
Quota(c) == NPages \div K + (IF c < NPages % K THEN 1 ELSE 0)

\* HpClassInfo::classify of what virt_to_phys returned.
ClassOf(q) == IF q = NoPage THEN -1 ELSE PageClass[q]

QuotaMet(lists) == \A c \in Class : Len(lists[c]) >= Quota(c)

Left(c) == Len(byClass[c]) - next[c]

\* The class the fill-in loop ends with: most pages left, the first of equals.
Richest(c) == /\ Left(c) > 0
              /\ \A d \in Class : Left(d) <= Left(c)
              /\ \A d \in 0 .. c - 1 : Left(d) < Left(c)

\* The bound of the loops over the slots.
SlotsLeft_OffByOne == i <= NPages
SlotsLeft == i < NPages

\* The index was picked for some slot.
Used_FirstOnly(n) == chosen[1] = n
Used(n) == \E k \in DOMAIN chosen : chosen[k] = n

\* hp_alloc: balancing is wanted and possible.
WantBalance == /\ env.balance
               /\ K # 1
               /\ env.holeAligned
               /\ env.root
               /\ env.pagemap # "closed"

------------------------------------------------------------------------------
\* What the caller asks for and what the process may read: an unprivileged
\* process sees no PFN, and root may still be denied the file or the PFNs.
Request == {e \in [balance : BOOLEAN, holeAligned : BOOLEAN, root : BOOLEAN,
                   pagemap : {"closed", "masked", "visible"}] :
              e.pagemap = "visible" => e.root}

Init == /\ free \in SUBSET Page
        /\ reserved = 0
        /\ file = EmptyFile
        /\ anon = EmptyAnon
        /\ env \in Request
        /\ pc = "start"
        /\ cap = 0
        /\ probed = 0
        /\ byClass = [c \in Class |-> <<>>]
        /\ chosen = <<>>
        /\ chosenCls = <<>>
        /\ next = [c \in Class |-> 0]
        /\ i = 0
        /\ base = "null"
        /\ phys = [s \in Slot |-> NoPage]
        /\ cls = [s \in Slot |-> -1]
        /\ balanced = FALSE

\* hp_alloc decides between the balanced and the plain path.
Start == /\ pc = "start"
         /\ pc' = IF WantBalance THEN "memfd" ELSE "plain_mmap"
         /\ UNCHANGED <<pool, memory, env, cap, probed, byClass, choice, i, base, report, balanced>>

\* A failure of the balanced path: munmap what was reserved, close the memfd,
\* return the default HugeRegion; hp_alloc goes on to the plain path.
GiveUp_KeepsFile ==
          /\ pc' = "plain_mmap"
          /\ base' = "null"
          /\ balanced' = FALSE
          /\ UNCHANGED <<pool, memory, env, cap, probed, byClass, choice, i, report>>
GiveUp == /\ pc' = "plain_mmap"
          /\ ReturnPages
          /\ base' = "null"
          /\ balanced' = FALSE
          /\ UNCHANGED <<reserved, env, cap, probed, byClass, choice, i, report>>

MemfdCreate == /\ pc = "memfd"
               /\ pc' = "truncate"
               /\ UNCHANGED <<pool, memory, env, cap, probed, byClass, choice, i,
                              base, report, balanced>>

MemfdCreateFails == pc = "memfd" /\ "memfd" \in Faults /\ GiveUp

\* Read the free counters and size the file: cap is stale from here on.
Truncate == /\ pc = "truncate"
            /\ cap' = MaxOf(FreePagesAvailable, NPages)
            /\ pc' = "probe"
            /\ UNCHANGED <<pool, memory, env, probed, byClass, choice, i, base, report, balanced>>

TruncateFails == pc = "truncate" /\ "ftruncate" \in Faults /\ GiveUp

\* hp_probe_page: the scratch mapping reserves the page it will fault in.
ProbeMap == /\ pc = "probe"
            /\ probed < cap
            /\ CanReserve(1)
            /\ reserved' = 1
            /\ pc' = "fault"
            /\ UNCHANGED <<free, memory, env, cap, probed, byClass, choice, i,
                           base, report, balanced>>

\* The probe loop is over: the file is used up, or the scratch mmap failed.
EndProbe == /\ pc' = "choose"
            /\ i' = 0
            /\ balanced' = TRUE

ProbeStops == /\ pc = "probe"
              /\ probed < cap => MayRefuse(1)
              /\ EndProbe
              /\ UNCHANGED <<pool, memory, env, cap, probed, byClass, choice, base, report>>

\* The page is faulted into the file and its translation read; a page whose
\* translation fails ends the loop and stays in the file.
ProbeFault ==
    /\ pc = "fault"
    /\ \E p \in free \cap Faultable :
         /\ free' = free \ {p}
         /\ file' = [file EXCEPT ![probed] = p]
         /\ \/ /\ NoPage \in Translate(p)
               /\ EndProbe
               /\ UNCHANGED <<probed, byClass>>
            \/ /\ p \in Translate(p)
               /\ byClass' = [byClass EXCEPT ![PageClass[p]] = Append(@, probed)]
               /\ probed' = probed + 1
               /\ IF QuotaMet(byClass')
                  THEN EndProbe
                  ELSE pc' = "probe" /\ UNCHANGED <<i, balanced>>
    /\ reserved' = 0
    /\ UNCHANGED <<anon, env, cap, choice, base, report>>

\* The fault finds no page on the nodes the policy allows: SIGBUS.
Killed == /\ pc \in {"fault", "plain_fault"}
          /\ pc = "plain_fault" => SlotsLeft
          /\ free \cap Faultable = {}
          /\ pc' = "killed"
          /\ ReturnPages
          /\ reserved' = 0
          /\ base' = "null"
          /\ UNCHANGED <<env, cap, probed, byClass, choice, i, report, balanced>>

------------------------------------------------------------------------------
\* Class i % K, or the class with most pages left; that costs the balance.
Pick_StaysBalanced(c) == /\ IF Left(i % K) > 0 THEN c = i % K ELSE Richest(c)
                         /\ UNCHANGED balanced
Pick_FirstClass(c) == IF Left(0) > 0
                      THEN c = 0 /\ UNCHANGED balanced
                      ELSE Richest(c) /\ balanced' = FALSE
Pick(c) == IF Left(i % K) > 0
           THEN c = i % K /\ UNCHANGED balanced
           ELSE Richest(c) /\ balanced' = FALSE

\* The picked index is used up.
Advance(c) == next' = [next EXCEPT ![c] = @ + 1]

ChoosePage ==
    /\ pc = "choose"
    /\ SlotsLeft
    /\ \E c \in Class :
         /\ Pick(c)
         /\ chosen' = Append(chosen, byClass[c][next[c] + 1])
         /\ chosenCls' = Append(chosenCls, c)
         /\ Advance(c)
    /\ i' = i + 1
    /\ UNCHANGED <<pool, memory, env, pc, cap, probed, byClass, base, report>>

\* Out of pages entirely.
ChooseFails_Retries == /\ pc = "choose"
                       /\ SlotsLeft
                       /\ \A c \in Class : Left(c) = 0
                       /\ UNCHANGED vars
ChooseFails == /\ pc = "choose"
               /\ SlotsLeft
               /\ \A c \in Class : Left(c) = 0
               /\ GiveUp

ReserveVa == /\ pc = "choose"
             /\ i = NPages
             /\ base' = "shared"
             /\ pc' = "map"
             /\ i' = 0
             /\ UNCHANGED <<pool, memory, env, cap, probed, byClass, choice, report, balanced>>

ReserveVaFails == pc = "choose" /\ i = NPages /\ "reserve" \in Faults /\ GiveUp

\* The pages are in the file already, so a slot's mapping reserves nothing.
MapSlot == /\ pc = "map"
           /\ IF i + 1 < NPages THEN pc' = pc /\ i' = i + 1 ELSE pc' = "punch" /\ i' = 0
           /\ UNCHANGED <<pool, memory, env, cap, probed, byClass, choice, base, report, balanced>>

MapSlotFails == pc = "map" /\ "mapfixed" \in Faults /\ GiveUp

\* fallocate(PUNCH_HOLE) on an index nobody chose; its result is not looked at.
PunchPage == /\ pc = "punch"
             /\ i < probed
             /\ \/ /\ ~Used(i)
                   /\ file' = [file EXCEPT ![i] = NoPage]
                   /\ free' = free \cup ({file[i]} \ {NoPage})
                \/ /\ Used(i) \/ "punch" \in Faults
                   /\ UNCHANGED <<file, free>>
             /\ i' = i + 1
             /\ UNCHANGED <<reserved, anon, env, pc, cap, probed, byClass, choice,
                            base, report, balanced>>

PunchDone == /\ pc = "punch"
             /\ i = probed
             /\ pc' = "verify"
             /\ i' = 0
             /\ UNCHANGED <<pool, memory, env, cap, probed, byClass, choice, base, report, balanced>>

\* Read a slot's page back and compare its class with the one it was picked for.
VerifySlot ==
    /\ pc = "verify"
    /\ \E q \in Translate(file[chosen[i + 1]]) :
         /\ phys' = [phys EXCEPT ![i] = q]
         /\ cls' = [cls EXCEPT ![i] = ClassOf(q)]
         /\ balanced' = (balanced /\ ClassOf(q) = chosenCls[i + 1])
    /\ IF i + 1 < NPages THEN pc' = pc /\ i' = i + 1 ELSE pc' = "ready" /\ i' = 0
    /\ UNCHANGED <<pool, memory, env, cap, probed, byClass, choice, base>>

------------------------------------------------------------------------------
\* hp_alloc_plain: one anonymous mapping, then a fault per page.
PlainMmap == /\ pc = "plain_mmap"
             /\ CanReserve(NPages)
             /\ reserved' = NPages
             /\ base' = "anon"
             /\ i' = 0
             /\ pc' = "plain_fault"
             /\ UNCHANGED <<free, memory, env, cap, probed, byClass, choice, report, balanced>>

\* hp_alloc returns base == nullptr and main exits.
PlainMmapFails == /\ pc = "plain_mmap"
                  /\ MayRefuse(NPages)
                  /\ pc' = "failed"
                  /\ UNCHANGED <<pool, memory, env, cap, probed, byClass, choice, i,
                                 base, report, balanced>>

PlainFault ==
    /\ pc = "plain_fault"
    /\ SlotsLeft
    /\ \E p \in free \cap Faultable :
         /\ free' = free \ {p}
         /\ anon' = [anon EXCEPT ![i] = p]
         /\ \E q \in Translate(p) :
              /\ phys' = [phys EXCEPT ![i] = q]
              /\ cls' = [cls EXCEPT ![i] = ClassOf(q)]
    /\ reserved' = reserved - 1
    /\ i' = i + 1
    /\ UNCHANGED <<file, env, pc, cap, probed, byClass, choice, base, balanced>>

Count(c) == Cardinality({s \in Slot : cls[s] = c})

\* Every page is known and the counts are exactly the quota.
PlainBalanced == /\ \A s \in Slot : phys[s] # NoPage
                 /\ \A c \in Class : Count(c) = Quota(c)

PlainDone == /\ pc = "plain_fault"
             /\ i = NPages
             /\ balanced' = PlainBalanced
             /\ pc' = "ready"
             /\ i' = 0
             /\ UNCHANGED <<pool, memory, env, cap, probed, byClass, choice, base, report>>

\* main is done with the region.
HpFree == /\ pc = "ready"
          /\ pc' = "freed"
          /\ ReturnPages
          /\ base' = "null"
          /\ UNCHANGED <<reserved, env, cap, probed, byClass, choice, i, report, balanced>>

------------------------------------------------------------------------------
(* Other processes use the same pool; they cannot take what is reserved.   *)

OtherTakes == \E p \in free :
    /\ Cardinality(free) > reserved
    /\ free' = free \ {p}
    /\ UNCHANGED <<reserved, memory, env, pc, cap, probed, byClass, choice, i,
                   base, report, balanced>>

OtherReturns == \E p \in Page \ (free \cup Held) :
    /\ free' = free \cup {p}
    /\ UNCHANGED <<reserved, memory, env, pc, cap, probed, byClass, choice, i,
                   base, report, balanced>>

Balanced == \/ MemfdCreate \/ MemfdCreateFails \/ Truncate \/ TruncateFails
            \/ ProbeMap \/ ProbeStops \/ ProbeFault
            \/ ChoosePage \/ ChooseFails \/ ReserveVa \/ ReserveVaFails
            \/ MapSlot \/ MapSlotFails \/ PunchPage \/ PunchDone \/ VerifySlot

Plain == PlainMmap \/ PlainMmapFails \/ PlainFault \/ PlainDone

Process == Start \/ Balanced \/ Plain \/ Killed \/ HpFree

Next == Process \/ OtherTakes \/ OtherReturns

Spec == Init /\ [][Next]_vars

\* The process is a single thread the kernel schedules; every call returns.
FairSpec == Spec /\ WF_vars(Process)
------------------------------------------------------------------------------
(* What hp_alloc promises.                                                 *)

\* The page behind slot s of the region handed to the benchmark.
RegionPage(s) == IF base = "shared" THEN file[chosen[s + 1]] ELSE anon[s]

RegionPages == {RegionPage(s) : s \in Slot}
RegionOf == [s \in Slot |-> RegionPage(s)]

PathSteps == {"start", "memfd", "truncate", "probe", "fault", "choose", "map",
              "punch", "verify", "plain_mmap", "plain_fault", "ready", "failed",
              "killed", "freed"}

\* Every variable keeps its type.
TypeOK == /\ free \subseteq Page
          /\ reserved \in 0 .. NPages
          /\ file \in [Index -> Page \cup {NoPage}]
          /\ anon \in [Slot -> Page \cup {NoPage}]
          /\ env \in Request
          /\ pc \in PathSteps
          /\ cap \in 0 .. FileSize
          /\ probed \in 0 .. FileSize
          /\ byClass \in [Class -> Seq(Index)]
          /\ chosen \in Seq(Index)
          /\ chosenCls \in Seq(Class)
          /\ next \in [Class -> Nat]
          /\ i \in 0 .. FileSize
          /\ base \in {"null", "shared", "anon"}
          /\ phys \in [Slot -> Page \cup {NoPage}]
          /\ cls \in [Slot -> -1 .. K - 1]
          /\ balanced \in BOOLEAN

\* hugepage_alloc.h:13-14, "VA slot i gets a page of class (i % K)": a region of
\* the balanced path that is reported balanced holds a page of class i % K in
\* every slot i, whatever calls failed and whatever other processes did to the
\* pool between the probe and the end of hp_alloc.
BalancedInterleaves ==
    (pc = "ready" /\ base = "shared" /\ balanced)
        => \A s \in Slot : PageClass[RegionPage(s)] = s % K

\* No two VA slots of a region share a page, none is without one, and no page
\* of it is still in the pool: the benchmark reads NPages distinct pages.
NoAliasing ==
    pc = "ready" =>
        /\ \A s, t \in Slot : RegionPage(s) = RegionPage(t) => s = t
        /\ RegionPages \subseteq Page \ free

\* A balanced path that failed, at whichever call, has given everything back
\* before the plain mapping is tried; so has a process that failed, died or
\* called hp_free.
NothingLeaks ==
    pc \in {"plain_mmap", "failed", "killed", "freed"}
        => Held = {} /\ base = "null" /\ (pc # "plain_mmap" => reserved = 0)

\* While the benchmark runs, the process holds the pages of its region and no
\* others: every page that was probed and not used is back in the pool.
UnusedPagesReturned == pc = "ready" => Held = RegionPages /\ reserved = 0

\* chbal/README.md:257, "the best mix possible": a mix gives each slot a class, as far as
\* the probed pages reach.  The largest share of one class in the choice is the smallest
\* any mix can have; and probing enough pages of every class suffices: the choice is
\* unbalanced only if some class was short of its quota when the probe ended.
Share(mix, c) == Cardinality({s \in Slot : mix[s] = c})
Mixes == {mix \in [Slot -> Class] : \A c \in Class : Share(mix, c) <= Len(byClass[c])}
BestMix ==
    pc = "map" =>
        /\ \A mix \in Mixes : \A m \in 0 .. NPages :
              (\A c \in Class : Share(mix, c) <= m) => (\A c \in Class : next[c] <= m)
        /\ ~balanced => \E c \in Class : Len(byClass[c]) < Quota(c)

\* Every step of hp_alloc is a step of PageGrant or changes nothing it sees: what a
\* caller relies on is independent of how the pages were found.
Status == CASE pc = "ready" -> "granted"
            [] pc = "failed" -> "refused"
            [] pc = "killed" -> "dead"
            [] pc = "freed" -> "released"
            [] OTHER -> "asking"

GrantedRegion == IF pc = "ready" THEN RegionOf ELSE EmptyAnon
ReportedEven == pc = "ready" /\ balanced

Grant == INSTANCE PageGrant WITH
    pool <- free, held <- Held, status <- Status, region <- GrantedRegion, even <- ReportedEven

GrantsPages == Grant!Spec

\* From the moment the region is mapped until it is freed its slots keep their
\* pages: punching the unused pages never takes one from under a slot.
Mapped == pc \in {"map", "punch", "verify", "ready"}
RegionKept == [][Mapped /\ Mapped' => RegionOf' = RegionOf]_vars

\* A process probing under a bound mempolicy is not killed by its own probe.
ProbeSurvives == [][pc = "fault" => pc' # "killed"]_vars

\* hp_alloc always comes to an end, however the pool changes meanwhile.
Terminates == <>(pc \in {"ready", "failed", "killed", "freed"})

------------------------------------------------------------------------------
(* The inductive invariant behind the safety properties.                   *)

BeforeProbe == {"start", "memfd", "truncate"}
Probing == {"probe", "fault"}
SharedRegion == pc \in {"map", "punch", "verify"} \/ (pc = "ready" /\ base = "shared")

\* What is reserved and not yet faulted in.
Outstanding == IF pc = "fault" THEN 1 ELSE IF pc = "plain_fault" THEN NPages - i ELSE 0

\* The loop counters stay within the loops, the anonymous loop in its mapping.
Counters == /\ reserved = Outstanding
            /\ pc \in BeforeProbe => probed = 0
            /\ pc = "probe" => probed <= cap
            /\ pc = "fault" => probed < cap
            /\ pc \in {"choose", "plain_fault"} => i <= NPages
            /\ pc \in {"map", "verify"} => i < NPages
            /\ pc = "punch" => i <= probed
            /\ pc = "plain_fault" => base = "anon"

\* The lists hold probed indexes, each once, and the choice takes a prefix of each.
Lists == /\ pc \in BeforeProbe => \A c \in Class : byClass[c] = <<>>
         /\ \A c \in Class : next[c] <= Len(byClass[c])
         /\ \A c \in Class : \A k \in 1 .. Len(byClass[c]) : byClass[c][k] < probed
         /\ \A c \in Class : \A j, k \in 1 .. Len(byClass[c]) :
               byClass[c][j] = byClass[c][k] => j = k

\* The choice grows by one index and one class at a time.
Choice == /\ pc \in BeforeProbe \cup Probing
                => chosen = <<>> /\ chosenCls = <<>> /\ \A c \in Class : next[c] = 0
          /\ Len(chosen) = Len(chosenCls)
          /\ pc = "choose" => Len(chosen) = i
          /\ SharedRegion => Len(chosen) = NPages

\* Who holds which mapping: the memfd is empty on the plain path, the anonymous
\* mapping everywhere else, and the VA range belongs to the path that runs.
Ownership ==
    /\ pc \in {"start", "memfd", "truncate", "plain_mmap", "plain_fault",
               "failed", "killed", "freed"} => file = EmptyFile
    /\ pc = "ready" /\ base = "anon" => file = EmptyFile
    /\ ~(pc = "plain_fault" \/ (pc = "ready" /\ base = "anon")) => anon = EmptyAnon
    /\ pc \in {"map", "punch", "verify"} => base = "shared"
    /\ pc = "ready" => base \in {"shared", "anon"}
    /\ pc \notin {"map", "punch", "verify", "plain_fault", "ready"} => base = "null"

\* A page is in one place: in the pool, behind one file index or behind one slot.
OnePlace ==
    /\ \A n \in Index : file[n] \notin free
    /\ \A s \in Slot : anon[s] \notin free
    /\ \A m, n \in Index : file[m] # NoPage /\ file[m] = file[n] => m = n
    /\ \A s, t \in Slot : anon[s] # NoPage /\ anon[s] = anon[t] => s = t

\* The plain mapping is faulted in up to slot i, all of it once it is ready.
PlainFilled ==
    \A s \in Slot :
        (pc = "plain_fault" /\ s < i) \/ (pc = "ready" /\ base = "anon") => anon[s] # NoPage

\* What is filed under a class, and what was picked for a slot, is behind a page
\* of that class.
Filed ==
    pc \in Probing \cup {"choose"} =>
        \A c \in Class : \A k \in 1 .. Len(byClass[c]) :
            LET p == file[byClass[c][k]] IN p # NoPage /\ PageClass[p] = c

Picked ==
    /\ pc = "choose" => \A k \in 1 .. Len(chosen) :
          \E m \in 1 .. next[chosenCls[k]] : chosen[k] = byClass[chosenCls[k]][m]
    /\ SharedRegion => \A k \in 1 .. Len(chosen) :
          LET p == file[chosen[k]] IN p # NoPage /\ PageClass[p] = chosenCls[k]
    /\ \A j, k \in 1 .. Len(chosen) : chosen[j] = chosen[k] => j = k

\* While the region counts as balanced the k-th pick has class (k - 1) % K.
RoundRobin ==
    (pc = "choose" \/ SharedRegion) /\ balanced =>
        \A k \in 1 .. Len(chosen) : chosenCls[k] = (k - 1) % K

\* next counts the picks, and balance was lost where a class ran out before its quota.
Shares ==
    pc \in {"choose", "map"} =>
        /\ \A c \in Class : next[c] = Cardinality({k \in 1 .. Len(chosen) : chosenCls[k] = c})
        /\ ~balanced => \E c \in Class : next[c] = Len(byClass[c]) /\ next[c] < Quota(c)

\* A page is faulted in where there was none.
Unfaulted ==
    /\ pc \in BeforeProbe \cup Probing => \A n \in Index : n >= probed => file[n] = NoPage
    /\ pc = "plain_fault" => \A s \in Slot : s >= i => anon[s] = NoPage

\* What is known of the pages behind the plain mapping is right.
Seen == pc = "plain_fault" => \A s \in Slot :
    s < i => phys[s] \in {NoPage, anon[s]} /\ cls[s] = ClassOf(phys[s])

IInv == /\ TypeOK
        /\ Counters
        /\ Lists
        /\ Choice
        /\ Ownership
        /\ OnePlace
        /\ PlainFilled
        /\ Filed
        /\ Picked
        /\ RoundRobin
        /\ Shares
        /\ Unfaulted
        /\ Seen
=============================================================================
