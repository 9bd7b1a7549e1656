---------------------------- MODULE HugepageAddr ----------------------------
(***************************************************************************)
(* hugepage_addr.cpp: map as many 1GB hugepages as the pool has free,      *)
(* touch them one by one and print the physical address of each, while     *)
(* other processes map, touch and return pages of the same pool.           *)
(*                                                                         *)
(* The kernel is external: mmap promises a page of the pool for each page  *)
(* of the mapping, and the first touch of one takes any free page.         *)
(***************************************************************************)
EXTENDS Integers, Sequences, FiniteSets

CONSTANTS
    Page,   \* the 1GB hugepages configured
    NoPage, \* no page: PFN 0
    Faults  \* the system calls that may fail for no reason of the pool

ASSUME PoolAssumption == IsFiniteSet(Page) /\ NoPage \notin Page

VARIABLES
    free,     \* the pages nobody has touched: free_hugepages
    others,   \* how many of them other processes have mapped
    reserved, \* how many of them this process has mapped
    root,     \* whether pagemap shows this process the PFNs
    pc,       \* what main does next, or how it ended
    n,        \* the free pages it has read of and maps
    i,        \* the loop's counter
    slots,    \* the pages behind the mapping, as far as they are touched
    rows      \* what has been printed: a page's index and address

pool == <<free, others, reserved>>
report == <<slots, rows>>
vars == <<free, others, reserved, root, pc, n, i, slots, rows>>

Ended == {"none", "failed", "done"}
Held == {slots[k] : k \in DOMAIN slots}

Init == /\ free \in SUBSET Page
        /\ others \in 0 .. Cardinality(free)
        /\ reserved = 0
        /\ root \in BOOLEAN
        /\ pc = "start"
        /\ n = 0 /\ i = 0
        /\ slots = <<>> /\ rows = <<>>

\* read_sysfs_long, for the pages configured and the free ones.
ReadSysfs == /\ pc = "start"
             /\ n' = Cardinality(free)
             /\ pc' = IF Page = {} THEN "none" ELSE IF n' = 0 THEN "failed" ELSE "mmap"
             /\ UNCHANGED <<pool, root, i, report>>

ReadSysfsFails == /\ pc = "start" /\ "sysfs" \in Faults
                  /\ pc' = "failed"
                  /\ UNCHANGED <<pool, root, n, i, report>>

\* The kernel promises k more of the free pages.
CanReserve(k) == Cardinality(free) - others - reserved >= k

Mmap == /\ pc = "mmap"
        /\ CanReserve(n)
        /\ reserved' = n
        /\ pc' = "open"
        /\ UNCHANGED <<free, others, root, n, i, report>>

MmapFails_Rereads == /\ pc = "mmap"
                     /\ ~CanReserve(n) \/ "mmap" \in Faults
                     /\ pc' = "start"
                     /\ UNCHANGED <<pool, root, n, i, report>>
MmapFails == /\ pc = "mmap"
             /\ ~CanReserve(n) \/ "mmap" \in Faults
             /\ pc' = "failed"
             /\ UNCHANGED <<pool, root, n, i, report>>

OpenPagemap == /\ pc = "open"
               /\ pc' = "touch"
               /\ UNCHANGED <<pool, root, n, i, report>>

\* munmap, also at the end: what is promised and what is touched goes back.
Unmap == /\ free' = free \cup Held
         /\ reserved' = 0
         /\ slots' = <<>>
         /\ UNCHANGED <<others, root, n, i, rows>>

OpenFails == /\ pc = "open" /\ "open" \in Faults
             /\ pc' = "failed"
             /\ Unmap

\* page_va[0] = 0
Touch == /\ pc = "touch" /\ i < n
         /\ \E p \in free : free' = free \ {p} /\ slots' = Append(slots, p)
         /\ reserved' = reserved - 1
         /\ pc' = "pread"
         /\ UNCHANGED <<others, root, n, i, rows>>

\* The entry of this page, a PFN of 0 for all but root.
Row_First == [idx |-> i, phys |-> IF root THEN slots[1] ELSE NoPage]
Row == [idx |-> i, phys |-> IF root THEN slots[i + 1] ELSE NoPage]

Pread == /\ pc = "pread"
         /\ rows' = Append(rows, Row)
         /\ i' = i + 1
         /\ pc' = "touch"
         /\ UNCHANGED <<pool, root, n, slots>>

\* A page whose entry cannot be read has no row; the loop goes on with the next.
PreadFails == /\ pc = "pread" /\ "pread" \in Faults
              /\ i' = i + 1
              /\ pc' = "touch"
              /\ UNCHANGED <<pool, root, n, report>>

Finish == /\ pc = "touch" /\ i = n
          /\ pc' = "done"
          /\ Unmap

Main == \/ ReadSysfs \/ ReadSysfsFails \/ Mmap \/ MmapFails \/ OpenPagemap \/ OpenFails
        \/ Touch \/ Pread \/ PreadFails \/ Finish

------------------------------------------------------------------------------
\* The rest of the machine.
OtherMaps == CanReserve(1) /\ others' = others + 1 /\ UNCHANGED free
OtherTouches == others > 0 /\ others' = others - 1 /\ \E p \in free : free' = free \ {p}
OtherUnmaps == /\ \/ others > 0 /\ others' = others - 1 /\ UNCHANGED free
                  \/ \E p \in Page \ (free \cup Held) : free' = free \cup {p} /\ UNCHANGED others

Other == /\ OtherMaps \/ OtherTouches \/ OtherUnmaps
         /\ UNCHANGED <<reserved, root, pc, n, i, slots, rows>>

Next == Main \/ Other
Spec == Init /\ [][Next]_vars

\* One thread that the kernel schedules, and no other process has to do anything.
FairSpec == Spec /\ WF_vars(Main)

------------------------------------------------------------------------------
TypeOK == /\ free \subseteq Page
          /\ others \in Nat /\ reserved \in Nat
          /\ root \in BOOLEAN
          /\ pc \in Ended \cup {"start", "mmap", "open", "touch", "pread"}
          /\ n \in Nat /\ i \in 0 .. n
          /\ slots \in Seq(Page) /\ Held \cap free = {}
          /\ rows \in Seq([idx : Nat, phys : Page \cup {NoPage}])

\* hugepage_addr.cpp:66, "only currently-free pages can be safely claimed": a page that
\* another process has mapped stays there for its first touch, however many of the free
\* pages are claimed between the reading of their number and the end, and neither does
\* a touch of this process find the pool empty.
NobodyStarves == others + reserved <= Cardinality(free)

\* A row is printed for each page at most once, in the order of the mapping; no page of
\* memory is behind two rows; and what a row says is the address of the page that is
\* still mapped at its index, or 0 for all rows if the process is not root.
RowsTrue == /\ \A k, l \in DOMAIN rows : k < l =>
                    /\ rows[k].idx < rows[l].idx
                    /\ root => rows[k].phys # rows[l].phys
            /\ pc \notin Ended => \A k \in DOMAIN rows :
                    /\ rows[k].idx < i
                    /\ rows[k].phys = IF root THEN slots[rows[k].idx + 1] ELSE NoPage

\* What is mapped, promised and touched at each place of main.
Mapping == /\ pc \in {"start", "mmap", "open"} => i = 0 /\ slots = <<>>
           /\ pc \in {"start", "mmap"} \cup Ended => reserved = 0
           /\ pc \in Ended => slots = <<>>
           /\ pc = "open" => reserved = n
           /\ pc = "touch" => Len(slots) = i /\ reserved = n - i
           /\ pc = "pread" => i < n /\ Len(slots) = i + 1 /\ reserved = n - i - 1
           /\ \A k, l \in DOMAIN slots : slots[k] = slots[l] => k = l

IInv == TypeOK /\ Mapping /\ NobodyStarves /\ RowsTrue

\* The report ends, whatever fails and whatever other processes do meanwhile.
Ends == <>(pc \in Ended)
=============================================================================
