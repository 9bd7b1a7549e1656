------------------------- MODULE HugepageAddrProofs -------------------------
(***************************************************************************)
(* hugepage_addr.cpp never takes a page that another process has mapped,   *)
(* and prints one row per page, for every pool and every failing call; and *)
(* it ends after a bounded number of its own steps.                        *)
(***************************************************************************)
EXTENDS HugepageAddr, FiniteSetTheorems, TLAPS

Live == {"touch", "pread"}

(* The pool's arithmetic.                                                  *)

\* A set of pages can be counted.
LEMMA PagesFinite ==
    ASSUME NEW S \in SUBSET Page
    PROVE  IsFiniteSet(S) /\ Cardinality(S) \in Nat
BY PoolAssumption, FS_Subset, FS_CardinalityType

\* A touch takes one page.
LEMMA TakeOne ==
    ASSUME NEW S \in SUBSET Page, NEW p \in S
    PROVE  /\ S \ {p} \in SUBSET Page
           /\ Cardinality(S \ {p}) = Cardinality(S) - 1
BY PagesFinite, FS_RemoveElement

\* Pages given back do not make the pool smaller.
LEMMA GiveBack ==
    ASSUME NEW S \in SUBSET Page, NEW T \in SUBSET Page
    PROVE  Cardinality(S) <= Cardinality(S \cup T)
<1>1. IsFiniteSet(S \cup T) /\ S \subseteq S \cup T
  BY PagesFinite
<1>2. QED
  BY <1>1, FS_Subset

------------------------------------------------------------------------------
(* The invariant.                                                          *)

LEMMA InitInv == Init => IInv
<1> SUFFICES ASSUME Init PROVE IInv
  OBVIOUS
<1>1. Cardinality(free) \in Nat
  BY PagesFinite DEF Init
<1>2. TypeOK
  BY <1>1 DEF Init, TypeOK, Held, Ended
<1>3. Mapping /\ RowsTrue
  BY DEF Init, Mapping, RowsTrue, Ended
<1>4. NobodyStarves
  BY <1>1 DEF Init, NobodyStarves
<1>5. QED
  BY <1>2, <1>3, <1>4 DEF IInv

\* The steps before the loop, and those that only give up.
LEMMA EarlyStep ==
    ASSUME IInv, ReadSysfs \/ ReadSysfsFails \/ Mmap \/ MmapFails \/ OpenPagemap
    PROVE  IInv'
<1> USE DEF IInv, TypeOK, Mapping, NobodyStarves, RowsTrue, Ended, Held, pool, report
<1>0. Cardinality(free) \in Nat
  BY PagesFinite
<1>1. CASE ReadSysfs
  BY <1>0, <1>1 DEF ReadSysfs
<1>2. CASE ReadSysfsFails
  BY <1>2 DEF ReadSysfsFails
<1>3. CASE Mmap
  BY <1>0, <1>3 DEF Mmap, CanReserve
<1>4. CASE MmapFails
  BY <1>4 DEF MmapFails
<1>5. CASE OpenPagemap
  BY <1>5 DEF OpenPagemap
<1>6. QED
  BY <1>1, <1>2, <1>3, <1>4, <1>5

\* What the rows printed so far say.
LEMMA RowsSoFar ==
    ASSUME IInv, pc \notin Ended, NEW k \in DOMAIN rows
    PROVE  /\ rows[k].idx \in Nat /\ rows[k].idx < i
           /\ rows[k].phys = IF root THEN slots[rows[k].idx + 1] ELSE NoPage
<1>1. rows[k] \in [idx : Nat, phys : Page \cup {NoPage}]
  <2> DEFINE R == [idx : Nat, phys : Page \cup {NoPage}]
  <2>1. rows \in Seq(R)
    BY DEF IInv, TypeOK
  <2> HIDE DEF R
  <2>2. rows[k] \in R
    BY <2>1
  <2>3. QED
    BY <2>2 DEF R
<1>2. rows[k].idx \in Nat
  BY <1>1
<1>3. QED
  BY <1>2 DEF IInv, RowsTrue

\* A first touch: what was promised becomes a page of the mapping.
LEMMA TouchStep ==
    ASSUME IInv, Touch
    PROVE  IInv'
<1>1. PICK p \in free : free' = free \ {p} /\ slots' = Append(slots, p)
  BY DEF Touch
<1>2. /\ Cardinality(free) \in Nat
      /\ Cardinality(free') = Cardinality(free) - 1
      /\ free' \in SUBSET Page
  BY <1>1, PagesFinite, TakeOne DEF IInv, TypeOK
<1>3. /\ slots \in Seq(Page) /\ p \in Page /\ Len(slots) = i
      /\ i \in Nat /\ n \in Nat /\ i < n /\ reserved = n - i
      /\ reserved' = reserved - 1
      /\ pc = "touch" /\ pc' = "pread"
      /\ UNCHANGED <<others, root, n, i, rows>>
  BY DEF IInv, TypeOK, Mapping, Touch, Ended
<1>4. /\ slots' \in Seq(Page)
      /\ Len(slots') = i + 1
      /\ DOMAIN slots' = 1 .. i + 1
      /\ DOMAIN slots = 1 .. i
      /\ slots'[i + 1] = p
      /\ \A k \in 1 .. i : slots'[k] = slots[k]
  BY <1>1, <1>3
<1>5. \A k \in 1 .. i : slots[k] \in Held
  BY <1>4 DEF Held
<1>6. Held' \cap free' = {}
  BY <1>1, <1>4, <1>5 DEF Held, IInv, TypeOK
<1>7. TypeOK'
  BY <1>2, <1>3, <1>4, <1>6 DEF IInv, TypeOK
<1>8. Mapping'
  <2>1. \A k, l \in DOMAIN slots' : slots'[k] = slots'[l] => k = l
    <3>1. \A k \in 1 .. i : slots[k] # p
      BY <1>1, <1>5 DEF IInv, TypeOK
    <3>2. QED
      BY <1>3, <1>4, <3>1 DEF IInv, Mapping
  <2>2. QED
    BY <1>3, <1>4, <2>1 DEF IInv, Mapping, Ended
<1>9. NobodyStarves'
  BY <1>2, <1>3 DEF IInv, TypeOK, NobodyStarves
<1>10. RowsTrue'
  <2>1. \A k \in DOMAIN rows : rows[k].idx \in Nat /\ rows[k].idx < i
    BY <1>3, RowsSoFar DEF Ended
  <2>2. \A k \in DOMAIN rows : slots'[rows[k].idx + 1] = slots[rows[k].idx + 1]
    BY <1>3, <1>4, <2>1
  <2>3. QED
    BY <1>3, <2>1, <2>2 DEF IInv, RowsTrue, Ended
<1>11. QED
  BY <1>7, <1>8, <1>9, <1>10 DEF IInv

\* A row is of a page that no earlier row is of.
LEMMA PreadStep ==
    ASSUME IInv, Pread \/ PreadFails
    PROVE  IInv'
<1>1. /\ pc = "pread" /\ pc' = "touch"
      /\ i \in Nat /\ n \in Nat /\ i < n /\ i' = i + 1
      /\ slots \in Seq(Page) /\ Len(slots) = i + 1 /\ reserved = n - i - 1
      /\ UNCHANGED <<pool, root, n, slots>>
  BY DEF IInv, TypeOK, Mapping, Ended, Pread, PreadFails, report
<1>2. /\ rows \in Seq([idx : Nat, phys : Page \cup {NoPage}])
      /\ \A k \in DOMAIN rows : /\ rows[k].idx \in Nat /\ rows[k].idx < i
                                /\ rows[k].phys = IF root THEN slots[rows[k].idx + 1] ELSE NoPage
  <2>1. rows \in Seq([idx : Nat, phys : Page \cup {NoPage}])
    BY DEF IInv, TypeOK
  <2>2. QED
    BY <1>1, <2>1, RowsSoFar DEF Ended
<1>3. Mapping' /\ NobodyStarves'
  BY <1>1 DEF IInv, Mapping, NobodyStarves, Ended, pool
<1>4. CASE PreadFails
  <2>1. rows' = rows
    BY <1>4 DEF PreadFails, report
  <2>2. TypeOK'
    BY <1>1, <2>1 DEF IInv, TypeOK, Held, pool
  <2>3. RowsTrue'
    BY <1>1, <1>2, <2>1 DEF IInv, RowsTrue, Ended
  <2>4. QED
    BY <1>3, <2>2, <2>3 DEF IInv
<1>5. CASE Pread
  <2>1. rows' = Append(rows, Row)
    BY <1>5 DEF Pread
  <2>2. /\ Row \in [idx : Nat, phys : Page \cup {NoPage}]
        /\ Row.idx = i /\ Row.phys = IF root THEN slots[i + 1] ELSE NoPage
    BY <1>1 DEF Row
  <2>3. TypeOK'
    BY <1>1, <1>2, <2>1, <2>2 DEF IInv, TypeOK, Held, pool
  <2>4. /\ DOMAIN rows = 1 .. Len(rows) /\ Len(rows) \in Nat
        /\ DOMAIN rows' = 1 .. Len(rows) + 1
        /\ \A k \in DOMAIN rows : rows'[k] = rows[k]
        /\ rows'[Len(rows) + 1] = Row
    BY <1>2, <2>1, <2>2
  <2>5. root => \A k \in DOMAIN rows : rows[k].phys # Row.phys
    <3> SUFFICES ASSUME root, NEW k \in DOMAIN rows PROVE rows[k].phys # Row.phys
      OBVIOUS
    <3>1. rows[k].idx + 1 \in DOMAIN slots /\ i + 1 \in DOMAIN slots /\ rows[k].idx + 1 # i + 1
      BY <1>1, <1>2
    <3>2. QED
      BY <1>2, <2>2, <3>1 DEF IInv, Mapping
  <2>6. RowsTrue'
    <3>1. \A k, l \in DOMAIN rows' : k < l =>
              /\ rows'[k].idx < rows'[l].idx
              /\ root' => rows'[k].phys # rows'[l].phys
      <4> SUFFICES ASSUME NEW k \in DOMAIN rows', NEW l \in DOMAIN rows', k < l
                   PROVE  /\ rows'[k].idx < rows'[l].idx
                          /\ root => rows'[k].phys # rows'[l].phys
        BY <1>1
      <4>1. CASE l = Len(rows) + 1
        BY <1>2, <2>2, <2>4, <2>5, <4>1
      <4>2. CASE l # Len(rows) + 1
        <5>1. k \in DOMAIN rows /\ l \in DOMAIN rows
          BY <2>4, <4>2
        <5>2. QED
          BY <2>4, <5>1 DEF IInv, RowsTrue
      <4>3. QED
        BY <4>1, <4>2
    <3>2. \A k \in DOMAIN rows' :
              /\ rows'[k].idx < i + 1
              /\ rows'[k].phys = IF root THEN slots[rows'[k].idx + 1] ELSE NoPage
      <4> SUFFICES ASSUME NEW k \in DOMAIN rows'
                   PROVE  /\ rows'[k].idx < i + 1
                          /\ rows'[k].phys = IF root THEN slots[rows'[k].idx + 1] ELSE NoPage
        OBVIOUS
      <4>1. CASE k = Len(rows) + 1
        BY <1>1, <2>2, <2>4, <4>1
      <4>2. CASE k # Len(rows) + 1
        <5>1. k \in DOMAIN rows /\ rows'[k] = rows[k]
          BY <2>4, <4>2
        <5>2. QED
          BY <1>1, <1>2, <5>1
      <4>3. QED
        BY <4>1, <4>2
    <3>3. QED
      BY <1>1, <3>1, <3>2 DEF RowsTrue
  <2>7. QED
    BY <1>3, <2>3, <2>6 DEF IInv
<1>6. QED
  BY <1>4, <1>5

\* At the end everything goes back.
LEMMA UnmapStep ==
    ASSUME IInv, OpenFails \/ Finish
    PROVE  IInv'
<1>1. /\ free' = free \cup Held /\ reserved' = 0 /\ slots' = <<>>
      /\ pc' \in Ended
      /\ UNCHANGED <<others, root, n, i, rows>>
  BY DEF OpenFails, Finish, Unmap, Ended
<1>2. Held \in SUBSET Page
  BY DEF IInv, TypeOK, Held
<1>3. /\ Cardinality(free) \in Nat /\ Cardinality(free') \in Nat
      /\ Cardinality(free) <= Cardinality(free')
  BY <1>1, <1>2, PagesFinite, GiveBack DEF IInv, TypeOK
<1>4. TypeOK'
  BY <1>1, <1>2 DEF IInv, TypeOK, Held, Ended
<1>5. Mapping'
  BY <1>1 DEF Mapping, Ended
<1>6. NobodyStarves'
  BY <1>1, <1>3 DEF IInv, TypeOK, NobodyStarves
<1>7. RowsTrue'
  BY <1>1 DEF IInv, RowsTrue
<1>8. QED
  BY <1>4, <1>5, <1>6, <1>7 DEF IInv

\* The rest of the machine takes only what is not promised to this process.
LEMMA OtherStep ==
    ASSUME IInv, Other
    PROVE  IInv'
<1>1. UNCHANGED <<reserved, root, pc, n, i, slots, rows>> /\ Held' = Held
  BY DEF Other, Held
<1>2. Mapping' /\ RowsTrue'
  BY <1>1 DEF IInv, Mapping, RowsTrue
<1>3. Cardinality(free) \in Nat /\ others \in Nat /\ reserved \in Nat
  BY PagesFinite DEF IInv, TypeOK
<1>4. /\ free' \in SUBSET Page /\ Held \cap free' = {}
      /\ others' \in Nat
      /\ others' + reserved <= Cardinality(free')
  <2>1. CASE OtherMaps
    BY <1>3, <2>1 DEF OtherMaps, CanReserve, IInv, TypeOK
  <2>2. CASE OtherTouches
    <3>1. PICK p \in free : free' = free \ {p}
      BY <2>2 DEF OtherTouches
    <3>2. Cardinality(free') = Cardinality(free) - 1
      BY <3>1, TakeOne DEF IInv, TypeOK
    <3>3. QED
      BY <1>3, <2>2, <3>1, <3>2 DEF OtherTouches, IInv, TypeOK, NobodyStarves
  <2>3. CASE OtherUnmaps
    <3>1. CASE others > 0 /\ others' = others - 1 /\ UNCHANGED free
      BY <1>3, <3>1 DEF IInv, TypeOK, NobodyStarves
    <3>2. CASE \E p \in Page \ (free \cup Held) : free' = free \cup {p} /\ UNCHANGED others
      <4>1. PICK p \in Page \ (free \cup Held) : free' = free \cup {p} /\ UNCHANGED others
        BY <3>2
      <4>2. Cardinality(free) <= Cardinality(free') /\ Cardinality(free') \in Nat
        BY <4>1, GiveBack, PagesFinite DEF IInv, TypeOK
      <4>3. QED
        BY <1>3, <4>1, <4>2 DEF IInv, TypeOK, NobodyStarves
    <3>3. QED
      BY <2>3, <3>1, <3>2 DEF OtherUnmaps
  <2>4. QED
    BY <2>1, <2>2, <2>3 DEF Other
<1>5. TypeOK' /\ NobodyStarves'
  BY <1>1, <1>4 DEF IInv, TypeOK, NobodyStarves
<1>6. QED
  BY <1>2, <1>5 DEF IInv

\* For every pool, every failing call and whatever other processes do: what is mapped,
\* promised, touched and printed agrees at each place of main.
THEOREM AddrInvariant == Spec => []IInv
<1>1. IInv /\ [Next]_vars => IInv'
  <2> SUFFICES ASSUME IInv, [Next]_vars PROVE IInv'
    OBVIOUS
  <2>1. CASE Main
    BY <2>1, EarlyStep, TouchStep, PreadStep, UnmapStep DEF Main
  <2>2. CASE Other
    BY <2>2, OtherStep
  <2>3. CASE UNCHANGED vars
    BY <2>3 DEF vars, IInv, TypeOK, Mapping, NobodyStarves, RowsTrue, Held
  <2>4. QED
    BY <2>1, <2>2, <2>3 DEF Next
<1>2. QED
  BY InitInv, <1>1, PTL DEF Spec

\* No page that another process has mapped is taken from it.
THEOREM OthersKeepTheirs == Spec => []NobodyStarves
<1>1. IInv => NobodyStarves
  BY DEF IInv
<1>2. QED
  BY <1>1, AddrInvariant, PTL

\* What is printed is one true row per page.
THEOREM ReportIsTrue == Spec => []RowsTrue
<1>1. IInv => RowsTrue
  BY DEF IInv
<1>2. QED
  BY <1>1, AddrInvariant, PTL

\* A touch of this process finds a page: it is not killed.
THEOREM TouchFindsPage == Spec => [](pc = "touch" /\ i < n => free # {})
<1>1. IInv => (pc = "touch" /\ i < n => free # {})
  <2> SUFFICES ASSUME IInv, pc = "touch", i < n PROVE free # {}
    OBVIOUS
  <2>1. reserved > 0 /\ others >= 0 /\ Cardinality(free) >= others + reserved
        /\ Cardinality(free) \in Nat /\ reserved \in Nat /\ others \in Nat
    BY PagesFinite DEF IInv, TypeOK, Mapping, NobodyStarves
  <2>2. QED
    BY <2>1, FS_EmptySet
<1>2. QED
  BY <1>1, AddrInvariant, PTL
------------------------------------------------------------------------------
(* The report ends: what main still has to do grows less with each step.   *)

\* How many steps main has left at most: two for each page, and those around the loop.
StepsLeft == CASE pc = "start" -> 2 * Cardinality(Page) + 4
               [] pc = "mmap" -> 2 * n + 3
               [] pc = "open" -> 2 * n + 2
               [] pc = "touch" -> 2 * (n - i) + 1
               [] pc = "pread" -> 2 * (n - i)
               [] pc \in Ended -> 0

StepsLeftTable ==
    /\ StepsLeft \in Nat
    /\ pc = "start" => StepsLeft = 2 * Cardinality(Page) + 4
    /\ pc = "mmap" => StepsLeft = 2 * n + 3
    /\ pc = "open" => StepsLeft = 2 * n + 2
    /\ pc = "touch" => StepsLeft = 2 * (n - i) + 1
    /\ pc = "pread" => StepsLeft = 2 * (n - i)
    /\ pc \in Ended => StepsLeft = 0

\* What is left at each place is a number.
LEMMA StepsLeftAt == IInv => StepsLeftTable
<1> SUFFICES ASSUME IInv PROVE StepsLeftTable
  OBVIOUS
<1>1. Cardinality(Page) \in Nat /\ n \in Nat /\ i \in 0 .. n
  BY PagesFinite DEF IInv, TypeOK
<1>2. CASE pc \in {"start", "mmap", "open"}
  BY <1>1, <1>2 DEF StepsLeftTable, StepsLeft, Ended
<1>3. CASE pc \in {"touch", "pread"}
  BY <1>1, <1>3 DEF StepsLeftTable, StepsLeft, Ended
<1>4. CASE pc \in Ended
  BY <1>1, <1>4 DEF StepsLeftTable, StepsLeft, Ended
<1> QED
  BY <1>2, <1>3, <1>4 DEF IInv, TypeOK

\* Main does not count on more pages than there are.
LEMMA CountFits == Spec => [](n <= Cardinality(Page))
<1>1. Init => n <= Cardinality(Page)
  BY PagesFinite DEF Init
<1>2. IInv /\ n <= Cardinality(Page) /\ [Next]_vars => (n <= Cardinality(Page))'
  <2>1. ReadSysfs /\ IInv => n' <= Cardinality(Page)
    BY PagesFinite, FS_Subset DEF ReadSysfs, IInv, TypeOK
  <2> QED
    BY <2>1 DEF Next, Main, Other, vars, ReadSysfsFails, Mmap, MmapFails, OpenPagemap, OpenFails,
                Touch, Pread, PreadFails, Finish, Unmap
<1> QED
  BY <1>1, <1>2, AddrInvariant, PTL DEF Spec

\* hugepage_addr.cpp:57-131.  Whatever fails and whatever other processes do, each step of
\* main brings its end nearer and no step of theirs puts it off: with TouchFindsPage and a
\* kernel that schedules the process this is why the report ends.
THEOREM ReportTakesBoundedSteps ==
    Spec => /\ [](StepsLeft \in 0 .. 2 * Cardinality(Page) + 4)
            /\ [][(Main => StepsLeft' < StepsLeft) /\ (Other => StepsLeft' = StepsLeft)]_vars
<1>1. IInv /\ StepsLeftTable /\ StepsLeftTable' /\ [Next]_vars
        => [(Main => StepsLeft' < StepsLeft) /\ (Other => StepsLeft' = StepsLeft)]_vars
  <2> SUFFICES ASSUME IInv, StepsLeftTable, StepsLeftTable', [Next]_vars
               PROVE  (Main => StepsLeft' < StepsLeft) /\ (Other => StepsLeft' = StepsLeft)
    OBVIOUS
  <2>1. n \in Nat /\ i \in 0 .. n /\ Cardinality(Page) \in Nat
        /\ Cardinality(free) \in Nat /\ Cardinality(free) <= Cardinality(Page)
    BY PagesFinite, GiveBack, FS_Subset DEF IInv, TypeOK
  <2>2. ASSUME Main PROVE StepsLeft' < StepsLeft
    <3>1. pc' \in Ended /\ pc \in {"start", "mmap", "open"} => StepsLeft' < StepsLeft
      BY <2>1 DEF StepsLeftTable, Ended
    <3>2. CASE ReadSysfs
      BY <2>1, <3>1, <3>2 DEF StepsLeftTable, ReadSysfs, Ended
    <3>3. CASE ReadSysfsFails \/ MmapFails \/ OpenFails
      BY <3>1, <3>3 DEF ReadSysfsFails, MmapFails, OpenFails, Ended
    <3>4. CASE Mmap \/ OpenPagemap
      BY <2>1, <3>4 DEF StepsLeftTable, Mmap, OpenPagemap, IInv, Mapping
    <3>5. CASE Touch
      BY <2>1, <3>5 DEF StepsLeftTable, Touch
    <3>6. CASE Pread \/ PreadFails
      BY <2>1, <3>6 DEF StepsLeftTable, Pread, PreadFails
    <3>7. CASE Finish
      BY <2>1, <3>7 DEF StepsLeftTable, Finish, Ended
    <3> QED
      BY <2>2, <3>2, <3>3, <3>4, <3>5, <3>6, <3>7 DEF Main
  <2>3. ASSUME Other PROVE StepsLeft' = StepsLeft
    BY <2>3 DEF Other, StepsLeft
  <2> QED
    BY <2>2, <2>3
<1>2. IInv /\ n <= Cardinality(Page) => StepsLeft \in 0 .. 2 * Cardinality(Page) + 4
  BY PagesFinite, StepsLeftAt DEF StepsLeftTable, IInv, TypeOK, Ended
<1> QED
  BY <1>1, <1>2, CountFits, StepsLeftAt, AddrInvariant, PTL DEF Spec
=============================================================================
