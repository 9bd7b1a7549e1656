------------------------ MODULE HugepageAllocProofs ------------------------
(***************************************************************************)
(* Proofs about HugepageAlloc, for every pool, class map, quota, mempolicy *)
(* and set of failing calls; and that it implements PageGrant: whatever    *)
(* fails, and whatever other processes do, hp_alloc's caller sees a        *)
(* process that takes pages of the pool, gives some back, and is granted a *)
(* region, refused, or killed; and a region reported balanced holds its    *)
(* quota of every class, than which no mix of the probed pages is better,  *)
(* and uses the channels evenly.  All of it takes a bounded number of      *)
(* steps.                                                                  *)
(***************************************************************************)
EXTENDS ChannelBalance, FiniteSetTheorems, WellFoundedInduction, TLAPS

\* The file is as long as the larger of the request and the machine.
LEMMA FileSizeFacts == /\ Cardinality(Page) \in Nat
                       /\ FileSize \in Nat
                       /\ NPages <= FileSize
                       /\ Cardinality(Page) <= FileSize
<1>1. Cardinality(Page) \in Nat
  BY FS_CardinalityType, PageAssumption
<1> QED
  BY <1>1, SizeAssumption DEF FileSize, MaxOf

\* The counter hp_free_pages_available returns never exceeds the machine, so
\* the memfd never needs more than FileSize indexes.
LEMMA CapFits ==
    ASSUME free \subseteq Page
    PROVE  MaxOf(FreePagesAvailable, NPages) \in 0 .. FileSize
<1> DEFINE onMask == {p \in free : NodeOf[p] \in PolicyNodes}
<1>1. /\ IsFiniteSet(free) /\ Cardinality(free) <= Cardinality(Page)
  BY FS_Subset, PageAssumption
<1>2. onMask \in SUBSET free
  OBVIOUS
<1>3. /\ IsFiniteSet(onMask) /\ Cardinality(onMask) <= Cardinality(free)
  BY ONLY <1>1, <1>2, FS_Subset
<1>4. Cardinality(onMask) \in Nat /\ Cardinality(free) \in Nat
  BY <1>1, <1>3, FS_CardinalityType
<1>5. FreePagesAvailable \in Nat /\ FreePagesAvailable <= Cardinality(Page)
  <2>1. FreePagesAvailable = Cardinality(onMask) \/ FreePagesAvailable = Cardinality(free)
    BY DEF FreePagesAvailable
  <2> QED
    BY <2>1, <1>1, <1>3, <1>4, FileSizeFacts
<1> QED
  BY <1>5, FileSizeFacts, SizeAssumption DEF MaxOf

------------------------------------------------------------------------------
(* Types and counters.                                                     *)

\* The states hp_alloc starts in have the right types and counters.
LEMMA TypesInit == Init => TypeOK /\ Counters /\ Choice
<1> SUFFICES ASSUME Init PROVE TypeOK /\ Counters /\ Choice
  OBVIOUS
<1> USE FileSizeFacts, SizeAssumption, ClassAssumption DEF Init, Class, Slot, Index
<1>1. /\ file \in [Index -> Page \cup {NoPage}]
      /\ anon \in [Slot -> Page \cup {NoPage}]
      /\ phys \in [Slot -> Page \cup {NoPage}]
      /\ cls \in [Slot -> -1 .. K - 1]
  BY DEF EmptyFile, EmptyAnon
<1>2. /\ byClass \in [Class -> Seq(Index)]
      /\ next \in [Class -> Nat]
      /\ chosen \in Seq(Index)
      /\ chosenCls \in Seq(Class)
  OBVIOUS
<1>3. TypeOK
  <2>1. /\ reserved \in 0 .. NPages
        /\ cap \in 0 .. FileSize
        /\ probed \in 0 .. FileSize
        /\ i \in 0 .. FileSize
    OBVIOUS
  <2>2. /\ free \subseteq Page
        /\ env \in Request
        /\ pc \in PathSteps
        /\ base \in {"null", "shared", "anon"}
        /\ balanced \in BOOLEAN
    BY Zenon DEF PathSteps
  <2> QED
    BY <1>1, <1>2, <2>1, <2>2, Zenon DEF TypeOK
<1>4. Counters
  BY DEF Counters, Outstanding, BeforeProbe
<1>5. Choice
  BY DEF Choice, SharedRegion
<1> QED
  BY <1>3, <1>4, <1>5

\* A translation is a page or unknown, and so has a class or -1.
LEMMA TranslateFacts ==
    ASSUME NEW p, NEW q \in Translate(p)
    PROVE  /\ q \in {p, NoPage}
           /\ p \in Page \cup {NoPage} => q \in Page \cup {NoPage} /\ ClassOf(q) \in -1 .. K - 1
<1>1. q \in {p, NoPage}
  BY DEF Translate
<1> QED
  BY <1>1, ClassAssumption DEF ClassOf

\* The steps that move one counter or none keep the types.
LEMMA TypesSimpleSteps ==
    ASSUME TypeOK, Counters, Choice,
           Start \/ MemfdCreate \/ MemfdCreateFails \/ Truncate \/ TruncateFails \/ ProbeMap \/ ProbeStops
           \/ Killed \/ ChooseFails \/ ReserveVa \/ ReserveVaFails \/ MapSlotFails \/ PunchPage
           \/ PunchDone \/ PlainMmap \/ PlainMmapFails \/ HpFree \/ OtherTakes \/ OtherReturns \/ UNCHANGED vars
    PROVE  TypeOK' /\ Counters' /\ Choice'
<1> USE FileSizeFacts, SizeAssumption, ClassAssumption
    DEF TypeOK, Counters, Outstanding, Choice, SharedRegion, BeforeProbe, Probing, PathSteps,
        Class, Slot, Index, pool, memory, choice, report
<1>1. CASE Start
  BY <1>1 DEF Start
<1>2. CASE MemfdCreate
  BY <1>2 DEF MemfdCreate
<1>3. CASE MemfdCreateFails
  BY <1>3 DEF MemfdCreateFails, GiveUp, ReturnPages, EmptyFile, EmptyAnon, Held
<1>4. CASE Truncate
  BY CapFits, <1>4 DEF Truncate
<1>5. CASE TruncateFails
  BY <1>5 DEF TruncateFails, GiveUp, ReturnPages, EmptyFile, EmptyAnon, Held
<1>6. CASE ProbeMap
  <2>0. reserved' \in 0 .. NPages /\ pc' \in PathSteps
    BY <1>6 DEF ProbeMap
  <2>1. TypeOK'
    BY <1>6, <2>0, Zenon DEF ProbeMap
  <2>2. Counters'
    BY <1>6 DEF ProbeMap
  <2>3. Choice'
    BY <1>6 DEF ProbeMap
  <2> QED
    BY <2>1, <2>2, <2>3
<1>7. CASE ProbeStops
  BY <1>7 DEF ProbeStops, EndProbe
<1>8. CASE Killed
  BY <1>8 DEF Killed, ReturnPages, EmptyFile, EmptyAnon, Held, SlotsLeft
<1>9. CASE ChooseFails
  BY <1>9 DEF ChooseFails, GiveUp, ReturnPages, EmptyFile, EmptyAnon, Held
<1>10. CASE ReserveVa
  <2>0. i' \in 0 .. FileSize /\ pc' \in PathSteps
    BY <1>10 DEF ReserveVa
  <2>1. TypeOK'
    BY <1>10, <2>0, Zenon DEF ReserveVa
  <2>2. Counters'
    BY <1>10 DEF ReserveVa
  <2>3. Choice'
    BY <1>10 DEF ReserveVa
  <2> QED
    BY <2>1, <2>2, <2>3
<1>11. CASE ReserveVaFails
  BY <1>11 DEF ReserveVaFails, GiveUp, ReturnPages, EmptyFile, EmptyAnon, Held
<1>12. CASE MapSlotFails
  BY <1>12 DEF MapSlotFails, GiveUp, ReturnPages, EmptyFile, EmptyAnon, Held
<1>13. CASE PunchPage
  <2>1. /\ pc = "punch" /\ i < probed /\ i' = i + 1
        /\ UNCHANGED <<reserved, anon, env, pc, cap, probed, byClass, chosen, chosenCls,
                       next, base, phys, cls, balanced>>
    BY <1>13 DEF PunchPage
  <2>2. free' \subseteq Page /\ file' \in [Index -> Page \cup {NoPage}]
    <3>1. file[i] \in Page \cup {NoPage}
      BY <2>1
    <3> QED
      BY <1>13, <3>1 DEF PunchPage
  <2>3. i' \in 0 .. FileSize /\ i' <= probed'
    BY <2>1
  <2>4. TypeOK'
    BY <2>1, <2>2, <2>3, Zenon
  <2>5. Counters'
    BY <2>1, <2>3
  <2>6. Choice'
    BY <2>1
  <2> QED
    BY <2>4, <2>5, <2>6
<1>14. CASE PunchDone
  <2>0. i' \in 0 .. FileSize /\ pc' \in PathSteps
    BY <1>14 DEF PunchDone
  <2>1. TypeOK'
    BY <1>14, <2>0, Zenon DEF PunchDone
  <2>2. Counters'
    BY <1>14 DEF PunchDone
  <2>3. Choice'
    BY <1>14 DEF PunchDone
  <2> QED
    BY <2>1, <2>2, <2>3
<1>15. CASE PlainMmap
  BY <1>15 DEF PlainMmap
<1>16. CASE PlainMmapFails
  BY <1>16 DEF PlainMmapFails
<1>17. CASE HpFree
  BY <1>17 DEF HpFree, ReturnPages, EmptyFile, EmptyAnon, Held, SlotsLeft
<1>18. CASE OtherTakes
  BY <1>18 DEF OtherTakes
<1>19. CASE OtherReturns
  <2>1. free' \subseteq Page
    BY <1>19 DEF OtherReturns
  <2>2. UNCHANGED <<reserved, file, anon, env, pc, cap, probed, byClass, chosen, chosenCls,
                    next, i, base, phys, cls, balanced>>
    BY <1>19 DEF OtherReturns
  <2> QED
    BY <2>1, <2>2
<1>20. CASE UNCHANGED vars
  BY <1>20 DEF vars
<1> QED
  BY <1>1, <1>2, <1>3, <1>4, <1>5, <1>6, <1>7, <1>8, <1>9, <1>10, <1>11, <1>12, <1>13, <1>14, <1>15, <1>16, <1>17, <1>18, <1>19, <1>20

\* Faulting a probed page in and filing it keeps the types.
LEMMA TypesProbeFault ==
    ASSUME TypeOK, Counters, Choice, ProbeFault
    PROVE  TypeOK' /\ Counters' /\ Choice'
<1> USE FileSizeFacts, SizeAssumption, ClassAssumption DEF Class, Index
<1>1. /\ pc = "fault" /\ reserved' = 0
      /\ UNCHANGED <<anon, env, cap, chosen, chosenCls, next, base, phys, cls>>
  BY DEF ProbeFault, choice, report
<1>2. PICK p \in free \cap Faultable :
        /\ free' = free \ {p}
        /\ file' = [file EXCEPT ![probed] = p]
        /\ \/ EndProbe /\ probed' = probed /\ byClass' = byClass
           \/ /\ byClass' = [byClass EXCEPT ![PageClass[p]] = Append(@, probed)]
              /\ probed' = probed + 1
              /\ EndProbe \/ (pc' = "probe" /\ i' = i /\ balanced' = balanced)
  BY DEF ProbeFault
<1>3. /\ free \subseteq Page
      /\ file \in [Index -> Page \cup {NoPage}]
      /\ cap \in 0 .. FileSize
      /\ probed \in 0 .. FileSize
      /\ probed < cap
      /\ byClass \in [Class -> Seq(Index)]
      /\ i \in 0 .. FileSize
      /\ balanced \in BOOLEAN
  BY <1>1 DEF TypeOK, Counters
<1>4. p \in Page /\ PageClass[p] \in Class /\ probed \in Index
  BY <1>2, <1>3
<1>5. free' \subseteq Page /\ file' \in [Index -> Page \cup {NoPage}]
  BY <1>2, <1>3, <1>4
<1>6. byClass' \in [Class -> Seq(Index)]
  <2>1. Append(byClass[PageClass[p]], probed) \in Seq(Index)
    BY <1>3, <1>4
  <2> QED
    BY <1>2, <1>3, <1>4, <2>1
<1>7. \/ pc' = "choose" /\ i' = 0 /\ probed' \in {probed, probed + 1}
      \/ pc' = "probe" /\ i' = i /\ probed' = probed + 1
  BY <1>2 DEF EndProbe
<1>8. probed' \in 0 .. FileSize /\ (pc' = "probe" => probed' <= cap')
  BY <1>1, <1>3, <1>7
<1>9. balanced' \in BOOLEAN
  BY <1>2, <1>3 DEF EndProbe
<1>10. TypeOK'
  BY <1>1, <1>5, <1>6, <1>7, <1>8, <1>9 DEF TypeOK, PathSteps
<1>11. Counters'
  BY <1>1, <1>7, <1>8 DEF Counters, Outstanding, BeforeProbe
<1>12. chosen = <<>> /\ chosenCls = <<>> /\ \A c \in Class : next[c] = 0
  BY <1>1 DEF Choice, Probing
<1>13. Choice'
  BY <1>1, <1>7, <1>12 DEF Choice, SharedRegion
<1> QED
  BY <1>10, <1>11, <1>13

\* Picking a page for a slot keeps the types: the class it comes from has one left.
LEMMA TypesChoosePage ==
    ASSUME TypeOK, Counters, Choice, ChoosePage
    PROVE  TypeOK' /\ Counters' /\ Choice'
<1> USE FileSizeFacts, SizeAssumption, ClassAssumption
<1>1. /\ pc = "choose" /\ i < NPages /\ i' = i + 1
      /\ UNCHANGED <<free, reserved, file, anon, env, pc, cap, probed, byClass, base, phys, cls>>
  BY DEF ChoosePage, SlotsLeft, pool, memory, report
<1>2. PICK c \in Class : /\ Pick(c)
                         /\ chosen' = Append(chosen, byClass[c][next[c] + 1])
                         /\ chosenCls' = Append(chosenCls, c)
                         /\ Advance(c)
  BY DEF ChoosePage
<1>3. /\ byClass[c] \in Seq(Index) /\ next \in [Class -> Nat] /\ next[c] \in Nat
      /\ chosen \in Seq(Index) /\ chosenCls \in Seq(Class)
      /\ i \in 0 .. FileSize
      /\ balanced \in BOOLEAN
  BY DEF TypeOK
<1>4. Left(c) > 0
  BY <1>2 DEF Pick, Richest
<1>5. byClass[c][next[c] + 1] \in Index
  <2>1. Len(byClass[c]) \in Nat
    BY <1>3
  <2>2. next[c] + 1 \in 1 .. Len(byClass[c])
    BY <1>3, <1>4, <2>1 DEF Left
  <2> QED
    BY <1>3, <2>2
<1>6. chosen' \in Seq(Index) /\ Len(chosen') = Len(chosen) + 1
  BY <1>2, <1>3, <1>5
<1>7. chosenCls' \in Seq(Class) /\ Len(chosenCls') = Len(chosenCls) + 1
  BY <1>2, <1>3
<1>8. next' \in [Class -> Nat]
  <2>1. next[c] + 1 \in Nat
    BY <1>3
  <2> QED
    BY <1>2, <1>3, <2>1 DEF Advance
<1>9. balanced' \in BOOLEAN
  BY <1>2, <1>3 DEF Pick
<1>10. i' \in 0 .. FileSize
  BY <1>1, <1>3
<1>11. TypeOK'
  BY <1>1, <1>6, <1>7, <1>8, <1>9, <1>10 DEF TypeOK
<1>12. Counters'
  BY <1>1, <1>3 DEF Counters, Outstanding, BeforeProbe
<1>13. Len(chosen) = i /\ Len(chosenCls) = i
  BY <1>1 DEF Choice
<1>14. Choice'
  BY <1>1, <1>6, <1>7, <1>13 DEF Choice, SharedRegion, BeforeProbe, Probing
<1> QED
  BY <1>11, <1>12, <1>14

\* Mapping a slot moves the slot counter.
LEMMA TypesMapSlot ==
    ASSUME TypeOK, Counters, Choice, MapSlot
    PROVE  TypeOK' /\ Counters' /\ Choice'
<1> USE FileSizeFacts, SizeAssumption
<1>1. /\ pc = "map"
      /\ \/ pc' = "map" /\ i + 1 < NPages /\ i' = i + 1
         \/ pc' = "punch" /\ i' = 0
      /\ UNCHANGED <<free, reserved, file, anon, env, cap, probed, byClass, chosen,
                     chosenCls, next, base, phys, cls, balanced>>
  BY DEF MapSlot, pool, memory, choice, report
<1>2. i \in 0 .. FileSize /\ probed \in 0 .. FileSize
  BY DEF TypeOK
<1>3. TypeOK'
  BY <1>1, <1>2 DEF TypeOK, PathSteps
<1>4. Counters'
  BY <1>1, <1>2 DEF Counters, Outstanding, BeforeProbe
<1>5. Choice'
  BY <1>1 DEF Choice, SharedRegion, BeforeProbe, Probing
<1> QED
  BY <1>3, <1>4, <1>5

\* Verifying a slot records a page and a class for it.
LEMMA TypesVerifySlot ==
    ASSUME TypeOK, Counters, Choice, VerifySlot
    PROVE  TypeOK' /\ Counters' /\ Choice'
<1> USE FileSizeFacts, SizeAssumption
<1>1. /\ pc = "verify"
      /\ \/ pc' = "verify" /\ i + 1 < NPages /\ i' = i + 1
         \/ pc' = "ready" /\ i' = 0
      /\ UNCHANGED <<free, reserved, file, anon, env, cap, probed, byClass, chosen,
                     chosenCls, next, base>>
  BY DEF VerifySlot, pool, memory, choice
<1>2. /\ i \in 0 .. FileSize /\ i < NPages /\ chosen \in Seq(Index) /\ Len(chosen) = NPages
      /\ file \in [Index -> Page \cup {NoPage}]
      /\ phys \in [Slot -> Page \cup {NoPage}] /\ cls \in [Slot -> -1 .. K - 1]
  BY <1>1 DEF TypeOK, Counters, Choice, SharedRegion
<1>3. PICK q \in Translate(file[chosen[i + 1]]) :
        /\ phys' = [phys EXCEPT ![i] = q]
        /\ cls' = [cls EXCEPT ![i] = ClassOf(q)]
        /\ balanced' = (balanced /\ ClassOf(q) = chosenCls[i + 1])
  BY DEF VerifySlot
<1>4. q \in Page \cup {NoPage} /\ ClassOf(q) \in -1 .. K - 1
  <2>1. i + 1 \in 1 .. Len(chosen)
    BY <1>2
  <2>2. chosen[i + 1] \in Index
    BY <1>2, <2>1
  <2> QED
    BY <1>2, <1>3, <2>2, TranslateFacts
<1>5. phys' \in [Slot -> Page \cup {NoPage}] /\ cls' \in [Slot -> -1 .. K - 1]
  BY <1>2, <1>3, <1>4
<1>6. balanced' \in BOOLEAN
  BY <1>3 DEF TypeOK
<1>7. TypeOK'
  BY <1>1, <1>2, <1>5, <1>6 DEF TypeOK, PathSteps
<1>8. Counters'
  BY <1>1, <1>2 DEF Counters, Outstanding, BeforeProbe
<1>9. Choice'
  BY <1>1 DEF Choice, SharedRegion, BeforeProbe, Probing
<1> QED
  BY <1>7, <1>8, <1>9

\* Faulting a page of the plain mapping in uses up one reservation.
LEMMA TypesPlainFault ==
    ASSUME TypeOK, Counters, Choice, PlainFault
    PROVE  TypeOK' /\ Counters' /\ Choice'
<1> USE FileSizeFacts, SizeAssumption
<1>1. /\ pc = "plain_fault" /\ pc' = pc /\ i < NPages /\ i' = i + 1 /\ reserved' = reserved - 1
      /\ UNCHANGED <<file, env, cap, probed, byClass, chosen, chosenCls, next, base, balanced>>
  BY DEF PlainFault, SlotsLeft, choice
<1>2. PICK p \in free \cap Faultable :
        /\ free' = free \ {p}
        /\ anon' = [anon EXCEPT ![i] = p]
        /\ \E q \in Translate(p) : /\ phys' = [phys EXCEPT ![i] = q]
                                   /\ cls' = [cls EXCEPT ![i] = ClassOf(q)]
  BY DEF PlainFault
<1>q. PICK q \in Translate(p) : /\ phys' = [phys EXCEPT ![i] = q]
                               /\ cls' = [cls EXCEPT ![i] = ClassOf(q)]
  BY <1>2
<1>3. free \subseteq Page /\ i \in 0 .. FileSize /\ reserved = NPages - i
  BY <1>1 DEF TypeOK, Counters, Outstanding
<1>4. p \in Page /\ q \in Page \cup {NoPage} /\ ClassOf(q) \in -1 .. K - 1
  BY <1>2, <1>q, <1>3, TranslateFacts
<1>5. /\ free' \subseteq Page
      /\ anon' \in [Slot -> Page \cup {NoPage}]
      /\ phys' \in [Slot -> Page \cup {NoPage}]
      /\ cls' \in [Slot -> -1 .. K - 1]
  BY <1>2, <1>q, <1>3, <1>4 DEF TypeOK
<1>6. reserved' \in 0 .. NPages /\ reserved' = NPages - i' /\ i' \in 0 .. FileSize /\ i' <= NPages
  BY <1>1, <1>3
<1>7. TypeOK'
  BY <1>1, <1>5, <1>6 DEF TypeOK
<1>8. Counters'
  BY <1>1, <1>6 DEF Counters, Outstanding, BeforeProbe
<1>9. Choice'
  BY <1>1 DEF Choice, SharedRegion, BeforeProbe, Probing
<1> QED
  BY <1>7, <1>8, <1>9

\* The report on the plain mapping is a Boolean.
LEMMA TypesPlainDone ==
    ASSUME TypeOK, Counters, Choice, PlainDone
    PROVE  TypeOK' /\ Counters' /\ Choice'
<1>1. /\ pc = "plain_fault" /\ pc' = "ready" /\ i = NPages /\ i' = 0
      /\ UNCHANGED <<free, reserved, file, anon, env, cap, probed, byClass, chosen,
                     chosenCls, next, base, phys, cls>>
  BY DEF PlainDone, pool, memory, choice, report
<1>2. balanced' \in BOOLEAN
  <2>1. PlainBalanced \in BOOLEAN
    BY DEF PlainBalanced
  <2> QED
    BY <2>1 DEF PlainDone
<1>3. TypeOK'
  BY <1>1, <1>2, FileSizeFacts DEF TypeOK, PathSteps
<1>4. Counters'
  BY <1>1, SizeAssumption DEF Counters, Outstanding, BeforeProbe
<1>5. base = "anon"
  BY <1>1 DEF Counters
<1>6. Choice'
  BY <1>1, <1>5 DEF Choice, SharedRegion, BeforeProbe, Probing
<1> QED
  BY <1>3, <1>4, <1>6

\* Every step keeps the types, and keeps the counters within their loops.
LEMMA TypesStep ==
    ASSUME TypeOK, Counters, Choice, [Next]_vars
    PROVE  TypeOK' /\ Counters' /\ Choice'
BY TypesSimpleSteps, TypesProbeFault, TypesChoosePage, TypesMapSlot, TypesVerifySlot,
   TypesPlainFault, TypesPlainDone DEF Next, Process, Balanced, Plain

------------------------------------------------------------------------------
(* Which mapping is in use, and where a page can be.                       *)

\* Every step leaves the file and the anonymous mapping to the path that runs.
LEMMA OwnershipStep ==
    ASSUME TypeOK, Counters, Ownership, [Next]_vars
    PROVE  Ownership'
<1> USE DEF Ownership, pool, memory, choice, report
<1>1. CASE Start
  BY <1>1 DEF Start
<1>2. CASE MemfdCreate
  BY <1>2 DEF MemfdCreate
<1>3. CASE MemfdCreateFails
  BY <1>3 DEF MemfdCreateFails, GiveUp, ReturnPages
<1>4. CASE Truncate
  BY <1>4 DEF Truncate
<1>5. CASE TruncateFails
  BY <1>5 DEF TruncateFails, GiveUp, ReturnPages
<1>6. CASE ProbeMap
  BY <1>6 DEF ProbeMap
<1>7. CASE ProbeStops
  BY <1>7 DEF ProbeStops, EndProbe
<1>8. CASE ProbeFault
  BY <1>8 DEF ProbeFault, EndProbe
<1>9. CASE Killed
  BY <1>9 DEF Killed, ReturnPages
<1>10. CASE ChoosePage
  BY <1>10 DEF ChoosePage
<1>11. CASE ChooseFails
  BY <1>11 DEF ChooseFails, GiveUp, ReturnPages
<1>12. CASE ReserveVa
  BY <1>12 DEF ReserveVa
<1>13. CASE ReserveVaFails
  BY <1>13 DEF ReserveVaFails, GiveUp, ReturnPages
<1>14. CASE MapSlot
  BY <1>14 DEF MapSlot
<1>15. CASE MapSlotFails
  BY <1>15 DEF MapSlotFails, GiveUp, ReturnPages
<1>16. CASE PunchPage
  BY <1>16 DEF PunchPage
<1>17. CASE PunchDone
  BY <1>17 DEF PunchDone
<1>18. CASE VerifySlot
  BY <1>18 DEF VerifySlot
<1>19. CASE PlainMmap
  BY <1>19 DEF PlainMmap
<1>20. CASE PlainMmapFails
  BY <1>20 DEF PlainMmapFails
<1>21. CASE PlainFault
  BY <1>21 DEF PlainFault, Counters
<1>22. CASE PlainDone
  BY <1>22 DEF PlainDone, Counters
<1>23. CASE HpFree
  BY <1>23 DEF HpFree, ReturnPages
<1>24. CASE OtherTakes
  BY <1>24 DEF OtherTakes
<1>25. CASE OtherReturns
  BY <1>25 DEF OtherReturns
<1>26. CASE UNCHANGED vars
  BY <1>26 DEF vars
<1> QED
  BY <1>1, <1>2, <1>3, <1>4, <1>5, <1>6, <1>7, <1>8, <1>9, <1>10, <1>11, <1>12, <1>13, <1>14, <1>15, <1>16, <1>17, <1>18, <1>19, <1>20, <1>21, <1>22, <1>23, <1>24, <1>25, <1>26 DEF Next, Process, Balanced, Plain

\* A page never gets to be in two places.
LEMMA OnePlaceStep ==
    ASSUME TypeOK, Counters, Ownership, OnePlace, [Next]_vars
    PROVE  OnePlace'
<1>1. /\ free \subseteq Page
      /\ file \in [Index -> Page \cup {NoPage}]
      /\ anon \in [Slot -> Page \cup {NoPage}]
      /\ NoPage \notin free
  BY PageAssumption DEF TypeOK
<1>2. CASE UNCHANGED <<file, anon>> /\ free' \subseteq free
  BY <1>2 DEF OnePlace
<1>3. CASE ReturnPages
  <2>1. NoPage \notin free'
    BY <1>1, <1>3 DEF ReturnPages, Held
  <2>2. (\A n \in Index : file'[n] = NoPage) /\ (\A s \in Slot : anon'[s] = NoPage)
    BY <1>3 DEF ReturnPages, EmptyFile, EmptyAnon
  <2> QED
    BY <2>1, <2>2 DEF OnePlace
<1>4. CASE ProbeFault
  <2>1. PICK p \in free : free' = free \ {p} /\ file' = [file EXCEPT ![probed] = p]
    BY <1>4 DEF ProbeFault
  <2>2. anon' = anon
    BY <1>4 DEF ProbeFault
  <2>3. \A n \in Index : file'[n] = IF n = probed THEN p ELSE file[n]
    BY <1>1, <2>1
  <2> QED
    BY <1>1, <2>1, <2>2, <2>3 DEF OnePlace
<1>5. CASE PlainFault
  <2>1. PICK p \in free : free' = free \ {p} /\ anon' = [anon EXCEPT ![i] = p]
    BY <1>5 DEF PlainFault
  <2>2. file' = file
    BY <1>5 DEF PlainFault
  <2>3. \A s \in Slot : anon'[s] = IF s = i THEN p ELSE anon[s]
    BY <1>1, <2>1
  <2> QED
    BY <1>1, <2>1, <2>2, <2>3 DEF OnePlace
<1>6. CASE PunchPage
  <2>1. pc = "punch" /\ anon' = anon /\ \A s \in Slot : anon[s] = NoPage
    BY <1>6 DEF PunchPage, Ownership, EmptyAnon
  <2>2. CASE UNCHANGED <<file, free>>
    BY <1>2, <2>1, <2>2
  <2>3. CASE /\ file' = [file EXCEPT ![i] = NoPage]
             /\ free' = free \cup ({file[i]} \ {NoPage})
    <3>1. \A n \in Index : file'[n] = IF n = i THEN NoPage ELSE file[n]
      BY <1>1, <2>3
    <3>2. i \in Index
      BY <1>6, FileSizeFacts DEF TypeOK, PunchPage, Index
    <3>3. NoPage \notin free'
      BY <1>1, <2>3
    <3>4. \A n \in Index : file'[n] \notin free'
      BY <1>1, <2>3, <3>1, <3>2, <3>3 DEF OnePlace
    <3>5. \A m, n \in Index : file'[m] # NoPage /\ file'[m] = file'[n] => m = n
      BY <3>1 DEF OnePlace
    <3> QED
      BY <2>1, <3>3, <3>4, <3>5 DEF OnePlace
  <2> QED
    BY <1>6, <2>2, <2>3 DEF PunchPage
<1>7. CASE OtherReturns
  <2>1. PICK p \in Page \ (free \cup Held) : free' = free \cup {p}
    BY <1>7 DEF OtherReturns
  <2>2. UNCHANGED <<file, anon>>
    BY <1>7 DEF OtherReturns, memory
  <2>3. \A n \in Index : file[n] # p
    BY <2>1, PageAssumption DEF Held
  <2>4. \A s \in Slot : anon[s] # p
    BY <2>1, PageAssumption DEF Held
  <2> QED
    BY <2>1, <2>2, <2>3, <2>4 DEF OnePlace
<1> QED
  <2>1. CASE Next
    BY <2>1, <1>2, <1>3, <1>4, <1>5, <1>6, <1>7
       DEF Next, Process, Balanced, Plain, Start, MemfdCreate, MemfdCreateFails, Truncate,
           TruncateFails, ProbeMap, ProbeStops, ChoosePage, ChooseFails, ReserveVa,
           ReserveVaFails, MapSlot, MapSlotFails, PunchDone, VerifySlot, PlainMmap,
           PlainMmapFails, PlainDone, Killed, HpFree, OtherTakes, GiveUp, pool, memory
  <2>2. CASE UNCHANGED vars
    BY <2>2, <1>2 DEF vars
  <2> QED
    BY <2>1, <2>2

\* The plain mapping has a page behind every slot it has reached.
LEMMA PlainFilledStep ==
    ASSUME TypeOK, Counters, Ownership, PlainFilled, [Next]_vars
    PROVE  PlainFilled'
<1>1. CASE PlainMmap
  BY <1>1 DEF PlainMmap, PlainFilled, Slot
<1>2. CASE PlainFault
  <2>1. PICK p \in free : anon' = [anon EXCEPT ![i] = p]
    BY <1>2 DEF PlainFault
  <2>2. p # NoPage
    BY PageAssumption DEF TypeOK
  <2>3. \A s \in Slot : anon'[s] = IF s = i THEN p ELSE anon[s]
    BY <2>1 DEF TypeOK
  <2>4. pc = "plain_fault" /\ pc' = pc /\ i' = i + 1 /\ i \in Nat
    BY <1>2, FileSizeFacts DEF PlainFault, TypeOK
  <2>5. \A s \in Slot : s < i' => s < i \/ s = i
    BY <2>4, SizeAssumption DEF Slot
  <2> QED
    BY <2>2, <2>3, <2>4, <2>5 DEF PlainFilled
<1>3. CASE PlainDone
  <2>1. \A s \in Slot : s < i
    BY <1>3, SizeAssumption DEF PlainDone, Slot
  <2> QED
    BY <1>3, <2>1 DEF PlainDone, PlainFilled, memory
<1>4. CASE VerifySlot
  <2>1. pc = "verify" /\ base = "shared" /\ base' = base /\ pc' # "plain_fault"
    BY <1>4 DEF VerifySlot, Ownership
  <2> QED
    BY <2>1 DEF PlainFilled
<1>5. CASE pc' \notin {"plain_fault", "ready"}
  BY <1>5 DEF PlainFilled
<1>6. CASE UNCHANGED <<pc, i, base, anon>>
  BY <1>6 DEF PlainFilled
<1> QED
  <2>1. CASE Next
    BY <2>1, <1>1, <1>2, <1>3, <1>4, <1>5, <1>6
       DEF Next, Process, Balanced, Plain, Start, MemfdCreate, MemfdCreateFails, Truncate,
           TruncateFails, ProbeMap, ProbeStops, ProbeFault, EndProbe, ChoosePage, ChooseFails,
           ReserveVa, ReserveVaFails, MapSlot, MapSlotFails, PunchPage, PunchDone,
           PlainMmapFails, Killed, HpFree, OtherTakes, OtherReturns, GiveUp, pool, memory
  <2>2. CASE UNCHANGED vars
    BY <2>2, <1>6 DEF vars
  <2> QED
    BY <2>1, <2>2

------------------------------------------------------------------------------
(* The lists, the choice and the classes.                                  *)

\* Only a probe adds to the lists and only a pick takes from them.
LEMMA ListsFrame ==
    ASSUME [Next]_vars, ~ProbeFault, ~ChoosePage
    PROVE  /\ UNCHANGED <<probed, byClass, chosen, chosenCls, next>>
           /\ pc' \in BeforeProbe => pc \in BeforeProbe
           /\ pc' \in Probing \cup {"choose"} =>
                 /\ UNCHANGED file
                 /\ pc \in Probing \cup {"choose", "truncate"}
<1>1. CASE Next
  BY <1>1 DEF BeforeProbe, Probing, Next, Process, Balanced, Plain, Start, MemfdCreate, MemfdCreateFails, Truncate,
           TruncateFails, ProbeMap, ProbeStops, EndProbe, ChooseFails,
           ReserveVa, ReserveVaFails, MapSlot, MapSlotFails, PunchPage, PunchDone, VerifySlot,
           PlainMmap, PlainMmapFails, PlainFault, PlainDone, Killed, HpFree, OtherTakes,
           OtherReturns, GiveUp, pool, memory, choice
<1>2. CASE UNCHANGED vars
  BY <1>2 DEF vars, BeforeProbe, Probing
<1> QED
  BY <1>1, <1>2

\* A probed page: what ProbeFault does to the file and to the lists.
LEMMA ProbeFaultMoves ==
    ASSUME TypeOK, Counters, ProbeFault
    PROVE  /\ pc' \notin BeforeProbe
           /\ probed \in Index
           /\ UNCHANGED <<chosen, chosenCls, next>>
           /\ \E p \in Page :
                /\ PageClass[p] \in Class
                /\ file' = [file EXCEPT ![probed] = p]
                /\ \/ probed' = probed /\ byClass' = byClass
                   \/ /\ probed' = probed + 1
                      /\ byClass' = [byClass EXCEPT ![PageClass[p]] = Append(@, probed)]
<1>1. pc' \notin BeforeProbe
  BY DEF ProbeFault, EndProbe, BeforeProbe
<1>2. probed \in Index
  <2>1. probed < cap /\ cap \in 0 .. FileSize /\ probed \in 0 .. FileSize
    BY DEF ProbeFault, TypeOK, Counters
  <2> QED
    BY <2>1, FileSizeFacts DEF Index
<1>3. UNCHANGED <<chosen, chosenCls, next>>
  BY DEF ProbeFault, choice
<1>4. PICK p \in free :
        /\ file' = [file EXCEPT ![probed] = p]
        /\ \/ probed' = probed /\ byClass' = byClass
           \/ /\ probed' = probed + 1
              /\ byClass' = [byClass EXCEPT ![PageClass[p]] = Append(@, probed)]
  BY DEF ProbeFault
<1>5. p \in Page /\ PageClass[p] \in Class
  BY <1>4, ClassAssumption DEF TypeOK, Class
<1> QED
  BY <1>1, <1>2, <1>3, <1>4, <1>5

\* A pick: what ChoosePage does to the lists and to the choice.
LEMMA ChoosePageMoves ==
    ASSUME TypeOK, ChoosePage
    PROVE  /\ pc = "choose" /\ pc' = "choose"
           /\ UNCHANGED <<file, probed, byClass>>
           /\ \E c \in Class :
                /\ Pick(c)
                /\ next[c] + 1 \in 1 .. Len(byClass[c])
                /\ byClass[c][next[c] + 1] \in Index
                /\ next' = [next EXCEPT ![c] = @ + 1]
                /\ chosen' = Append(chosen, byClass[c][next[c] + 1])
                /\ chosenCls' = Append(chosenCls, c)
<1>1. pc = "choose" /\ pc' = "choose" /\ UNCHANGED <<file, probed, byClass>>
  BY DEF ChoosePage, memory
<1>2. PICK c \in Class :
        /\ Pick(c)
        /\ next' = [next EXCEPT ![c] = @ + 1]
        /\ chosen' = Append(chosen, byClass[c][next[c] + 1])
        /\ chosenCls' = Append(chosenCls, c)
  BY DEF ChoosePage, Advance
<1>3. byClass[c] \in Seq(Index) /\ next[c] \in Nat
  BY DEF TypeOK
<1>4. Left(c) > 0
  BY <1>2 DEF Pick, Richest
<1>5. Len(byClass[c]) \in Nat
  BY <1>3
<1>6. next[c] + 1 \in 1 .. Len(byClass[c])
  BY <1>3, <1>4, <1>5 DEF Left
<1>7. byClass[c][next[c] + 1] \in Index
  BY <1>3, <1>6
<1> QED
  BY <1>1, <1>2, <1>6, <1>7

\* A list grows by an index larger than all it holds, and is taken in order.
LEMMA ListsStep ==
    ASSUME TypeOK, Counters, Lists, [Next]_vars
    PROVE  Lists'
<1>1. CASE ProbeFault
  <2>1. PICK p \in Page :
          /\ PageClass[p] \in Class
          /\ \/ probed' = probed /\ byClass' = byClass
             \/ /\ probed' = probed + 1
                /\ byClass' = [byClass EXCEPT ![PageClass[p]] = Append(@, probed)]
    BY <1>1, ProbeFaultMoves
  <2>2. pc' \notin BeforeProbe /\ probed \in Index /\ next' = next
    BY <1>1, ProbeFaultMoves
  <2>3. CASE byClass' = byClass /\ probed' = probed
    BY <2>2, <2>3 DEF Lists
  <2>4. CASE /\ probed' = probed + 1
             /\ byClass' = [byClass EXCEPT ![PageClass[p]] = Append(@, probed)]
    <3> DEFINE d == PageClass[p]
    <3>1. byClass \in [Class -> Seq(Index)] /\ next \in [Class -> Nat] /\ probed \in Nat
      BY <2>2, FileSizeFacts DEF TypeOK, Index
    <3>2. \A c \in Class : byClass'[c] = IF c = d THEN Append(byClass[c], probed) ELSE byClass[c]
      BY <2>4, <3>1
    <3>3. SUFFICES ASSUME NEW c \in Class
                   PROVE  /\ next'[c] <= Len(byClass'[c])
                          /\ \A k \in 1 .. Len(byClass'[c]) : byClass'[c][k] < probed'
                          /\ \A j, k \in 1 .. Len(byClass'[c]) :
                                byClass'[c][j] = byClass'[c][k] => j = k
      BY <2>2 DEF Lists
    <3>4. /\ byClass[c] \in Seq(Index) /\ next[c] \in Nat /\ next[c] <= Len(byClass[c])
          /\ \A k \in 1 .. Len(byClass[c]) : byClass[c][k] < probed
          /\ \A j, k \in 1 .. Len(byClass[c]) : byClass[c][j] = byClass[c][k] => j = k
      BY <3>1 DEF Lists
    <3>5. \A k \in 1 .. Len(byClass[c]) : byClass[c][k] \in Int
      BY <3>4, FileSizeFacts DEF Index
    <3>6. CASE c # d
      BY <2>2, <2>4, <3>1, <3>2, <3>4, <3>5, <3>6
    <3>7. CASE c = d
      <4>0. byClass'[c] = Append(byClass[c], probed)
        BY <3>2, <3>7
      <4>1. /\ byClass'[c] = Append(byClass[c], probed)
            /\ Len(byClass'[c]) = Len(byClass[c]) + 1
            /\ Len(byClass[c]) \in Nat
        BY <2>2, <3>4, <4>0
      <4>2. \A k \in 1 .. Len(byClass'[c]) :
              byClass'[c][k] = IF k = Len(byClass[c]) + 1 THEN probed ELSE byClass[c][k]
        BY <2>2, <3>4, <4>1
      <4> QED
        BY <2>2, <2>4, <3>1, <3>4, <3>5, <4>1, <4>2
    <3> QED
      BY <3>6, <3>7
  <2> QED
    BY <2>1, <2>3, <2>4
<1>2. CASE ChoosePage
  <2>1. pc' \notin BeforeProbe /\ UNCHANGED <<probed, byClass>>
    BY <1>2, ChoosePageMoves DEF BeforeProbe
  <2>2. PICK c \in Class : /\ next[c] + 1 \in 1 .. Len(byClass[c])
                           /\ next' = [next EXCEPT ![c] = @ + 1]
    BY <1>2, ChoosePageMoves
  <2>3. \A d \in Class : next'[d] = IF d = c THEN next[d] + 1 ELSE next[d]
    BY <2>2 DEF TypeOK
  <2>4. next[c] + 1 <= Len(byClass[c])
    <3>1. Len(byClass[c]) \in Nat
      BY DEF TypeOK
    <3> QED
      BY <2>2, <3>1
  <2> QED
    BY <2>1, <2>3, <2>4 DEF Lists
<1> QED
  BY <1>1, <1>2, ListsFrame DEF Lists

\* A page is filed under its own class and stays in the file while pages are picked.
LEMMA FiledStep ==
    ASSUME TypeOK, Counters, Lists, Filed, [Next]_vars
    PROVE  Filed'
<1>1. CASE ProbeFault
  <2>1. PICK p \in Page :
          /\ PageClass[p] \in Class
          /\ file' = [file EXCEPT ![probed] = p]
          /\ \/ byClass' = byClass
             \/ byClass' = [byClass EXCEPT ![PageClass[p]] = Append(@, probed)]
    BY <1>1, ProbeFaultMoves
  <2>2. /\ probed \in Index /\ pc \in Probing
        /\ file \in [Index -> Page \cup {NoPage}] /\ byClass \in [Class -> Seq(Index)]
        /\ p # NoPage
    BY <1>1, ProbeFaultMoves, PageAssumption DEF ProbeFault, Probing, TypeOK
  <2>3. SUFFICES ASSUME NEW c \in Class, NEW k \in 1 .. Len(byClass'[c])
                 PROVE  /\ file'[byClass'[c][k]] # NoPage
                        /\ PageClass[file'[byClass'[c][k]]] = c
    BY DEF Filed
  <2>4. byClass[c] \in Seq(Index) /\ Len(byClass[c]) \in Nat
    BY <2>2
  <2>5. CASE k \in 1 .. Len(byClass[c]) /\ byClass'[c][k] = byClass[c][k]
    <3>1. byClass[c][k] \in Index /\ byClass[c][k] < probed
      BY <2>4, <2>5 DEF Lists
    <3>2. byClass[c][k] # probed
      BY <2>2, <3>1, FileSizeFacts DEF Index
    <3>3. file'[byClass[c][k]] = file[byClass[c][k]]
      BY <2>1, <2>2, <3>1, <3>2
    <3> QED
      BY <2>2, <2>5, <3>3 DEF Filed
  <2>6. CASE byClass'[c][k] = probed /\ c = PageClass[p]
    BY <2>1, <2>2, <2>6
  <2>7. \/ k \in 1 .. Len(byClass[c]) /\ byClass'[c][k] = byClass[c][k]
        \/ byClass'[c][k] = probed /\ c = PageClass[p]
    <3>1. CASE byClass'[c] = byClass[c]
      BY <3>1
    <3>2. CASE byClass'[c] = Append(byClass[c], probed) /\ c = PageClass[p]
      <4>1. Len(byClass'[c]) = Len(byClass[c]) + 1
        BY <2>2, <2>4, <3>2
      <4>2. byClass'[c][k] = IF k = Len(byClass[c]) + 1 THEN probed ELSE byClass[c][k]
        BY <2>2, <2>4, <3>2, <4>1
      <4> QED
        BY <2>4, <3>2, <4>1, <4>2
    <3> QED
      BY <2>1, <2>2, <3>1, <3>2
  <2> QED
    BY <2>5, <2>6, <2>7
<1>2. CASE ChoosePage
  BY <1>2, ChoosePageMoves DEF Filed
<1>3. CASE ~ProbeFault /\ ~ChoosePage
  <2>1. CASE pc \in BeforeProbe
    <3>1. \A c \in Class : byClass'[c] = <<>>
      BY <1>3, <2>1, ListsFrame DEF Lists
    <3>2. \A c \in Class : 1 .. Len(byClass'[c]) = {}
      BY <3>1
    <3> QED
      BY <3>2 DEF Filed
  <2>2. CASE pc \notin BeforeProbe
    BY <1>3, <2>2, ListsFrame DEF Filed, BeforeProbe
  <2> QED
    BY <2>1, <2>2
<1> QED
  BY <1>1, <1>2, <1>3

\* Once the region is being mapped nothing but a punch touches its pages, and
\* nothing makes it balanced again.
LEMMA SharedFrame ==
    ASSUME Counters, [Next]_vars, SharedRegion', ~ReserveVa
    PROVE  /\ SharedRegion
           /\ UNCHANGED <<chosen, chosenCls>>
           /\ balanced' => balanced
           /\ UNCHANGED file \/ PunchPage
<1>1. pc' \in {"map", "punch", "verify", "ready"}
  BY DEF SharedRegion
<1>2. \/ MapSlot \/ PunchPage \/ PunchDone \/ VerifySlot \/ PlainDone
      \/ OtherTakes \/ OtherReturns \/ UNCHANGED vars
  <2>1. CASE Next
    BY <1>1, <2>1
       DEF Next, Process, Balanced, Plain, Start, MemfdCreate, MemfdCreateFails, Truncate,
           TruncateFails, ProbeMap, ProbeStops, ProbeFault, EndProbe, ChoosePage, ChooseFails,
           ReserveVaFails, MapSlotFails, PlainMmap, PlainMmapFails, PlainFault, Killed,
           HpFree, GiveUp
  <2> QED
    BY <2>1
<1> USE DEF SharedRegion, memory, choice
<1>3. CASE MapSlot
  BY <1>3 DEF MapSlot
<1>4. CASE PunchPage
  BY <1>4 DEF PunchPage
<1>5. CASE PunchDone
  BY <1>5 DEF PunchDone
<1>6. CASE VerifySlot
  BY <1>6 DEF VerifySlot
<1>7. CASE PlainDone
  BY <1>7 DEF PlainDone, Counters
<1>8. CASE OtherTakes \/ OtherReturns \/ UNCHANGED vars
  BY <1>8 DEF OtherTakes, OtherReturns, vars
<1> QED
  BY <1>2, <1>3, <1>4, <1>5, <1>6, <1>7, <1>8

\* The choice loop starts with nothing picked and only picks.
LEMMA ChooseFrame ==
    ASSUME Choice, [Next]_vars, pc' = "choose", ~ChoosePage
    PROVE  \/ chosen' = <<>> /\ chosenCls' = <<>> /\ balanced' /\ \A c \in Class : next'[c] = 0
           \/ pc = "choose" /\ UNCHANGED <<byClass, chosen, chosenCls, next, balanced>>
<1>1. CASE Next
  BY <1>1 DEF Choice, Probing, Next, Process, Balanced, Plain, Start, MemfdCreate, MemfdCreateFails, Truncate,
           TruncateFails, ProbeMap, ProbeStops, ProbeFault, EndProbe, ChooseFails,
           ReserveVa, ReserveVaFails, MapSlot, MapSlotFails, PunchPage, PunchDone, VerifySlot,
           PlainMmap, PlainMmapFails, PlainFault, PlainDone, Killed, HpFree, OtherTakes,
           OtherReturns, GiveUp, pool, memory, choice
<1>2. CASE UNCHANGED vars
  BY <1>2 DEF vars
<1> QED
  BY <1>1, <1>2

\* A pick is an index no slot has: it lies behind the prefix taken so far of its
\* class's list, and other lists hold pages of other classes.
LEMMA PickIsNew ==
    ASSUME TypeOK, Lists, Choice, Filed, Picked, pc = "choose",
           NEW c \in Class, next[c] + 1 \in 1 .. Len(byClass[c]),
           NEW k \in 1 .. Len(chosen)
    PROVE  chosen[k] # byClass[c][next[c] + 1]
<1> DEFINE d == chosenCls[k]
<1>1. d \in Class
  <2>1. Len(chosen) = Len(chosenCls) /\ chosenCls \in Seq(Class)
    BY DEF Choice, TypeOK
  <2> QED
    BY <2>1
<1>2. PICK m \in 1 .. next[d] : chosen[k] = byClass[d][m]
  BY DEF Picked
<1>3. next[d] \in Nat /\ Len(byClass[d]) \in Nat /\ next[d] <= Len(byClass[d])
  BY <1>1 DEF TypeOK, Lists
<1>4. m \in 1 .. Len(byClass[d]) /\ m # next[d] + 1
  BY <1>2, <1>3
<1>5. PageClass[file[byClass[d][m]]] = d /\ PageClass[file[byClass[c][next[c] + 1]]] = c
  BY <1>1, <1>4 DEF Filed
<1>6. CASE c = d
  BY <1>1, <1>2, <1>4, <1>6 DEF Lists
<1>7. CASE c # d
  BY <1>2, <1>5, <1>7
<1> QED
  BY <1>6, <1>7

\* Picks stay distinct, and a mapped slot keeps the page it was picked for.
LEMMA PickedStep ==
    ASSUME TypeOK, Counters, Lists, Choice, Filed, Picked, [Next]_vars
    PROVE  Picked'
<1>1. CASE ChoosePage
  <2>1. PICK c \in Class :
          /\ next[c] + 1 \in 1 .. Len(byClass[c])
          /\ byClass[c][next[c] + 1] \in Index
          /\ next' = [next EXCEPT ![c] = @ + 1]
          /\ chosen' = Append(chosen, byClass[c][next[c] + 1])
          /\ chosenCls' = Append(chosenCls, c)
    BY <1>1, ChoosePageMoves
  <2>2. /\ pc = "choose" /\ pc' = "choose" /\ byClass' = byClass /\ ~SharedRegion'
        /\ chosen \in Seq(Index) /\ chosenCls \in Seq(Class) /\ Len(chosenCls) = Len(chosen)
        /\ next \in [Class -> Nat]
    BY <1>1, ChoosePageMoves DEF TypeOK, Choice, SharedRegion
  <2> DEFINE new == byClass[c][next[c] + 1]
             n == Len(chosen)
  <2>3. /\ n \in Nat /\ Len(chosen') = n + 1
        /\ \A k \in 1 .. n + 1 : chosen'[k] = IF k = n + 1 THEN new ELSE chosen[k]
    BY <2>1, <2>2
  <2>4. \A k \in 1 .. n + 1 : chosenCls'[k] = IF k = n + 1 THEN c ELSE chosenCls[k]
    BY <2>1, <2>2
  <2>5. \A k \in 1 .. n : chosen[k] # new
    BY <2>1, <2>2, PickIsNew
  <2>6. \A j, k \in 1 .. Len(chosen') : chosen'[j] = chosen'[k] => j = k
    <3>1. \A j, k \in 1 .. n : chosen[j] = chosen[k] => j = k
      BY DEF Picked
    <3> HIDE DEF new
    <3> QED
      BY <2>3, <2>5, <3>1
  <2>7. ASSUME NEW k \in 1 .. Len(chosen')
        PROVE  \E m \in 1 .. next'[chosenCls'[k]] : chosen'[k] = byClass[chosenCls'[k]][m]
    <3>1. \A d \in Class : next'[d] = IF d = c THEN next[d] + 1 ELSE next[d]
      BY <2>1, <2>2
    <3>2. CASE k = n + 1
      <4>1. next'[c] = next[c] + 1 /\ next[c] + 1 \in 1 .. next'[c]
        BY <2>2, <3>1
      <4> QED
        BY <2>3, <2>4, <3>2, <4>1
    <3>3. CASE k \in 1 .. n
      <4>1. chosenCls[k] \in Class /\ chosenCls'[k] = chosenCls[k] /\ chosen'[k] = chosen[k]
        BY <2>2, <2>3, <2>4, <3>3
      <4>2. PICK m \in 1 .. next[chosenCls[k]] : chosen[k] = byClass[chosenCls[k]][m]
        BY <2>2, <3>3 DEF Picked
      <4>3. m \in 1 .. next'[chosenCls[k]]
        BY <2>2, <3>1, <4>1
      <4> QED
        BY <4>1, <4>2, <4>3
    <3> QED
      BY <2>3, <3>2, <3>3
  <2> QED
    BY <2>2, <2>6, <2>7 DEF Picked
<1>2. ~ChoosePage => chosen' = chosen
  BY ListsFrame, ProbeFaultMoves
<1>3. CASE ~ChoosePage /\ pc' = "choose"
  <2>1. CASE chosen' = <<>>
    <3>1. 1 .. Len(chosen') = {}
      BY <2>1
    <3>2. ~SharedRegion'
      BY <1>3 DEF SharedRegion
    <3> QED
      BY <3>1, <3>2 DEF Picked
  <2>2. CASE pc = "choose" /\ UNCHANGED <<byClass, chosen, chosenCls, next>>
    BY <1>3, <2>2 DEF Picked, SharedRegion
  <2> QED
    BY <1>3, <2>1, <2>2, ChooseFrame
<1>4. CASE ReserveVa
  <2>1. /\ pc = "choose" /\ pc' = "map"
        /\ UNCHANGED <<file, byClass, chosen, chosenCls, next>>
    BY <1>4 DEF ReserveVa, memory, choice
  <2>2. ASSUME NEW k \in 1 .. Len(chosen)
        PROVE  file[chosen[k]] # NoPage /\ PageClass[file[chosen[k]]] = chosenCls[k]
    <3>1. chosenCls[k] \in Class
      <4>1. Len(chosen) = Len(chosenCls) /\ chosenCls \in Seq(Class)
        BY DEF Choice, TypeOK
      <4> QED
        BY <4>1
    <3>2. PICK m \in 1 .. next[chosenCls[k]] : chosen[k] = byClass[chosenCls[k]][m]
      BY <2>1 DEF Picked
    <3>3. m \in 1 .. Len(byClass[chosenCls[k]])
      <4>1. /\ next[chosenCls[k]] \in Nat /\ Len(byClass[chosenCls[k]]) \in Nat
            /\ next[chosenCls[k]] <= Len(byClass[chosenCls[k]])
        BY <3>1 DEF TypeOK, Lists
      <4> QED
        BY <4>1
    <3> QED
      BY <2>1, <3>1, <3>2, <3>3 DEF Filed
  <2> QED
    BY <2>1, <2>2 DEF Picked
<1>5. CASE SharedRegion' /\ ~ReserveVa
  <2>1. SharedRegion /\ UNCHANGED <<chosen, chosenCls>> /\ (UNCHANGED file \/ PunchPage)
    BY <1>5, SharedFrame
  <2>2. CASE file' = file
    BY <1>5, <2>1, <2>2 DEF Picked, SharedRegion
  <2>3. CASE PunchPage
    <3>1. ASSUME NEW k \in 1 .. Len(chosen)
          PROVE  file'[chosen[k]] = file[chosen[k]]
      <4>1. chosen \in Seq(Index) /\ file \in [Index -> Page \cup {NoPage}]
        BY DEF TypeOK
      <4>2. chosen[k] \in Index /\ k \in DOMAIN chosen
        BY <4>1
      <4>3. \/ file' = file
            \/ ~Used(i) /\ file' = [file EXCEPT ![i] = NoPage]
        BY <2>3 DEF PunchPage
      <4>4. ~Used(i) => chosen[k] # i
        BY <4>2 DEF Used
      <4> QED
        BY <4>1, <4>2, <4>3, <4>4
    <3> QED
      BY <1>5, <2>1, <3>1 DEF Picked, SharedRegion
  <2> QED
    BY <2>1, <2>2, <2>3
<1>6. CASE ~ChoosePage /\ pc' # "choose" /\ ~SharedRegion'
  BY <1>2, <1>6 DEF Picked
<1> QED
  BY <1>1, <1>3, <1>4, <1>5, <1>6 DEF SharedRegion

\* While balance holds, the pick for slot i was of class i % K.
LEMMA RoundRobinStep ==
    ASSUME TypeOK, Counters, Choice, RoundRobin, [Next]_vars
    PROVE  RoundRobin'
<1>1. CASE ChoosePage
  <2>1. PICK c \in Class : Pick(c) /\ chosen' = Append(chosen, byClass[c][next[c] + 1])
                                   /\ byClass[c][next[c] + 1] \in Index
                                   /\ chosenCls' = Append(chosenCls, c)
    BY <1>1, ChoosePageMoves
  <2>2. /\ pc = "choose" /\ Len(chosen) = i /\ Len(chosenCls) = i /\ i \in Nat
        /\ chosen \in Seq(Index) /\ chosenCls \in Seq(Class)
    BY <1>1, ChoosePageMoves, FileSizeFacts DEF Choice, TypeOK
  <2>3. balanced' => balanced /\ c = i % K
    BY <2>1 DEF Pick
  <2>4. Len(chosen') = i + 1
    BY <2>1, <2>2
  <2>5. \A k \in 1 .. i + 1 : chosenCls'[k] = IF k = i + 1 THEN c ELSE chosenCls[k]
    BY <2>1, <2>2
  <2>6. balanced => \A k \in 1 .. i : chosenCls[k] = (k - 1) % K
    BY <2>2 DEF RoundRobin
  <2>7. ASSUME balanced', NEW k \in 1 .. i + 1
        PROVE  chosenCls'[k] = (k - 1) % K
    <3>1. CASE k = i + 1
      <4>1. k - 1 = i
        BY <2>2, <3>1
      <4> QED
        BY <2>3, <2>5, <2>7, <3>1, <4>1
    <3>2. CASE k \in 1 .. i
      BY <2>2, <2>3, <2>5, <2>6, <2>7, <3>2
    <3> QED
      BY <2>2, <3>1, <3>2
  <2> QED
    BY <2>4, <2>7 DEF RoundRobin
<1>2. CASE ~ChoosePage /\ pc' = "choose"
  <2>1. CASE chosen' = <<>>
    <3>1. 1 .. Len(chosen') = {}
      BY <2>1
    <3> QED
      BY <3>1 DEF RoundRobin
  <2>2. CASE pc = "choose" /\ UNCHANGED <<chosen, chosenCls, balanced>>
    BY <2>2 DEF RoundRobin
  <2> QED
    BY <1>2, <2>1, <2>2, ChooseFrame
<1>3. CASE ReserveVa
  BY <1>3 DEF ReserveVa, RoundRobin, choice
<1>4. CASE SharedRegion' /\ ~ReserveVa
  BY <1>4, SharedFrame DEF RoundRobin
<1>5. CASE pc' # "choose" /\ ~SharedRegion'
  BY <1>5 DEF RoundRobin
<1> QED
  BY <1>1, <1>2, <1>3, <1>4, <1>5

------------------------------------------------------------------------------
(* How many slots each class gets.                                         *)

LEMMA DivMod ==
    ASSUME NEW n \in Nat, NEW m \in Nat \ {0}
    PROVE  /\ n \div m \in Nat /\ n % m \in 0 .. m - 1
           /\ n = (n \div m) * m + (n % m)
OBVIOUS

LEMMA TimesLess ==
    ASSUME NEW p \in Nat, NEW q \in Nat, NEW m \in Nat \ {0}, p < q
    PROVE  p * m + m <= q * m
<1>1. (q - p) >= 1
  OBVIOUS
<1>2. (q - p) * m >= m
  BY <1>1
<1>3. (q - p) * m = q * m - p * m
  OBVIOUS
<1> QED
  BY <1>2, <1>3

\* A quotient and a remainder stand for one number.
LEMMA DivUnique ==
    ASSUME NEW q \in Nat, NEW m \in Nat \ {0}, NEW r \in 0 .. m - 1
    PROVE  (q * m + r) \in Nat /\ (q * m + r) % m = r
OBVIOUS

\* hp_quota counts the slots s with s % K = c.
LEMMA ResidueCount ==
    ASSUME NEW c \in Class
    PROVE  Cardinality({s \in Slot : s % K = c}) = Quota(c)
<1> DEFINE d == NPages \div K
<1> DEFINE e == NPages % K
<1> DEFINE S == {s \in Slot : s % K = c}
<1> DEFINE f == [m \in 1 .. Quota(c) |-> (m - 1) * K + c]
<1>1. /\ d \in Nat /\ e \in 0 .. K - 1 /\ NPages = d * K + e
      /\ K \in Nat \ {0} /\ NPages \in Nat \ {0} /\ c \in 0 .. K - 1
  BY DivMod, ClassAssumption, SizeAssumption DEF Class
<1>2. Quota(c) = d + (IF c < e THEN 1 ELSE 0)
  BY DEF Quota
<1> HIDE DEF d, e
<1>3. Quota(c) \in Nat
  BY <1>1, <1>2
<1>4. ASSUME NEW q \in Nat
      PROVE  q < Quota(c) <=> q * K + c < NPages
  <2>1. CASE q < d
    <3>1. q * K + K <= d * K
      BY <1>1, <2>1, TimesLess
    <3>2. q * K \in Nat /\ d * K \in Nat
      BY <1>1
    <3> HIDE DEF Quota
    <3>3. q * K + c < NPages
      BY <1>1, <3>1, <3>2
    <3>4. q < Quota(c)
      BY <1>1, <1>2, <2>1
    <3> QED
      BY <3>3, <3>4
  <2>2. CASE q = d
    <3>1. q * K = d * K /\ d * K \in Nat
      BY <1>1, <2>2
    <3>2. q * K + c < NPages <=> c < e
      BY <1>1, <3>1
    <3>3. q < Quota(c) <=> c < e
      BY <1>1, <1>2, <2>2
    <3> QED
      BY <3>2, <3>3
  <2>3. CASE q > d
    <3>1. d * K + K <= q * K
      BY <1>1, <2>3, TimesLess
    <3>2. q * K \in Nat /\ d * K \in Nat
      BY <1>1
    <3>3. ~ (q * K + c < NPages)
      BY <1>1, <3>1, <3>2
    <3>4. ~ (q < Quota(c))
      BY <1>1, <1>2, <2>3
    <3> QED
      BY <3>3, <3>4
  <2> QED
    BY <1>1, <2>1, <2>2, <2>3
<1> HIDE DEF Quota
<1>5. ASSUME NEW m \in 1 .. Quota(c)
      PROVE  f[m] \in S
  <2>1. m - 1 \in Nat /\ m - 1 < Quota(c)
    BY <1>3
  <2>2. (m - 1) * K + c < NPages
    BY <1>4, <2>1
  <2>3. (m - 1) * K + c \in Nat /\ ((m - 1) * K + c) % K = c
    BY <1>1, <2>1, DivUnique
  <2> DEFINE t == (m - 1) * K + c
  <2>4. f[m] = t
    OBVIOUS
  <2> HIDE DEF t, f
  <2>5. t \in Nat /\ t < NPages /\ t % K = c
    BY <2>2, <2>3 DEF t
  <2> QED
    BY <1>1, <2>4, <2>5 DEF S, Slot
<1>6. ASSUME NEW l \in 1 .. Quota(c), NEW m \in 1 .. Quota(c), f[l] = f[m]
      PROVE  l = m
  <2>1. (l - 1) * K + c = (m - 1) * K + c
    BY <1>6
  <2>2. l - 1 \in Nat /\ m - 1 \in Nat
    BY <1>3
  <2>3. ~ (l - 1 < m - 1) /\ ~ (m - 1 < l - 1)
    <3>1. (l - 1) * K \in Nat /\ (m - 1) * K \in Nat
      BY <1>1, <2>2
    <3>2. l - 1 < m - 1 => (l - 1) * K + K <= (m - 1) * K
      BY <1>1, <2>2, TimesLess
    <3>3. m - 1 < l - 1 => (m - 1) * K + K <= (l - 1) * K
      BY <1>1, <2>2, TimesLess
    <3> QED
      BY <1>1, <2>1, <3>1, <3>2, <3>3
  <2> QED
    BY <1>3, <2>2, <2>3
<1>7. ASSUME NEW t \in S
      PROVE  \E m \in 1 .. Quota(c) : f[m] = t
  <2>1. t \in Nat /\ t < NPages /\ t % K = c
    BY <1>1 DEF Slot
  <2> DEFINE q == t \div K
  <2>2. q \in Nat /\ t = q * K + (t % K)
    BY <1>1, <2>1, DivMod
  <2> HIDE DEF q
  <2>3. q < Quota(c)
    BY <1>4, <2>1, <2>2
  <2>4. q + 1 \in 1 .. Quota(c) /\ (q + 1) - 1 = q
    BY <1>3, <2>2, <2>3
  <2>5. f[q + 1] = q * K + c
    BY <2>4
  <2> QED
    BY <2>1, <2>2, <2>4, <2>5
<1> HIDE DEF f, S
<1>8. f \in Bijection(1 .. Quota(c), S)
  <2>1. f \in [1 .. Quota(c) -> S]
    BY <1>5 DEF f
  <2> QED
    BY <1>6, <1>7, <2>1 DEF Bijection, Injection, Surjection, IsInjective
<1>9. ExistsBijection(1 .. Quota(c), S)
  BY <1>8 DEF ExistsBijection
<1> QED
  BY <1>3, <1>9, FS_CountingElements DEF S

\* What was picked in turn so far of a class whose turn it is is below its quota.
LEMMA TurnsBelow ==
    ASSUME NEW n \in 0 .. NPages - 1, NEW c \in Class, n % K = c
    PROVE  Cardinality({s \in 0 .. n - 1 : s % K = c}) < Quota(c)
<1> DEFINE S == {s \in 0 .. n - 1 : s % K = c}
<1> DEFINE T == {s \in Slot : s % K = c}
<1>1. n \in T /\ S \subseteq T \ {n}
  BY SizeAssumption DEF Slot
<1>2. IsFiniteSet(T)
  <2>1. IsFiniteSet(0 .. NPages - 1)
    BY SizeAssumption, FS_Interval
  <2> QED
    BY <2>1, FS_Subset DEF Slot
<1> HIDE DEF S, T
<1>3. /\ IsFiniteSet(T \ {n}) /\ Cardinality(T \ {n}) = Cardinality(T) - 1
  BY <1>1, <1>2, FS_RemoveElement
<1>4. Cardinality(S) <= Cardinality(T \ {n}) /\ IsFiniteSet(S)
  BY <1>1, <1>3, FS_Subset
<1>5. Cardinality(S) \in Nat /\ Cardinality(T) \in Nat
  BY <1>2, <1>4, FS_CardinalityType
<1>6. Cardinality(T) = Quota(c)
  BY ResidueCount DEF T
<1> QED
  BY <1>3, <1>4, <1>5, <1>6 DEF S

\* Picks are counted from 1, slots from 0.
LEMMA PicksInTurn ==
    ASSUME NEW n \in Nat, \A k \in 1 .. n : chosenCls[k] = (k - 1) % K, NEW c
    PROVE  Cardinality({k \in 1 .. n : chosenCls[k] = c}) = Cardinality({s \in 0 .. n - 1 : s % K = c})
<1> DEFINE S == {s \in 0 .. n - 1 : s % K = c}
<1> DEFINE T == {k \in 1 .. n : chosenCls[k] = c}
<1> DEFINE f == [s \in S |-> s + 1]
<1>1. \A k \in 1 .. n : k - 1 \in 0 .. n - 1 /\ (k - 1) + 1 = k
  OBVIOUS
<1>2. \A s \in 0 .. n - 1 : s + 1 \in 1 .. n /\ (s + 1) - 1 = s
  OBVIOUS
<1>3. \A s \in S : s + 1 \in T
  BY <1>2
<1>4. \A k \in T : k - 1 \in S /\ f[k - 1] = k
  BY <1>1
<1>5. \A s, t \in S : f[s] = f[t] => s = t
  OBVIOUS
<1>6. f \in [S -> T]
  BY <1>3
<1>7. IsFiniteSet(S)
  <2>1. IsFiniteSet(0 .. n - 1)
    BY FS_Interval
  <2> QED
    BY <2>1, FS_Subset
<1> HIDE DEF S, T, f
<1>8. f \in Bijection(S, T)
  BY <1>4, <1>5, <1>6 DEF Bijection, Injection, Surjection, IsInjective
<1>9. ExistsBijection(S, T)
  BY <1>8 DEF ExistsBijection
<1> QED
  BY <1>7, <1>9, FS_Bijection DEF S, T

\* Mapping changes nothing of the choice.
LEMMA MapFrame ==
    ASSUME [Next]_vars, pc' = "map", ~ReserveVa
    PROVE  pc = "map" /\ UNCHANGED <<byClass, chosen, chosenCls, next, balanced>>
<1>1. CASE Next
  BY <1>1 DEF Next, Process, Balanced, Plain, Start, MemfdCreate, MemfdCreateFails, Truncate,
           TruncateFails, ProbeMap, ProbeStops, ProbeFault, EndProbe, ChoosePage, ChooseFails,
           ReserveVaFails, MapSlot, MapSlotFails, PunchPage, PunchDone, VerifySlot,
           PlainMmap, PlainMmapFails, PlainFault, PlainDone, Killed, HpFree, OtherTakes,
           OtherReturns, GiveUp, choice
<1>2. CASE UNCHANGED vars
  BY <1>2 DEF vars
<1> QED
  BY <1>1, <1>2

\* Balance is lost only to a class that is used up before its quota, and stays used up.
LEMMA SharesStep ==
    ASSUME TypeOK, Counters, Lists, Choice, RoundRobin, Shares, [Next]_vars
    PROVE  Shares'
<1>1. CASE ChoosePage
  <2>1. PICK c \in Class : /\ Pick(c)
                           /\ next[c] + 1 \in 1 .. Len(byClass[c])
                           /\ byClass[c][next[c] + 1] \in Index
                           /\ next' = [next EXCEPT ![c] = @ + 1]
                           /\ chosen' = Append(chosen, byClass[c][next[c] + 1])
                           /\ chosenCls' = Append(chosenCls, c)
    BY <1>1, ChoosePageMoves
  <2>2. /\ pc = "choose" /\ Len(chosen) = i /\ Len(chosenCls) = i /\ i \in Nat
        /\ chosen \in Seq(Index) /\ chosenCls \in Seq(Class) /\ byClass' = byClass
    BY <1>1, ChoosePageMoves, FileSizeFacts DEF Choice, TypeOK
  <2>3. i \in 0 .. NPages - 1 /\ i % K \in Class
    <3>1. i < NPages
      BY <1>1 DEF ChoosePage, SlotsLeft
    <3>2. i % K \in 0 .. K - 1
      BY <2>2, ClassAssumption, DivMod
    <3> QED
      BY <2>2, <3>1, <3>2, SizeAssumption DEF Class
  <2>4. Len(chosen') = i + 1
    BY <2>1, <2>2
  <2>5. \A k \in 1 .. i + 1 : chosenCls'[k] = IF k = i + 1 THEN c ELSE chosenCls[k]
    BY <2>1, <2>2
  <2>6. \A d \in Class : /\ next[d] \in Nat /\ Len(byClass[d]) \in Nat
                          /\ next[d] <= Len(byClass[d])
                          /\ next'[d] = IF d = c THEN next[d] + 1 ELSE next[d]
    BY <2>1 DEF TypeOK, Lists
  <2>7. ASSUME NEW d \in Class
        PROVE  next'[d] = Cardinality({k \in 1 .. Len(chosen') : chosenCls'[k] = d})
    <3> DEFINE S == {k \in 1 .. i : chosenCls[k] = d}
    <3> DEFINE T == {k \in 1 .. i + 1 : chosenCls'[k] = d}
    <3>1. next[d] = Cardinality(S)
      BY <2>2 DEF Shares
    <3>2. IsFiniteSet(S)
      <4>1. IsFiniteSet(1 .. i)
        BY <2>2, FS_Interval
      <4> QED
        BY <4>1, FS_Subset
    <3>3. i + 1 \notin S
      BY <2>2
    <3>4. 1 .. i + 1 = (1 .. i) \cup {i + 1} /\ i + 1 \notin 1 .. i
      BY <2>2
    <3>5. CASE d = c
      <4>1. T = S \cup {i + 1}
        BY <2>5, <3>4, <3>5
      <4> HIDE DEF S, T
      <4>2. Cardinality(T) = Cardinality(S) + 1
        BY <3>2, <3>3, <4>1, FS_AddElement
      <4> QED
        BY <2>4, <2>6, <3>1, <3>5, <4>2 DEF T
    <3>6. CASE d # c
      <4>1. T = S
        BY <2>5, <3>4, <3>6
      <4> QED
        BY <2>4, <2>6, <3>1, <3>6, <4>1
    <3> QED
      BY <3>5, <3>6
  <2>8. ASSUME ~balanced'
        PROVE  \E e \in Class : next'[e] = Len(byClass'[e]) /\ next'[e] < Quota(e)
    <3>1. Left(c) > 0
      BY <2>1 DEF Pick, Richest
    <3>2. \A e \in Class : next[e] = Len(byClass[e]) => e # c
      BY <2>6, <3>1 DEF Left
    <3>3. CASE ~balanced
      <4>1. PICK e \in Class : next[e] = Len(byClass[e]) /\ next[e] < Quota(e)
        BY <2>2, <3>3 DEF Shares
      <4> QED
        BY <2>2, <2>6, <3>2, <4>1
    <3>4. CASE balanced
      <4> DEFINE e == i % K
      <4>1. ~ (Left(e) > 0)
        BY <2>1, <2>8, <3>4 DEF Pick
      <4>2. e \in Class
        BY <2>3
      <4> HIDE DEF e
      <4>3. next[e] = Len(byClass[e])
        BY <2>6, <4>1, <4>2 DEF Left
      <4>4. \A k \in 1 .. i : chosenCls[k] = (k - 1) % K
        BY <2>2, <3>4 DEF RoundRobin
      <4>5. next[e] = Cardinality({k \in 1 .. i : chosenCls[k] = e})
        BY <2>2, <4>2 DEF Shares
      <4>6. next[e] = Cardinality({s \in 0 .. i - 1 : s % K = e})
        <5>1. i \in Nat
          BY <2>2
        <5>2. Cardinality({k \in 1 .. i : chosenCls[k] = e})
                  = Cardinality({s \in 0 .. i - 1 : s % K = e})
          BY ONLY <4>4, <5>1, PicksInTurn
        <5> QED
          BY <4>5, <5>2
      <4>7. next[e] < Quota(e)
        BY <2>3, <4>2, <4>6, TurnsBelow DEF e
      <4> QED
        BY <2>2, <2>6, <3>2, <4>2, <4>3, <4>7
    <3> QED
      BY <3>3, <3>4
  <2> QED
    BY <2>7, <2>8 DEF Shares
<1>2. CASE ~ChoosePage /\ pc' = "choose"
  <2>1. CASE chosen' = <<>> /\ balanced' /\ \A c \in Class : next'[c] = 0
    <3>1. \A c : {k \in 1 .. Len(chosen') : chosenCls'[k] = c} = {}
      BY <2>1
    <3>2. \A c \in Class : next'[c] = Cardinality({k \in 1 .. Len(chosen') : chosenCls'[k] = c})
      BY <2>1, <3>1, FS_EmptySet
    <3> QED
      BY <2>1, <3>2 DEF Shares
  <2>2. CASE pc = "choose" /\ UNCHANGED <<byClass, chosen, chosenCls, next, balanced>>
    BY <2>2 DEF Shares
  <2> QED
    BY <1>2, <2>1, <2>2, ChooseFrame
<1>3. CASE ReserveVa
  BY <1>3 DEF ReserveVa, Shares, choice
<1>4. CASE pc' = "map" /\ ~ReserveVa
  BY <1>4, MapFrame DEF Shares
<1>5. CASE pc' \notin {"choose", "map"}
  BY <1>5 DEF Shares
<1> QED
  BY <1>1, <1>2, <1>3, <1>4, <1>5

------------------------------------------------------------------------------
(* What is behind an index or a slot before and after its fault.           *)

\* A page is faulted in at the first index, or the first slot, without one.
LEMMA UnfaultedStep ==
    ASSUME TypeOK, Counters, Ownership, Unfaulted, [Next]_vars
    PROVE  Unfaulted'
<1>1. CASE ProbeFault
  <2>1. PICK p : file' = [file EXCEPT ![probed] = p]
    BY <1>1 DEF ProbeFault
  <2>2. pc = "fault" /\ ((pc' = "probe" /\ probed' = probed + 1) \/ pc' = "choose")
    BY <1>1 DEF ProbeFault, EndProbe
  <2>3. probed \in Nat
    BY FileSizeFacts DEF TypeOK
  <2>4. ASSUME NEW n \in Index, n >= probed + 1
        PROVE  file'[n] = NoPage
    <3>1. n \in Int
      BY DEF Index
    <3>2. n >= probed /\ n # probed
      BY <2>3, <2>4, <3>1
    <3>3. file[n] = NoPage
      BY <2>2, <3>2 DEF Unfaulted, Probing
    <3> QED
      BY <2>1, <3>2, <3>3 DEF TypeOK
  <2> QED
    BY <2>2, <2>4 DEF Unfaulted, BeforeProbe, Probing
<1>2. CASE PlainMmap
  <2>1. pc' = "plain_fault" /\ anon' = EmptyAnon
    BY <1>2 DEF PlainMmap, Ownership, memory
  <2> QED
    BY <2>1 DEF Unfaulted, BeforeProbe, Probing, EmptyAnon
<1>3. CASE PlainFault
  <2>1. PICK p : anon' = [anon EXCEPT ![i] = p]
    BY <1>3 DEF PlainFault
  <2>2. pc = "plain_fault" /\ pc' = pc /\ i' = i + 1 /\ i \in Nat
    BY <1>3, FileSizeFacts DEF PlainFault, TypeOK
  <2>3. ASSUME NEW s \in Slot, s >= i + 1
        PROVE  anon'[s] = NoPage
    <3>1. s \in Int
      BY DEF Slot
    <3>2. s >= i /\ s # i
      BY <2>2, <2>3, <3>1
    <3>3. anon[s] = NoPage
      BY <2>2, <3>2 DEF Unfaulted
    <3> QED
      BY <2>1, <3>2, <3>3 DEF TypeOK
  <2> QED
    BY <2>2, <2>3 DEF Unfaulted, BeforeProbe, Probing
<1>4. CASE pc' \notin BeforeProbe \cup Probing \cup {"plain_fault"}
  BY <1>4 DEF Unfaulted
<1>5. CASE /\ UNCHANGED <<file, anon, probed>>
           /\ pc' \in BeforeProbe \cup Probing => pc \in BeforeProbe \cup Probing
           /\ pc' = "plain_fault" => pc = "plain_fault" /\ i' = i
  BY <1>5 DEF Unfaulted
<1> QED
  <2>1. CASE Next
    BY <2>1, <1>1, <1>2, <1>3, <1>4, <1>5
       DEF Next, Process, Balanced, Plain, Start, MemfdCreate, MemfdCreateFails, Truncate,
           TruncateFails, ProbeMap, ProbeStops, EndProbe, ChoosePage, ChooseFails,
           ReserveVa, ReserveVaFails, MapSlot, MapSlotFails, PunchPage, PunchDone, VerifySlot,
           PlainMmapFails, PlainDone, Killed, HpFree, OtherTakes, OtherReturns, GiveUp, pool,
           memory, BeforeProbe, Probing
  <2>2. CASE UNCHANGED vars
    BY <2>2, <1>5 DEF vars
  <2> QED
    BY <2>1, <2>2

\* The plain path reads the page of each slot, or nothing, and files its class.
LEMMA SeenStep ==
    ASSUME TypeOK, Seen, [Next]_vars
    PROVE  Seen'
<1>1. CASE PlainMmap
  BY <1>1 DEF PlainMmap, Seen, Slot
<1>2. CASE PlainFault
  <2>1. PICK p \in free : /\ anon' = [anon EXCEPT ![i] = p]
                         /\ \E q \in Translate(p) : /\ phys' = [phys EXCEPT ![i] = q]
                                                     /\ cls' = [cls EXCEPT ![i] = ClassOf(q)]
    BY <1>2 DEF PlainFault
  <2>2. PICK q \in {p, NoPage} : /\ phys' = [phys EXCEPT ![i] = q]
                                 /\ cls' = [cls EXCEPT ![i] = ClassOf(q)]
    BY <2>1 DEF Translate
  <2>3. pc = "plain_fault" /\ i' = i + 1 /\ i \in Nat
    BY <1>2, FileSizeFacts DEF PlainFault, TypeOK
  <2>4. ASSUME NEW s \in Slot, s < i + 1
        PROVE  phys'[s] \in {NoPage, anon'[s]} /\ cls'[s] = ClassOf(phys'[s])
    <3>1. s \in Int
      BY DEF Slot
    <3>2. CASE s = i
      BY <2>1, <2>2, <3>2 DEF TypeOK
    <3>3. CASE s < i
      <4>1. phys'[s] = phys[s] /\ anon'[s] = anon[s] /\ cls'[s] = cls[s]
        BY <2>1, <2>2, <2>3, <3>1, <3>3 DEF TypeOK
      <4> QED
        BY <2>3, <3>3, <4>1 DEF Seen
    <3> QED
      BY <2>3, <2>4, <3>1, <3>2, <3>3
  <2> QED
    BY <2>3, <2>4 DEF Seen, ClassOf
<1>3. CASE pc' # "plain_fault"
  BY <1>3 DEF Seen
<1>4. CASE UNCHANGED <<pc, i, anon, phys, cls>>
  BY <1>4 DEF Seen, ClassOf
<1> QED
  <2>1. CASE Next
    BY <2>1, <1>1, <1>2, <1>3, <1>4
       DEF Next, Process, Balanced, Plain, Start, MemfdCreate, MemfdCreateFails, Truncate,
           TruncateFails, ProbeMap, ProbeStops, ProbeFault, EndProbe, ChoosePage, ChooseFails,
           ReserveVa, ReserveVaFails, MapSlot, MapSlotFails, PunchPage, PunchDone, VerifySlot,
           PlainMmapFails, PlainDone, Killed, HpFree, OtherTakes, OtherReturns, GiveUp, pool,
           memory, report
  <2>2. CASE UNCHANGED vars
    BY <2>2, <1>4 DEF vars
  <2> QED
    BY <2>1, <2>2

------------------------------------------------------------------------------
(* The invariant, and what follows from it.                                *)

\* hp_alloc starts with empty lists, nothing picked and nothing mapped.
LEMMA IInvInit == Init => IInv
<1> SUFFICES ASSUME Init PROVE IInv
  OBVIOUS
<1>1. TypeOK /\ Counters /\ Choice
  BY TypesInit
<1>2. \A c \in Class : byClass[c] = <<>> /\ next[c] = 0
  BY DEF Init
<1>3. \A c \in Class : Len(byClass[c]) = 0 /\ 1 .. Len(byClass[c]) = {}
  BY <1>2
<1>4. Lists
  BY <1>2, <1>3 DEF Lists
<1>5. pc = "start" /\ base = "null" /\ file = EmptyFile /\ anon = EmptyAnon
  BY DEF Init
<1>6. Ownership
  BY <1>5 DEF Ownership
<1>7. OnePlace
  <2>1. NoPage \notin free
    BY <1>1, PageAssumption DEF TypeOK
  <2> QED
    BY <1>5, <2>1 DEF OnePlace, EmptyFile, EmptyAnon
<1>8. PlainFilled /\ Filed
  BY <1>5 DEF PlainFilled, Filed, Probing
<1>9. chosen = <<>> /\ Len(chosen) = 0
  BY DEF Init
<1>10. Picked /\ RoundRobin
  BY <1>5, <1>9 DEF Picked, RoundRobin, SharedRegion
<1>11. Unfaulted /\ Seen /\ Shares
  BY <1>5 DEF Unfaulted, Seen, EmptyFile, Shares
<1> QED
  BY <1>1, <1>4, <1>6, <1>7, <1>8, <1>10, <1>11 DEF IInv

\* Every step of hp_alloc and of the other processes keeps the invariant.
LEMMA IInvStep == IInv /\ [Next]_vars => IInv'
<1> SUFFICES ASSUME IInv, [Next]_vars PROVE IInv'
  OBVIOUS
<1>1. /\ TypeOK /\ Counters /\ Lists /\ Choice /\ Ownership /\ OnePlace
      /\ PlainFilled /\ Filed /\ Picked /\ RoundRobin /\ Shares /\ Unfaulted /\ Seen
  BY DEF IInv
<1>2. TypeOK' /\ Counters' /\ Choice'
  BY <1>1, TypesStep
<1>3. Ownership' /\ OnePlace' /\ PlainFilled'
  BY <1>1, OwnershipStep, OnePlaceStep, PlainFilledStep
<1>4. Lists' /\ Filed' /\ Picked' /\ RoundRobin' /\ Shares'
  BY <1>1, ListsStep, FiledStep, PickedStep, RoundRobinStep, SharesStep
<1>5. Unfaulted' /\ Seen'
  BY <1>1, UnfaultedStep, SeenStep
<1> QED
  BY <1>2, <1>3, <1>4, <1>5 DEF IInv

\* The invariant holds in every state hp_alloc reaches, whatever the machine.
THEOREM Invariant == Spec => []IInv
BY IInvInit, IInvStep, PTL DEF Spec

\* Every variable keeps its type, on every machine.
THEOREM TypeCorrect == Spec => []TypeOK
<1>1. IInv => TypeOK
  BY DEF IInv
<1> QED
  BY <1>1, Invariant, PTL

\* A slot of a shared region is a position of the choice.
LEMMA SlotPosition ==
    ASSUME IInv, SharedRegion, NEW s \in Slot
    PROVE  s + 1 \in 1 .. Len(chosen) /\ (s + 1) - 1 = s
<1>1. Len(chosen) = NPages
  BY DEF IInv, Choice
<1> QED
  BY <1>1, SizeAssumption DEF Slot

\* What the choice filed under class i % K has that class when it is mapped.
LEMMA Interleaved == IInv => BalancedInterleaves
<1> SUFFICES ASSUME IInv, pc = "ready", base = "shared", balanced, NEW s \in Slot
             PROVE  PageClass[RegionPage(s)] = s % K
  BY DEF BalancedInterleaves
<1>1. SharedRegion
  BY DEF SharedRegion
<1>2. s + 1 \in 1 .. Len(chosen) /\ (s + 1) - 1 = s
  BY <1>1, SlotPosition
<1>3. PageClass[file[chosen[s + 1]]] = chosenCls[s + 1]
  BY <1>1, <1>2 DEF IInv, Picked
<1>4. chosenCls[s + 1] = ((s + 1) - 1) % K
  BY <1>1, <1>2 DEF IInv, RoundRobin
<1> QED
  BY <1>2, <1>3, <1>4 DEF RegionPage

\* hugepage_alloc.h:13-14: whatever the pool, the classes, the failing calls and
\* the other processes, a region that the balanced path reports balanced has a
\* page of class i % K in every slot i.
THEOREM BalancedRegionsInterleave == Spec => []BalancedInterleaves
BY Interleaved, Invariant, PTL

\* The indexes chosen are distinct, and so are the slots of the plain mapping.
LEMMA Distinct == IInv => NoAliasing
<1> SUFFICES ASSUME IInv, pc = "ready"
             PROVE  /\ \A s, t \in Slot : RegionPage(s) = RegionPage(t) => s = t
                    /\ RegionPages \subseteq Page \ free
  BY DEF NoAliasing
<1>1. CASE base = "shared"
  <2>1. SharedRegion /\ chosen \in Seq(Index) /\ file \in [Index -> Page \cup {NoPage}]
    BY <1>1 DEF SharedRegion, IInv, TypeOK
  <2>2. ASSUME NEW s \in Slot
        PROVE  /\ chosen[s + 1] \in Index
               /\ file[chosen[s + 1]] # NoPage
               /\ RegionPage(s) = file[chosen[s + 1]]
    <3>1. s + 1 \in 1 .. Len(chosen)
      BY <2>1, SlotPosition
    <3>2. chosen[s + 1] \in Index /\ file[chosen[s + 1]] # NoPage
      BY <2>1, <3>1 DEF IInv, Picked
    <3> QED
      BY <1>1, <3>2 DEF RegionPage
  <2>3. ASSUME NEW s \in Slot, NEW t \in Slot, RegionPage(s) = RegionPage(t)
        PROVE  s = t
    <3>1. chosen[s + 1] = chosen[t + 1]
      BY <2>2, <2>3 DEF IInv, OnePlace
    <3>2. s + 1 \in 1 .. Len(chosen) /\ t + 1 \in 1 .. Len(chosen)
      BY <2>1, SlotPosition
    <3>3. s + 1 = t + 1
      BY <3>1, <3>2 DEF IInv, Picked
    <3> QED
      BY <3>3, SizeAssumption DEF Slot
  <2>4. ASSUME NEW s \in Slot PROVE RegionPage(s) \in Page \ free
    BY <2>1, <2>2 DEF IInv, OnePlace
  <2> QED
    BY <2>3, <2>4 DEF RegionPages
<1>2. CASE base = "anon"
  <2>1. ASSUME NEW s \in Slot
        PROVE  RegionPage(s) = anon[s] /\ anon[s] # NoPage /\ anon[s] \in Page \ free
    BY <1>2 DEF RegionPage, IInv, PlainFilled, OnePlace, TypeOK
  <2>2. ASSUME NEW s \in Slot, NEW t \in Slot, RegionPage(s) = RegionPage(t)
        PROVE  s = t
    BY <2>1, <2>2 DEF IInv, OnePlace
  <2> QED
    BY <2>1, <2>2 DEF RegionPages
<1> QED
  BY <1>1, <1>2 DEF IInv, Ownership

\* A region never shows one page in two slots, and every slot has a page that
\* left the pool: the benchmark reads NPages gigabytes, not fewer.
THEOREM RegionsDoNotAlias == Spec => []NoAliasing
BY Distinct, Invariant, PTL

\* Whatever call failed, the balanced path holds nothing when the plain mapping
\* is tried, and a process that failed, died or freed its region holds nothing.
THEOREM FailuresDoNotLeak == Spec => []NothingLeaks
<1>1. IInv => NothingLeaks
  <2> SUFFICES ASSUME IInv, pc \in {"plain_mmap", "failed", "killed", "freed"}
               PROVE  Held = {} /\ base = "null" /\ reserved = 0
    BY DEF NothingLeaks
  <2>1. file = EmptyFile /\ anon = EmptyAnon /\ base = "null"
    BY DEF IInv, Ownership
  <2>2. Held = {}
    BY <2>1 DEF Held, EmptyFile, EmptyAnon
  <2>3. reserved = 0
    BY DEF IInv, Counters, Outstanding
  <2> QED
    BY <2>1, <2>2, <2>3
<1> QED
  BY <1>1, Invariant, PTL

\* Punching the unused pages, verifying the slots and running the benchmark
\* never change the page behind a slot.
THEOREM RegionsAreKept == Spec => RegionKept
<1>1. IInv /\ IInv' /\ [Next]_vars => (Mapped /\ Mapped' => RegionOf' = RegionOf)
  <2> SUFFICES ASSUME IInv, IInv', [Next]_vars, Mapped, Mapped'
               PROVE  RegionOf' = RegionOf
    OBVIOUS
  <2>1. CASE SharedRegion'
    <3>1. ~ReserveVa
      BY DEF Mapped, ReserveVa
    <3>2. SharedRegion /\ chosen' = chosen /\ (file' = file \/ PunchPage)
      BY <2>1, <3>1, SharedFrame DEF IInv
    <3>3. base = "shared" /\ base' = "shared"
      BY <2>1, <3>2 DEF SharedRegion, IInv, Ownership
    <3>4. ASSUME NEW s \in Slot PROVE file'[chosen[s + 1]] = file[chosen[s + 1]]
      <4>1. s + 1 \in 1 .. Len(chosen)
        BY <3>2, SlotPosition
      <4>2. chosen \in Seq(Index) /\ file \in [Index -> Page \cup {NoPage}]
        BY DEF IInv, TypeOK
      <4>3. chosen[s + 1] \in Index /\ s + 1 \in DOMAIN chosen
        BY <4>1, <4>2
      <4>4. \/ file' = file
            \/ ~Used(i) /\ file' = [file EXCEPT ![i] = NoPage]
        BY <3>2 DEF PunchPage
      <4>5. ~Used(i) => chosen[s + 1] # i
        BY <4>3 DEF Used
      <4> QED
        BY <4>2, <4>3, <4>4, <4>5
    <3> QED
      BY <3>2, <3>3, <3>4 DEF RegionOf, RegionPage
  <2>2. CASE ~SharedRegion'
    <3>1. pc' = "ready" /\ base' = "anon"
      BY <2>2 DEF Mapped, SharedRegion, IInv, Ownership
    <3>2. pc = "ready" /\ base = "anon" /\ anon' = anon
      <4>1. CASE Next
        BY <3>1, <4>1
           DEF Mapped, IInv, Ownership, Next, Process, Balanced, Plain, Start, MemfdCreate,
               MemfdCreateFails, Truncate, TruncateFails, ProbeMap, ProbeStops, ProbeFault,
               EndProbe, ChoosePage, ChooseFails, ReserveVa, ReserveVaFails, MapSlot,
               MapSlotFails, PunchPage, PunchDone, VerifySlot, PlainMmap, PlainMmapFails,
               PlainFault, PlainDone, Killed, HpFree, OtherTakes, OtherReturns, GiveUp, memory
      <4>2. CASE UNCHANGED vars
        BY <3>1, <4>2 DEF vars
      <4> QED
        BY <4>1, <4>2
    <3> QED
      BY <3>1, <3>2 DEF RegionOf, RegionPage
  <2> QED
    BY <2>1, <2>2
<1> QED
  BY <1>1, Invariant, PTL DEF Spec, RegionKept

------------------------------------------------------------------------------
(* The mix of classes.                                                     *)

\* The members of S that f gives class c.
OfClass(S, f, c) == {s \in S : f[s] = c}

\* Two classes share a set out between them.
LEMMA TwoShares ==
    ASSUME NEW S, IsFiniteSet(S), NEW f, \A s \in S : f[s] \in {0, 1}
    PROVE  /\ Cardinality(OfClass(S, f, 0)) \in Nat
           /\ Cardinality(OfClass(S, f, 1)) \in Nat
           /\ Cardinality(OfClass(S, f, 0)) + Cardinality(OfClass(S, f, 1)) = Cardinality(S)
<1> DEFINE C == OfClass(S, f, 0)
<1> DEFINE D == OfClass(S, f, 1)
<1>1. C \in SUBSET S /\ D \in SUBSET S /\ C \cap D = {} /\ C \cup D = S
  BY DEF OfClass
<1> HIDE DEF C, D
<1>2. IsFiniteSet(C) /\ IsFiniteSet(D)
  BY <1>1, FS_Subset
<1>3. Cardinality(C \cup D) = Cardinality(C) + Cardinality(D) - Cardinality(C \cap D)
  BY <1>2, FS_Union
<1>4. Cardinality(C \cap D) = 0
  BY <1>1, FS_EmptySet
<1>5. Cardinality(C) \in Nat /\ Cardinality(D) \in Nat
  BY <1>2, FS_CardinalityType
<1>6. Cardinality(S) = Cardinality(C) + Cardinality(D) - 0
  BY <1>1, <1>3, <1>4, Zenon
<1>7. Cardinality(C) + Cardinality(D) = Cardinality(S)
  BY <1>5, <1>6
<1> QED
  BY <1>5, <1>7, Zenon DEF C, D

\* The slots, and the picks that fill them, are NPages.
LEMMA SlotCount ==
    /\ IsFiniteSet(Slot) /\ Cardinality(Slot) = NPages
    /\ IsFiniteSet(1 .. NPages) /\ Cardinality(1 .. NPages) = NPages
<1>1. /\ IsFiniteSet(0 .. NPages - 1) /\ IsFiniteSet(1 .. NPages)
      /\ Cardinality(0 .. NPages - 1) = (NPages - 1) - 0 + 1
      /\ Cardinality(1 .. NPages) = NPages - 1 + 1
  BY SizeAssumption, FS_Interval
<1> QED
  BY <1>1, SizeAssumption DEF Slot

\* The order of the naturals stands in for induction.
LEMMA LeastNumber ==
    ASSUME NEW T, T \subseteq Nat, T # {}
    PROVE  \E x \in T : \A y \in T : x <= y
<1>1. PICK x \in T : \A y \in T : ~ (<<y, x>> \in OpToRel(<, Nat))
  BY NatLessThanWellFounded, WFMin
<1>2. ASSUME NEW y \in T
      PROVE  x <= y
  <2>1. x \in Nat /\ y \in Nat /\ ~ (y < x)
    BY <1>1 DEF OpToRel
  <2> QED
    BY <2>1
<1> QED
  BY <1>2

LEMMA NatClosure ==
    ASSUME NEW T, 0 \in T, \A k \in Nat : k \in T => k + 1 \in T
    PROVE  \A k \in Nat : k \in T
<1>1. SUFFICES ASSUME Nat \ T # {} PROVE FALSE
  OBVIOUS
<1>2. PICK x \in Nat \ T : \A y \in Nat \ T : x <= y
  BY <1>1, LeastNumber
<1>3. x # 0 /\ x - 1 \in Nat /\ (x - 1) + 1 = x /\ ~ (x <= x - 1)
  BY <1>2
<1>4. x - 1 \in T
  BY <1>2, <1>3
<1> QED
  BY <1>2, <1>3, <1>4

\* K classes of at most m slots each hold all the slots.
LEMMA SharesCover ==
    ASSUME NEW mix \in [Slot -> Class], NEW m \in Nat, \A c \in Class : Share(mix, c) <= m
    PROVE  NPages <= m * K
<1> DEFINE Below(k) == {s \in Slot : mix[s] < k}
<1> DEFINE T == {k \in Nat : k <= K => Cardinality(Below(k)) <= m * k}
<1>1. \A k : Below(k) \in SUBSET Slot
  OBVIOUS
<1>2. \A k : IsFiniteSet(Below(k)) /\ Cardinality(Below(k)) \in Nat
  BY ONLY <1>1, SlotCount, FS_Subset, FS_CardinalityType
<1>3. 0 \in T
  <2>1. Below(0) = {}
    BY ClassAssumption DEF Class
  <2>2. Cardinality(Below(0)) = 0
    BY ONLY <2>1, FS_EmptySet
  <2> QED
    BY <2>2
<1>4. ASSUME NEW k \in Nat, k \in T, k + 1 <= K
      PROVE  Cardinality(Below(k + 1)) <= m * (k + 1)
  <2> DEFINE S == OfClass(Slot, mix, k)
  <2>1. k \in Class
    BY <1>4, ClassAssumption DEF Class
  <2>2. Cardinality(Below(k)) <= m * k
    BY <1>4, ClassAssumption
  <2>3. S \in SUBSET Slot /\ Below(k + 1) = Below(k) \cup S /\ Below(k) \cap S = {}
    BY <1>4, ClassAssumption DEF Class, OfClass
  <2>4. Cardinality(S) <= m
    BY <2>1 DEF Share, OfClass
  <2> HIDE DEF S, Below, T
  <2>5. IsFiniteSet(S) /\ Cardinality(S) \in Nat
    BY <2>3, SlotCount, FS_Subset, FS_CardinalityType
  <2>6. Cardinality(Below(k) \cup S) = Cardinality(Below(k)) + Cardinality(S) - Cardinality(Below(k) \cap S)
    BY <1>2, <2>5, FS_Union
  <2>7. Cardinality(Below(k) \cap S) = 0
    BY <2>3, FS_EmptySet
  <2>8. Cardinality(Below(k + 1)) = Cardinality(Below(k)) + Cardinality(S) - 0
    BY <2>3, <2>6, <2>7, Zenon
  <2>9. m * (k + 1) = m * k + m /\ m * k \in Nat
    BY <1>4
  <2> QED
    BY <1>2, <2>2, <2>4, <2>5, <2>8, <2>9
<1>5. \A k \in Nat : k \in T => k + 1 \in T
  BY <1>4
<1>6. \A k \in Nat : k \in T
  <2> HIDE DEF T
  <2> QED
    BY ONLY <1>3, <1>5, NatClosure
<1>7. Below(K) = Slot
  BY ClassAssumption DEF Class
<1>8. Cardinality(Below(K)) <= m * K
  BY <1>6, ClassAssumption
<1> QED
  BY <1>7, <1>8, SlotCount, Zenon

\* No mix keeps every class below some quota.
LEMMA QuotaIsLeast ==
    ASSUME NEW mix \in [Slot -> Class], NEW m \in Nat, \A c \in Class : Share(mix, c) <= m,
           NEW c \in Class
    PROVE  Quota(c) \in Nat /\ Quota(c) <= m
<1> DEFINE q == NPages \div K
<1> DEFINE r == NPages % K
<1>1. /\ q \in Nat /\ r \in 0 .. K - 1 /\ NPages = q * K + r
      /\ K \in Nat \ {0} /\ c \in Nat
  <2>1. K \in Nat \ {0} /\ NPages \in Nat /\ c \in 0 .. K - 1
    BY ClassAssumption, SizeAssumption DEF Class
  <2>2. c \in Nat
    BY <2>1
  <2>3. q \in Nat /\ r \in 0 .. K - 1 /\ NPages = q * K + r
    BY ONLY <2>1, DivMod, Zenon
  <2> QED
    BY <2>1, <2>2, <2>3
<1>2. Quota(c) = q + (IF c < r THEN 1 ELSE 0)
  BY DEF Quota
<1>3. NPages <= m * K
  BY SharesCover
<1> HIDE DEF q, r, Quota
<1>4. q <= m
  <2>1. SUFFICES ASSUME m < q PROVE FALSE
    BY <1>1
  <2>2. m * K + K <= q * K
    BY <1>1, <2>1, TimesLess
  <2>3. m * K \in Nat /\ q * K \in Nat
    BY <1>1
  <2> QED
    BY <1>1, <1>3, <2>2, <2>3
<1>5. CASE c < r
  <2>1. m # q
    <3>1. q * K \in Nat
      BY <1>1
    <3> QED
      BY <1>1, <1>3, <1>5, <3>1
  <2> QED
    BY <1>1, <1>2, <1>4, <1>5, <2>1
<1>6. CASE ~(c < r)
  BY <1>1, <1>2, <1>4, <1>6
<1> QED
  BY <1>5, <1>6

\* A choice that stayed balanced has the quota of every class.
LEMMA BalancedQuotas ==
    ASSUME IInv, pc = "map", balanced, NEW c \in Class
    PROVE  next[c] = Quota(c)
<1>1. SharedRegion /\ Len(chosen) = NPages /\ NPages \in Nat
  BY SizeAssumption DEF SharedRegion, IInv, Choice
<1>2. \A k \in 1 .. NPages : chosenCls[k] = (k - 1) % K
  BY <1>1 DEF IInv, RoundRobin
<1>3. Cardinality({k \in 1 .. NPages : chosenCls[k] = c})
          = Cardinality({s \in 0 .. NPages - 1 : s % K = c})
  BY ONLY <1>1, <1>2, PicksInTurn
<1>4. Cardinality({s \in 0 .. NPages - 1 : s % K = c}) = Quota(c)
  BY ResidueCount DEF Slot
<1>5. next[c] = Cardinality({k \in 1 .. Len(chosen) : chosenCls[k] = c})
  BY DEF IInv, Shares
<1> QED
  BY <1>1, <1>3, <1>4, <1>5

\* A choice that lost its balance used some class up below its quota.
LEMMA ShortOfQuota == IInv => (pc = "map" /\ ~balanced => \E c \in Class : Len(byClass[c]) < Quota(c))
BY DEF IInv, Shares

\* No mix is better than a choice that stayed balanced.
LEMMA BestIfBalanced ==
    ASSUME IInv, pc = "map", balanced, NEW mix \in Mixes, NEW m \in 0 .. NPages,
           \A c \in Class : Share(mix, c) <= m, NEW c \in Class
    PROVE  next[c] <= m
<1>1. mix \in [Slot -> Class] /\ m \in Nat
  BY SizeAssumption DEF Mixes
<1>2. Quota(c) <= m
  BY <1>1, QuotaIsLeast
<1> QED
  BY <1>2, BalancedQuotas

\* With two classes a mix in which both have at most m slots has at least as many slots
\* of the exhausted class's rival as were picked; and m is at least either quota.
LEMMA BestOfTwo ==
    ASSUME IInv, pc = "map", K = 2, NEW mix \in Mixes, NEW m \in 0 .. NPages,
           \A c \in Class : Share(mix, c) <= m, NEW c \in Class
    PROVE  next[c] <= m
<1>1. Class = {0, 1} /\ NPages \in Nat \ {0} /\ m \in Nat
  BY SizeAssumption DEF Class
<1>2. SharedRegion /\ Len(chosen) = NPages /\ Len(chosenCls) = NPages /\ chosenCls \in Seq(Class)
  BY DEF SharedRegion, IInv, Choice, TypeOK
<1>3. /\ mix \in [Slot -> Class]
      /\ \A d \in Class : Share(mix, d) <= Len(byClass[d])
  BY DEF Mixes
<1>4. /\ Share(mix, 0) \in Nat /\ Share(mix, 1) \in Nat
      /\ Share(mix, 0) + Share(mix, 1) = NPages
  <2>1. \A s \in Slot : mix[s] \in {0, 1}
    BY <1>1, <1>3
  <2>2. \A d : Share(mix, d) = Cardinality(OfClass(Slot, mix, d))
    BY DEF Share, OfClass
  <2> HIDE DEF Share
  <2> QED
    BY <2>1, <2>2, SlotCount, TwoShares
<1>5. /\ next[0] \in Nat /\ next[1] \in Nat
      /\ next[0] + next[1] = NPages
  <2>1. \A k \in 1 .. NPages : chosenCls[k] \in {0, 1}
    BY <1>1, <1>2
  <2>2. \A d \in Class : next[d] = Cardinality(OfClass(1 .. NPages, chosenCls, d))
    BY <1>2 DEF IInv, Shares, OfClass
  <2>3. /\ next[0] = Cardinality(OfClass(1 .. NPages, chosenCls, 0))
        /\ next[1] = Cardinality(OfClass(1 .. NPages, chosenCls, 1))
    BY <1>1, <2>2
  <2> QED
    BY <2>1, <2>3, SlotCount, TwoShares
<1>6. Share(mix, 0) <= m /\ Share(mix, 1) <= m
  BY <1>1
<1>7. /\ Quota(0) \in Nat /\ Quota(0) <= m
      /\ Quota(1) \in Nat /\ Quota(1) <= m
  BY <1>1, <1>3, QuotaIsLeast
<1>8. CASE balanced
  BY <1>8, BestIfBalanced
<1>9. CASE ~balanced
  <2>1. PICK e \in Class : next[e] = Len(byClass[e]) /\ next[e] < Quota(e)
    BY <1>9 DEF IInv, Shares
  <2>2. Share(mix, e) <= next[e] /\ next[e] < Quota(e)
    BY <1>3, <2>1
  <2> HIDE DEF Quota, Share
  <2>3. CASE e = 0
    <3>1. Share(mix, 0) <= next[0] /\ next[0] < Quota(0)
      BY <2>2, <2>3
    <3>2. next[0] <= m /\ next[1] <= m
      BY <1>1, <1>4, <1>5, <1>6, <1>7, <3>1
    <3> QED
      BY <1>1, <3>2
  <2>4. CASE e = 1
    <3>1. Share(mix, 1) <= next[1] /\ next[1] < Quota(1)
      BY <2>2, <2>4
    <3>2. next[0] <= m /\ next[1] <= m
      BY <1>1, <1>4, <1>5, <1>6, <1>7, <3>1
    <3> QED
      BY <1>1, <3>2
  <2> QED
    BY <1>1, <2>3, <2>4
<1> QED
  BY <1>8, <1>9

\* With one class every slot is of it.
LEMMA BestOfOne ==
    ASSUME IInv, pc = "map", K = 1, NEW mix \in Mixes, NEW m \in 0 .. NPages,
           \A c \in Class : Share(mix, c) <= m, NEW c \in Class
    PROVE  next[c] <= m
<1>1. Class = {0} /\ NPages \in Nat \ {0} /\ m \in Nat
  BY SizeAssumption DEF Class
<1>2. Share(mix, 0) = NPages
  <2>1. {s \in Slot : mix[s] = 0} = Slot
    BY <1>1 DEF Mixes
  <2> QED
    BY <2>1, SlotCount DEF Share
<1>3. next[0] <= NPages
  <2>1. Len(chosen) = NPages
    BY DEF SharedRegion, IInv, Choice
  <2>2. next[0] = Cardinality({k \in 1 .. NPages : chosenCls[k] = 0})
    BY <1>1, <2>1 DEF IInv, Shares
  <2>3. {k \in 1 .. NPages : chosenCls[k] = 0} \in SUBSET (1 .. NPages)
    OBVIOUS
  <2> QED
    BY <2>2, <2>3, SlotCount, FS_Subset
<1>4. Share(mix, 0) <= m /\ next[0] \in Nat
  BY <1>1 DEF IInv, TypeOK
<1> QED
  BY <1>1, <1>2, <1>3, <1>4

\* chbal/README.md:257: on a machine with one or two channel classes, whatever pages were
\* probed and whatever failed, no mix of them has a smaller largest share than the choice.
\* An unbalanced choice is short of pages of some class on every machine (ShortOfQuota).
THEOREM BestMixOfTwo ==
    ASSUME K <= 2
    PROVE  Spec => []BestMix
<1>1. K = 1 \/ K = 2
  BY ClassAssumption
<1>2. IInv => BestMix
  <2> SUFFICES ASSUME IInv, pc = "map" PROVE BestMix
    BY DEF BestMix
  <2>1. ASSUME NEW mix \in Mixes, NEW m \in 0 .. NPages,
               \A c \in Class : Share(mix, c) <= m, NEW c \in Class
        PROVE  next[c] <= m
    BY <1>1, <2>1, BestOfOne, BestOfTwo
  <2> QED
    BY <2>1, ShortOfQuota DEF BestMix
<1> QED
  BY <1>2, Invariant, PTL

\* On every machine, whatever its number of classes: a choice that is reported balanced has
\* the smallest largest share of any mix of the probed pages.
THEOREM BalancedChoiceIsBest ==
    Spec => [](pc = "map" /\ balanced =>
                  \A mix \in Mixes : \A m \in 0 .. NPages :
                      (\A c \in Class : Share(mix, c) <= m) => (\A c \in Class : next[c] <= m))
<1>1. IInv => (pc = "map" /\ balanced =>
                  \A mix \in Mixes : \A m \in 0 .. NPages :
                      (\A c \in Class : Share(mix, c) <= m) => (\A c \in Class : next[c] <= m))
  BY BestIfBalanced
<1> QED
  BY <1>1, Invariant, PTL

\* On every machine, whatever its number of classes: the choice loses its balance only
\* when the probed pages of some class fall short of its quota.
THEOREM BalanceIsLostToAShortClass ==
    Spec => [](pc = "map" /\ ~balanced => \E c \in Class : Len(byClass[c]) < Quota(c))
BY ShortOfQuota, Invariant, PTL

------------------------------------------------------------------------------
(* What PageGrant sees of a step.                                          *)

LEMMA HeldPages ==
    \A q : q \in Held <=> q # NoPage /\ (\/ \E n \in Index : file[n] = q
                                        \/ \E s \in Slot : anon[s] = q)
BY DEF Held

Asking == pc \notin {"ready", "failed", "killed", "freed"}

LEMMA WhileAsking ==
    ASSUME Asking
    PROVE  Status = "asking" /\ GrantedRegion = EmptyAnon /\ ReportedEven = FALSE
BY DEF Asking, Status, GrantedRegion, ReportedEven

LEMMA WhileAskingNext ==
    ASSUME Asking'
    PROVE  Status' = "asking" /\ GrantedRegion' = EmptyAnon /\ ReportedEven' = FALSE
BY DEF Asking, Status, GrantedRegion, ReportedEven, EmptyAnon, Slot

\* Nothing moves: a step of the search itself.
LEMMA Invisible ==
    ASSUME Asking, Asking', UNCHANGED <<free, file, anon>>
    PROVE  UNCHANGED Grant!vars
<1>1. Held' = Held
  BY DEF Held
<1> QED
  BY <1>1, WhileAsking, WhileAskingNext DEF Grant!vars

\* A page is faulted in.
LEMMA Taken ==
    ASSUME Asking, Asking', NEW p \in free, free' = free \ {p}, Held' = Held \cup {p}
    PROVE  Grant!Take
BY WhileAsking, WhileAskingNext DEF Grant!Take

\* Pages go back.
LEMMA GivenBack ==
    ASSUME Asking, Asking', NEW S \in SUBSET Held, free' = free \cup S, Held' = Held \ S
    PROVE  Grant!GiveBack
BY WhileAsking, WhileAskingNext DEF Grant!GiveBack

\* A path that failed gives back all it holds.
LEMMA NothingHeld ==
    ASSUME file' = EmptyFile, anon' = EmptyAnon
    PROVE  Held' = {}
<1>1. \A n \in Index : EmptyFile[n] = NoPage
  BY DEF EmptyFile
<1>2. \A s \in Slot : EmptyAnon[s] = NoPage
  BY DEF EmptyAnon
<1> QED
  BY <1>1, <1>2 DEF Held, Index, Slot, FileSize

LEMMA GaveUp ==
    ASSUME Asking, GiveUp
    PROVE  Grant!GiveBack
<1>1. free' = free \cup Held /\ file' = EmptyFile /\ anon' = EmptyAnon /\ Asking'
  BY DEF GiveUp, ReturnPages, Asking
<1>2. Held' = {}
  BY <1>1, NothingHeld
<1> QED
  BY <1>1, <1>2, GivenBack

\* PageGrant counts with the same Cardinality.
LEMMA SameCount == ASSUME NEW S PROVE Grant!Cardinality(S) = Cardinality(S)
BY DEF Grant!Cardinality, Cardinality

\* The pages of a region are in the file or in the plain mapping.
LEMMA RegionIsHeld == IInv => (pc = "ready" => RegionPages \subseteq Held)
<1> SUFFICES ASSUME IInv, pc = "ready", NEW s \in Slot
             PROVE  RegionPage(s) \in Held
  BY DEF RegionPages
<1>1. RegionPage(s) # NoPage
  <2>1. RegionPage(s) \in Page
    BY Distinct DEF NoAliasing, RegionPages
  <2> QED
    BY <2>1, PageAssumption
<1>2. CASE base = "shared"
  <2>1. s + 1 \in 1 .. Len(chosen) /\ chosen \in Seq(Index)
    BY <1>2, SlotPosition DEF SharedRegion, IInv, TypeOK
  <2>2. chosen[s + 1] \in Index
    BY <2>1
  <2> QED
    BY <1>1, <1>2, <2>2, HeldPages DEF RegionPage
<1>3. CASE base # "shared"
  BY <1>1, <1>3, HeldPages DEF RegionPage
<1> QED
  BY <1>2, <1>3

\* The region that is handed over consists of pages the process holds, each once; if it
\* is reported balanced, it has the quota of every class.
LEMMA HandedOver ==
    ASSUME IInv, Asking, IInv', pc' = "ready", UNCHANGED <<free, file, anon>>,
           balanced' => \A c \in Class : Cardinality({s \in Slot : PageClass[RegionPage(s)'] = c}) = Quota(c)
    PROVE  Grant!Grant
<1>1. Held' = Held
  BY DEF Held
<1>2. GrantedRegion' = RegionOf' /\ ReportedEven' = balanced' /\ Status' = "granted" /\ balanced' \in BOOLEAN
  BY DEF GrantedRegion, ReportedEven, Status, IInv, TypeOK
<1>3. NoAliasing'
  BY Distinct, PTL
<1>4. \A s, t \in Slot : RegionPage(s)' = RegionPage(t)' => s = t
  BY <1>3 DEF NoAliasing, Slot
<1>5. RegionPages' \subseteq Held
  <2>1. (pc = "ready" => RegionPages \subseteq Held)'
    BY RegionIsHeld, PTL
  <2> QED
    BY <1>1, <2>1
<1>6. RegionOf' = [s \in Slot |-> RegionPage(s)'] /\ \A s \in Slot : RegionPage(s)' \in Held
  BY <1>5 DEF RegionOf, RegionPages, Slot
<1>7. Grant!Slot = Slot /\ \A c : Grant!Quota(c) = Quota(c)
  BY DEF Grant!Slot, Slot, Grant!Quota, Quota
<1>8. balanced' => Grant!EvenMix(RegionOf')
  <2>1. ASSUME balanced', NEW c \in 0 .. K - 1
        PROVE  Grant!Cardinality({s \in Grant!Slot : PageClass[RegionOf'[s]] = c}) = Grant!Quota(c)
    <3>1. Cardinality({s \in Slot : PageClass[RegionPage(s)'] = c}) = Quota(c)
      BY <2>1 DEF Class
    <3>2. {s \in Slot : PageClass[RegionPage(s)'] = c} = {s \in Grant!Slot : PageClass[RegionOf'[s]] = c}
      BY <1>6, <1>7
    <3> QED
      BY <1>7, <3>1, <3>2, SameCount
  <2> QED
    BY <2>1 DEF Grant!EvenMix
<1>9. RegionOf' \in [Slot -> Held] /\ \A s, t \in Slot : RegionOf'[s] = RegionOf'[t] => s = t
  BY <1>4, <1>6
<1>10. Status = "asking"
  BY WhileAsking
<1> QED
  BY <1>1, <1>2, <1>7, <1>8, <1>9, <1>10 DEF Grant!Grant

------------------------------------------------------------------------------
(* The steps of hp_alloc.                                                  *)

LEMMA SearchSteps ==
    ASSUME \/ Start \/ MemfdCreate \/ Truncate \/ ProbeMap \/ ProbeStops \/ ChoosePage
           \/ ReserveVa \/ MapSlot \/ PunchDone \/ PlainMmap
    PROVE  UNCHANGED Grant!vars
<1>1. Asking /\ Asking' /\ UNCHANGED <<free, file, anon>>
  BY DEF Asking, Start, MemfdCreate, Truncate, ProbeMap, ProbeStops, EndProbe, ChoosePage,
         ReserveVa, MapSlot, PunchDone, PlainMmap, pool, memory
<1> QED
  BY <1>1, Invisible

LEMMA FailedSteps ==
    ASSUME MemfdCreateFails \/ TruncateFails \/ ChooseFails \/ ReserveVaFails \/ MapSlotFails
    PROVE  Grant!GiveBack
<1>1. Asking /\ GiveUp
  BY DEF Asking, MemfdCreateFails, TruncateFails, ChooseFails, ReserveVaFails, MapSlotFails
<1> QED
  BY <1>1, GaveUp

LEMMA FaultSteps ==
    ASSUME IInv, ProbeFault \/ PlainFault
    PROVE  Grant!Take
<1>1. TypeOK /\ Counters /\ Unfaulted
  BY DEF IInv
<1>2. CASE ProbeFault
  <2>1. PICK p \in free : free' = free \ {p} /\ file' = [file EXCEPT ![probed] = p]
    BY <1>2 DEF ProbeFault
  <2>2. pc = "fault" /\ Asking /\ Asking' /\ anon' = anon
    BY <1>2 DEF ProbeFault, EndProbe, Asking
  <2>3. probed \in Index /\ file[probed] = NoPage
    <3>1. probed \in Index
      BY <1>1, <1>2, ProbeFaultMoves
    <3> QED
      BY <1>1, <2>2, <3>1, FileSizeFacts DEF Unfaulted, Probing, Index
  <2>4. p # NoPage
    BY <1>1, PageAssumption DEF TypeOK
  <2>5. \A n \in Index : file'[n] = IF n = probed THEN p ELSE file[n]
    BY <1>1, <2>1 DEF TypeOK
  <2>6. Held' = Held \cup {p}
    <3>1. \A q : q \in Held' <=> q # NoPage /\ (\/ \E n \in Index : file'[n] = q
                                              \/ \E s \in Slot : anon[s] = q)
      BY <2>2 DEF Held, Index, Slot, FileSize
    <3> QED
      BY <2>3, <2>4, <2>5, <3>1, HeldPages
  <2> QED
    BY <2>1, <2>2, <2>6, Taken
<1>3. CASE PlainFault
  <2>1. PICK p \in free : free' = free \ {p} /\ anon' = [anon EXCEPT ![i] = p]
    BY <1>3 DEF PlainFault
  <2>2. pc = "plain_fault" /\ Asking /\ Asking' /\ file' = file /\ i < NPages
    BY <1>3 DEF PlainFault, Asking, SlotsLeft
  <2>3. i \in Slot /\ anon[i] = NoPage
    <3>1. i \in Slot
      BY <1>1, <2>2, FileSizeFacts, SizeAssumption DEF Slot, TypeOK
    <3> QED
      BY <1>1, <2>2, <3>1, SizeAssumption DEF Unfaulted, Slot
  <2>4. p # NoPage
    BY <1>1, PageAssumption DEF TypeOK
  <2>5. \A s \in Slot : anon'[s] = IF s = i THEN p ELSE anon[s]
    BY <1>1, <2>1 DEF TypeOK
  <2>6. Held' = Held \cup {p}
    <3>1. \A q : q \in Held' <=> q # NoPage /\ (\/ \E n \in Index : file[n] = q
                                              \/ \E s \in Slot : anon'[s] = q)
      BY <2>2 DEF Held, Index, Slot, FileSize
    <3> QED
      BY <2>3, <2>4, <2>5, <3>1, HeldPages
  <2> QED
    BY <2>1, <2>2, <2>6, Taken
<1> QED
  BY <1>2, <1>3

LEMMA PunchStep ==
    ASSUME IInv, PunchPage
    PROVE  Grant!GiveBack \/ UNCHANGED Grant!vars
<1>1. /\ TypeOK /\ OnePlace /\ pc = "punch" /\ Asking /\ Asking' /\ anon' = anon
  BY DEF IInv, PunchPage, Asking
<1>2. CASE UNCHANGED <<file, free>>
  BY <1>1, <1>2, Invisible
<1>3. CASE /\ file' = [file EXCEPT ![i] = NoPage]
           /\ free' = free \cup ({file[i]} \ {NoPage})
  <2> DEFINE S == {file[i]} \ {NoPage}
  <2>1. i \in Index
    <3>1. i < probed /\ probed \in 0 .. FileSize /\ i \in 0 .. FileSize
      BY <1>1 DEF PunchPage, TypeOK
    <3> QED
      BY <3>1, FileSizeFacts DEF Index
  <2>2. \A s \in Slot : anon[s] = NoPage
    BY <1>1 DEF IInv, Ownership, EmptyAnon
  <2>3. \A n \in Index : file'[n] = IF n = i THEN NoPage ELSE file[n]
    BY <1>1, <1>3 DEF TypeOK
  <2>4. S \in SUBSET Held
    BY <2>1, HeldPages
  <2>5. Held' = Held \ S
    <3>1. \A q : q \in Held' <=> q # NoPage /\ (\/ \E n \in Index : file'[n] = q
                                              \/ \E s \in Slot : anon[s] = q)
      BY <1>1 DEF Held, Index, Slot, FileSize
    <3>2. \A m, n \in Index : file[m] # NoPage /\ file[m] = file[n] => m = n
      BY <1>1 DEF OnePlace
    <3> QED
      BY <2>1, <2>2, <2>3, <3>1, <3>2, HeldPages
  <2> QED
    BY <1>1, <1>3, <2>4, <2>5, GivenBack
<1> QED
  BY <1>2, <1>3 DEF PunchPage

LEMMA VerifyStep ==
    ASSUME IInv, IInv', VerifySlot
    PROVE  Grant!Grant \/ UNCHANGED Grant!vars
<1>1. /\ Asking /\ UNCHANGED <<free, file, anon>> /\ base' = base /\ base = "shared"
      /\ pc' = "verify" \/ pc' = "ready"
  BY DEF VerifySlot, Asking, pool, memory, IInv, Ownership
<1>2. CASE pc' = "verify"
  <2>1. Asking'
    BY <1>2 DEF Asking
  <2> QED
    BY <1>1, <2>1, Invisible
<1>3. CASE pc' = "ready"
  <2>1. BalancedInterleaves'
    BY Interleaved, PTL
  <2>2. balanced' => \A s \in Slot : PageClass[RegionPage(s)'] = s % K
    BY <1>1, <1>3, <2>1 DEF BalancedInterleaves, Slot
  <2>3. ASSUME balanced', NEW c \in Class
        PROVE  Cardinality({s \in Slot : PageClass[RegionPage(s)'] = c}) = Quota(c)
    <3>1. {s \in Slot : PageClass[RegionPage(s)'] = c} = {s \in Slot : s % K = c}
      BY <2>2, <2>3
    <3> QED
      BY <3>1, ResidueCount
  <2> QED
    BY <1>1, <1>3, <2>3, HandedOver
<1> QED
  BY <1>1, <1>2, <1>3

LEMMA PlainStep ==
    ASSUME IInv, IInv', PlainDone
    PROVE  Grant!Grant
<1>1. /\ Asking /\ UNCHANGED <<free, file, anon>> /\ base' = base /\ pc = "plain_fault" /\ pc' = "ready"
      /\ i = NPages /\ balanced' = PlainBalanced
  BY DEF PlainDone, Asking, pool, memory
<1>2. base = "anon"
  BY <1>1 DEF IInv, Counters
<1>3. ASSUME NEW s \in Slot
      PROVE  RegionPage(s)' = anon[s]
  BY <1>1, <1>2 DEF RegionPage
<1>4. ASSUME PlainBalanced, NEW s \in Slot
      PROVE  cls[s] = PageClass[anon[s]]
  <2>1. s < i
    BY <1>1, SizeAssumption DEF Slot
  <2>2. phys[s] = anon[s] /\ cls[s] = ClassOf(phys[s]) /\ phys[s] # NoPage
    BY <1>1, <1>4, <2>1 DEF IInv, Seen, PlainBalanced
  <2> QED
    BY <2>2 DEF ClassOf
<1>5. ASSUME balanced', NEW c \in Class
      PROVE  Cardinality({s \in Slot : PageClass[RegionPage(s)'] = c}) = Quota(c)
  <2>1. {s \in Slot : PageClass[RegionPage(s)'] = c} = {s \in Slot : cls[s] = c}
    BY <1>1, <1>3, <1>4, <1>5
  <2> QED
    BY <1>1, <1>5, <2>1 DEF PlainBalanced, Count
<1> QED
  BY <1>1, <1>5, HandedOver

LEMMA EndSteps ==
    ASSUME IInv, Killed \/ HpFree \/ PlainMmapFails
    PROVE  Grant!End("asking", "dead") \/ Grant!End("granted", "released") \/ Grant!Refuse
<1>1. EmptyAnon = Grant!NoRegion
  BY DEF EmptyAnon, Grant!NoRegion, Slot, Grant!Slot
<1>2. CASE Killed \/ HpFree
  <2>1. free' = free \cup Held /\ file' = EmptyFile /\ anon' = EmptyAnon
    BY <1>2 DEF Killed, HpFree, ReturnPages
  <2>2. Held' = {}
    BY <2>1, NothingHeld
  <2>3. \/ Status = "asking" /\ Status' = "dead"
        \/ Status = "granted" /\ Status' = "released"
    BY <1>2 DEF Killed, HpFree, Status
  <2>4. GrantedRegion' = EmptyAnon /\ ReportedEven' = FALSE
    BY <1>2 DEF Killed, HpFree, GrantedRegion, ReportedEven, EmptyAnon, Slot
  <2> QED
    BY <1>1, <2>1, <2>2, <2>3, <2>4 DEF Grant!End
<1>3. CASE PlainMmapFails
  <2>1. /\ pc = "plain_mmap" /\ pc' = "failed" /\ UNCHANGED <<free, file, anon>>
    BY <1>3 DEF PlainMmapFails, pool, memory
  <2>2. Held = {} /\ Held' = Held
    <3>1. file = EmptyFile /\ anon = EmptyAnon
      BY <2>1 DEF IInv, Ownership
    <3>2. Held = {}
      BY <3>1 DEF Held, EmptyFile, EmptyAnon
    <3> QED
      BY <2>1, <3>2 DEF Held
  <2>3. /\ Status = "asking" /\ Status' = "refused"
        /\ GrantedRegion' = GrantedRegion /\ ReportedEven' = ReportedEven
    BY <2>1 DEF Status, GrantedRegion, ReportedEven, EmptyAnon, Slot
  <2> QED
    BY <2>1, <2>2, <2>3 DEF Grant!Refuse
<1> QED
  BY <1>2, <1>3

LEMMA OtherSteps ==
    ASSUME IInv, OtherTakes \/ OtherReturns
    PROVE  Grant!Others
<1>1. /\ UNCHANGED <<file, anon, pc, base, chosen, balanced>>
  BY DEF OtherTakes, OtherReturns, memory, choice
<1>2. Held' = Held /\ Status' = Status /\ GrantedRegion' = GrantedRegion /\ ReportedEven' = ReportedEven
  BY <1>1 DEF Held, Status, GrantedRegion, ReportedEven, RegionOf, RegionPage, Slot, EmptyAnon
<1>3. free \subseteq Page /\ free \cap Held = {}
  <2>1. free \subseteq Page /\ OnePlace
    BY DEF IInv, TypeOK
  <2> QED
    BY <2>1, HeldPages DEF OnePlace
<1>4. \E p \in Page \ Held : free' = IF p \in free THEN free \ {p} ELSE free \cup {p}
  <2>1. CASE OtherTakes
    <3>1. PICK p \in free : free' = free \ {p}
      BY <2>1 DEF OtherTakes
    <3> QED
      BY <1>3, <3>1
  <2>2. CASE OtherReturns
    <3>1. PICK p \in Page \ (free \cup Held) : free' = free \cup {p}
      BY <2>2 DEF OtherReturns
    <3> QED
      BY <3>1
  <2> QED
    BY <2>1, <2>2
<1> QED
  BY <1>2, <1>4 DEF Grant!Others

------------------------------------------------------------------------------
(* hp_alloc implements PageGrant.                                          *)

LEMMA GrantInit == IInv /\ Init => Grant!Init
<1> SUFFICES ASSUME IInv, Init PROVE Grant!Init
  OBVIOUS
<1>1. free \in SUBSET Page /\ file = EmptyFile /\ anon = EmptyAnon /\ pc = "start"
  BY DEF Init
<1>2. Held = {}
  BY <1>1 DEF Held, EmptyFile, EmptyAnon
<1>3. Status = "asking" /\ GrantedRegion = EmptyAnon /\ ReportedEven = FALSE
  BY <1>1 DEF Status, GrantedRegion, ReportedEven
<1>4. EmptyAnon = Grant!NoRegion
  BY DEF EmptyAnon, Grant!NoRegion, Slot, Grant!Slot
<1> QED
  BY <1>1, <1>2, <1>3, <1>4 DEF Grant!Init

LEMMA GrantStep == IInv /\ IInv' /\ [Next]_vars => [Grant!Next]_(Grant!vars)
<1> SUFFICES ASSUME IInv, IInv', [Next]_vars
             PROVE  Grant!Next \/ UNCHANGED Grant!vars
  OBVIOUS
<1>1. CASE Next
  BY <1>1, SearchSteps, FailedSteps, FaultSteps, PunchStep, VerifyStep, PlainStep, EndSteps, OtherSteps
     DEF Next, Process, Balanced, Plain, Grant!Next
<1>2. CASE UNCHANGED vars
  BY <1>2 DEF vars, Grant!vars, Held, Status, GrantedRegion, ReportedEven, RegionOf, RegionPage
<1> QED
  BY <1>1, <1>2

\* For any pool, any classes, any mempolicy and any calls that fail: hp_alloc's caller
\* sees a process that takes pages, gives pages back, and is granted distinct pages it
\* holds, the quota of every class if they are reported balanced, or is left with none.
THEOREM AllocGrants == Spec => GrantsPages
<1>1. IInv /\ Init => Grant!Init
  BY GrantInit
<1>2. IInv /\ IInv' /\ [Next]_vars => [Grant!Next]_(Grant!vars)
  BY GrantStep
<1> QED
  BY <1>1, <1>2, Invariant, PTL DEF Spec, GrantsPages, Grant!Spec

------------------------------------------------------------------------------
(* Class numbers: what the loop over the channel functions computes.       *)

IsMachine(s) == s.channel \in Seq(SUBSET Nat)

\* A loop of n turns computes something, whatever a turn makes of a number.
LEMMA LoopRuns ==
    ASSUME NEW n \in Nat, NEW a \in Nat, NEW D \in [Nat \X (1 .. n) -> Nat]
    PROVE  \E g \in [0 .. n -> Nat] : g[0] = a /\ \A f \in 1 .. n : g[f] = D[<<g[f - 1], f>>]
<1> DEFINE Upto(k) == {g \in [0 .. k -> Nat] :
                           g[0] = a /\ \A f \in 1 .. k : g[f] = D[<<g[f - 1], f>>]}
<1> DEFINE T == {k \in Nat : k <= n => Upto(k) # {}}
<1>1. 0 \in T
  <2>1. [f \in 0 .. 0 |-> a] \in Upto(0)
    OBVIOUS
  <2> QED
    BY <2>1
<1>2. ASSUME NEW k \in Nat, k \in T, k + 1 <= n
      PROVE  Upto(k + 1) # {}
  <2>1. k <= n
    BY <1>2
  <2>2. PICK g \in Upto(k) : TRUE
    BY <1>2, <2>1
  <2>3. g \in [0 .. k -> Nat] /\ g[0] = a /\ \A f \in 1 .. k : g[f] = D[<<g[f - 1], f>>]
    BY <2>2
  <2> DEFINE e == D[<<g[k], k + 1>>]
  <2> DEFINE h == [f \in 0 .. k + 1 |-> IF f = k + 1 THEN e ELSE g[f]]
  <2>4. g[k] \in Nat
    BY <2>3
  <2>5. e \in Nat
    <3>1. <<g[k], k + 1>> \in Nat \X (1 .. n)
      BY <1>2, <2>4
    <3> QED
      BY <3>1
  <2>6. h \in [0 .. k + 1 -> Nat]
    <3>1. ASSUME NEW f \in 0 .. k + 1, f # k + 1
          PROVE  g[f] \in Nat
      <4>1. f \in 0 .. k
        BY <3>1
      <4> QED
        BY <2>3, <4>1
    <3> HIDE DEF e
    <3> QED
      BY <2>5, <3>1
  <2>7. h[0] = a
    BY <2>3
  <2>8. ASSUME NEW f \in 1 .. k + 1
        PROVE  h[f] = D[<<h[f - 1], f>>]
    <3>1. CASE f = k + 1
      <4>1. h[f] = D[<<g[k], k + 1>>] /\ h[f - 1] = g[k]
        BY <3>1
      <4> QED
        BY <3>1, <4>1
    <3>2. CASE f # k + 1
      <4>1. f \in 1 .. k /\ f - 1 \in 0 .. k
        BY <3>2
      <4>2. h[f] = g[f] /\ h[f - 1] = g[f - 1]
        BY <4>1
      <4> QED
        BY <2>3, <4>1, <4>2
    <3> QED
      BY <3>1, <3>2
  <2>9. h \in Upto(k + 1)
    BY <2>6, <2>7, <2>8
  <2> QED
    BY <2>9
<1>3. \A k \in Nat : k \in T => k + 1 \in T
  <2> HIDE DEF Upto
  <2> QED
    BY <1>2
<1>4. n \in T
  <2> HIDE DEF T
  <2> QED
    BY ONLY <1>1, <1>3, NatClosure, n \in Nat
<1> QED
  BY <1>4

LEMMA ChannelLength ==
    ASSUME NEW s, IsMachine(s)
    PROVE  /\ Len(s.channel) \in Nat
           /\ DOMAIN s.channel = 1 .. Len(s.channel)
           /\ \A f \in DOMAIN s.channel : s.channel[f] \subseteq Nat
           /\ ClassFns(s) \subseteq DOMAIN s.channel
<1>1. s.channel \in Seq(SUBSET Nat)
  BY DEF IsMachine
<1>2. \A f \in DOMAIN s.channel : s.channel[f] \in SUBSET Nat
  BY <1>1
<1> QED
  BY <1>1, <1>2 DEF ClassFns

LEMMA ClassesDef ==
    ASSUME NEW s, IsMachine(s)
    PROVE  /\ Classes(s) \in [0 .. Len(s.channel) -> Nat]
           /\ Classes(s)[0] = 1
           /\ \A f \in 1 .. Len(s.channel) :
                 Classes(s)[f] = IF f \in ClassFns(s) THEN 2 * Classes(s)[f - 1] ELSE Classes(s)[f - 1]
<1> DEFINE n == Len(s.channel)
<1> DEFINE F == ClassFns(s)
<1> DEFINE D == [q \in Nat \X (1 .. n) |-> IF q[2] \in F THEN 2 * q[1] ELSE q[1]]
<1>1. n \in Nat
  BY ChannelLength
<1> HIDE DEF n, F
<1>2. D \in [Nat \X (1 .. n) -> Nat]
  <2>1. ASSUME NEW q \in Nat \X (1 .. n)
        PROVE  (IF q[2] \in F THEN 2 * q[1] ELSE q[1]) \in Nat
    OBVIOUS
  <2> QED
    BY <2>1
<1>3. ASSUME NEW x \in Nat, NEW f \in 1 .. n
      PROVE  D[<<x, f>>] = IF f \in F THEN 2 * x ELSE x
  OBVIOUS
<1> HIDE DEF D
<1>4. PICK g \in [0 .. n -> Nat] : g[0] = 1 /\ \A f \in 1 .. n : g[f] = D[<<g[f - 1], f>>]
  <2>1. 1 \in Nat
    OBVIOUS
  <2> QED
    BY <1>1, <1>2, <2>1, LoopRuns
<1>5. ASSUME NEW f \in 1 .. n
      PROVE  g[f] = IF f \in F THEN 2 * g[f - 1] ELSE g[f - 1]
  <2>1. f - 1 \in 0 .. n
    BY <1>1
  <2>2. g[f - 1] \in Nat
    BY <1>4, <2>1
  <2> QED
    BY <1>3, <1>4, <2>2
<1>6. g = [f \in 0 .. n |-> IF f = 0 THEN 1 ELSE IF f \in F THEN 2 * g[f - 1] ELSE g[f - 1]]
  <2>1. g = [f \in 0 .. n |-> g[f]]
    BY <1>4
  <2>2. ASSUME NEW f \in 0 .. n
        PROVE  g[f] = IF f = 0 THEN 1 ELSE IF f \in F THEN 2 * g[f - 1] ELSE g[f - 1]
    <3>1. CASE f = 0
      BY <1>4, <3>1
    <3>2. CASE f # 0
      <4>1. f \in 1 .. n
        BY <1>1, <3>2
      <4> QED
        BY <1>5, <3>2, <4>1
    <3> QED
      BY <3>1, <3>2
  <2> QED
    BY <2>1, <2>2
<1> DEFINE w == CHOOSE h : h = [f \in 0 .. n |-> IF f = 0 THEN 1 ELSE
                                                 IF f \in F THEN 2 * h[f - 1] ELSE h[f - 1]]
<1>7. Classes(s) = w
  BY DEF Classes, n, F
<1>8. w = [f \in 0 .. n |-> IF f = 0 THEN 1 ELSE IF f \in F THEN 2 * w[f - 1] ELSE w[f - 1]]
  BY <1>6
<1> HIDE DEF w
<1>9. w[0] = 1
  <2>1. 0 \in 0 .. n
    BY <1>1
  <2> QED
    BY <1>8, <2>1
<1>10. ASSUME NEW f \in 1 .. n
       PROVE  w[f] = IF f \in F THEN 2 * w[f - 1] ELSE w[f - 1]
  <2>1. f \in 0 .. n /\ f # 0
    BY <1>1
  <2> QED
    BY <1>8, <2>1
<1>11. \A k \in 0 .. n : w[k] \in Nat
  <2> DEFINE T == {k \in Nat : k <= n => w[k] \in Nat}
  <2>1. 0 \in T
    BY <1>9
  <2>2. ASSUME NEW k \in Nat, k \in T
        PROVE  k + 1 \in T
    <3>1. SUFFICES ASSUME k + 1 <= n PROVE w[k + 1] \in Nat
      OBVIOUS
    <3>2. k + 1 \in 1 .. n /\ (k + 1) - 1 = k /\ k <= n
      BY <1>1, <3>1
    <3>3. w[k] \in Nat
      BY <2>2, <3>2
    <3>4. w[k + 1] = IF k + 1 \in F THEN 2 * w[k] ELSE w[k]
      BY <1>10, <3>2
    <3> QED
      BY <3>3, <3>4
  <2>3. \A k \in Nat : k \in T
    <3> HIDE DEF T
    <3> QED
      BY ONLY <2>1, <2>2, NatClosure
  <2> QED
    BY <1>1, <2>3
<1>12. w \in [0 .. n -> Nat]
  BY <1>8, <1>11
<1> QED
  BY <1>7, <1>9, <1>10, <1>12 DEF n, F


\* The class number so far after each channel function.
ClassLoop(s, C, g) ==
    /\ g \in [0 .. Len(s.channel) -> Nat]
    /\ g[0] = 0
    /\ \A f \in 1 .. Len(s.channel) :
          g[f] = g[f - 1] + (IF f \in C \cap ClassFns(s) THEN Classes(s)[f - 1] ELSE 0)
    /\ g[Len(s.channel)] = ClassOfChannel(s, C)

LEMMA ClassNumberDef ==
    ASSUME NEW s, IsMachine(s), NEW C
    PROVE  \E g : ClassLoop(s, C, g)
<1> DEFINE n == Len(s.channel)
<1> DEFINE B == C \cap ClassFns(s)
<1> DEFINE w == Classes(s)
<1> DEFINE D == [q \in Nat \X (1 .. n) |-> q[1] + (IF q[2] \in B THEN w[q[2] - 1] ELSE 0)]
<1>1. n \in Nat
  BY ChannelLength
<1>2. w \in [0 .. n -> Nat]
  BY ClassesDef
<1> HIDE DEF n, B, w
<1>3. \A f \in 1 .. n : f - 1 \in 0 .. n /\ w[f - 1] \in Nat
  BY <1>1, <1>2
<1>4. D \in [Nat \X (1 .. n) -> Nat]
  <2>1. ASSUME NEW q \in Nat \X (1 .. n)
        PROVE  q[1] + (IF q[2] \in B THEN w[q[2] - 1] ELSE 0) \in Nat
    <3>1. q[1] \in Nat /\ q[2] \in 1 .. n
      OBVIOUS
    <3>2. w[q[2] - 1] \in Nat
      BY <1>3, <3>1
    <3> QED
      BY <3>1, <3>2
  <2> QED
    BY <2>1
<1>5. ASSUME NEW x \in Nat, NEW f \in 1 .. n
      PROVE  D[<<x, f>>] = x + (IF f \in B THEN w[f - 1] ELSE 0)
  OBVIOUS
<1> HIDE DEF D
<1>6. PICK g \in [0 .. n -> Nat] : g[0] = 0 /\ \A f \in 1 .. n : g[f] = D[<<g[f - 1], f>>]
  <2>1. 0 \in Nat
    OBVIOUS
  <2> QED
    BY <1>1, <1>4, <2>1, LoopRuns
<1>7. ASSUME NEW f \in 1 .. n
      PROVE  g[f] = g[f - 1] + (IF f \in B THEN w[f - 1] ELSE 0)
  <2>1. g[f - 1] \in Nat
    BY <1>3, <1>6
  <2> QED
    BY <1>5, <1>6, <2>1
<1>8. g = [f \in 0 .. n |-> IF f = 0 THEN 0 ELSE g[f - 1] + (IF f \in B THEN w[f - 1] ELSE 0)]
  <2>1. g = [f \in 0 .. n |-> g[f]]
    BY <1>6
  <2>2. ASSUME NEW f \in 0 .. n
        PROVE  g[f] = IF f = 0 THEN 0 ELSE g[f - 1] + (IF f \in B THEN w[f - 1] ELSE 0)
    <3>1. CASE f = 0
      BY <1>6, <3>1
    <3>2. CASE f # 0
      <4>1. f \in 1 .. n
        BY <1>1, <3>2
      <4> QED
        BY <1>7, <3>2, <4>1
    <3> QED
      BY <3>1, <3>2
  <2> QED
    BY <2>1, <2>2
<1> DEFINE c == CHOOSE h : h = [f \in 0 .. n |-> IF f = 0 THEN 0 ELSE
                                     h[f - 1] + (IF f \in B THEN w[f - 1] ELSE 0)]
<1>9. ClassOfChannel(s, C) = c[n]
  BY DEF ClassOfChannel, n, B, w
<1>10. c = [f \in 0 .. n |-> IF f = 0 THEN 0 ELSE c[f - 1] + (IF f \in B THEN w[f - 1] ELSE 0)]
  BY <1>8
<1> HIDE DEF c
<1>11. c[0] = 0
  <2>1. 0 \in 0 .. n
    BY <1>1
  <2> QED
    BY <1>10, <2>1
<1>12. ASSUME NEW f \in 1 .. n
       PROVE  c[f] = c[f - 1] + (IF f \in B THEN w[f - 1] ELSE 0)
  <2>1. f \in 0 .. n /\ f # 0
    BY <1>1
  <2> QED
    BY <1>10, <2>1
<1>13. \A k \in 0 .. n : c[k] \in Nat
  <2> DEFINE T == {k \in Nat : k <= n => c[k] \in Nat}
  <2>1. 0 \in T
    BY <1>11
  <2>2. ASSUME NEW k \in Nat, k \in T
        PROVE  k + 1 \in T
    <3>1. SUFFICES ASSUME k + 1 <= n PROVE c[k + 1] \in Nat
      OBVIOUS
    <3>2. k + 1 \in 1 .. n /\ (k + 1) - 1 = k /\ k <= n
      BY <1>1, <3>1
    <3>3. c[k] \in Nat /\ w[k] \in Nat
      BY <1>3, <2>2, <3>2
    <3>4. c[k + 1] = c[k] + (IF k + 1 \in B THEN w[k] ELSE 0)
      BY <1>12, <3>2
    <3> QED
      BY <3>3, <3>4
  <2>3. \A k \in Nat : k \in T
    <3> HIDE DEF T
    <3> QED
      BY ONLY <2>1, <2>2, NatClosure
  <2> QED
    BY <1>1, <2>3
<1>14. c \in [0 .. n -> Nat]
  BY <1>10, <1>13
<1>15. ClassLoop(s, C, c)
  BY <1>9, <1>11, <1>12, <1>14 DEF ClassLoop, n, B, w
<1> QED
  BY <1>15

\* A class number is below the number of classes, and its bits are the values of the
\* page-constant functions: two channels have one class if and only if they agree on them.
LEMMA ClassNumbers ==
    ASSUME NEW s, IsMachine(s), NEW C, NEW D
    PROVE  /\ ClassOfChannel(s, C) \in 0 .. nclass(s) - 1
           /\ ClassOfChannel(s, C) = ClassOfChannel(s, D)
                 <=> C \cap ClassFns(s) = D \cap ClassFns(s)
<1> DEFINE n == Len(s.channel)
<1> DEFINE F == ClassFns(s)
<1> DEFINE w == Classes(s)
<1>1. PICK g : ClassLoop(s, C, g)
  BY ClassNumberDef
<1>2. PICK h : ClassLoop(s, D, h)
  BY ClassNumberDef
<1>3. n \in Nat /\ F \subseteq 1 .. n
  BY ChannelLength
<1>4. /\ w \in [0 .. n -> Nat] /\ w[0] = 1
      /\ \A f \in 1 .. n : w[f] = IF f \in F THEN 2 * w[f - 1] ELSE w[f - 1]
  BY ClassesDef
<1>5. /\ g \in [0 .. n -> Nat] /\ g[0] = 0
      /\ \A f \in 1 .. n : g[f] = g[f - 1] + (IF f \in C \cap F THEN w[f - 1] ELSE 0)
      /\ g[n] = ClassOfChannel(s, C)
  BY <1>1 DEF ClassLoop
<1>6. /\ h \in [0 .. n -> Nat] /\ h[0] = 0
      /\ \A f \in 1 .. n : h[f] = h[f - 1] + (IF f \in D \cap F THEN w[f - 1] ELSE 0)
      /\ h[n] = ClassOfChannel(s, D)
  BY <1>2 DEF ClassLoop
<1>7. nclass(s) = w[n]
  BY DEF nclass
<1> HIDE DEF n, F, w
<1> DEFINE Agree(k) == \A f \in 1 .. k : f \in C \cap F <=> f \in D \cap F
<1> DEFINE T == {k \in Nat : k <= n => /\ g[k] < w[k] /\ h[k] < w[k]
                                       /\ g[k] = h[k] <=> Agree(k)}
<1>8. 0 \in T
  BY <1>4, <1>5, <1>6
<1>9. ASSUME NEW k \in Nat, k \in T
      PROVE  k + 1 \in T
  <2>1. SUFFICES ASSUME k + 1 <= n
                 PROVE  /\ g[k + 1] < w[k + 1] /\ h[k + 1] < w[k + 1]
                        /\ g[k + 1] = h[k + 1] <=> Agree(k + 1)
    OBVIOUS
  <2>2. k + 1 \in 1 .. n /\ (k + 1) - 1 = k /\ k <= n /\ k \in 0 .. n
    BY <1>3, <2>1
  <2>3. g[k] < w[k] /\ h[k] < w[k] /\ (g[k] = h[k] <=> Agree(k))
    BY <1>9, <2>2
  <2>4. g[k] \in Nat /\ h[k] \in Nat /\ w[k] \in Nat
    BY <1>4, <1>5, <1>6, <2>2
  <2>5. /\ w[k + 1] = IF k + 1 \in F THEN 2 * w[k] ELSE w[k]
        /\ g[k + 1] = g[k] + (IF k + 1 \in C \cap F THEN w[k] ELSE 0)
        /\ h[k + 1] = h[k] + (IF k + 1 \in D \cap F THEN w[k] ELSE 0)
    BY <1>4, <1>5, <1>6, <2>2
  <2>6. Agree(k + 1) <=> Agree(k) /\ (k + 1 \in C \cap F <=> k + 1 \in D \cap F)
    <3>1. 1 .. k + 1 = (1 .. k) \cup {k + 1}
      OBVIOUS
    <3> QED
      BY <3>1
  <2> HIDE DEF Agree, T
  <2>7. CASE k + 1 \in F
    BY <2>3, <2>4, <2>5, <2>6, <2>7
  <2>8. CASE k + 1 \notin F
    BY <2>3, <2>4, <2>5, <2>6, <2>8
  <2> QED
    BY <2>7, <2>8
<1>10. n \in T
  <2> HIDE DEF T
  <2>1. \A k \in Nat : k \in T => k + 1 \in T
    BY <1>9
  <2> QED
    BY ONLY <1>3, <1>8, <2>1, NatClosure
<1>11. g[n] < w[n] /\ (g[n] = h[n] <=> Agree(n))
  BY <1>3, <1>10
<1>12. g[n] \in Nat /\ w[n] \in Nat
  BY <1>3, <1>4, <1>5
<1>13. Agree(n) <=> C \cap F = D \cap F
  <2>1. C \cap F \subseteq 1 .. n /\ D \cap F \subseteq 1 .. n
    BY <1>3
  <2> QED
    BY <2>1
<1>14. ClassOfChannel(s, C) \in 0 .. w[n] - 1
  BY <1>5, <1>11, <1>12
<1> QED
  BY <1>5, <1>6, <1>7, <1>11, <1>13, <1>14 DEF F

------------------------------------------------------------------------------
(* The offset bits of a page and the channels they reach.                  *)

XorSet(A, B) == (A \ B) \cup (B \ A)

\* The parity of an XOR is the XOR of the parities.
LEMMA ParityXor ==
    ASSUME NEW A, NEW B, IsFiniteSet(A), IsFiniteSet(B)
    PROVE  Parity(XorSet(A, B)) = 1 <=> ~(Parity(A) = 1 <=> Parity(B) = 1)
<1>1. /\ IsFiniteSet(A \cup B)
      /\ Cardinality(A \cup B) = Cardinality(A) + Cardinality(B) - Cardinality(A \cap B)
  BY FS_Union
<1>2. /\ IsFiniteSet(XorSet(A, B))
      /\ Cardinality(XorSet(A, B)) =
            Cardinality(A \cup B) - Cardinality((A \cup B) \cap (A \cap B))
  <2>1. XorSet(A, B) = (A \cup B) \ (A \cap B)
    BY DEF XorSet
  <2> QED
    BY <1>1, <2>1, FS_Difference
<1>3. Cardinality((A \cup B) \cap (A \cap B)) = Cardinality(A \cap B)
  <2>1. (A \cup B) \cap (A \cap B) = A \cap B
    OBVIOUS
  <2> QED
    BY <2>1
<1>4. /\ Cardinality(A) \in Nat
      /\ Cardinality(B) \in Nat
      /\ Cardinality(A \cap B) \in Nat
      /\ Cardinality(A \cup B) \in Nat
      /\ Cardinality(XorSet(A, B)) \in Nat
  BY <1>1, <1>2, FS_CardinalityType, FS_Intersection
<1>5. Cardinality(XorSet(A, B)) =
          Cardinality(A) + Cardinality(B) - 2 * Cardinality(A \cap B)
  BY <1>1, <1>2, <1>3, <1>4
<1> QED
  BY <1>4, <1>5 DEF Parity

\* The channel functions are linear.
LEMMA SelectedXor ==
    ASSUME NEW s, NEW A, NEW B, IsFiniteSet(A), IsFiniteSet(B)
    PROVE  Selected(s, XorSet(A, B)) = XorSet(Selected(s, A), Selected(s, B))
<1>1. ASSUME NEW f \in DOMAIN s.channel
      PROVE  Parity(s.channel[f] \cap XorSet(A, B)) = 1
                 <=> ~(Parity(s.channel[f] \cap A) = 1 <=> Parity(s.channel[f] \cap B) = 1)
  <2> DEFINE a == s.channel[f] \cap A
  <2> DEFINE b == s.channel[f] \cap B
  <2>1. IsFiniteSet(a) /\ IsFiniteSet(b)
    <3>1. a \subseteq A /\ b \subseteq B
      OBVIOUS
    <3> QED
      BY ONLY <3>1, FS_Subset, IsFiniteSet(A), IsFiniteSet(B)
  <2>2. s.channel[f] \cap XorSet(A, B) = XorSet(a, b)
    BY DEF XorSet
  <2> HIDE DEF a, b
  <2>3. Parity(XorSet(a, b)) = 1 <=> ~(Parity(a) = 1 <=> Parity(b) = 1)
    BY ONLY <2>1, ParityXor
  <2> QED
    BY <2>2, <2>3 DEF a, b
<1> QED
  BY <1>1 DEF Selected, XorSet

LEMMA XorSets ==
    ASSUME NEW U, NEW A \in SUBSET U, NEW B \in SUBSET U
    PROVE  /\ XorSet(A, B) \in SUBSET U
           /\ XorSet(XorSet(A, B), B) = A
           /\ XorSet(A, {}) = A
           /\ XorSet(B, A) = XorSet(A, B)
BY DEF XorSet

LEMMA OffsetsFinite ==
    ASSUME NEW s
    PROVE  /\ IsFiniteSet(ChannelOffsets(s))
           /\ \A o \in ChannelOffsets(s) : IsFiniteSet(o) /\ o \subseteq InPage
<1> DEFINE V == InPage \cap UNION {s.channel[f] : f \in DOMAIN s.channel}
<1>1. IsFiniteSet(InPage)
  BY MachineAssumption, FS_Interval DEF InPage
<1>2. V \subseteq InPage /\ ChannelOffsets(s) = SUBSET V
  BY DEF ChannelOffsets
<1> HIDE DEF V
<1>3. IsFiniteSet(V)
  BY ONLY <1>1, <1>2, FS_Subset
<1>4. IsFiniteSet(SUBSET V)
  BY ONLY <1>3, FS_SUBSET
<1>5. ASSUME NEW o \in SUBSET V
      PROVE  IsFiniteSet(o) /\ o \subseteq InPage
  <2>1. o \subseteq V
    OBVIOUS
  <2> QED
    BY <1>2, <1>3, <2>1, FS_Subset
<1> QED
  BY <1>2, <1>4, <1>5

\* XOR-ing offsets gives an offset, and XORs what they select.
LEMMA OffsetsXor ==
    ASSUME NEW s, NEW o \in ChannelOffsets(s), NEW u \in ChannelOffsets(s)
    PROVE  /\ XorSet(o, u) \in ChannelOffsets(s)
           /\ Selected(s, XorSet(o, u)) = XorSet(Selected(s, o), Selected(s, u))
<1>1. XorSet(o, u) \in ChannelOffsets(s)
  BY DEF ChannelOffsets, XorSet
<1>2. IsFiniteSet(o) /\ IsFiniteSet(u)
  BY OffsetsFinite
<1> QED
  BY <1>1, <1>2, SelectedXor

\* Offset bits change no page-constant function.
LEMMA OffsetsToggle ==
    ASSUME NEW s, NEW o \in ChannelOffsets(s)
    PROVE  Selected(s, o) \in SUBSET (DOMAIN s.channel \ ClassFns(s))
<1>1. ASSUME NEW f \in ClassFns(s)
      PROVE  Parity(s.channel[f] \cap o) # 1
  <2>1. o \subseteq InPage
    BY OffsetsFinite
  <2>2. s.channel[f] \cap o = {}
    BY <2>1 DEF ClassFns
  <2>3. Cardinality({}) = 0
    BY FS_EmptySet
  <2> QED
    BY <2>2, <2>3 DEF Parity
<1> QED
  BY <1>1 DEF Selected

\* A page's base and its offsets share no bits.
LEMMA ChannelXor ==
    ASSUME NEW s, NEW p, NEW o \in ChannelOffsets(s)
    PROVE  ChannelsAt(s, p, o) = XorSet(Selected(s, DramBase(p)), Selected(s, o))
<1> DEFINE B == {b \in 0 .. 15 : (DramPage(p) \div 2 ^ b) % 2 = 1}
<1>1. IsFiniteSet(o) /\ o \subseteq InPage
  BY OffsetsFinite
<1>2. DramBase(p) = {PageBits + b : b \in B}
  BY DEF DramBase
<1>3. B \subseteq 0 .. 15
  OBVIOUS
<1> HIDE DEF B
<1>4. DramBase(p) \subseteq PageBits .. PageBits + 15
  BY <1>2, <1>3, MachineAssumption
<1>5. IsFiniteSet(PageBits .. PageBits + 15)
  BY MachineAssumption, FS_Interval
<1>6. IsFiniteSet(DramBase(p))
  BY ONLY <1>4, <1>5, FS_Subset
<1>7. DramBase(p) \cap o = {}
  BY <1>1, <1>4, MachineAssumption DEF InPage
<1>8. DramBase(p) \cup o = XorSet(DramBase(p), o)
  BY <1>7 DEF XorSet
<1> QED
  BY <1>1, <1>6, <1>8, SelectedXor DEF ChannelsAt

\* The channels of a class are the ones its pages reach.
LEMMA ReachedClass ==
    ASSUME NEW s, IsMachine(s), NEW p, NEW o \in ChannelOffsets(s)
    PROVE  /\ ChannelsAt(s, p, o) \in SUBSET DOMAIN s.channel
           /\ ClassOfChannel(s, ChannelsAt(s, p, o)) = classify(s, DramBase(p))
<1> DEFINE B == Selected(s, DramBase(p))
<1>1. B \in SUBSET DOMAIN s.channel
  BY DEF Selected
<1>2. Selected(s, o) \in SUBSET (DOMAIN s.channel \ ClassFns(s))
  BY OffsetsToggle
<1>3. ChannelsAt(s, p, o) = XorSet(B, Selected(s, o))
  BY ChannelXor
<1>4. classify(s, DramBase(p)) = ClassOfChannel(s, B)
  BY DEF classify
<1> HIDE DEF B
<1>5. ChannelsAt(s, p, o) \cap ClassFns(s) = B \cap ClassFns(s)
  BY <1>2, <1>3 DEF XorSet
<1>6. ClassOfChannel(s, ChannelsAt(s, p, o)) = ClassOfChannel(s, B)
  BY <1>5, ClassNumbers
<1> QED
  BY <1>1, <1>2, <1>3, <1>4, <1>6 DEF XorSet

\* Every channel of a page's class is reached by some offset.
LEMMA ReachedSomewhere ==
    ASSUME NEW s, IsMachine(s), Independent(s), NEW p, NEW C \in SUBSET DOMAIN s.channel,
           ClassOfChannel(s, C) = classify(s, DramBase(p))
    PROVE  \E o \in ChannelOffsets(s) : ChannelsAt(s, p, o) = C
<1> DEFINE B == Selected(s, DramBase(p))
<1>1. B \in SUBSET DOMAIN s.channel
  BY DEF Selected
<1>2. classify(s, DramBase(p)) = ClassOfChannel(s, B)
  BY DEF classify
<1> HIDE DEF B
<1>3. C \cap ClassFns(s) = B \cap ClassFns(s)
  BY <1>2, ClassNumbers
<1>4. XorSet(C, B) \in SUBSET (DOMAIN s.channel \ ClassFns(s))
  BY <1>1, <1>3 DEF XorSet
<1>5. PICK o \in ChannelOffsets(s) : Selected(s, o) = XorSet(C, B)
  BY <1>4 DEF Independent
<1>6. ChannelsAt(s, p, o) = XorSet(B, XorSet(C, B))
  BY <1>5, ChannelXor DEF B
<1>7. XorSet(B, XorSet(C, B)) = C
  BY DEF XorSet
<1> QED
  BY <1>6, <1>7

\* The offsets at which every channel function is 0.
Kernel(s) == {o \in ChannelOffsets(s) : Selected(s, o) = {}}

LEMMA KernelShifts ==
    ASSUME NEW s, NEW p, NEW o \in ChannelOffsets(s)
    PROVE  /\ \A k \in Kernel(s) : /\ XorSet(k, o) \in ChannelOffsets(s)
                                   /\ ChannelsAt(s, p, XorSet(k, o)) = ChannelsAt(s, p, o)
           /\ \A u \in ChannelOffsets(s) :
                 ChannelsAt(s, p, u) = ChannelsAt(s, p, o) => XorSet(u, o) \in Kernel(s)
<1> DEFINE B == Selected(s, DramBase(p))
<1>1. ASSUME NEW k \in Kernel(s)
      PROVE  /\ XorSet(k, o) \in ChannelOffsets(s)
             /\ ChannelsAt(s, p, XorSet(k, o)) = ChannelsAt(s, p, o)
  <2>1. k \in ChannelOffsets(s) /\ Selected(s, k) = {}
    BY DEF Kernel
  <2>2. /\ XorSet(k, o) \in ChannelOffsets(s)
        /\ Selected(s, XorSet(k, o)) = XorSet({}, Selected(s, o))
    BY <2>1, OffsetsXor
  <2>3. XorSet({}, Selected(s, o)) = Selected(s, o)
    BY DEF XorSet
  <2> QED
    BY <2>2, <2>3, ChannelXor
<1>2. ASSUME NEW u \in ChannelOffsets(s), ChannelsAt(s, p, u) = ChannelsAt(s, p, o)
      PROVE  XorSet(u, o) \in Kernel(s)
  <2>1. XorSet(B, Selected(s, u)) = XorSet(B, Selected(s, o))
    BY <1>2, ChannelXor
  <2>2. Selected(s, u) = Selected(s, o)
    <3> HIDE DEF B
    <3> QED
      BY <2>1 DEF XorSet
  <2>3. XorSet(Selected(s, u), Selected(s, o)) = {}
    BY <2>2 DEF XorSet
  <2> QED
    BY <2>3, OffsetsXor DEF Kernel
<1> QED
  BY <1>1, <1>2

LEMMA KernelFinite ==
    ASSUME NEW s
    PROVE  IsFiniteSet(Kernel(s)) /\ Cardinality(Kernel(s)) \in Nat
<1>1. Kernel(s) \subseteq ChannelOffsets(s)
  BY DEF Kernel
<1> QED
  BY <1>1, OffsetsFinite, FS_Subset, FS_CardinalityType

\* XOR with one set undoes itself.
LEMMA XorTwice ==
    ASSUME NEW A, NEW B
    PROVE  XorSet(XorSet(A, B), B) = A
BY DEF XorSet

\* The places at which pages of one class use a channel: as many as the pages, times the
\* offsets that leave the channel alone.
Places(s, T, page, C) == {h \in T \X ChannelOffsets(s) : ChannelsAt(s, page[h[1]], h[2]) = C}

LEMMA PlacesOfClass ==
    ASSUME NEW s, IsMachine(s), Independent(s), NEW T, IsFiniteSet(T), NEW page,
           NEW C \in SUBSET DOMAIN s.channel,
           \A t \in T : ClassOfChannel(s, C) = classify(s, DramBase(page[t]))
    PROVE  Cardinality(Places(s, T, page, C)) = Cardinality(T) * Cardinality(Kernel(s))
<1> DEFINE shift == [t \in T |-> CHOOSE o \in ChannelOffsets(s) : ChannelsAt(s, page[t], o) = C]
<1>1. ASSUME NEW t \in T
      PROVE  shift[t] \in ChannelOffsets(s) /\ ChannelsAt(s, page[t], shift[t]) = C
  <2>1. \E o \in ChannelOffsets(s) : ChannelsAt(s, page[t], o) = C
    BY ReachedSomewhere
  <2> QED
    BY <2>1
<1> HIDE DEF shift
<1> DEFINE f == [q \in T \X Kernel(s) |-> <<q[1], XorSet(q[2], shift[q[1]])>>]
<1>2. ASSUME NEW t \in T, NEW k \in Kernel(s)
      PROVE  /\ f[<<t, k>>] = <<t, XorSet(k, shift[t])>>
             /\ f[<<t, k>>] \in Places(s, T, page, C)
  <2>1. f[<<t, k>>] = <<t, XorSet(k, shift[t])>>
    OBVIOUS
  <2>2. /\ XorSet(k, shift[t]) \in ChannelOffsets(s)
        /\ ChannelsAt(s, page[t], XorSet(k, shift[t])) = C
    BY <1>1, KernelShifts
  <2> HIDE DEF f
  <2> QED
    BY <2>1, <2>2 DEF Places
<1>3. f \in [T \X Kernel(s) -> Places(s, T, page, C)]
  <2>1. \A q \in T \X Kernel(s) : q = <<q[1], q[2]>> /\ q[1] \in T /\ q[2] \in Kernel(s)
    OBVIOUS
  <2>2. \A q \in T \X Kernel(s) : f[q] \in Places(s, T, page, C)
    <3> HIDE DEF f
    <3> QED
      BY <1>2, <2>1
  <2>3. f = [q \in T \X Kernel(s) |-> f[q]]
    OBVIOUS
  <2> HIDE DEF f
  <2> QED
    BY <2>2, <2>3
<1>4. ASSUME NEW t \in T, NEW k \in Kernel(s), NEW u \in T, NEW l \in Kernel(s),
             f[<<t, k>>] = f[<<u, l>>]
      PROVE  t = u /\ k = l
  <2>1. <<t, XorSet(k, shift[t])>> = <<u, XorSet(l, shift[u])>>
    <3> HIDE DEF f
    <3> QED
      BY <1>2, <1>4
  <2>2. t = u /\ XorSet(k, shift[t]) = XorSet(l, shift[t])
    BY <2>1
  <2> QED
    BY <2>2, XorTwice
<1>5. ASSUME NEW h \in Places(s, T, page, C)
      PROVE  \E q \in T \X Kernel(s) : f[q] = h
  <2>1. /\ h = <<h[1], h[2]>> /\ h[1] \in T /\ h[2] \in ChannelOffsets(s)
        /\ ChannelsAt(s, page[h[1]], h[2]) = C
    BY DEF Places
  <2>2. shift[h[1]] \in ChannelOffsets(s) /\ ChannelsAt(s, page[h[1]], shift[h[1]]) = C
    BY <1>1, <2>1
  <2> DEFINE k == XorSet(h[2], shift[h[1]])
  <2>3. k \in Kernel(s)
    BY <2>1, <2>2, KernelShifts
  <2>4. XorSet(k, shift[h[1]]) = h[2]
    BY XorTwice
  <2> HIDE DEF k, f
  <2>5. f[<<h[1], k>>] = <<h[1], h[2]>>
    BY <1>2, <2>1, <2>3, <2>4
  <2>6. <<h[1], k>> \in T \X Kernel(s)
    BY <2>1, <2>3
  <2> QED
    BY <2>1, <2>5, <2>6
<1> HIDE DEF f
<1>6. f \in Bijection(T \X Kernel(s), Places(s, T, page, C))
  <2>1. \A q, r \in T \X Kernel(s) : f[q] = f[r] => q = r
    <3>1. ASSUME NEW q \in T \X Kernel(s), NEW r \in T \X Kernel(s), f[q] = f[r]
          PROVE  q = r
      <4>1. /\ q = <<q[1], q[2]>> /\ q[1] \in T /\ q[2] \in Kernel(s)
            /\ r = <<r[1], r[2]>> /\ r[1] \in T /\ r[2] \in Kernel(s)
        OBVIOUS
      <4>2. f[<<q[1], q[2]>>] = f[<<r[1], r[2]>>]
        BY <3>1, <4>1
      <4>3. q[1] = r[1] /\ q[2] = r[2]
        BY <1>4, <4>1, <4>2
      <4> QED
        BY <4>1, <4>3
    <3> QED
      BY <3>1
  <2>2. f \in Injection(T \X Kernel(s), Places(s, T, page, C))
    BY <1>3, <2>1 DEF Injection, IsInjective
  <2>3. f \in Surjection(T \X Kernel(s), Places(s, T, page, C))
    BY <1>3, <1>5 DEF Surjection
  <2> QED
    BY <2>2, <2>3 DEF Bijection
<1>7. /\ IsFiniteSet(T \X Kernel(s))
      /\ Cardinality(T \X Kernel(s)) = Cardinality(T) * Cardinality(Kernel(s))
  BY KernelFinite, FS_Product
<1>8. ExistsBijection(T \X Kernel(s), Places(s, T, page, C))
  BY <1>6 DEF ExistsBijection
<1> QED
  BY <1>7, <1>8, FS_Bijection

\* A page's channels are reached equally often.
LEMMA ReachingOne ==
    ASSUME NEW s, IsMachine(s), Independent(s), NEW p, NEW C \in SUBSET DOMAIN s.channel,
           ClassOfChannel(s, C) = classify(s, DramBase(p))
    PROVE  Cardinality(Reaching(s, p, C)) = Cardinality(Kernel(s))
<1>1. PICK o \in ChannelOffsets(s) : ChannelsAt(s, p, o) = C
  BY ReachedSomewhere
<1> DEFINE f == [k \in Kernel(s) |-> XorSet(k, o)]
<1>2. ASSUME NEW k \in Kernel(s)
      PROVE  f[k] = XorSet(k, o) /\ f[k] \in Reaching(s, p, C)
  <2>1. f[k] = XorSet(k, o)
    OBVIOUS
  <2>2. XorSet(k, o) \in ChannelOffsets(s) /\ ChannelsAt(s, p, XorSet(k, o)) = C
    BY <1>1, KernelShifts
  <2> HIDE DEF f
  <2> QED
    BY <2>1, <2>2 DEF Reaching
<1>3. f \in [Kernel(s) -> Reaching(s, p, C)]
  <2>1. f = [k \in Kernel(s) |-> f[k]]
    OBVIOUS
  <2> HIDE DEF f
  <2> QED
    BY <1>2, <2>1
<1>4. \A k, l \in Kernel(s) : f[k] = f[l] => k = l
  <2> HIDE DEF f
  <2> QED
    BY <1>2, XorTwice
<1>5. ASSUME NEW u \in Reaching(s, p, C)
      PROVE  \E k \in Kernel(s) : f[k] = u
  <2>1. u \in ChannelOffsets(s) /\ ChannelsAt(s, p, u) = ChannelsAt(s, p, o)
    BY <1>1 DEF Reaching
  <2>2. XorSet(u, o) \in Kernel(s)
    BY <2>1, KernelShifts
  <2> HIDE DEF f
  <2>3. f[XorSet(u, o)] = u
    BY <1>2, <2>2, XorTwice
  <2> QED
    BY <2>2, <2>3
<1> HIDE DEF f
<1>6. f \in Injection(Kernel(s), Reaching(s, p, C))
  BY <1>3, <1>4 DEF Injection, IsInjective
<1>7. f \in Surjection(Kernel(s), Reaching(s, p, C))
  BY <1>3, <1>5 DEF Surjection
<1>8. ExistsBijection(Kernel(s), Reaching(s, p, C))
  BY <1>6, <1>7 DEF ExistsBijection, Bijection
<1> QED
  BY <1>8, KernelFinite, FS_Bijection

\* The offsets of a page are shared out among the channels of its class.
LEMMA OffsetsShared ==
    ASSUME NEW s, IsMachine(s), Independent(s), NEW p
    PROVE  LET D == ChannelsOfClass(s, classify(s, DramBase(p)))
           IN  /\ Cardinality(D) \in Nat
               /\ Cardinality(ChannelOffsets(s)) = Cardinality(Kernel(s)) * Cardinality(D)
<1> DEFINE D == ChannelsOfClass(s, classify(s, DramBase(p)))
<1> SUFFICES /\ Cardinality(D) \in Nat
             /\ Cardinality(ChannelOffsets(s)) = Cardinality(Kernel(s)) * Cardinality(D)
  OBVIOUS
<1>1. ASSUME NEW C \in D
      PROVE  C \in SUBSET DOMAIN s.channel /\ ClassOfChannel(s, C) = classify(s, DramBase(p))
  BY DEF ChannelsOfClass
<1>2. ASSUME NEW o \in ChannelOffsets(s)
      PROVE  ChannelsAt(s, p, o) \in D
  BY ReachedClass DEF ChannelsOfClass
<1>3. IsFiniteSet(D) /\ Cardinality(D) \in Nat
  <2>1. IsFiniteSet(DOMAIN s.channel)
    BY ChannelLength, FS_Interval
  <2>2. IsFiniteSet(SUBSET DOMAIN s.channel)
    BY ONLY <2>1, FS_SUBSET
  <2>3. D \subseteq SUBSET DOMAIN s.channel
    BY <1>1
  <2> HIDE DEF D
  <2> QED
    BY ONLY <2>2, <2>3, FS_Subset, FS_CardinalityType
<1> DEFINE rep == [C \in D |-> CHOOSE o \in ChannelOffsets(s) : ChannelsAt(s, p, o) = C]
<1>4. ASSUME NEW C \in D
      PROVE  rep[C] \in ChannelOffsets(s) /\ ChannelsAt(s, p, rep[C]) = C
  <2>1. \E o \in ChannelOffsets(s) : ChannelsAt(s, p, o) = C
    BY <1>1, ReachedSomewhere
  <2> HIDE DEF D
  <2> QED
    BY <2>1
<1> HIDE DEF D, rep
<1> DEFINE f == [q \in Kernel(s) \X D |-> XorSet(q[1], rep[q[2]])]
<1>5. ASSUME NEW k \in Kernel(s), NEW C \in D
      PROVE  /\ f[<<k, C>>] = XorSet(k, rep[C]) /\ f[<<k, C>>] \in ChannelOffsets(s)
             /\ ChannelsAt(s, p, f[<<k, C>>]) = C
  <2>1. f[<<k, C>>] = XorSet(k, rep[C])
    OBVIOUS
  <2> HIDE DEF f
  <2> QED
    BY <1>4, <2>1, KernelShifts
<1>6. \A q \in Kernel(s) \X D : q = <<q[1], q[2]>> /\ q[1] \in Kernel(s) /\ q[2] \in D
  OBVIOUS
<1>7. f \in [Kernel(s) \X D -> ChannelOffsets(s)]
  <2>1. f = [q \in Kernel(s) \X D |-> f[q]]
    OBVIOUS
  <2> HIDE DEF f
  <2>2. \A q \in Kernel(s) \X D : f[q] \in ChannelOffsets(s)
    BY <1>5, <1>6
  <2> QED
    BY <2>1, <2>2
<1> HIDE DEF f
<1>8. ASSUME NEW q \in Kernel(s) \X D, NEW r \in Kernel(s) \X D, f[q] = f[r]
      PROVE  q = r
  <2>1. /\ q = <<q[1], q[2]>> /\ q[1] \in Kernel(s) /\ q[2] \in D
        /\ r = <<r[1], r[2]>> /\ r[1] \in Kernel(s) /\ r[2] \in D
    BY <1>6
  <2>2. f[<<q[1], q[2]>>] = f[<<r[1], r[2]>>]
    BY <1>8, <2>1
  <2>3. q[2] = r[2]
    BY <1>5, <2>1, <2>2
  <2>4. XorSet(q[1], rep[q[2]]) = XorSet(r[1], rep[q[2]])
    BY <1>5, <2>1, <2>2, <2>3
  <2>5. q[1] = r[1]
    BY <2>4, XorTwice
  <2> QED
    BY <2>1, <2>3, <2>5
<1>9. ASSUME NEW o \in ChannelOffsets(s)
      PROVE  \E q \in Kernel(s) \X D : f[q] = o
  <2> DEFINE C == ChannelsAt(s, p, o)
  <2>1. C \in D
    BY <1>2
  <2>2. rep[C] \in ChannelOffsets(s) /\ ChannelsAt(s, p, o) = ChannelsAt(s, p, rep[C])
    BY <1>4, <2>1
  <2> HIDE DEF C
  <2>3. XorSet(o, rep[C]) \in Kernel(s)
    BY <2>2, KernelShifts
  <2>4. f[<<XorSet(o, rep[C]), C>>] = o
    BY <1>5, <2>1, <2>3, XorTwice
  <2>5. <<XorSet(o, rep[C]), C>> \in Kernel(s) \X D
    BY <2>1, <2>3
  <2> QED
    BY <2>4, <2>5
<1>10. f \in Injection(Kernel(s) \X D, ChannelOffsets(s))
  BY <1>7, <1>8 DEF Injection, IsInjective
<1>11. f \in Surjection(Kernel(s) \X D, ChannelOffsets(s))
  BY <1>7, <1>9 DEF Surjection
<1>12. ExistsBijection(Kernel(s) \X D, ChannelOffsets(s))
  BY <1>10, <1>11 DEF ExistsBijection, Bijection
<1>13. /\ IsFiniteSet(Kernel(s) \X D)
       /\ Cardinality(Kernel(s) \X D) = Cardinality(Kernel(s)) * Cardinality(D)
  BY <1>3, KernelFinite, FS_Product
<1> QED
  BY <1>3, <1>12, <1>13, FS_Bijection

\* hugepage_alloc.h:115-119: under any mapping whose other channel functions are
\* independent in a page, the addresses of any page reach every channel of its class,
\* equally often, and no other channel.
THEOREM PagesReachTheirChannels ==
    ASSUME NEW s, s.channel \in Seq(SUBSET Nat), Independent(s), NEW p
    PROVE  ReachesItsChannels(s, p)
<1> DEFINE D == ChannelsOfClass(s, classify(s, DramBase(p)))
<1>1. IsMachine(s)
  BY DEF IsMachine
<1>2. Cardinality(D) \in Nat /\ Cardinality(ChannelOffsets(s)) = Cardinality(Kernel(s)) * Cardinality(D)
  BY <1>1, OffsetsShared
<1>3. ASSUME NEW C \in SUBSET DOMAIN s.channel
      PROVE  Cardinality(Reaching(s, p, C)) * Cardinality(D) =
                 IF C \in D THEN Cardinality(ChannelOffsets(s)) ELSE 0
  <2>1. CASE C \in D
    <3>1. ClassOfChannel(s, C) = classify(s, DramBase(p))
      BY <2>1 DEF ChannelsOfClass
    <3>2. Cardinality(Reaching(s, p, C)) = Cardinality(Kernel(s))
      BY <1>1, <3>1, ReachingOne
    <3> HIDE DEF D
    <3> QED
      BY <1>2, <2>1, <3>2
  <2>2. CASE C \notin D
    <3>1. Reaching(s, p, C) = {}
      <4>1. ASSUME NEW o \in ChannelOffsets(s)
            PROVE  ChannelsAt(s, p, o) \in D
        BY <1>1, ReachedClass DEF ChannelsOfClass
      <4> HIDE DEF D
      <4> QED
        BY <2>2, <4>1 DEF Reaching
    <3>2. Cardinality(Reaching(s, p, C)) = 0
      BY <3>1, FS_EmptySet
    <3> HIDE DEF D
    <3> QED
      BY <1>2, <2>2, <3>2
  <2> QED
    BY <2>1, <2>2
<1> QED
  BY <1>3 DEF ReachesItsChannels

------------------------------------------------------------------------------
(* Balanced regions use the channels evenly.                               *)

\* PageGrant grants a region as even only if it has the quota of every class, and the
\* region stays as it is until it is released.
EvenRegion == ReportedEven => Grant!EvenMix(GrantedRegion)

LEMMA EvenInit == Grant!Init => EvenRegion
BY DEF Grant!Init, EvenRegion

LEMMA EvenStep == EvenRegion /\ [Grant!Next]_(Grant!vars) => EvenRegion'
<1> SUFFICES ASSUME EvenRegion, [Grant!Next]_(Grant!vars), ReportedEven'
             PROVE  Grant!EvenMix(GrantedRegion)'
  BY DEF EvenRegion
<1>1. CASE Grant!Take \/ Grant!GiveBack \/ Grant!Refuse \/ Grant!Others \/ UNCHANGED Grant!vars
  <2>1. ReportedEven' = ReportedEven /\ GrantedRegion' = GrantedRegion
    BY <1>1 DEF Grant!Take, Grant!GiveBack, Grant!Refuse, Grant!Others, Grant!vars
  <2> QED
    BY <2>1 DEF EvenRegion, Grant!EvenMix, Grant!Slot, Grant!Quota
<1>2. CASE Grant!Grant
  BY <1>2 DEF Grant!Grant, Grant!EvenMix, Grant!Slot, Grant!Quota
<1>3. CASE Grant!End("asking", "dead") \/ Grant!End("granted", "released")
  BY <1>3 DEF Grant!End
<1> QED
  BY <1>1, <1>2, <1>3 DEF Grant!Next

LEMMA EvenGranted == GrantsPages => []EvenRegion
BY EvenInit, EvenStep, PTL DEF GrantsPages, Grant!Spec

\* The slots of a region with a page of one class.
SlotsOf(k) == {t \in Slot : PageClass[RegionPage(t)] = k}

LEMMA EvenQuotas ==
    ASSUME EvenRegion, pc = "ready", balanced, NEW k \in Class
    PROVE  Cardinality(SlotsOf(k)) = Quota(k)
<1>1. ReportedEven /\ GrantedRegion = RegionOf
  BY DEF ReportedEven, GrantedRegion
<1>2. Grant!Cardinality({s \in Grant!Slot : PageClass[RegionOf[s]] = k}) = Grant!Quota(k)
  BY <1>1 DEF EvenRegion, Grant!EvenMix, Class
<1>3. Grant!Quota(k) = Quota(k) /\ Grant!Slot = Slot
  BY DEF Grant!Quota, Quota, Grant!Slot, Slot
<1>4. {s \in Grant!Slot : PageClass[RegionOf[s]] = k} = SlotsOf(k)
  BY <1>3 DEF RegionOf, SlotsOf
<1> QED
  BY <1>2, <1>3, <1>4, SameCount

\* A channel is used as often as its class has pages, times the offsets that leave the
\* channel alone.
LEMMA UsesOfChannel ==
    ASSUME IInv, EvenRegion, pc = "ready", balanced, NEW C \in SUBSET DOMAIN Machine.channel
    PROVE  /\ QuotaOf(C) \in Nat
           /\ Uses(C) = QuotaOf(C) * Cardinality(Kernel(Machine))
<1> DEFINE k == ClassOfChannel(Machine, C)
<1> DEFINE T == SlotsOf(k)
<1> DEFINE U == {h \in Slot \X ChannelOffsets(Machine) :
                     ChannelsAt(Machine, RegionPage(h[1]), h[2]) = C}
<1>1. IsMachine(Machine) /\ Independent(Machine)
  BY MachineAssumption, IndependenceAssumption DEF IsMachine
<1>2. k \in Class
  BY <1>1, ClassNumbers, MachineAssumption DEF Class
<1>3. ASSUME NEW t \in Slot
      PROVE  /\ PageClass[RegionPage(t)] = classify(Machine, DramBase(RegionPage(t)))
             /\ RegionOf[t] = RegionPage(t)
  <2>1. RegionPage(t) \in Page
    BY Distinct DEF NoAliasing, RegionPages
  <2> QED
    BY <2>1, MachineAssumption DEF RegionOf
<1>4. T \subseteq Slot /\ \A t \in Slot : t \in T <=> PageClass[RegionPage(t)] = k
  BY DEF SlotsOf
<1>5. IsFiniteSet(T)
  BY <1>4, SlotCount, FS_Subset
<1>6. Cardinality(T) = Quota(k)
  BY <1>2, EvenQuotas
<1>7. Uses(C) = Cardinality(U)
  BY DEF Uses
<1>8. QuotaOf(C) = Quota(k)
  BY DEF QuotaOf
<1> HIDE DEF T
<1>9. U = Places(Machine, T, RegionOf, C)
  <2>1. ASSUME NEW t \in Slot, NEW o \in ChannelOffsets(Machine),
               ChannelsAt(Machine, RegionPage(t), o) = C
        PROVE  t \in T
    <3>1. k = classify(Machine, DramBase(RegionPage(t)))
      BY <1>1, <2>1, ReachedClass
    <3> HIDE DEF k
    <3> QED
      BY <1>3, <1>4, <3>1
  <2> HIDE DEF k
  <2>2. ASSUME NEW h \in U
        PROVE  h \in Places(Machine, T, RegionOf, C)
    <3>1. h[1] \in Slot /\ h[2] \in ChannelOffsets(Machine) /\ h = <<h[1], h[2]>>
      OBVIOUS
    <3>2. ChannelsAt(Machine, RegionPage(h[1]), h[2]) = C
      OBVIOUS
    <3>3. h[1] \in T /\ RegionOf[h[1]] = RegionPage(h[1])
      BY <1>3, <2>1, <3>1, <3>2
    <3> HIDE DEF U
    <3>4. h \in T \X ChannelOffsets(Machine)
      BY <3>1, <3>3
    <3> QED
      BY <3>2, <3>3, <3>4 DEF Places
  <2>3. ASSUME NEW h \in Places(Machine, T, RegionOf, C)
        PROVE  h \in U
    <3>1. /\ h \in T \X ChannelOffsets(Machine)
          /\ ChannelsAt(Machine, RegionOf[h[1]], h[2]) = C
      BY DEF Places
    <3>2. h[1] \in T /\ h[2] \in ChannelOffsets(Machine) /\ h = <<h[1], h[2]>>
      BY <3>1
    <3>3. h[1] \in Slot /\ RegionOf[h[1]] = RegionPage(h[1])
      BY <1>3, <1>4, <3>2
    <3>4. h \in Slot \X ChannelOffsets(Machine)
      BY <3>2, <3>3
    <3> QED
      BY <3>1, <3>3, <3>4
  <2> QED
    BY <2>2, <2>3
<1>10. \A t \in T : ClassOfChannel(Machine, C) = classify(Machine, DramBase(RegionOf[t]))
  <2>1. ASSUME NEW t \in T
        PROVE  k = classify(Machine, DramBase(RegionOf[t]))
    <3> HIDE DEF k
    <3>1. t \in Slot /\ PageClass[RegionPage(t)] = k
      BY <1>4
    <3> QED
      BY <1>3, <3>1
  <2> QED
    BY <2>1
<1>11. Cardinality(Places(Machine, T, RegionOf, C)) = Cardinality(T) * Cardinality(Kernel(Machine))
  BY <1>1, <1>5, <1>10, PlacesOfClass
<1>12. Quota(k) \in Nat
  <2>1. NPages \div K \in Nat
    BY DivMod, ClassAssumption, SizeAssumption
  <2> QED
    BY <2>1 DEF Quota
<1> QED
  BY <1>6, <1>7, <1>8, <1>9, <1>11, <1>12

\* hugepage_alloc.h:118-119: for any mapping whose functions are independent in a page, any
\* pool, calls that fail and processes that interfere, a region reported balanced, by the
\* balanced path or the plain one, uses the channels in proportion to their classes' quotas.
THEOREM BalancedRegionsUseChannelsEvenly == Spec => []ChannelsEven
<1>1. IInv /\ EvenRegion => ChannelsEven
  <2> SUFFICES ASSUME IInv, EvenRegion, pc = "ready", balanced,
                      NEW C \in SUBSET DOMAIN Machine.channel, NEW D \in SUBSET DOMAIN Machine.channel
               PROVE  Uses(C) * QuotaOf(D) = Uses(D) * QuotaOf(C)
    BY DEF ChannelsEven
  <2>1. QuotaOf(C) \in Nat /\ Uses(C) = QuotaOf(C) * Cardinality(Kernel(Machine))
    BY UsesOfChannel
  <2>2. QuotaOf(D) \in Nat /\ Uses(D) = QuotaOf(D) * Cardinality(Kernel(Machine))
    BY UsesOfChannel
  <2>3. Cardinality(Kernel(Machine)) \in Nat
    BY KernelFinite
  <2> QED
    BY <2>1, <2>2, <2>3
<1> QED
  BY <1>1, AllocGrants, EvenGranted, Invariant, PTL

\* The classes divide the pages: every channel is used as often as any other.
THEOREM WholeQuotasUseChannelsAlike ==
    ASSUME NPages % K = 0
    PROVE  Spec => [](pc = "ready" /\ balanced /\ env.holeAligned =>
                          \A C, D \in SUBSET DOMAIN Machine.channel : Uses(C) = Uses(D))
<1>1. IInv /\ EvenRegion => (pc = "ready" /\ balanced =>
                                 \A C, D \in SUBSET DOMAIN Machine.channel : Uses(C) = Uses(D))
  <2> SUFFICES ASSUME IInv, EvenRegion, pc = "ready", balanced,
                      NEW C \in SUBSET DOMAIN Machine.channel, NEW D \in SUBSET DOMAIN Machine.channel
               PROVE  Uses(C) = Uses(D)
    OBVIOUS
  <2>1. \A E \in SUBSET DOMAIN Machine.channel : QuotaOf(E) = NPages \div K
    <3>1. ASSUME NEW E \in SUBSET DOMAIN Machine.channel
          PROVE  QuotaOf(E) = NPages \div K
      <4>1. ClassOfChannel(Machine, E) \in Class
        BY ClassNumbers, MachineAssumption DEF Class, IsMachine
      <4>2. ~(ClassOfChannel(Machine, E) < NPages % K)
        BY <4>1, ClassAssumption DEF Class
      <4>3. NPages \div K \in Nat
        BY DivMod, ClassAssumption, SizeAssumption
      <4> QED
        BY <4>2, <4>3 DEF QuotaOf, Quota
    <3> QED
      BY <3>1
  <2> QED
    BY <2>1, UsesOfChannel
<1> QED
  BY <1>1, AllocGrants, EvenGranted, Invariant, PTL

------------------------------------------------------------------------------
(* hp_alloc ends: what is left to do grows less with each of its steps.    *)

Over == {"failed", "killed", "freed"}


\* How many steps hp_alloc and hp_free have left at most: each loop counts the rounds it
\* has left, and at a phase's end there are more steps left than the next phase takes.
StepsLeft ==
    CASE pc = "start"       -> 4 * NPages + 3 * FileSize + 10
      [] pc = "memfd"       -> 4 * NPages + 3 * FileSize + 9
      [] pc = "truncate"    -> 4 * NPages + 3 * FileSize + 8
      [] pc = "probe"       -> 4 * NPages + FileSize + 7 + 2 * (FileSize - probed)
      [] pc = "fault"       -> 4 * NPages + FileSize + 6 + 2 * (FileSize - probed)
      [] pc = "choose"      -> 3 * NPages + FileSize + 6 + (NPages - i)
      [] pc = "map"         -> 2 * NPages + FileSize + 5 + (NPages - i)
      [] pc = "punch"       -> 2 * NPages + 4 + (FileSize - i)
      [] pc = "verify"      -> NPages + 3 + (NPages - i)
      [] pc = "plain_mmap"  -> NPages + 3
      [] pc = "plain_fault" -> 2 + (NPages - i)
      [] pc = "ready"       -> 1
      [] pc \in Over        -> 0

StepsLeftCases ==
    /\ pc = "start" => StepsLeft = 4 * NPages + 3 * FileSize + 10
    /\ pc = "memfd" => StepsLeft = 4 * NPages + 3 * FileSize + 9
    /\ pc = "truncate" => StepsLeft = 4 * NPages + 3 * FileSize + 8
    /\ pc = "probe" => StepsLeft = 4 * NPages + FileSize + 7 + 2 * (FileSize - probed)
    /\ pc = "fault" => StepsLeft = 4 * NPages + FileSize + 6 + 2 * (FileSize - probed)
    /\ pc = "choose" => StepsLeft = 3 * NPages + FileSize + 6 + (NPages - i)
    /\ pc = "map" => StepsLeft = 2 * NPages + FileSize + 5 + (NPages - i)
    /\ pc = "punch" => StepsLeft = 2 * NPages + 4 + (FileSize - i)
    /\ pc = "verify" => StepsLeft = NPages + 3 + (NPages - i)
    /\ pc = "plain_mmap" => StepsLeft = NPages + 3
    /\ pc = "plain_fault" => StepsLeft = 2 + (NPages - i)
    /\ pc = "ready" => StepsLeft = 1
    /\ pc \in Over => StepsLeft = 0

StepsLeftTable == /\ StepsLeftCases
                  /\ StepsLeft \in 0 .. 4 * NPages + 3 * FileSize + 10

\* The cases exclude each other.
LEMMA StepsLeftEach == StepsLeftCases
BY Zenon DEF StepsLeftCases, StepsLeft, Over

\* What is left is bounded from the beginning.
LEMMA StepsLeftAt == IInv => StepsLeftTable
<1> SUFFICES ASSUME IInv PROVE StepsLeftTable
  OBVIOUS
<1>1. /\ NPages \in Nat /\ NPages >= 1 /\ FileSize \in Nat /\ NPages <= FileSize
      /\ i \in 0 .. FileSize /\ probed \in 0 .. FileSize /\ pc \in PathSteps
      /\ pc \in {"choose", "map", "verify", "plain_fault"} => i <= NPages
  BY FileSizeFacts, SizeAssumption DEF IInv, TypeOK, Counters
<1>2. StepsLeftCases
  BY StepsLeftEach
<1> HIDE DEF FileSize, StepsLeft
<1>3. StepsLeft \in 0 .. 4 * NPages + 3 * FileSize + 10
  BY <1>1, <1>2 DEF StepsLeftCases, PathSteps, Over
<1> QED
  BY <1>2, <1>3 DEF StepsLeftTable

\* hugepage_alloc.h:461-499.  Whatever fails and whatever other processes do to the pool meanwhile,
\* each step of the process brings its end nearer and no step of theirs puts it off.
THEOREM AllocTakesBoundedSteps ==
    Spec => /\ [](StepsLeft \in 0 .. 4 * NPages + 3 * FileSize + 10)
            /\ [][/\ Process => StepsLeft' < StepsLeft
                  /\ OtherTakes \/ OtherReturns => StepsLeft' = StepsLeft]_vars
<1>1. IInv /\ IInv' /\ StepsLeftTable /\ StepsLeftTable' /\ [Next]_vars
        => [/\ Process => StepsLeft' < StepsLeft
            /\ OtherTakes \/ OtherReturns => StepsLeft' = StepsLeft]_vars
  <2> SUFFICES ASSUME IInv, IInv', StepsLeftTable, StepsLeftTable', [Next]_vars
               PROVE  /\ Process => StepsLeft' < StepsLeft
                      /\ OtherTakes \/ OtherReturns => StepsLeft' = StepsLeft
    OBVIOUS
  <2>1. /\ NPages \in Nat /\ NPages >= 1 /\ FileSize \in Nat /\ NPages <= FileSize
        /\ i \in 0 .. FileSize /\ probed \in 0 .. FileSize /\ cap \in 0 .. FileSize
        /\ pc \in {"choose", "plain_fault"} => i <= NPages
        /\ pc \in {"map", "verify"} => i < NPages
        /\ pc = "punch" => i <= probed
        /\ pc = "fault" => probed < cap
        /\ StepsLeft \in Nat /\ StepsLeft' \in Nat
    BY FileSizeFacts, SizeAssumption DEF IInv, TypeOK, Counters, StepsLeftTable, StepsLeftCases
  <2> HIDE DEF FileSize, StepsLeft, IInv
  <2>2. ASSUME Process PROVE StepsLeft' < StepsLeft
    <3>1. CASE Start \/ MemfdCreate \/ Truncate
      BY <2>1, <3>1 DEF Start, MemfdCreate, Truncate, StepsLeftTable, StepsLeftCases
    <3>2. ASSUME GiveUp, pc \in {"memfd", "truncate", "choose", "map"}
          PROVE  StepsLeft' < StepsLeft
      BY <2>1, <3>2 DEF GiveUp, StepsLeftTable, StepsLeftCases
    <3>3. CASE MemfdCreateFails \/ TruncateFails \/ ChooseFails \/ ReserveVaFails \/ MapSlotFails
      BY <3>2, <3>3 DEF MemfdCreateFails, TruncateFails, ChooseFails, ReserveVaFails, MapSlotFails
    <3>4. CASE ProbeMap \/ ProbeStops
      BY <2>1, <3>4 DEF ProbeMap, ProbeStops, EndProbe, StepsLeftTable, StepsLeftCases
    <3>5. CASE ProbeFault
      <4>1. /\ pc = "fault"
            /\ \/ pc' = "choose" /\ i' = 0
               \/ pc' = "probe" /\ probed' = probed + 1
        BY <3>5 DEF ProbeFault, EndProbe
      <4> QED
        BY <2>1, <4>1 DEF StepsLeftTable, StepsLeftCases
    <3>6. CASE ChoosePage
      <4>1. pc = "choose" /\ pc' = "choose" /\ i' = i + 1 /\ i < NPages
        BY <3>6 DEF ChoosePage, SlotsLeft
      <4> QED
        BY <2>1, <4>1 DEF StepsLeftTable, StepsLeftCases
    <3>7. CASE ReserveVa \/ MapSlot
      BY <2>1, <3>7 DEF ReserveVa, MapSlot, StepsLeftTable, StepsLeftCases
    <3>8. CASE PunchPage
      <4>1. pc = "punch" /\ pc' = "punch" /\ i' = i + 1
        BY <3>8 DEF PunchPage
      <4> QED
        BY <2>1, <4>1 DEF StepsLeftTable, StepsLeftCases
    <3>9. CASE PunchDone
      <4>1. pc = "punch" /\ pc' = "verify" /\ i' = 0
        BY <3>9 DEF PunchDone
      <4> QED
        BY <2>1, <4>1 DEF StepsLeftTable, StepsLeftCases
    <3>10. CASE VerifySlot
      <4>1. pc = "verify" /\ \/ pc' = "verify" /\ i' = i + 1
                             \/ pc' = "ready"
        BY <3>10 DEF VerifySlot
      <4> QED
        BY <2>1, <4>1 DEF StepsLeftTable, StepsLeftCases
    <3>11. CASE PlainMmap \/ PlainMmapFails
      BY <2>1, <3>11 DEF PlainMmap, PlainMmapFails, StepsLeftTable, StepsLeftCases, Over
    <3>12. CASE PlainFault
      <4>1. pc = "plain_fault" /\ pc' = "plain_fault" /\ i' = i + 1 /\ i < NPages
        BY <3>12 DEF PlainFault, SlotsLeft
      <4> QED
        BY <2>1, <4>1 DEF StepsLeftTable, StepsLeftCases
    <3>13. CASE PlainDone
      BY <2>1, <3>13 DEF PlainDone, StepsLeftTable, StepsLeftCases
    <3>14. CASE Killed \/ HpFree
      <4>1. pc \in {"fault", "plain_fault", "ready"} /\ pc' \in Over
        BY <3>14 DEF Killed, HpFree, Over
      <4> QED
        BY <2>1, <4>1 DEF StepsLeftTable, StepsLeftCases
    <3> QED
      BY <2>2, <3>1, <3>3, <3>4, <3>5, <3>6, <3>7, <3>8, <3>9, <3>10, <3>11, <3>12, <3>13, <3>14
      DEF Process, Balanced, Plain
  <2>3. ASSUME OtherTakes \/ OtherReturns PROVE StepsLeft' = StepsLeft
    BY <2>3 DEF OtherTakes, OtherReturns, StepsLeft
  <2> QED
    BY <2>2, <2>3
<1>2. StepsLeftTable => StepsLeft \in 0 .. 4 * NPages + 3 * FileSize + 10
  BY DEF StepsLeftTable, StepsLeftCases
<1> QED
  BY <1>1, <1>2, StepsLeftAt, Invariant, PTL DEF Spec

\* Among the classes up to any one there is one with most pages left.
LEMMA MostLeft ==
    ASSUME \A c \in Class : Left(c) \in Nat
    PROVE  \E c \in Class : \A d \in Class : Left(d) <= Left(c)
<1> DEFINE T == {k \in Nat : k < K => \E c \in 0 .. k : \A d \in 0 .. k : Left(d) <= Left(c)}
<1>1. 0 \in T
  <2>1. 0 \in 0 .. 0 /\ \A d \in 0 .. 0 : d = 0
    OBVIOUS
  <2>2. 0 \in Class
    BY ClassAssumption DEF Class
  <2> HIDE DEF Left
  <2>3. Left(0) <= Left(0)
    BY <2>2
  <2> QED
    BY <2>1, <2>3
<1>2. ASSUME NEW k \in Nat, k \in T
      PROVE  k + 1 \in T
  <2> SUFFICES ASSUME k + 1 < K
               PROVE  \E c \in 0 .. k + 1 : \A d \in 0 .. k + 1 : Left(d) <= Left(c)
    BY <1>2
  <2>1. k < K /\ 0 .. k + 1 \subseteq Class
    BY ClassAssumption DEF Class
  <2>2. PICK c \in 0 .. k : \A d \in 0 .. k : Left(d) <= Left(c)
    BY <1>2, <2>1
  <2>3. c \in 0 .. k + 1 /\ k + 1 \in 0 .. k + 1 /\ \A d \in 0 .. k + 1 : d \in 0 .. k \/ d = k + 1
    OBVIOUS
  <2> HIDE DEF Left, T
  <2>4. \A d \in 0 .. k + 1 : Left(d) \in Nat
    BY <2>1
  <2>5. CASE Left(k + 1) <= Left(c)
    BY <2>2, <2>3, <2>5
  <2>6. CASE ~(Left(k + 1) <= Left(c))
    <3>1. \A d \in 0 .. k + 1 : Left(d) <= Left(k + 1)
      BY <2>2, <2>3, <2>4, <2>6
    <3> QED
      BY <2>3, <3>1
  <2> QED
    BY <2>5, <2>6
<1>3. \A k \in Nat : k \in T
  <2> HIDE DEF T
  <2> QED
    BY <1>1, <1>2, NatClosure
<1>4. K - 1 \in Nat /\ K - 1 < K
  BY ClassAssumption
<1> QED
  BY <1>3, <1>4 DEF Class

\* hugepage_alloc.h:296-311.  As long as any page is left, the loops over the classes find
\* one to take: a slot is filled, or the choice is given up with every list used up.
THEOREM ChoiceFindsClass ==
    Spec => [](pc = "choose" /\ SlotsLeft =>
                   \/ \A c \in Class : Left(c) = 0
                   \/ \E c \in Class : IF Left(i % K) > 0 THEN c = i % K ELSE Richest(c))
<1>1. ASSUME IInv, pc = "choose", \E c \in Class : Left(c) # 0
      PROVE  \E c \in Class : IF Left(i % K) > 0 THEN c = i % K ELSE Richest(c)
  <2>1. \A c \in Class : Left(c) \in Nat
    <3> SUFFICES ASSUME NEW c \in Class PROVE Left(c) \in Nat
      OBVIOUS
    <3>1. next[c] \in Nat /\ byClass[c] \in Seq(Index) /\ next[c] <= Len(byClass[c])
      BY <1>1 DEF IInv, TypeOK, Lists
    <3>2. Len(byClass[c]) \in Nat
      BY <3>1
    <3> QED
      BY <3>1, <3>2 DEF Left
  <2>2. i % K \in Class
    <3>1. i \in Nat
      BY <1>1, FileSizeFacts DEF IInv, TypeOK
    <3> QED
      BY <3>1, DivMod, ClassAssumption DEF Class
  <2> DEFINE Most == {c \in Class : \A d \in Class : Left(d) <= Left(c)}
  <2>3. Most # {}
    BY <2>1, MostLeft
  <2>4. Most \subseteq Nat
    BY DEF Class
  <2>5. PICK c \in Most : \A d \in Most : c <= d
    BY <2>3, <2>4, LeastNumber
  <2> HIDE DEF Left
  <2>6. c \in Class /\ \A d \in Class : Left(d) <= Left(c)
    BY <2>5
  <2>7. Left(c) > 0
    BY <1>1, <2>1, <2>6
  <2>8. ASSUME NEW d \in 0 .. c - 1 PROVE Left(d) < Left(c)
    <3>1. d \in Class /\ ~(c <= d)
      BY <2>6, ClassAssumption DEF Class
    <3>2. d \notin Most
      BY <2>5, <3>1
    <3>3. PICK e \in Class : ~(Left(e) <= Left(d))
      BY <3>1, <3>2
    <3>4. Left(e) <= Left(c) /\ Left(c) \in Nat /\ Left(d) \in Nat /\ Left(e) \in Nat
      BY <2>1, <2>6, <3>1
    <3> QED
      BY <3>3, <3>4
  <2>9. Richest(c)
    BY <2>6, <2>7, <2>8 DEF Richest
  <2> QED
    BY <2>2, <2>6, <2>9
<1>2. IInv => (pc = "choose" /\ SlotsLeft =>
                   \/ \A c \in Class : Left(c) = 0
                   \/ \E c \in Class : IF Left(i % K) > 0 THEN c = i % K ELSE Richest(c))
  BY <1>1
<1> QED
  BY <1>2, Invariant, PTL
====
