------------------------------- MODULE Latency -------------------------------
(***************************************************************************)
(* latency_bw.cpp: for two relations between the DRAM addresses of two     *)
(* cachelines, draw random pairs until Pairs distinct ones are found, and  *)
(* time a read of one after the other.  A budget of draws ends the search. *)
(*                                                                         *)
(* An address counts cachelines; a word is the set of its bits.  What the  *)
(* random generator draws is any line, and a latency is not modelled.      *)
(***************************************************************************)
EXTENDS Integers, Sequences, FiniteSets

CONSTANTS
    AddressBits, \* bits of a physical address above the cacheline offset
    PageLines,   \* cachelines of a hugepage
    Requests,    \* argument lists: [pages, pairs, reps, map]
    Maps,        \* DECODE_MAPS: name -> [channel, rank, bank_group, bank, row, column]
    SelfChecks,  \* DECODE_SELFCHECKS: [name, addr, expected], what Python decoded
    DefaultMap,  \* DECODE_DEFAULT_MAP
    Regions,     \* the physical pages mmap may put behind the slots
    HoleEnd,     \* DECODE_HOLE_END, in cachelines
    HoleSize,    \* DECODE_HOLE_SIZE
    PairBudget,  \* failed draws allowed for each pair, 2,000,000
    MaxTries     \* candidates drawn for one A, 200,000

ASSUME HoleAssumption == HoleEnd \in Nat /\ HoleSize \in 0 .. HoleEnd
ASSUME AddressAssumption == AddressBits \in Nat
ASSUME RequestAssumption == Requests \subseteq [pages : Int, pairs : Int, reps : Int, map : STRING]
ASSUME BudgetAssumption == PairBudget \in Nat \ {0} /\ MaxTries \in Nat \ {0}

VARIABLES
    req,      \* the arguments
    pc,       \* what main does next, or how it ended
    phys,     \* the physical page behind each slot
    category, \* "samebank", then "diffbg"
    budget,   \* failed draws left in this category
    tries,    \* candidates drawn for this A
    A, B,     \* the pair: slots of the region, that is, virtual lines
    seen,     \* the keys of the pairs found
    found,    \* pairs measured in this category
    reported, \* how many pairs each summary printed is over
    measured, \* the pairs measured in this category (a history variable)
    draws     \* the candidates drawn in this category (a history variable)

search == <<budget, tries, A, B, seen, found, measured, draws>>
vars == <<req, pc, phys, category, search, reported>>

Ended == {"rejected", "failed", "untranslated", "exhausted", "done"}
Categories == {"samebank", "diffbg"}
Lines == 0 .. req.pages * PageLines - 1

------------------------------------------------------------------------------
(* Decoding.                                                               *)

BitsOf(x) == {b \in 0 .. AddressBits - 1 : (x \div 2 ^ b) % 2 = 1}
Odd(S) == Cardinality(S) % 2 = 1

MapName == IF req.map = "" THEN DefaultMap ELSE req.map
m == Maps[MapName]

phys_to_dram(a) == IF a >= HoleEnd THEN a - HoleSize ELSE a

\* make_addr_info: where a line of the region is, for the kernel and for the DRAM.
PhysOf(v) == phys[v \div PageLines] * PageLines + (v % PageLines)
dram_Raw(v) == PhysOf(v)
dram(v) == phys_to_dram(PhysOf(v))

Difference(v, w) == (BitsOf(dram(v)) \ BitsOf(dram(w))) \cup (BitsOf(dram(w)) \ BitsOf(dram(v)))

fields_equal(masks, D) == \A i \in DOMAIN masks : ~Odd(masks[i] \cap D)

same_bank_diff_row(D) == /\ fields_equal(m.channel, D)
                         /\ fields_equal(m.rank, D)
                         /\ fields_equal(m.bank_group, D)
                         /\ fields_equal(m.bank, D)
                         /\ D \cap m.row # {}

diff_bank_group(D) == /\ fields_equal(m.channel, D)
                      /\ fields_equal(m.rank, D)
                      /\ ~fields_equal(m.bank_group, D)

\* decode_addr, the port of address_mapping.decode(); a value is the set of its bits.
Value(masks, X) == {i \in DOMAIN masks : Odd(masks[i] \cap X)}
decode_addr(X) == [channel |-> Value(m.channel, X), rank |-> Value(m.rank, X),
                   bank_group |-> Value(m.bank_group, X), bank |-> Value(m.bank, X),
                   row |-> X \cap m.row, col |-> X \cap m.column]

\* The map is used only if it has vectors and decodes all of them as Python did.
self_check ==
    LET vectors == {t \in SelfChecks : t.name = MapName}
    IN  vectors # {} /\ \A t \in vectors : decode_addr(t.addr) = t.expected

\* The predicate that a category's pairs are drawn for.
Relation(c, D) == IF c = "samebank" THEN same_bank_diff_row(D) ELSE diff_bank_group(D)
Match(v, w) == Relation(category, Difference(v, w))

\* std::minmax: a pair is the same whichever of its lines was drawn first.
Key_Ordered(v, w) == <<v, w>>
Key(v, w) == IF v <= w THEN <<v, w>> ELSE <<w, v>>

------------------------------------------------------------------------------
Init == /\ req \in Requests
        /\ pc = "check"
        /\ phys = <<>>
        /\ category = "samebank"
        /\ budget = 0 /\ tries = 0 /\ A = 0 /\ B = 0
        /\ seen = {} /\ found = 0
        /\ reported = <<>>
        /\ measured = <<>> /\ draws = 0

Accepted == /\ req.pages >= 1 /\ req.pairs >= 1 /\ req.reps >= 1
            /\ MapName \in DOMAIN Maps
            /\ self_check

Reject == /\ pc = "check"
          /\ ~Accepted
          /\ pc' = "rejected"
          /\ UNCHANGED <<req, phys, category, search, reported>>

\* The region is mapped and touched, or is not to be had.
Map == /\ pc = "check"
       /\ Accepted
       /\ phys' \in {p \in Regions : DOMAIN p = 0 .. req.pages - 1}
       /\ pc' = "category"
       /\ UNCHANGED <<req, category, search, reported>>

MapFails == /\ pc = "check"
            /\ Accepted
            /\ pc' = "failed"
            /\ UNCHANGED <<req, phys, category, search, reported>>

\* max_total_tries, the budget of a category.
Budget == req.pairs * PairBudget

\* run_category begins with nothing found and the whole budget.
StartCategory == /\ pc = "category"
                 /\ budget' = Budget
                 /\ seen' = {} /\ found' = 0
                 /\ measured' = <<>> /\ draws' = 0
                 /\ pc' = "outer"
                 /\ UNCHANGED <<req, phys, category, tries, A, B, reported>>

Searching_NoBudget == found < req.pairs
Searching == found < req.pairs /\ budget > 0

DrawA == /\ pc = "outer"
         /\ Searching
         /\ A' \in Lines
         /\ tries' = 0
         /\ pc' = "inner"
         /\ UNCHANGED <<req, phys, category, budget, B, seen, found, reported, measured, draws>>

Trying_TriesOnly == pc = "inner" /\ tries < MaxTries
Trying == pc = "inner" /\ tries < MaxTries /\ budget > 0

Usable(v) == v # A /\ Match(A, v) /\ Key(A, v) \notin seen

\* A candidate that will not do costs a try and one of the budget.
Spend_Twice(v) == tries' = tries + 1 /\ budget' = budget - 2
Spend(v) == tries' = tries + 1 /\ budget' = budget - 1

Miss == /\ Trying
        /\ \E v \in Lines : ~Usable(v) /\ Spend(v)
        /\ draws' = draws + 1
        /\ UNCHANGED <<req, pc, phys, category, A, B, seen, found, reported, measured>>

Hit == /\ Trying
       /\ \E v \in Lines : /\ Usable(v)
                           /\ B' = v
                           /\ seen' = seen \cup {Key(A, v)}
       /\ draws' = draws + 1
       /\ pc' = "measure"
       /\ UNCHANGED <<req, phys, category, budget, tries, A, found, reported, measured>>

\* Every candidate failed: the next A, if the budget lasts.
NextA == /\ pc = "inner"
         /\ ~Trying
         /\ pc' = "outer"
         /\ UNCHANGED <<req, phys, category, search, reported>>

\* The page of a line that is drawn cannot be translated.
TranslateFails == /\ (pc = "outer" /\ Searching) \/ Trying
                  /\ pc' = "untranslated"
                  /\ UNCHANGED <<req, phys, category, search, reported>>

Measure == /\ pc = "measure"
           /\ measured' = Append(measured, <<A, B>>)
           /\ found' = found + 1
           /\ pc' = "outer"
           /\ UNCHANGED <<req, phys, category, budget, tries, A, B, seen, reported, draws>>

Exhausted == /\ pc = "outer"
             /\ ~Searching
             /\ found < req.pairs
             /\ pc' = "exhausted"
             /\ UNCHANGED <<req, phys, category, search, reported>>

\* The summary is over the pairs found; the second category follows the first.
Enough == found = req.pairs
Summarise == /\ pc = "outer"
             /\ Enough
             /\ reported' = Append(reported, Len(measured))
             /\ category' = "diffbg"
             /\ pc' = IF category = "samebank" THEN "category" ELSE "done"
             /\ UNCHANGED <<req, phys, search>>

Next == \/ Reject \/ Map \/ MapFails \/ StartCategory \/ DrawA \/ Miss \/ Hit \/ NextA
        \/ TranslateFails \/ Measure \/ Exhausted \/ Summarise

Spec == Init /\ [][Next]_vars

\* One thread, never blocked: it takes a step as long as it has one to take.
FairSpec == Spec /\ WF_vars(Next)

------------------------------------------------------------------------------
TypeOK == /\ req \in Requests
          /\ pc \in Ended \cup {"check", "category", "outer", "inner", "measure"}
          /\ phys \in Regions \cup {<<>>}
          /\ category \in Categories
          /\ budget \in Nat
          /\ tries \in 0 .. MaxTries
          /\ pc = "inner" => A \in Lines
          /\ pc = "measure" => A \in Lines /\ B \in Lines
          /\ seen \subseteq Lines \X Lines
          /\ found \in Nat /\ draws \in Nat
          /\ measured \in Seq(Lines \X Lines)
          /\ reported \in Seq(Nat)

\* latency_bw.cpp:5-6 and config_template.py:63-67.  The two lines of a measured pair,
\* each decoded on its own after the hole is taken out of its address, are in one
\* bank and two rows, or in two bank groups of one rank.  The code compares the XOR
\* of the two addresses instead, which is right because parity is linear.
Place(v) == decode_addr(BitsOf(phys_to_dram(PhysOf(v))))
MeasuredFor == IF pc = "category" THEN "samebank" ELSE category
PairsRelated == \A i \in DOMAIN measured :
    LET v == Place(measured[i][1])
        w == Place(measured[i][2])
    IN  /\ v.channel = w.channel /\ v.rank = w.rank
        /\ IF MeasuredFor = "samebank"
           THEN v.bank_group = w.bank_group /\ v.bank = w.bank /\ v.row # w.row
           ELSE v.bank_group # w.bank_group

\* No pair is measured twice in a category, in either order, and no line with itself;
\* and a summary is printed over exactly the samples that were asked for: none when the
\* budget ends or a translation fails in the middle of a category, both when main ends well.
PairsDistinct == /\ \A i \in DOMAIN measured : measured[i][1] # measured[i][2]
                 /\ \A i, j \in DOMAIN measured :
                        {measured[i][1], measured[i][2]} = {measured[j][1], measured[j][2]} => i = j
                 /\ \A k \in DOMAIN reported : reported[k] = req.pairs
                 /\ pc \in Ended => Len(reported) = IF pc = "done" THEN 2 ELSE
                                                     IF category = "diffbg" THEN 1 ELSE 0

\* The search ends as exhausted only after all the failed draws the budget allows, and
\* a draw that finds a pair costs none of them.
GivesUpAtBudget ==
    pc = "exhausted" => draws = Budget + found

\* Each draw that finds nothing has cost one of the budget, each other one is a pair.
Budgeted ==
    /\ pc \in {"outer", "inner", "measure", "exhausted"} =>
           draws + budget = Budget + found + (IF pc = "measure" THEN 1 ELSE 0)
    /\ pc = "exhausted" => budget = 0

\* The keys of the pairs measured are in seen, and a pair found is of a new key.
KeyOf(k) == Key(measured[k][1], measured[k][2])
Recorded ==
    /\ Len(measured) = found
    /\ \A k \in DOMAIN measured : measured[k][1] # measured[k][2] /\ KeyOf(k) \in seen
    /\ \A k, l \in DOMAIN measured : KeyOf(k) = KeyOf(l) => k = l
    /\ pc = "measure" => /\ A # B /\ Key(A, B) \in seen
                         /\ \A k \in DOMAIN measured : KeyOf(k) # Key(A, B)

\* A pair is measured in the category that its difference was looked at for.
Matched ==
    /\ \A k \in DOMAIN measured :
           Relation(MeasuredFor, Difference(measured[k][1], measured[k][2]))
    /\ pc = "measure" => Match(A, B)

\* One summary after each category, of all the pairs asked for.
Summarised ==
    /\ \A k \in DOMAIN reported : reported[k] = req.pairs
    /\ pc = "done" => category = "diffbg"
    /\ Len(reported) = IF pc = "done" THEN 2 ELSE IF category = "diffbg" THEN 1 ELSE 0

\* A search is for at least one pair of a mapped region.
Asked == pc \notin {"check", "rejected", "failed"} => req.pairs >= 1

\* Before the first category nothing has been drawn.
Untouched == pc \in {"check", "rejected", "failed"} => measured = <<>> /\ found = 0

IInv == TypeOK /\ Budgeted /\ Recorded /\ Matched /\ Summarised /\ Asked /\ Untouched

\* Whatever is drawn, latency_bw ends: with both summaries, or saying what it lacked.
SearchEnds == <>(pc \in Ended)
=============================================================================
