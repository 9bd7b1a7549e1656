---------------------------- MODULE LatencyProofs ----------------------------
(***************************************************************************)
(* The pairs latency_bw.cpp measures are distinct and related as their     *)
(* category says, for every mapping, region, hole and budget: parity is    *)
(* linear, so what the XOR of two addresses says holds of the two decodes. *)
(* Whatever is drawn, the search ends after a bounded number of steps.     *)
(***************************************************************************)
EXTENDS Latency, FiniteSetTheorems, TLAPS

Drawing == {"outer", "inner", "measure"}

(* XOR and parity.                                                         *)

Xor(X, Y) == (X \ Y) \cup (Y \ X)

\* The bits of an address are finitely many, so their parity is defined.
LEMMA BitsFinite ==
    ASSUME NEW a, NEW S
    PROVE  IsFiniteSet(S \cap BitsOf(a))
<1>1. IsFiniteSet(0 .. AddressBits - 1)
  BY FS_Interval, AddressAssumption
<1>2. S \cap BitsOf(a) \subseteq 0 .. AddressBits - 1
  BY DEF BitsOf
<1>3. QED
  BY <1>1, <1>2, FS_Subset

\* The parity of an XOR is even just if both parities are the same.
LEMMA OddXor ==
    ASSUME NEW X, NEW Y, IsFiniteSet(X), IsFiniteSet(Y)
    PROVE  Odd(Xor(X, Y)) <=> ~(Odd(X) <=> Odd(Y))
<1> DEFINE both == X \cap Y
<1>1. /\ IsFiniteSet(both) /\ IsFiniteSet(X \ Y) /\ IsFiniteSet(Y \ X)
      /\ Cardinality(both) \in Nat /\ Cardinality(X) \in Nat /\ Cardinality(Y) \in Nat
  BY FS_Intersection, FS_Difference, FS_CardinalityType
<1>2. /\ Cardinality(X \ Y) = Cardinality(X) - Cardinality(both)
      /\ Cardinality(Y \ X) = Cardinality(Y) - Cardinality(both)
  <2>1. Y \cap X = both
    OBVIOUS
  <2>2. QED
    BY <2>1, FS_Difference
<1>3. Cardinality(Xor(X, Y)) = Cardinality(X \ Y) + Cardinality(Y \ X)
  <2> DEFINE U == X \ Y
  <2> DEFINE V == Y \ X
  <2>1. U \cap V = {} /\ Xor(X, Y) = U \cup V
    BY DEF Xor
  <2>2. IsFiniteSet(U) /\ IsFiniteSet(V) /\ Cardinality(U) \in Nat /\ Cardinality(V) \in Nat
    BY <1>1, FS_CardinalityType
  <2> HIDE DEF U, V
  <2>3. Cardinality(U \cup V) = Cardinality(U) + Cardinality(V) - Cardinality({})
    BY <2>1, <2>2, FS_Union
  <2>4. Cardinality(Xor(X, Y)) = Cardinality(U) + Cardinality(V)
    BY <2>1, <2>2, <2>3, FS_EmptySet
  <2>5. QED
    BY <2>4 DEF U, V
<1>4. Cardinality(Xor(X, Y)) = Cardinality(X) + Cardinality(Y) - 2 * Cardinality(both)
  <2> HIDE DEF both
  <2>1. QED
    BY <1>1, <1>2, <1>3
<1>5. QED
  <2> HIDE DEF both
  <2>1. QED
    BY <1>1, <1>4 DEF Odd

\* A selector's masks agree on two addresses just if none is odd on their XOR.
LEMMA FieldsEqual ==
    ASSUME NEW masks, NEW a, NEW b
    PROVE  fields_equal(masks, Xor(BitsOf(a), BitsOf(b)))
             <=> Value(masks, BitsOf(a)) = Value(masks, BitsOf(b))
<1> DEFINE X == BitsOf(a)
<1> DEFINE Y == BitsOf(b)
<1>1. ASSUME NEW k \in DOMAIN masks
      PROVE  Odd(masks[k] \cap Xor(X, Y)) <=> ~(Odd(masks[k] \cap X) <=> Odd(masks[k] \cap Y))
  <2>1. masks[k] \cap Xor(X, Y) = Xor(masks[k] \cap X, masks[k] \cap Y)
    BY DEF Xor
  <2>2. IsFiniteSet(masks[k] \cap X) /\ IsFiniteSet(masks[k] \cap Y)
    BY BitsFinite
  <2>3. QED
    BY <2>1, <2>2, OddXor
<1>2. fields_equal(masks, Xor(X, Y))
        <=> \A k \in DOMAIN masks : Odd(masks[k] \cap X) <=> Odd(masks[k] \cap Y)
  BY <1>1 DEF fields_equal
<1>3. Value(masks, X) = Value(masks, Y)
        <=> \A k \in DOMAIN masks : Odd(masks[k] \cap X) <=> Odd(masks[k] \cap Y)
  <2> HIDE DEF X, Y
  <2>1. QED
    BY Zenon DEF Value
<1>4. QED
  BY <1>2, <1>3

\* A field that is copied differs just if the XOR has one of its bits.
LEMMA RowsDiffer ==
    ASSUME NEW mask, NEW X, NEW Y
    PROVE  Xor(X, Y) \cap mask # {} <=> X \cap mask # Y \cap mask
BY DEF Xor

------------------------------------------------------------------------------
(* The budget and the keys.                                                *)

\* The budget of a category that is searched is a number.
LEMMA WholeBudget ==
    ASSUME IInv, pc \notin {"check", "rejected", "failed"}
    PROVE  Budget \in Nat
<1>1. req.pairs \in Int /\ req.pairs >= 1
  BY RequestAssumption DEF IInv, TypeOK, Asked
<1>2. \A k \in Int : k >= 1 => k * PairBudget \in Nat
  BY BudgetAssumption
<1>3. QED
  BY <1>1, <1>2 DEF Budget

\* Two pairs have one key just if they are of the same two lines.
LEMMA SameKey ==
    ASSUME NEW a \in Int, NEW b \in Int, NEW x \in Int, NEW y \in Int
    PROVE  Key(a, b) = Key(x, y) <=> {a, b} = {x, y}
BY DEF Key

\* What a category's predicate says of two lines depends on the request and the region.
LEMMA RelationFixed ==
    ASSUME UNCHANGED <<req, phys>>
    PROVE  \A k, v, w : Relation(k, Difference(v, w))' <=> Relation(k, Difference(v, w))
BY DEF Relation, Difference, dram, PhysOf, phys_to_dram, same_bank_diff_row, diff_bank_group,
       m, MapName

------------------------------------------------------------------------------
(* The invariant.                                                          *)

LEMMA InitInv == Init => IInv
<1> SUFFICES ASSUME Init PROVE IInv
  OBVIOUS
<1>1. TypeOK
  BY BudgetAssumption DEF Init, TypeOK, Categories, Ended
<1>2. Budgeted /\ Recorded /\ Matched /\ Summarised /\ Asked /\ Untouched
  BY DEF Init, Budgeted, Recorded, Matched, Summarised, Asked, Untouched
<1>3. QED
  BY <1>1, <1>2 DEF IInv

\* The steps that leave the search as it is, but for the place in the code.
LEMMA QuietStep ==
    ASSUME IInv, Reject \/ MapFails \/ NextA \/ TranslateFails \/ Exhausted
    PROVE  IInv'
<1>1. UNCHANGED <<req, phys, category, search, reported>> /\ Budget' = Budget
  BY DEF Reject, MapFails, NextA, TranslateFails, Exhausted, Budget
<1>2. \/ pc = "check" /\ pc' \in {"rejected", "failed"}
      \/ pc = "inner" /\ pc' = "outer"
      \/ pc \in {"outer", "inner"} /\ pc' = "untranslated"
      \/ pc = "outer" /\ pc' = "exhausted"
  BY DEF Reject, MapFails, NextA, TranslateFails, Exhausted, Trying
<1>3. TypeOK'
  BY <1>1, <1>2 DEF IInv, TypeOK, Ended, search, Lines
<1>4. Recorded' /\ Untouched'
  BY <1>1, <1>2 DEF IInv, Recorded, Untouched, KeyOf, search
<1>5. Budgeted'
  <2>1. pc' = "exhausted" => budget = 0
    BY <1>2 DEF Reject, MapFails, NextA, TranslateFails, Exhausted, Searching, IInv, TypeOK
  <2>2. QED
    BY <1>1, <1>2, <2>1 DEF IInv, Budgeted, search
<1>6. Matched'
  BY <1>1, <1>2, RelationFixed DEF IInv, Matched, MeasuredFor, search
<1>7. Summarised' /\ Asked'
  BY <1>1, <1>2 DEF IInv, Summarised, Asked
<1>8. QED
  BY <1>3, <1>4, <1>5, <1>6, <1>7 DEF IInv

\* A region is mapped: nothing has been measured on it yet.
LEMMA MapStep ==
    ASSUME IInv, Map
    PROVE  IInv'
<1>1. /\ pc = "check" /\ pc' = "category" /\ phys' \in Regions /\ req.pairs >= 1
      /\ UNCHANGED <<req, category, search, reported>>
  BY DEF Map, Accepted
<1>2. measured = <<>>
  BY <1>1 DEF IInv, Untouched
<1>3. TypeOK'
  BY <1>1 DEF IInv, TypeOK, Ended, search, Lines
<1>4. Budgeted' /\ Recorded' /\ Matched' /\ Untouched'
  BY <1>1, <1>2 DEF IInv, Budgeted, Recorded, Matched, Untouched, search
<1>5. Summarised' /\ Asked'
  BY <1>1 DEF IInv, Summarised, Asked
<1>6. QED
  BY <1>3, <1>4, <1>5 DEF IInv

\* A category begins with nothing found and the whole budget.
LEMMA StartStep ==
    ASSUME IInv, StartCategory
    PROVE  IInv'
<1>1. /\ pc = "category" /\ pc' = "outer"
      /\ budget' = Budget
      /\ seen' = {} /\ found' = 0 /\ measured' = <<>> /\ draws' = 0
      /\ UNCHANGED <<req, phys, category, tries, A, B, reported>>
  BY DEF StartCategory
<1>2. budget' \in Nat /\ Budget' = Budget /\ Budget \in Nat
  BY <1>1, WholeBudget DEF Budget
<1>3. TypeOK'
  BY <1>1, <1>2 DEF IInv, TypeOK, Ended, Lines
<1>4. Budgeted'
  BY <1>1, <1>2 DEF Budgeted
<1>5. Recorded' /\ Matched' /\ Untouched'
  BY <1>1 DEF Recorded, Matched, Untouched
<1>6. Summarised' /\ Asked'
  BY <1>1 DEF IInv, Summarised, Asked
<1>7. QED
  BY <1>3, <1>4, <1>5, <1>6 DEF IInv

\* A first line is drawn, or a candidate is no use and costs one of the budget.
LEMMA DrawStep ==
    ASSUME IInv, DrawA \/ Miss
    PROVE  IInv'
<1>1. /\ pc \in {"outer", "inner"} /\ pc' = "inner"
      /\ UNCHANGED <<req, phys, category, B, seen, found, reported, measured>>
  BY DEF DrawA, Miss, Trying
<1>2. Recorded' /\ Untouched'
  BY <1>1 DEF IInv, Recorded, Untouched, KeyOf
<1>3. Matched'
  BY <1>1, RelationFixed DEF IInv, Matched, MeasuredFor
<1>4. Summarised' /\ Asked'
  BY <1>1 DEF IInv, Summarised, Asked
<1>5. /\ budget \in Nat /\ draws \in Nat /\ found \in Nat /\ tries \in 0 .. MaxTries
      /\ Budget \in Nat /\ Budget' = Budget
      /\ draws + budget = Budget + found
  <2>1. Budget \in Nat /\ Budget' = Budget
    BY <1>1, WholeBudget DEF Budget
  <2>2. QED
    BY <1>1, <2>1 DEF IInv, TypeOK, Budgeted
<1>6. TypeOK' /\ Budgeted'
  <2>1. CASE DrawA
    <3>1. A' \in Lines /\ tries' = 0 /\ budget' = budget /\ draws' = draws
      BY <2>1 DEF DrawA
    <3>2. TypeOK'
      BY <1>1, <3>1, BudgetAssumption DEF IInv, TypeOK, Ended, Lines
    <3>3. QED
      BY <1>1, <1>5, <3>1, <3>2 DEF Budgeted
  <2>2. CASE Miss
    <3>1. /\ pc = "inner" /\ tries < MaxTries /\ budget > 0
          /\ tries' = tries + 1 /\ budget' = budget - 1 /\ draws' = draws + 1 /\ A' = A
      BY <2>2 DEF Miss, Trying, Spend
    <3>2. budget' \in Nat /\ draws' \in Nat /\ tries' \in 0 .. MaxTries
      BY <1>5, <3>1, BudgetAssumption
    <3>3. TypeOK'
      BY <1>1, <3>1, <3>2 DEF IInv, TypeOK, Ended, Lines
    <3>4. Budgeted'
      BY <1>1, <1>5, <3>1, <3>2 DEF Budgeted
    <3>5. QED
      BY <3>3, <3>4
  <2>3. QED
    BY <2>1, <2>2
<1>7. QED
  BY <1>2, <1>3, <1>4, <1>6 DEF IInv

\* A candidate will do: its key is new, and from now on in seen.
LEMMA HitStep ==
    ASSUME IInv, Hit
    PROVE  IInv'
<1>1. PICK v \in Lines : Usable(v) /\ B' = v /\ seen' = seen \cup {Key(A, v)}
  BY DEF Hit
<1>2. /\ pc = "inner" /\ pc' = "measure" /\ draws' = draws + 1
      /\ UNCHANGED <<req, phys, category, budget, tries, A, found, reported, measured>>
  BY DEF Hit, Trying
<1>3. A \in Lines /\ v # A /\ Match(A, v) /\ Key(A, v) \notin seen /\ Key(A, v) \in Lines \X Lines
  BY <1>1, <1>2 DEF IInv, TypeOK, Usable, Key
<1>4. TypeOK'
  <2>1. seen' \subseteq Lines \X Lines
    BY <1>1, <1>3 DEF IInv, TypeOK
  <2>2. Lines' = Lines
    BY <1>2 DEF Lines
  <2>3. QED
    BY <1>1, <1>2, <1>3, <2>1, <2>2 DEF IInv, TypeOK, Ended
<1>5. Budgeted'
  <2>1. Budget \in Nat /\ Budget' = Budget
    BY <1>2, WholeBudget DEF Budget
  <2>2. /\ budget \in Nat /\ draws \in Nat /\ found \in Nat
        /\ draws + budget = Budget + found
    BY <1>2, <2>1 DEF IInv, TypeOK, Budgeted
  <2>3. QED
    BY <1>2, <2>1, <2>2 DEF Budgeted
<1>6. Recorded'
  <2>1. Key(A, B)' = Key(A, v) /\ A' # B'
    BY <1>1, <1>2, <1>3 DEF Key
  <2>2. \A k \in DOMAIN measured : KeyOf(k)' = KeyOf(k)
    BY <1>2 DEF KeyOf, Key
  <2>3. \A k \in DOMAIN measured : KeyOf(k) # Key(A, v)
    BY <1>3 DEF IInv, Recorded
  <2>4. QED
    BY <1>1, <1>2, <2>1, <2>2, <2>3 DEF IInv, Recorded
<1>7. Matched'
  <2>1. Match(A, B)'
    BY <1>1, <1>2, <1>3, RelationFixed DEF Match
  <2>2. QED
    BY <1>2, <2>1, RelationFixed DEF IInv, Matched, MeasuredFor
<1>8. Summarised' /\ Asked' /\ Untouched'
  BY <1>2 DEF IInv, Summarised, Asked, Untouched
<1>9. QED
  BY <1>4, <1>5, <1>6, <1>7, <1>8 DEF IInv

\* The pair is timed: one more of the category, of a key that none before it had.
LEMMA MeasureStep ==
    ASSUME IInv, Measure
    PROVE  IInv'
<1>1. /\ pc = "measure" /\ pc' = "outer" /\ found' = found + 1
      /\ measured' = Append(measured, <<A, B>>)
      /\ UNCHANGED <<req, phys, category, budget, tries, A, B, seen, reported, draws>>
  BY DEF Measure
<1>2. /\ A \in Lines /\ B \in Lines /\ A # B /\ Match(A, B) /\ Key(A, B) \in seen
      /\ measured \in Seq(Lines \X Lines) /\ found \in Nat /\ Len(measured) = found
  BY <1>1 DEF IInv, TypeOK, Recorded, Matched
<1>3. /\ measured' \in Seq(Lines \X Lines)
      /\ Len(measured') = found + 1
      /\ DOMAIN measured = 1 .. found /\ DOMAIN measured' = 1 .. found + 1
      /\ \A k \in DOMAIN measured : measured'[k] = measured[k]
      /\ measured'[found + 1] = <<A, B>>
  BY <1>1, <1>2
<1>4. \A k \in DOMAIN measured' : k \in DOMAIN measured \/ k = found + 1
  BY <1>2, <1>3
<1>5. TypeOK'
  <2>1. Lines' = Lines
    BY <1>1 DEF Lines
  <2>2. QED
    BY <1>1, <1>2, <1>3, <2>1 DEF IInv, TypeOK, Ended
<1>6. Budgeted'
  <2>1. Budget \in Nat /\ Budget' = Budget
    BY <1>1, WholeBudget DEF Budget
  <2>2. /\ budget \in Nat /\ draws \in Nat
        /\ draws + budget = Budget + found + 1
    BY <1>1 DEF IInv, TypeOK, Budgeted
  <2>3. QED
    BY <1>1, <1>2, <2>1, <2>2 DEF Budgeted
<1>7. Recorded'
  <2>1. \A k \in DOMAIN measured : KeyOf(k)' = KeyOf(k)
    BY <1>3 DEF KeyOf, Key
  <2>2. \A k : k = found + 1 => measured'[k] = <<A, B>> /\ KeyOf(k)' = Key(A, B)
    BY <1>3 DEF KeyOf, Key
  <2>3. \A k \in DOMAIN measured : KeyOf(k) # Key(A, B)
    BY <1>1 DEF IInv, Recorded
  <2>4. \A k \in DOMAIN measured' :
            measured'[k][1] # measured'[k][2] /\ KeyOf(k)' \in seen'
    BY <1>1, <1>2, <1>3, <1>4, <2>1, <2>2 DEF IInv, Recorded
  <2>5. \A k, l \in DOMAIN measured' : KeyOf(k)' = KeyOf(l)' => k = l
    BY <1>4, <2>1, <2>2, <2>3 DEF IInv, Recorded
  <2>6. QED
    BY <1>1, <1>3, <2>4, <2>5 DEF Recorded
<1>8. Matched'
  <2>1. MeasuredFor' = MeasuredFor /\ MeasuredFor = category
    BY <1>1 DEF MeasuredFor
  <2>2. \A k \in DOMAIN measured' :
            Relation(MeasuredFor, Difference(measured'[k][1], measured'[k][2]))
    BY <1>2, <1>3, <1>4, <2>1 DEF IInv, Matched, Match
  <2>3. QED
    BY <1>1, <2>1, <2>2, RelationFixed DEF Matched
<1>9. Summarised' /\ Asked' /\ Untouched'
  BY <1>1 DEF IInv, Summarised, Asked, Untouched
<1>10. QED
  BY <1>5, <1>6, <1>7, <1>8, <1>9 DEF IInv

\* A summary is over as many samples as pairs were asked for.
LEMMA SummariseStep ==
    ASSUME IInv, Summarise
    PROVE  IInv'
<1>1. /\ pc = "outer" /\ found = req.pairs /\ category' = "diffbg"
      /\ reported' = Append(reported, Len(measured))
      /\ pc' = IF category = "samebank" THEN "category" ELSE "done"
      /\ UNCHANGED <<req, phys, search>>
  BY DEF Summarise, Enough
<1>2. /\ Len(measured) = req.pairs /\ Len(measured) \in Nat
      /\ reported \in Seq(Nat) /\ category \in Categories
      /\ Len(reported) = IF category = "diffbg" THEN 1 ELSE 0
  BY <1>1 DEF IInv, TypeOK, Recorded, Summarised
<1>3. /\ reported' \in Seq(Nat) /\ Len(reported') = Len(reported) + 1
      /\ \A k \in DOMAIN reported' : reported'[k] = req.pairs
  <2>1. \A k \in DOMAIN reported : reported[k] = req.pairs
    BY DEF IInv, Summarised
  <2>2. QED
    BY <1>1, <1>2, <2>1
<1>4. TypeOK'
  BY <1>1, <1>3 DEF IInv, TypeOK, Ended, Categories, search, Lines
<1>5. Budgeted' /\ Recorded' /\ Asked' /\ Untouched'
  BY <1>1 DEF IInv, Budgeted, Recorded, Asked, Untouched, KeyOf, Key, search
<1>6. Matched'
  <2>1. MeasuredFor' = MeasuredFor
    BY <1>1, <1>2 DEF MeasuredFor, Categories
  <2>2. QED
    BY <1>1, <2>1, RelationFixed DEF IInv, Matched, search
<1>7. Summarised'
  BY <1>1, <1>2, <1>3 DEF Summarised, Categories
<1>8. QED
  BY <1>4, <1>5, <1>6, <1>7 DEF IInv

\* latency_bw.cpp:320-505.  In every reachable state the draws account for the budget,
\* the pairs measured are of keys seen, and each is of the relation it was drawn for.
THEOREM LatencyInvariant == Spec => []IInv
<1>1. IInv /\ [Next]_vars => IInv'
  <2> SUFFICES ASSUME IInv, [Next]_vars PROVE IInv'
    OBVIOUS
  <2>1. CASE UNCHANGED vars
    <3>1. UNCHANGED <<req, pc, phys, category, budget, tries, A, B, seen, found, reported,
                      measured, draws>>
      BY <2>1 DEF vars, search
    <3>2. TypeOK' /\ Summarised' /\ Asked' /\ Untouched'
      BY <3>1 DEF IInv, TypeOK, Summarised, Asked, Untouched, Lines
    <3>3. Budgeted' /\ Recorded'
      BY <3>1 DEF IInv, Budgeted, Budget, Recorded, KeyOf, Key
    <3>4. Matched'
      BY <3>1, RelationFixed DEF IInv, Matched, MeasuredFor, Match
    <3>5. QED
      BY <3>2, <3>3, <3>4 DEF IInv
  <2>2. CASE Next
    BY <2>2, QuietStep, MapStep, StartStep, DrawStep, HitStep, MeasureStep, SummariseStep
    DEF Next
  <2>3. QED
    BY <2>1, <2>2
<1>2. QED
  BY <1>1, InitInv, PTL DEF Spec

\* latency_bw.cpp:240-262.  Testing the XOR of two addresses is testing their decodes:
\* a measured pair is in one bank and two rows, or in two bank groups of one rank.
THEOREM RelatedPairs == Spec => []PairsRelated
<1>1. IInv => PairsRelated
  <2> SUFFICES ASSUME IInv, NEW k \in DOMAIN measured
               PROVE  LET v == Place(measured[k][1])
                          w == Place(measured[k][2])
                      IN  /\ v.channel = w.channel /\ v.rank = w.rank
                          /\ IF MeasuredFor = "samebank"
                             THEN v.bank_group = w.bank_group /\ v.bank = w.bank /\ v.row # w.row
                             ELSE v.bank_group # w.bank_group
    BY DEF PairsRelated
  <2> DEFINE a == dram(measured[k][1])
  <2> DEFINE b == dram(measured[k][2])
  <2> DEFINE D == Xor(BitsOf(a), BitsOf(b))
  <2>1. Difference(measured[k][1], measured[k][2]) = D
    BY DEF Difference, Xor
  <2>2. Relation(MeasuredFor, D)
    BY <2>1 DEF IInv, Matched
  <2>3. /\ Place(measured[k][1]) = decode_addr(BitsOf(a))
        /\ Place(measured[k][2]) = decode_addr(BitsOf(b))
    BY DEF Place, dram
  <2> HIDE DEF a, b
  <2>4. \A masks : fields_equal(masks, D) <=> Value(masks, BitsOf(a)) = Value(masks, BitsOf(b))
    BY FieldsEqual
  <2>5. D \cap m.row # {} <=> BitsOf(a) \cap m.row # BitsOf(b) \cap m.row
    BY RowsDiffer
  <2> HIDE DEF D
  <2>6. CASE MeasuredFor = "samebank"
    BY <2>2, <2>3, <2>4, <2>5, <2>6 DEF Relation, same_bank_diff_row, decode_addr
  <2>7. CASE MeasuredFor # "samebank"
    BY <2>2, <2>3, <2>4, <2>7 DEF Relation, diff_bank_group, decode_addr
  <2>8. QED
    BY <2>6, <2>7
<1>2. QED
  BY <1>1, LatencyInvariant, PTL

\* latency_bw.cpp:366-400.  No pair of a category is measured twice, whichever of its
\* lines was drawn first, and every summary printed is over all the pairs asked for.
THEOREM DistinctPairs == Spec => []PairsDistinct
<1>1. IInv => PairsDistinct
  <2> SUFFICES ASSUME IInv PROVE PairsDistinct
    OBVIOUS
  <2>1. measured \in Seq(Lines \X Lines)
    BY DEF IInv, TypeOK
  <2>2. \A k \in DOMAIN measured : measured[k][1] \in Int /\ measured[k][2] \in Int
    BY <2>1 DEF Lines
  <2>3. ASSUME NEW k \in DOMAIN measured, NEW l \in DOMAIN measured,
               {measured[k][1], measured[k][2]} = {measured[l][1], measured[l][2]}
        PROVE  k = l
    <3>1. KeyOf(k) = KeyOf(l)
      BY <2>2, <2>3, SameKey DEF KeyOf
    <3>2. QED
      BY <3>1 DEF IInv, Recorded
  <2>4. \A k \in DOMAIN measured : measured[k][1] # measured[k][2]
    BY DEF IInv, Recorded
  <2>5. /\ \A k \in DOMAIN reported : reported[k] = req.pairs
        /\ pc \in Ended => Len(reported) = IF pc = "done" THEN 2 ELSE
                                            IF category = "diffbg" THEN 1 ELSE 0
    BY DEF IInv, Summarised
  <2>6. QED
    BY <2>3, <2>4, <2>5 DEF PairsDistinct
<1>2. QED
  BY <1>1, LatencyInvariant, PTL

\* latency_bw.cpp:343-400.  A category is given up only when failed draws have used the
\* whole budget.
THEOREM BudgetSpent == Spec => []GivesUpAtBudget
<1>1. ASSUME IInv, pc = "exhausted" PROVE draws = Budget + found
  <2>1. Budget \in Nat
    BY <1>1, WholeBudget
  <2>2. QED
    BY <1>1, <2>1 DEF IInv, TypeOK, Budgeted
<1>2. IInv => GivesUpAtBudget
  BY <1>1 DEF GivesUpAtBudget
<1>3. QED
  BY <1>2, LatencyInvariant, PTL

------------------------------------------------------------------------------
(* The search ends: what is left to do grows less with each step.          *)

\* What holds in the loops besides: an A is drawn only while pairs are wanted and the
\* budget lasts, so that at least one candidate is drawn for it.
Looping == /\ pc \in {"outer", "inner", "measure"} => found <= req.pairs
           /\ pc \in {"inner", "measure"} => found < req.pairs
           /\ pc = "inner" /\ tries = 0 => budget > 0

\* Draws left in a category: those that may fail, and one for each pair still wanted.
DrawsLeft == budget + (req.pairs - found)

\* Steps of a category from its beginning to its end: a draw that fails, or finds a pair,
\* is at most four of them with its part of the steps of the outer loop.
CategorySteps == IF req.pairs >= 1 THEN 4 * (Budget + req.pairs) + 2 ELSE 0

StepsLeft == CASE pc = "check" -> 2 * CategorySteps + 1
               [] pc = "category" -> CategorySteps
               [] pc = "outer" -> 4 * DrawsLeft + 1
               [] pc = "inner" -> 4 * DrawsLeft + (IF tries = 0 THEN 0 ELSE 2)
               [] pc = "measure" -> 4 * DrawsLeft - 1
               [] pc \in Ended -> 0

\* The second category is still to come.
AllStepsLeft == StepsLeft + (IF category = "samebank" /\ pc \notin Ended \cup {"check"}
                             THEN CategorySteps ELSE 0)

StepsLeftTable ==
    /\ req.pairs \in Int
    /\ CategorySteps \in Nat
    /\ pc \notin Ended \cup {"check"} => /\ Budget \in Nat /\ req.pairs >= 1
                                         /\ CategorySteps = 4 * (Budget + req.pairs) + 2
    /\ pc = "check" => AllStepsLeft = 2 * CategorySteps + 1
    /\ \E rest \in {0, CategorySteps} :
          /\ category = "samebank" => rest = CategorySteps
          /\ category # "samebank" => rest = 0
          /\ pc = "category" => AllStepsLeft = CategorySteps + rest
          /\ pc = "outer" => AllStepsLeft = 4 * DrawsLeft + 1 + rest
          /\ pc = "inner" => AllStepsLeft = 4 * DrawsLeft + (IF tries = 0 THEN 0 ELSE 2) + rest
          /\ pc = "measure" => AllStepsLeft = 4 * DrawsLeft - 1 + rest
    /\ pc \in Ended => AllStepsLeft = 0
    /\ AllStepsLeft \in Nat

\* What is left at each place is a number.
LEMMA StepsLeftAt == IInv /\ Looping => StepsLeftTable
<1> SUFFICES ASSUME IInv, Looping PROVE StepsLeftTable
  OBVIOUS
<1>1. req.pairs \in Int /\ budget \in Nat /\ found \in Nat
      /\ pc \in Ended \cup {"check", "category", "outer", "inner", "measure"}
      /\ category \in {"samebank", "diffbg"}
  BY RequestAssumption DEF IInv, TypeOK, Categories
<1>2. req.pairs >= 1 => Budget \in Nat
  <2>1. \A k \in Int : k >= 1 => k * PairBudget \in Nat
    BY BudgetAssumption
  <2> QED
    BY <1>1, <2>1 DEF Budget
<1>3. CategorySteps \in Nat /\ (req.pairs >= 1 => CategorySteps = 4 * (Budget + req.pairs) + 2)
  BY <1>1, <1>2 DEF CategorySteps
<1>4. pc \notin Ended \cup {"check"} => req.pairs >= 1
  BY <1>1 DEF IInv, Asked, Ended
<1>5. pc \in {"outer", "inner", "measure"} => DrawsLeft \in Nat /\ (pc # "outer" => DrawsLeft >= 1)
  BY <1>1 DEF Looping, DrawsLeft
<1> HIDE DEF CategorySteps, DrawsLeft, Budget
<1> DEFINE rest == IF category = "samebank" THEN CategorySteps ELSE 0
<1>6. rest \in Nat /\ rest \in {0, CategorySteps}
  BY <1>3
<1>7. pc \notin Ended \cup {"check"} => AllStepsLeft = StepsLeft + rest
  BY <1>3 DEF AllStepsLeft
<1>8. pc \in Ended \cup {"check"} => AllStepsLeft = StepsLeft + 0
  BY DEF AllStepsLeft
<1>9. CASE pc \in {"check", "category"}
  BY <1>1, <1>2, <1>3, <1>4, <1>6, <1>7, <1>8, <1>9 DEF StepsLeftTable, StepsLeft, Ended
<1>10. CASE pc \in {"outer", "inner", "measure"}
  <2>1. /\ pc = "outer" => StepsLeft = 4 * DrawsLeft + 1
        /\ pc = "inner" => StepsLeft = 4 * DrawsLeft + (IF tries = 0 THEN 0 ELSE 2)
        /\ pc = "measure" => StepsLeft = 4 * DrawsLeft - 1
    BY <1>10 DEF StepsLeft, Ended
  <2>2. AllStepsLeft = StepsLeft + rest /\ req.pairs >= 1
    BY <1>4, <1>7, <1>10 DEF Ended
  <2> HIDE DEF rest
  <2>3. AllStepsLeft \in Nat
    BY <1>5, <1>6, <1>10, <2>1, <2>2
  <2> USE DEF rest
  <2> QED
    BY <1>1, <1>2, <1>3, <1>6, <1>10, <2>1, <2>2, <2>3 DEF StepsLeftTable, Ended
<1>11. CASE pc \in Ended
  BY <1>1, <1>3, <1>6, <1>8, <1>11 DEF StepsLeftTable, StepsLeft, Ended
<1> QED
  BY <1>1, <1>9, <1>10, <1>11

\* This holds in every reachable state.
LEMMA LoopingHolds == Spec => []Looping
<1>1. Init => Looping
  BY DEF Init, Looping
<1>2. IInv /\ Looping /\ [Next]_vars => Looping'
  <2> SUFFICES ASSUME IInv, Looping, [Next]_vars PROVE Looping'
    OBVIOUS
  <2>1. req.pairs \in Int /\ found \in Nat /\ budget \in Nat /\ tries \in Nat
    BY RequestAssumption DEF IInv, TypeOK
  <2>2. CASE Reject \/ MapFails \/ TranslateFails \/ Exhausted \/ Summarise \/ Map
    BY <2>2 DEF Reject, MapFails, TranslateFails, Exhausted, Summarise, Map, Looping
  <2>3. CASE StartCategory
    BY <2>1, <2>3 DEF StartCategory, Looping, IInv, Asked
  <2>4. CASE DrawA
    BY <2>1, <2>4 DEF DrawA, Searching, Looping
  <2>5. CASE Miss
    BY <2>1, <2>5 DEF Miss, Spend, Looping, Trying
  <2>6. CASE Hit
    BY <2>1, <2>6 DEF Hit, Trying, Looping
  <2>7. CASE NextA
    BY <2>1, <2>7 DEF NextA, Looping, search
  <2>8. CASE Measure
    BY <2>1, <2>8 DEF Measure, Looping
  <2>9. CASE UNCHANGED vars
    BY <2>9 DEF vars, search, Looping
  <2> QED
    BY <2>2, <2>3, <2>4, <2>5, <2>6, <2>7, <2>8, <2>9 DEF Next
<1> QED
  BY <1>1, <1>2, LatencyInvariant, PTL DEF Spec

\* latency_bw.cpp:320-505.  Whatever is drawn, each step brings the end nearer, also those of
\* the outer loop that draw a new A and those between the categories.
THEOREM SearchTakesBoundedSteps ==
    Spec => /\ [](AllStepsLeft \in Nat)
            /\ [][AllStepsLeft' < AllStepsLeft]_vars
<1>1. IInv /\ Looping /\ StepsLeftTable /\ StepsLeftTable' /\ [Next]_vars
        => [AllStepsLeft' < AllStepsLeft]_vars
  <2> SUFFICES ASSUME IInv, Looping, StepsLeftTable, StepsLeftTable', Next
               PROVE  AllStepsLeft' < AllStepsLeft
    OBVIOUS
  <2>1. /\ req.pairs \in Int /\ found \in Nat /\ budget \in Nat /\ tries \in Nat
        /\ category \in {"samebank", "diffbg"} /\ CategorySteps \in Nat
        /\ AllStepsLeft \in Nat /\ AllStepsLeft' \in Nat
    BY RequestAssumption DEF IInv, TypeOK, StepsLeftTable, Categories
  <2>2. req' = req /\ Budget' = Budget /\ CategorySteps' = CategorySteps
    BY DEF Next, Reject, Map, MapFails, StartCategory, DrawA, Miss, Hit, NextA, TranslateFails,
           Measure, Exhausted, Summarise, Budget, CategorySteps
  <2> HIDE DEF CategorySteps, Budget, AllStepsLeft
  <2>3. CASE Reject \/ MapFails
    BY <2>1, <2>3 DEF Reject, MapFails, StepsLeftTable, Ended
  <2>4. CASE Map
    BY <2>1, <2>2, <2>4 DEF Map, StepsLeftTable, Ended
  <2>5. CASE StartCategory
    BY <2>1, <2>2, <2>5 DEF StartCategory, StepsLeftTable, Ended, DrawsLeft
  <2>6. CASE DrawA
    BY <2>1, <2>2, <2>6 DEF DrawA, StepsLeftTable, Ended, DrawsLeft
  <2>7. CASE Miss
    BY <2>1, <2>2, <2>7 DEF Miss, Spend, Trying, StepsLeftTable, Ended, DrawsLeft
  <2>8. CASE Hit
    BY <2>1, <2>2, <2>8 DEF Hit, Trying, StepsLeftTable, Ended, DrawsLeft
  <2>9. CASE NextA
    BY <2>1, <2>2, <2>9, BudgetAssumption DEF NextA, search, Trying, Looping, StepsLeftTable, Ended, DrawsLeft
  <2>10. CASE TranslateFails \/ Exhausted
    BY <2>1, <2>2, <2>10 DEF TranslateFails, Exhausted, Trying, StepsLeftTable, Looping, Ended, DrawsLeft
  <2>11. CASE Measure
    <3>1. DrawsLeft \in Int /\ DrawsLeft' = DrawsLeft - 1
      BY <2>1, <2>2, <2>11 DEF Measure, DrawsLeft
    <3> HIDE DEF DrawsLeft
    <3>2. pc = "measure" /\ pc' = "outer" /\ category' = category
      BY <2>11 DEF Measure
    <3> QED
      BY <2>1, <2>2, <3>1, <3>2 DEF StepsLeftTable, Ended
  <2>12. CASE Summarise
    <3>1. DrawsLeft \in Nat
      BY <2>1, <2>12 DEF Summarise, Enough, DrawsLeft
    <3> HIDE DEF DrawsLeft
    <3>2. CASE category = "samebank"
      <4>1. AllStepsLeft = 4 * DrawsLeft + 1 + CategorySteps
        BY <2>12, <3>2 DEF Summarise, StepsLeftTable
      <4>2. AllStepsLeft' = CategorySteps
        BY <2>1, <2>2, <2>12, <3>2 DEF Summarise, StepsLeftTable
      <4> QED
        BY <2>1, <3>1, <4>1, <4>2
    <3>3. CASE category # "samebank"
      <4>1. AllStepsLeft = 4 * DrawsLeft + 1 + 0
        BY <2>12, <3>3 DEF Summarise, StepsLeftTable
      <4>2. AllStepsLeft' = 0
        BY <2>12, <3>3 DEF Summarise, StepsLeftTable, Ended
      <4> QED
        BY <3>1, <4>1, <4>2
    <3> QED
      BY <3>2, <3>3
  <2> QED
    BY <2>3, <2>4, <2>5, <2>6, <2>7, <2>8, <2>9, <2>10, <2>11, <2>12 DEF Next
<1>2. StepsLeftTable => AllStepsLeft \in Nat
  BY DEF StepsLeftTable
<1> QED
  BY <1>1, <1>2, StepsLeftAt, LoopingHolds, LatencyInvariant, PTL DEF Spec
=============================================================================
