-------------------------- MODULE ColumnStepsProofs --------------------------
(***************************************************************************)
(* For every mapping and every address, the masks of col_step_masks() keep *)
(* bank and row, alone and XOR-ed, none is missing that exists, and each   *)
(* is the smallest.  Banks() is linear over XOR, so the reduction of a     *)
(* vector and of the bits recorded with it stay in step; the basis spans   *)
(* all that the inserted bits flip, and combines only bits that no lower   *)
(* ones can stand in for.  An XOR clears the top of a vector, so that the  *)
(* solver ends.                                                            *)
(***************************************************************************)
EXTENDS ColumnSteps, FiniteSetTheorems, WellFoundedInduction, TLAPS

(* XOR and parity.                                                         *)

\* A set of address bits is finite, so its parity is defined.
LEMMA BitsFinite ==
    ASSUME NEW S \in SUBSET Bit
    PROVE  IsFiniteSet(S) /\ Cardinality(S) \in Nat
<1>1. IsFiniteSet(Bit)
  BY FS_Interval, WidthAssumption DEF Bit
<1>2. QED
  BY <1>1, FS_Subset, FS_CardinalityType

\* The parity of an XOR is the XOR of the parities.
LEMMA OddXor ==
    ASSUME NEW A, NEW B, IsFiniteSet(A), IsFiniteSet(B)
    PROVE  Odd(SymDiff(A, B)) <=> ~(Odd(A) <=> Odd(B))
<1>1. /\ IsFiniteSet(A \cup B)
      /\ Cardinality(A \cup B) = Cardinality(A) + Cardinality(B) - Cardinality(A \cap B)
  BY FS_Union
<1>2. /\ IsFiniteSet(SymDiff(A, B))
      /\ Cardinality(SymDiff(A, B)) =
            Cardinality(A \cup B) - Cardinality((A \cup B) \cap (A \cap B))
  <2>1. SymDiff(A, B) = (A \cup B) \ (A \cap B)
    BY DEF SymDiff
  <2>2. QED
    BY <1>1, <2>1, FS_Difference
<1>3. Cardinality((A \cup B) \cap (A \cap B)) = Cardinality(A \cap B)
  <2>1. (A \cup B) \cap (A \cap B) = A \cap B
    OBVIOUS
  <2>2. QED
    BY <2>1
<1>4. /\ Cardinality(A) \in Nat
      /\ Cardinality(B) \in Nat
      /\ Cardinality(A \cap B) \in Nat
      /\ Cardinality(A \cup B) \in Nat
      /\ Cardinality(SymDiff(A, B)) \in Nat
  BY <1>1, <1>2, FS_CardinalityType, FS_Intersection
<1>5. Cardinality(SymDiff(A, B)) =
          Cardinality(A) + Cardinality(B) - 2 * Cardinality(A \cap B)
  BY <1>1, <1>2, <1>3, <1>4
<1>6. QED
  BY <1>4, <1>5 DEF Odd

\* The bank functions are linear: XOR-ing two addresses XORs what they select.
LEMMA BanksXor ==
    ASSUME IsMapping(sys), NEW A \in SUBSET Bit, NEW B \in SUBSET Bit
    PROVE  Banks(SymDiff(A, B)) = SymDiff(Banks(A), Banks(B))
<1>1. ASSUME NEW f \in Fn
      PROVE  Odd(sys.fun[f] \cap SymDiff(A, B))
                 <=> ~(Odd(sys.fun[f] \cap A) <=> Odd(sys.fun[f] \cap B))
  <2>1. sys.fun[f] \cap SymDiff(A, B) = SymDiff(sys.fun[f] \cap A, sys.fun[f] \cap B)
    BY DEF SymDiff
  <2>2. IsFiniteSet(sys.fun[f] \cap A) /\ IsFiniteSet(sys.fun[f] \cap B)
    BY BitsFinite
  <2>3. QED
    BY <2>1, <2>2, OddXor
<1>2. QED
  BY <1>1 DEF Banks, SymDiff

\* One bit selects its signature, no bit selects nothing.
LEMMA BanksBit ==
    ASSUME IsMapping(sys), NEW b \in Bit
    PROVE  Banks({b}) = Signature(b)
<1>1. ASSUME NEW f \in Fn
      PROVE  Odd(sys.fun[f] \cap {b}) <=> b \in sys.fun[f]
  <2>1. CASE b \in sys.fun[f]
    <3>1. sys.fun[f] \cap {b} = {b}
      BY <2>1
    <3>2. QED
      BY <2>1, <3>1, FS_Singleton DEF Odd
  <2>2. CASE b \notin sys.fun[f]
    <3>1. sys.fun[f] \cap {b} = {}
      BY <2>2
    <3>2. QED
      BY <2>2, <3>1, FS_EmptySet DEF Odd
  <2>3. QED
    BY <2>1, <2>2
<1>2. QED
  BY <1>1 DEF Banks, Signature

LEMMA BanksNothing == Banks({}) = {}
<1>1. \A f \in Fn : sys.fun[f] \cap {} = {}
  OBVIOUS
<1>2. QED
  BY <1>1, FS_EmptySet DEF Banks, Odd

------------------------------------------------------------------------------
(* The state.                                                              *)

\* The initial state: nothing is in the basis and nothing is being reduced.
LEMMA SoundInit == Init => Sound
<1> SUFFICES ASSUME Init PROVE Sound
  OBVIOUS
<1>1. IsMapping(sys)
  BY MappingAssumption DEF Init
<1>2. TypeOK
  <2>1. high \in BOOLEAN
    BY CallAssumption DEF Init
  <2>2. slack \subseteq Outside
    BY DEF Init, SlackBits, Outside
  <2>3. slot \in [Fn -> [vec : SUBSET Fn, combo : SUBSET Outside]]
    BY DEF Init, NoVector
  <2>4. QED
    BY <1>1, <2>1, <2>2, <2>3 DEF Init, TypeOK, Outside
<1>3. Traced /\ Working /\ MasksKeepPlace /\ MasksFresh
  BY DEF Init, Traced, Working, MasksKeepPlace, MasksFresh
<1>4. QED
  BY <1>2, <1>3 DEF Sound

\* The bits of the state are address bits.
LEMMA BitFacts ==
    ASSUME TypeOK
    PROVE  /\ SUBSET Outside \subseteq SUBSET Bit
           /\ c \in SUBSET Outside
           /\ v \in SUBSET Fn
           /\ sys.column \subseteq Bit
           /\ cols \subseteq sys.column
           /\ slack \subseteq Outside
           /\ slot \in [Fn -> [vec : SUBSET Fn, combo : SUBSET Outside]]
           /\ IsMapping(sys)
BY DEF TypeOK, Outside, IsMapping, ColumnBits

\* XOR-ing a vector of the basis keeps the vector being reduced in step with the
\* bits combined so far.
LEMMA XorKeepsStep ==
    ASSUME TypeOK, Traced, NEW f \in Fn, slot[f] # NoVector, XorSlot(f),
           NEW X \in SUBSET Bit, v = Banks(SymDiff(c, X))
    PROVE  /\ v' \in SUBSET Fn
           /\ c' \in SUBSET Outside
           /\ v' = Banks(SymDiff(c', X))
<1> DEFINE w == slot[f].combo
<1>1. /\ c \in SUBSET Bit
      /\ c \in SUBSET Outside
      /\ w \in SUBSET Bit
      /\ w \in SUBSET Outside
      /\ slot[f].vec \in SUBSET Fn
      /\ v \in SUBSET Fn
      /\ IsMapping(sys)
  BY BitFacts
<1>2. v' = SymDiff(Banks(SymDiff(c, X)), Banks(w))
  BY DEF XorSlot, Traced
<1>3. SymDiff(c, X) \in SUBSET Bit
  BY <1>1 DEF SymDiff
<1>4. SymDiff(SymDiff(c, X), w) = SymDiff(SymDiff(c, w), X)
  BY DEF SymDiff
<1>5. v' = Banks(SymDiff(SymDiff(c, X), w))
  BY <1>1, <1>2, <1>3, BanksXor
<1>6. c' = SymDiff(c, w)
  BY DEF XorSlot
<1>7. v' \in SUBSET Fn /\ c' \in SUBSET Outside
  BY <1>1 DEF XorSlot, SymDiff
<1>8. QED
  BY <1>4, <1>5, <1>6, <1>7

\* Types hold at every step; the basis, what is reduced and the masks are
\* followed below, in the steps that touch them.
LEMMA StepInsertBit ==
    ASSUME Sound, InsertBit
    PROVE  Sound'
<1>1. PICK b \in slack : /\ slack' = slack \ {b}
                         /\ v' = Signature(b)
                         /\ c' = {b}
  BY DEF InsertBit
<1>2. /\ pc' = "reduce" /\ sys' = sys /\ high' = high /\ slot' = slot
      /\ cols' = cols /\ bit' = bit /\ masks' = masks
  BY DEF InsertBit
<1>3. TypeOK /\ Traced /\ MasksKeepPlace /\ MasksFresh /\ IsMapping(sys)
  BY BitFacts DEF Sound
<1>4. b \in Bit /\ {b} \subseteq Outside
  BY <1>3, BitFacts DEF Outside
<1>5. v' = Banks(c')
  BY <1>1, <1>3, <1>4, BanksBit
<1>6. v' \subseteq Fn
  BY <1>1 DEF Signature
<1>7. TypeOK'
  BY <1>1, <1>2, <1>3, <1>4, <1>6 DEF TypeOK, Outside, Fn
<1>8. Traced' /\ MasksKeepPlace' /\ MasksFresh'
  BY <1>2, <1>3 DEF Traced, MasksKeepPlace, MasksFresh, Banks, Fn
<1>9. Working'
  BY <1>2, <1>5 DEF Working, Banks, Fn
<1>10. QED
  BY <1>7, <1>8, <1>9 DEF Sound

LEMMA StepReduce ==
    ASSUME Sound, Reduce
    PROVE  Sound'
<1>1. /\ pc = "reduce" /\ pc' = pc /\ sys' = sys /\ high' = high /\ slack' = slack
      /\ slot' = slot /\ cols' = cols /\ bit' = bit /\ masks' = masks
  BY DEF Reduce
<1>11. PICK f \in v : slot[f] # NoVector /\ XorSlot(f)
  BY DEF Reduce
<1>2. TypeOK /\ Traced /\ Working /\ MasksKeepPlace /\ MasksFresh
  BY DEF Sound
<1>3. f \in Fn
  BY <1>2 DEF TypeOK
<1>4. v = Banks(SymDiff(c, {}))
  <2>1. SymDiff(c, {}) = c
    BY DEF SymDiff
  <2>2. QED
    BY <1>1, <1>2, <2>1 DEF Working
<1>5. /\ v' \in SUBSET Fn
      /\ c' \in SUBSET Outside
      /\ v' = Banks(SymDiff(c', {}))
  BY <1>11, <1>2, <1>3, <1>4, XorKeepsStep
<1>6. v' = Banks(c')
  <2>1. SymDiff(c', {}) = c'
    BY DEF SymDiff
  <2>2. QED
    BY <1>5, <2>1
<1>7. TypeOK'
  BY <1>1, <1>2, <1>5 DEF TypeOK, Outside, Fn
<1>8. Traced' /\ MasksKeepPlace' /\ MasksFresh'
  BY <1>1, <1>2 DEF Traced, MasksKeepPlace, MasksFresh, Banks, Fn
<1>9. Working'
  BY <1>1, <1>6 DEF Working, Banks, Fn
<1>10. QED
  BY <1>7, <1>8, <1>9 DEF Sound

LEMMA StepStore ==
    ASSUME Sound, Store
    PROVE  Sound'
<1>1. /\ pc = "reduce" /\ pc' = "insert" /\ sys' = sys /\ high' = high /\ slack' = slack
      /\ cols' = cols /\ bit' = bit /\ v' = v /\ c' = c /\ masks' = masks
  BY DEF Store
<1>11. PICK f \in v : slot' = [slot EXCEPT ![f] = [vec |-> v, combo |-> c]]
  BY DEF Store
<1>2. TypeOK /\ Traced /\ Working /\ MasksKeepPlace /\ MasksFresh
  BY DEF Sound
<1>3. f \in v /\ f \in Fn
  BY <1>2 DEF TypeOK
<1>4. slot \in [Fn -> [vec : SUBSET Fn, combo : SUBSET Outside]]
  BY <1>2, BitFacts
<1>5. v \in SUBSET Fn /\ c \in SUBSET Outside
  BY <1>2, BitFacts
<1>6. slot' \in [Fn -> [vec : SUBSET Fn, combo : SUBSET Outside]]
  BY <1>11, <1>4, <1>5
<1>7. TypeOK'
  BY <1>1, <1>2, <1>6 DEF TypeOK, Outside, Fn
<1>8. Traced'
  <2> SUFFICES ASSUME NEW g \in Fn, slot'[g] # NoVector
               PROVE  slot'[g].vec = Banks(slot'[g].combo) /\ g \in slot'[g].vec
    BY <1>1 DEF Traced, Banks, Fn
  <2>1. CASE g = f
    <3>1. slot'[g] = [vec |-> v, combo |-> c]
      BY <1>11, <1>3, <1>4, <2>1
    <3>2. v = Banks(c)
      BY <1>1, <1>2 DEF Working
    <3>3. QED
      BY <1>3, <2>1, <3>1, <3>2
  <2>2. CASE g # f
    <3>1. slot'[g] = slot[g]
      BY <1>11, <1>4, <2>2
    <3>2. QED
      BY <1>2, <3>1 DEF Traced
  <2>3. QED
    BY <2>1, <2>2
<1>9. MasksKeepPlace' /\ MasksFresh' /\ Working'
  BY <1>1, <1>2 DEF MasksKeepPlace, MasksFresh, Working, Banks, Fn
<1>10. QED
  BY <1>7, <1>8, <1>9 DEF Sound

LEMMA StepSolveBit ==
    ASSUME Sound, SolveBit
    PROVE  Sound'
<1>1. PICK b \in cols : /\ bit' = b
                        /\ cols' = cols \ {b}
                        /\ v' = Signature(b)
  BY DEF SolveBit
<1>2. /\ pc' = "cancel" /\ sys' = sys /\ high' = high /\ slack' = slack
      /\ slot' = slot /\ c' = {} /\ masks' = masks
  BY DEF SolveBit
<1>3. TypeOK /\ Traced /\ MasksKeepPlace /\ MasksFresh
  BY DEF Sound
<1>4. b \in sys.column /\ b \in Bit /\ IsMapping(sys)
  BY <1>3, BitFacts
<1>5. v' = Banks(c' \cup {bit'})
  <2>1. c' \cup {bit'} = {b}
    BY <1>1, <1>2
  <2>2. QED
    BY <1>1, <1>4, <2>1, BanksBit
<1>6. v' \subseteq Fn
  BY <1>1 DEF Signature
<1>7. TypeOK'
  BY <1>1, <1>2, <1>3, <1>4, <1>6 DEF TypeOK, Fn
<1>8. Traced' /\ MasksKeepPlace'
  BY <1>2, <1>3 DEF Traced, MasksKeepPlace, Banks, Fn
<1>9. Working'
  BY <1>1, <1>2, <1>4, <1>5 DEF Working, Banks, Fn
<1>10. MasksFresh'
  BY <1>1, <1>2, <1>3 DEF MasksFresh
<1>11. QED
  BY <1>7, <1>8, <1>9, <1>10 DEF Sound

LEMMA StepCancel ==
    ASSUME Sound, Cancel
    PROVE  Sound'
<1>1. /\ pc = "cancel" /\ pc' = pc /\ sys' = sys /\ high' = high /\ slack' = slack
      /\ slot' = slot /\ cols' = cols /\ bit' = bit /\ masks' = masks
  BY DEF Cancel
<1>2. PICK f \in v : slot[f] # NoVector /\ XorSlot(f)
  BY DEF Cancel
<1>3. TypeOK /\ Traced /\ Working /\ MasksKeepPlace /\ MasksFresh
  BY DEF Sound
<1>4. f \in Fn
  BY <1>3 DEF TypeOK
<1>5. bit \in sys.column /\ {bit} \in SUBSET Bit
  BY <1>1, <1>3, BitFacts DEF Working
<1>6. \A C \in SUBSET Outside : SymDiff(C, {bit}) = C \cup {bit}
  BY <1>5 DEF SymDiff, Outside
<1>7. v = Banks(SymDiff(c, {bit}))
  BY <1>1, <1>3, <1>6, BitFacts DEF Working
<1>8. /\ v' \in SUBSET Fn
      /\ c' \in SUBSET Outside
      /\ v' = Banks(SymDiff(c', {bit}))
  BY <1>2, <1>3, <1>4, <1>5, <1>7, XorKeepsStep
<1>9. v' = Banks(c' \cup {bit})
  BY <1>6, <1>8
<1>10. TypeOK'
  BY <1>1, <1>3, <1>8 DEF TypeOK, Outside, Fn
<1>11. Traced' /\ MasksKeepPlace' /\ MasksFresh'
  BY <1>1, <1>3 DEF Traced, MasksKeepPlace, MasksFresh, Banks, Fn
<1>12. Working'
  BY <1>1, <1>5, <1>9 DEF Working, Banks, Fn
<1>13. QED
  BY <1>10, <1>11, <1>12 DEF Sound

\* The vector is cancelled: its bits and the column bit are a mask.
LEMMA StepSolved ==
    ASSUME Sound, Solved
    PROVE  Sound'
<1> DEFINE m == {bit} \cup c
<1>1. /\ pc = "cancel" /\ pc' = "solve" /\ sys' = sys /\ high' = high /\ slack' = slack
      /\ slot' = slot /\ cols' = cols /\ bit' = bit /\ v' = v /\ c' = c
      /\ v = {} /\ masks' = Append(masks, m)
  BY DEF Solved
<1>2. TypeOK /\ Traced /\ Working /\ MasksKeepPlace /\ MasksFresh
  BY DEF Sound
<1>3. bit \in sys.column /\ bit \in Bit /\ c \in SUBSET Outside /\ IsMapping(sys)
  BY <1>1, <1>2, BitFacts DEF Working
<1>4. m \in SUBSET Bit
  BY <1>3 DEF Outside
<1>5. Banks(m) = {}
  <2>1. m = c \cup {bit}
    OBVIOUS
  <2>2. QED
    BY <1>1, <1>2, <2>1 DEF Working
<1>6. m \cap sys.row = {} /\ m \cap sys.column = {bit}
  BY <1>3 DEF Outside, IsMapping
<1>7. masks \in Seq(SUBSET Bit) /\ masks' \in Seq(SUBSET Bit)
  BY <1>1, <1>2, <1>4 DEF TypeOK
<1>8. TypeOK'
  BY <1>1, <1>2, <1>7 DEF TypeOK, Fn
<1>9. MasksKeepPlace'
  <2> SUFFICES ASSUME NEW k \in DOMAIN masks'
               PROVE  /\ Banks(masks'[k]) = {}
                      /\ masks'[k] \cap sys.row = {}
                      /\ \E b \in sys.column : masks'[k] \cap sys.column = {b}
    BY <1>1 DEF MasksKeepPlace, Banks, Fn
  <2>1. CASE k \in DOMAIN masks
    <3>1. masks'[k] = masks[k]
      BY <1>1, <1>7, <2>1
    <3>2. QED
      BY <1>2, <2>1, <3>1 DEF MasksKeepPlace
  <2>2. CASE k \notin DOMAIN masks
    <3>1. masks'[k] = m
      BY <1>1, <1>7, <2>2
    <3>2. QED
      BY <1>3, <1>5, <1>6, <3>1
  <2>3. QED
    BY <2>1, <2>2
<1>10. Traced' /\ Working'
  BY <1>1, <1>2 DEF Traced, Working, Banks, Fn
<1>11. MasksFresh'
  <2>1. m \cap cols = {}
    BY <1>1, <1>2, <1>3, BitFacts DEF MasksFresh, Outside
  <2>2. \A k \in DOMAIN masks : masks[k] \cap m \cap sys.column = {}
    BY <1>1, <1>2, <1>6 DEF MasksFresh
  <2>3. \A k \in DOMAIN masks' : masks'[k] = m \/ (k \in DOMAIN masks /\ masks'[k] = masks[k])
    BY <1>1, <1>7
  <2>4. \A k, l \in DOMAIN masks' :
            k # l => k \in DOMAIN masks \/ l \in DOMAIN masks
    BY <1>1, <1>7
  <2>5. \A k \in DOMAIN masks : masks'[k] = masks[k]
    BY <1>1, <1>7
  <2>6. \A k \in DOMAIN masks' : masks'[k] \cap cols = {}
    BY <1>2, <2>1, <2>3 DEF MasksFresh
  <2>7. ASSUME NEW k \in DOMAIN masks', NEW l \in DOMAIN masks', k # l
        PROVE  masks'[k] \cap masks'[l] \cap sys.column = {}
    <3>1. CASE k \in DOMAIN masks /\ l \in DOMAIN masks
      BY <1>2, <2>5, <2>7, <3>1 DEF MasksFresh
    <3>2. CASE k \in DOMAIN masks /\ l \notin DOMAIN masks
      BY <2>2, <2>3, <2>5, <3>2
    <3>3. CASE k \notin DOMAIN masks /\ l \in DOMAIN masks
      BY <2>2, <2>3, <2>5, <3>3
    <3>4. QED
      BY <2>4, <2>7, <3>1, <3>2, <3>3
  <2>8. QED
    BY <1>1, <2>6, <2>7 DEF MasksFresh
<1>12. QED
  BY <1>8, <1>9, <1>10, <1>11 DEF Sound

\* The steps that only move on to the next part of the computation.
LEMMA StepMovesOn ==
    ASSUME Sound, Dependent \/ BasisDone \/ Unreachable \/ AllSolved \/ UNCHANGED vars
    PROVE  Sound'
<1>1. /\ sys' = sys /\ high' = high /\ slack' = slack /\ slot' = slot /\ cols' = cols
      /\ bit' = bit /\ v' = v /\ c' = c /\ masks' = masks
  BY DEF Dependent, BasisDone, Unreachable, AllSolved, vars
<1>2. pc' \in {"insert", "solve", "done"} \/ pc' = pc
  BY DEF Dependent, BasisDone, Unreachable, AllSolved, vars
<1>3. TypeOK /\ Traced /\ Working /\ MasksKeepPlace /\ MasksFresh
  BY DEF Sound
<1>4. TypeOK'
  BY <1>1, <1>2, <1>3 DEF TypeOK, Fn
<1>5. Traced' /\ MasksKeepPlace'
  BY <1>1, <1>3 DEF Traced, MasksKeepPlace, Banks, Fn
<1>6. Working'
  BY <1>1, <1>2, <1>3 DEF Working, Banks, Fn
<1>7. MasksFresh'
  BY <1>1, <1>2, <1>3 DEF MasksFresh
<1>8. QED
  BY <1>4, <1>5, <1>6, <1>7 DEF Sound

------------------------------------------------------------------------------
(* What the basis spans.                                                   *)

\* The order of the naturals stands in for induction.
LEMMA NatMin ==
    ASSUME NEW T, T \subseteq Nat, T # {}
    PROVE  \E x \in T : \A y \in T : x <= y
<1>1. PICK x \in T : \A y \in T : ~ (<<y, x>> \in OpToRel(<, Nat))
  BY NatLessThanWellFounded, WFMin
<1>2. ASSUME NEW y \in T
      PROVE  x <= y
  <2>1. ~ (<<y, x>> \in OpToRel(<, Nat)) /\ x \in Nat /\ y \in Nat
    BY <1>1
  <2>2. ~ (y < x)
    BY <2>1 DEF OpToRel
  <2>3. x \in Nat /\ y \in Nat
    OBVIOUS
  <2>4. QED
    BY <2>2, <2>3
<1>3. QED
  BY <1>2

LEMMA MaxExists ==
    ASSUME NEW n \in Nat, NEW T \in SUBSET (1 .. n), T # {}
    PROVE  \E x \in T : \A y \in T : y <= x
<1> DEFINE D == {n - y : y \in T}
<1>1. D \subseteq Nat /\ D # {}
  <2>1. \A y \in T : y \in 1 .. n
    OBVIOUS
  <2>2. \A y \in T : n - y \in Nat
    BY <2>1
  <2>3. QED
    BY <2>2
<1>2. PICK d \in D : \A e \in D : d <= e
  <2> HIDE DEF D
  <2>1. QED
    BY <1>1, NatMin
<1>3. PICK x \in T : d = n - x
  OBVIOUS
<1>4. ASSUME NEW y \in T PROVE y <= x
  <2>1. d <= n - y
    BY <1>2
  <2>2. QED
    BY <1>3, <2>1
<1>5. QED
  BY <1>4

LEMMA Functions ==
    ASSUME IsMapping(sys)
    PROVE  /\ Len(sys.fun) \in Nat /\ Fn = 1 .. Len(sys.fun)
           /\ \A T \in SUBSET Fn : IsFiniteSet(T)
<1>1. sys.fun \in Seq(SUBSET Bit)
  BY DEF IsMapping
<1>2. Len(sys.fun) \in Nat /\ Fn = 1 .. Len(sys.fun)
  BY <1>1 DEF Fn
<1>3. IsFiniteSet(Fn)
  BY <1>2, FS_Interval
<1>4. QED
  BY <1>2, <1>3, FS_Subset

LEMMA XorOfXor ==
    ASSUME IsMapping(sys), NEW T \in SUBSET Fn, NEW U \in SUBSET Fn
    PROVE  XorOf(SymDiff(T, U)) = SymDiff(XorOf(T), XorOf(U))
<1>1. ASSUME NEW g \in Fn
      PROVE  Odd({f \in SymDiff(T, U) : g \in slot[f].vec})
                 <=> ~(Odd({f \in T : g \in slot[f].vec}) <=> Odd({f \in U : g \in slot[f].vec}))
  <2> DEFINE A == {f \in T : g \in slot[f].vec}
             B == {f \in U : g \in slot[f].vec}
  <2>1. {f \in SymDiff(T, U) : g \in slot[f].vec} = SymDiff(A, B)
    BY DEF SymDiff
  <2>2. IsFiniteSet(A) /\ IsFiniteSet(B)
    <3>1. A \in SUBSET Fn /\ B \in SUBSET Fn
      OBVIOUS
    <3>2. QED
      BY <3>1, Functions
  <2> HIDE DEF A, B
  <2>3. Odd(SymDiff(A, B)) <=> ~(Odd(A) <=> Odd(B))
    BY <2>2, OddXor
  <2>4. QED
    BY <2>1, <2>3 DEF A, B
<1>2. QED
  BY <1>1 DEF XorOf, SymDiff

\* A set of one is odd.
LEMMA OddOne ==
    ASSUME NEW e
    PROVE  Odd({e})
<1>1. Cardinality({e}) = 1
  BY FS_Singleton
<1>2. QED
  BY <1>1 DEF Odd

LEMMA OddNone == ~Odd({})
<1>1. Cardinality({}) = 0
  BY FS_EmptySet
<1>2. QED
  BY <1>1 DEF Odd

LEMMA XorOfNone == XorOf({}) = {}
<1>1. \A g \in Fn : {f \in {} : g \in slot[f].vec} = {}
  OBVIOUS
<1>2. QED
  BY <1>1, OddNone DEF XorOf

LEMMA XorOfOne ==
    ASSUME TypeOK, NEW f \in Fn
    PROVE  XorOf({f}) = slot[f].vec
<1>1. slot[f].vec \subseteq Fn
  BY BitFacts
<1>2. ASSUME NEW g \in Fn
      PROVE  Odd({e \in {f} : g \in slot[e].vec}) <=> g \in slot[f].vec
  <2>1. CASE g \in slot[f].vec
    <3>1. {e \in {f} : g \in slot[e].vec} = {f}
      BY <2>1
    <3>2. QED
      BY <2>1, <3>1, OddOne
  <2>2. CASE g \notin slot[f].vec
    <3>1. {e \in {f} : g \in slot[e].vec} = {}
      BY <2>2
    <3>2. QED
      BY <2>2, <3>1, OddNone
  <2>3. QED
    BY <2>1, <2>2
<1>3. QED
  BY <1>1, <1>2 DEF XorOf

\* An XOR of vectors has the top function of the highest of them.
LEMMA TopOfXor ==
    ASSUME TypeOK, Echelon, NEW T \in SUBSET Slotted, T # {}
    PROVE  \E f \in T : Top(f, XorOf(T))
<1>1. /\ Len(sys.fun) \in Nat /\ Fn = 1 .. Len(sys.fun) /\ T \subseteq Fn
  BY Functions DEF TypeOK, Slotted
<1>2. PICK m \in T : \A f \in T : f <= m
  BY <1>1, MaxExists
<1>3. ASSUME NEW g \in Fn, g >= m
      PROVE  {f \in T : g \in slot[f].vec} = IF g = m THEN {m} ELSE {}
  <2>1. \A f \in T : g \in slot[f].vec => g <= f
    BY DEF Echelon, Top
  <2>2. m \in slot[m].vec
    BY DEF Echelon, Top
  <2>3. \A f \in T : f \in Nat /\ m \in Nat /\ g \in Nat
    BY <1>1
  <2>4. CASE g = m
    <3>1. \A f \in T : g \in slot[f].vec <=> f = m
      BY <1>2, <2>1, <2>2, <2>3, <2>4
    <3>2. QED
      BY <2>4, <3>1
  <2>5. CASE g # m
    <3>1. \A f \in T : g \notin slot[f].vec
      BY <1>2, <1>3, <2>1, <2>3, <2>5
    <3>2. QED
      BY <2>5, <3>1
  <2>6. QED
    BY <2>4, <2>5
<1>4. m \in XorOf(T)
  <2>1. m \in Fn /\ m >= m /\ {f \in T : m \in slot[f].vec} = {m}
    BY <1>1, <1>3
  <2>2. QED
    BY <2>1, OddOne DEF XorOf
<1>5. ASSUME NEW g \in XorOf(T) PROVE g <= m
  <2> SUFFICES ASSUME ~(g <= m) PROVE FALSE
    OBVIOUS
  <2>1. g \in Fn /\ g >= m /\ g # m
    BY <1>1 DEF XorOf
  <2>2. {f \in T : g \in slot[f].vec} = {}
    BY <1>3, <2>1
  <2>3. QED
    BY <2>1, <2>2, OddNone DEF XorOf
<1>6. QED
  BY <1>4, <1>5 DEF Top

\* A vector that is stuck at a function without a slot is not in the span.
LEMMA StuckOutside ==
    ASSUME TypeOK, Echelon, NEW f \in v, Top(f, v), slot[f] = NoVector, NEW T \in SUBSET Slotted
    PROVE  v # XorOf(T)
<1> SUFFICES ASSUME v = XorOf(T) PROVE FALSE
  OBVIOUS
<1>1. T # {}
  BY XorOfNone
<1>2. PICK g \in T : Top(g, v)
  BY <1>1, TopOfXor
<1>3. f \in Nat /\ g \in Nat
  BY Functions DEF TypeOK, Slotted
<1>4. f = g
  BY <1>2, <1>3 DEF Top
<1>5. QED
  BY <1>2, <1>4 DEF Slotted

\* Bits that no function looks at flip none.
LEMMA BanksSlack ==
    ASSUME IsMapping(sys), NEW M \in SUBSET Outside
    PROVE  Banks(M) = Banks(M \cap SlackBits(sys))
<1>1. ASSUME NEW f \in Fn
      PROVE  sys.fun[f] \cap M = sys.fun[f] \cap (M \cap SlackBits(sys))
  BY DEF SlackBits, Outside, Fn
<1>2. QED
  BY <1>1 DEF Banks

\* If the reduction of a bit is stuck, the bits inserted before cannot stand in for it.
LEMMA StuckUnspanned ==
    ASSUME TypeOK, Echelon, NEW f \in v, Top(f, v), slot[f] = NoVector,
           NEW S, Spans(S), NEW b, ReducedFrom(b), NEW M \in SUBSET S
    PROVE  Banks(M) # Signature(b)
<1> SUFFICES ASSUME Banks(M) = Signature(b) PROVE FALSE
  OBVIOUS
<1>1. PICK T \in SUBSET Slotted : Banks(M) = XorOf(T)
  BY DEF Spans
<1>2. PICK U \in SUBSET Slotted : Signature(b) = SymDiff(v, XorOf(U))
  BY DEF ReducedFrom
<1>3. v = SymDiff(XorOf(T), XorOf(U))
  BY <1>1, <1>2 DEF SymDiff
<1>4. T \in SUBSET Fn /\ U \in SUBSET Fn /\ SymDiff(T, U) \in SUBSET Slotted /\ IsMapping(sys)
  BY DEF Slotted, SymDiff, TypeOK
<1>5. v = XorOf(SymDiff(T, U))
  BY <1>3, <1>4, XorOfXor
<1>6. QED
  BY <1>4, <1>5, StuckOutside

------------------------------------------------------------------------------
(* The basis stays complete, and only needed bits are combined.            *)

Basis == Echelon /\ Spanning /\ AllNeeded

\* What the operators depend on.
LEMMA SystemFrame ==
    ASSUME sys' = sys
    PROVE  /\ Fn' = Fn /\ Outside' = Outside /\ SlackBits(sys)' = SlackBits(sys)
           /\ \A S : Banks(S)' = Banks(S)
           /\ \A b : Signature(b)' = Signature(b)
           /\ \A t : Needed(t)' <=> Needed(t)
<1>1. Fn' = Fn /\ Outside' = Outside /\ SlackBits(sys)' = SlackBits(sys)
  BY DEF Fn, Outside, SlackBits
<1>2. \A S : Banks(S)' = Banks(S)
  BY <1>1 DEF Banks, Odd
<1>3. \A b : Signature(b)' = Signature(b)
  BY <1>1 DEF Signature
<1>4. \A t : Needed(t)' <=> Needed(t)
  BY <1>1, <1>2, <1>3 DEF Needed
<1>5. QED
  BY <1>1, <1>2, <1>3, <1>4

LEMMA SlotFrame ==
    ASSUME sys' = sys, slot' = slot
    PROVE  /\ Slotted' = Slotted
           /\ \A T : XorOf(T)' = XorOf(T)
           /\ \A S : Spans(S)' <=> Spans(S)
           /\ Echelon' <=> Echelon
<1>1. Slotted' = Slotted
  BY DEF Slotted, NoVector, Fn
<1>2. \A T : XorOf(T)' = XorOf(T)
  BY DEF XorOf, Fn, Odd
<1>3. \A S : Spans(S)' <=> Spans(S)
  BY <1>1, <1>2, SystemFrame DEF Spans
<1>4. Echelon' <=> Echelon
  BY <1>1 DEF Echelon, Top
<1>5. QED
  BY <1>1, <1>2, <1>3, <1>4

\* A bit combined with vectors of the basis, and the vector reduced by them.
LEMMA XorReduces ==
    ASSUME Sound, AllNeeded, sys' = sys, slot' = slot,
           NEW f \in v, slot[f] # NoVector, XorSlot(f)
    PROVE  /\ \A b : ReducedFrom(b) => ReducedFrom(b)'
           /\ \A t \in c' : t \in c \/ Needed(t)
<1>1. /\ IsMapping(sys) /\ TypeOK /\ f \in Fn /\ f \in Slotted
      /\ v' = SymDiff(v, slot[f].vec) /\ c' = SymDiff(c, slot[f].combo)
  BY DEF Sound, TypeOK, XorSlot, Slotted
<1>2. ASSUME NEW b, ReducedFrom(b) PROVE ReducedFrom(b)'
  <2>1. PICK T \in SUBSET Slotted : Signature(b) = SymDiff(v, XorOf(T))
    BY <1>2 DEF ReducedFrom
  <2>2. /\ T \in SUBSET Fn /\ {f} \in SUBSET Fn /\ SymDiff(T, {f}) \in SUBSET Slotted
    BY <1>1 DEF Slotted, SymDiff
  <2>3. XorOf(SymDiff(T, {f})) = SymDiff(XorOf(T), slot[f].vec)
    BY <1>1, <2>2, XorOfXor, XorOfOne
  <2>4. SymDiff(v', XorOf(SymDiff(T, {f}))) = SymDiff(v, XorOf(T))
    BY <1>1, <2>3 DEF SymDiff
  <2>5. /\ Slotted' = Slotted /\ XorOf(SymDiff(T, {f}))' = XorOf(SymDiff(T, {f}))
        /\ Signature(b)' = Signature(b)
    BY SystemFrame, SlotFrame
  <2>6. QED
    BY <2>1, <2>2, <2>4, <2>5 DEF ReducedFrom
<1>3. \A t \in c' : t \in c \/ Needed(t)
  BY <1>1 DEF AllNeeded, SymDiff
<1>4. QED
  BY <1>2, <1>3

\* The state that keeps what is known of the basis and of the masks.
LEMMA NeededFrame ==
    ASSUME AllNeeded, sys' = sys, slot' = slot, masks' = masks, pc' # "cancel" \/ c' = {}
    PROVE  AllNeeded'
<1>1. Slotted' = Slotted /\ \A t : Needed(t)' <=> Needed(t)
  BY SystemFrame, SlotFrame
<1>2. QED
  BY <1>1 DEF AllNeeded

LEMMA BasisInit == Init => Basis
<1> SUFFICES ASSUME Init PROVE Basis
  OBVIOUS
<1>1. Slotted = {} /\ Inserted = {} /\ slack = SlackBits(sys) /\ pc = "insert" /\ masks = <<>>
  BY DEF Init, Slotted, Inserted
<1>2. Spans({})
  <2>1. Banks({}) = XorOf({}) /\ {} \in SUBSET Slotted
    BY BanksNothing, XorOfNone
  <2>2. QED
    BY <2>1 DEF Spans
<1>3. Spanning
  BY <1>1, <1>2 DEF Spanning
<1>4. Echelon /\ AllNeeded
  BY <1>1 DEF Echelon, AllNeeded
<1>5. QED
  BY <1>3, <1>4 DEF Basis

LEMMA BasisInsertBit ==
    ASSUME Sound, Basis, InsertBit
    PROVE  Basis'
<1>1. PICK b \in slack : /\ NextSlack(b)
                         /\ slack' = slack \ {b}
                         /\ v' = Signature(b)
                         /\ c' = {b}
  BY DEF InsertBit
<1>2. /\ pc = "insert" /\ pc' = "reduce" /\ sys' = sys /\ slot' = slot /\ masks' = masks
  BY DEF InsertBit
<1>3. /\ slack \subseteq SlackBits(sys) /\ \A d \in Inserted, e \in slack : d < e
      /\ Spans(Inserted)
  BY <1>2 DEF Basis, Spanning
<1>4. /\ SlackBits(sys)' = SlackBits(sys) /\ SlackBits(sys) \subseteq Nat
      /\ \A S : Spans(S)' <=> Spans(S)
  BY <1>2, SystemFrame, SlotFrame DEF SlackBits, Bit
<1>5. /\ Inserted' = Inserted \cup {b} /\ b \notin Inserted /\ Inserted' \ {b} = Inserted
  BY <1>1, <1>3, <1>4 DEF Inserted
<1>6. ReducedFrom(b)'
  <2>1. Signature(b)' = Signature(b)
    BY <1>2, SystemFrame
  <2>2. XorOf({})' = {} /\ {} \in SUBSET Slotted'
    BY <1>2, SlotFrame, XorOfNone
  <2>3. Signature(b)' = SymDiff(v', XorOf({})')
    BY <1>1, <2>1, <2>2 DEF SymDiff
  <2>4. QED
    BY <2>2, <2>3 DEF ReducedFrom
<1>7. \A d \in Inserted' : d <= b
  BY <1>1, <1>3, <1>4, <1>5 DEF Inserted
<1>8. \A d \in Inserted', e \in slack' : d < e
  <2> SUFFICES ASSUME NEW d \in Inserted', NEW e \in slack' PROVE d < e
    OBVIOUS
  <2>1. e \in slack /\ e # b /\ b <= e /\ e \in Nat /\ b \in Nat
    BY <1>1, <1>3, <1>4 DEF NextSlack
  <2>2. CASE d = b
    BY <2>1, <2>2
  <2>3. CASE d \in Inserted
    BY <1>3, <2>1, <2>3
  <2>4. QED
    BY <1>5, <2>2, <2>3
<1>9. Spanning'
  <2>1. /\ b \in Inserted' /\ Spans(Inserted \ {b})'
        /\ \A t \in c' \ {b} : Needed(t)'
    BY <1>1, <1>3, <1>4, <1>5
  <2>2. slack' \subseteq SlackBits(sys)'
    BY <1>1, <1>3, <1>4
  <2>4. \E e \in Inserted' : /\ \A d \in Inserted' : d <= e
                             /\ Spans(Inserted \ {e})' /\ ReducedFrom(e)'
                             /\ \A t \in c' \ {e} : Needed(t)'
    BY <1>6, <1>7, <2>1
  <2>5. QED
    BY <1>2, <1>8, <2>2, <2>4 DEF Spanning
<1>10. Echelon' /\ AllNeeded'
  BY <1>2, SlotFrame, NeededFrame DEF Basis
<1>11. QED
  BY <1>9, <1>10 DEF Basis

LEMMA BasisReduce ==
    ASSUME Sound, Basis, Reduce
    PROVE  Basis'
<1>1. /\ pc = "reduce" /\ pc' = pc /\ sys' = sys /\ slack' = slack /\ slot' = slot
      /\ masks' = masks
  BY DEF Reduce
<1>2. PICK f \in v : slot[f] # NoVector /\ XorSlot(f)
  BY DEF Reduce
<1>3. PICK b \in Inserted : /\ \A d \in Inserted : d <= b
                            /\ Spans(Inserted \ {b}) /\ ReducedFrom(b)
                            /\ \A t \in c \ {b} : Needed(t)
  BY <1>1 DEF Basis, Spanning
<1>4. ReducedFrom(b)' /\ \A t \in c' : t \in c \/ Needed(t)
  BY <1>1, <1>2, <1>3, XorReduces DEF Basis
<1>5. /\ Inserted' = Inserted /\ SlackBits(sys)' = SlackBits(sys)
      /\ \A S : Spans(S)' <=> Spans(S)
      /\ \A t : Needed(t)' <=> Needed(t)
  BY <1>1, SystemFrame, SlotFrame DEF Inserted
<1>6. /\ Spans(Inserted \ {b})' /\ \A t \in c' \ {b} : Needed(t)'
  BY <1>3, <1>4, <1>5
<1>7. Spanning'
  BY <1>1, <1>3, <1>4, <1>5, <1>6 DEF Basis, Spanning
<1>8. Echelon' /\ AllNeeded'
  BY <1>1, SlotFrame, NeededFrame DEF Basis
<1>9. QED
  BY <1>7, <1>8 DEF Basis


\* The vector is stored: no lower bits could stand in for its bit, and what it was
\* before is now spanned.
LEMMA BasisStore ==
    ASSUME Sound, Basis, Store
    PROVE  Basis'
<1>1. /\ pc = "reduce" /\ pc' = "insert" /\ sys' = sys /\ slack' = slack /\ masks' = masks
  BY DEF Store
<1>2. PICK f \in v : /\ Top(f, v) /\ slot[f] = NoVector
                     /\ slot' = [slot EXCEPT ![f] = [vec |-> v, combo |-> c]]
  BY DEF Store
<1>3. PICK b \in Inserted : /\ \A d \in Inserted : d <= b
                            /\ Spans(Inserted \ {b}) /\ ReducedFrom(b)
                            /\ \A t \in c \ {b} : Needed(t)
  BY <1>1 DEF Basis, Spanning
<1>4. /\ TypeOK /\ IsMapping(sys) /\ f \in Fn
      /\ slot \in [Fn -> [vec : SUBSET Fn, combo : SUBSET Outside]]
      /\ Echelon /\ AllNeeded
      /\ \A d \in Inserted, e \in slack : d < e
      /\ slack \subseteq SlackBits(sys)
  BY BitFacts DEF Sound, TypeOK, Basis, Spanning
<1>5. /\ Fn' = Fn /\ Inserted' = Inserted /\ SlackBits(sys)' = SlackBits(sys)
      /\ \A S : Banks(S)' = Banks(S)
      /\ \A t : Needed(t)' <=> Needed(t)
  BY <1>1, SystemFrame DEF Inserted
<1>6. Slotted' = Slotted \cup {f}
  <2>1. slot'[f] # NoVector
    BY <1>2, <1>4 DEF NoVector
  <2>2. \A g \in Fn : g # f => slot'[g] = slot[g]
    BY <1>2, <1>4
  <2>3. NoVector' = NoVector
    BY DEF NoVector
  <2>4. QED
    BY <1>4, <1>5, <2>1, <2>2, <2>3 DEF Slotted
<1>7. ASSUME NEW T \in SUBSET Slotted PROVE XorOf(T)' = XorOf(T)
  <2>1. \A g \in T : slot'[g] = slot[g]
    BY <1>2, <1>4 DEF Slotted
  <2>2. QED
    BY <1>5, <2>1 DEF XorOf, Odd
<1>8. ASSUME NEW T \in SUBSET Slotted
      PROVE  XorOf(SymDiff(T, {f}))' = SymDiff(XorOf(T), v)
  <2>1. f \notin T /\ SymDiff(T, {f}) = T \cup {f} /\ T \subseteq Fn
    BY <1>2 DEF Slotted, SymDiff
  <2>2. slot'[f].vec = v /\ \A g \in T : slot'[g] = slot[g]
    BY <1>2, <1>4, <2>1
  <2>3. ASSUME NEW g \in Fn
        PROVE  Odd({e \in T \cup {f} : g \in slot'[e].vec})
                 <=> ~(Odd({e \in T : g \in slot[e].vec}) <=> g \in v)
    <3> DEFINE A == {e \in T : g \in slot[e].vec}
    <3>1. CASE g \in v
      <4>1. {e \in T \cup {f} : g \in slot'[e].vec} = SymDiff(A, {f})
        BY <2>1, <2>2, <3>1 DEF SymDiff
      <4>2. IsFiniteSet(A) /\ IsFiniteSet({f})
        <5>1. A \in SUBSET Fn /\ {f} \in SUBSET Fn
          BY <1>4, <2>1
        <5>2. QED
          BY <1>4, <5>1, Functions
      <4> HIDE DEF A
      <4>3. Odd(SymDiff(A, {f})) <=> ~(Odd(A) <=> Odd({f}))
        BY <4>2, OddXor
      <4>4. QED
        BY <3>1, <4>1, <4>3, OddOne DEF A
    <3>2. CASE g \notin v
      <4>1. {e \in T \cup {f} : g \in slot'[e].vec} = A
        BY <2>1, <2>2, <3>2
      <4>2. QED
        BY <3>2, <4>1
    <3>3. QED
      BY <3>1, <3>2
  <2>4. XorOf(SymDiff(T, {f}))' = {g \in Fn : Odd({e \in T \cup {f} : g \in slot'[e].vec})}
    BY <1>5, <2>1 DEF XorOf, Odd
  <2>5. v \subseteq Fn
    BY <1>4 DEF TypeOK
  <2>6. QED
    BY <2>3, <2>4, <2>5 DEF XorOf, SymDiff
<1>9. Needed(b)
  <2> SUFFICES ASSUME NEW M \in SUBSET {d \in Outside : d < b} PROVE Banks(M) # Signature(b)
    BY DEF Needed
  <2>1. M \in SUBSET Outside
    OBVIOUS
  <2>2. M \cap SlackBits(sys) \in SUBSET (Inserted \ {b})
    <3> SUFFICES ASSUME NEW d \in M, d \in SlackBits(sys) PROVE d \in Inserted /\ d # b
      OBVIOUS
    <3>1. d < b /\ d \in Nat /\ b \in Nat
      BY DEF Outside, Bit, Inserted, SlackBits
    <3>2. d \notin slack
      BY <1>4, <3>1 DEF SlackBits, Bit
    <3>3. QED
      BY <3>1, <3>2 DEF Inserted
  <2>3. Banks(M) = Banks(M \cap SlackBits(sys))
    BY <1>4, <2>1, BanksSlack
  <2>4. Banks(M \cap SlackBits(sys)) # Signature(b)
    BY <1>2, <1>3, <1>4, <2>2, StuckUnspanned
  <2>5. QED
    BY <2>3, <2>4
<1>10. Echelon'
  <2> SUFFICES ASSUME NEW g \in Slotted' PROVE Top(g, slot'[g].vec)
    BY DEF Echelon, Top
  <2>1. CASE g = f
    BY <1>2, <1>4, <2>1
  <2>2. CASE g # f
    <3>1. g \in Slotted /\ slot'[g] = slot[g]
      BY <1>2, <1>4, <1>6, <2>2 DEF Slotted
    <3>2. QED
      BY <1>4, <3>1 DEF Echelon
  <2>3. QED
    BY <2>1, <2>2
<1>11. Spans(Inserted)'
  <2> SUFFICES ASSUME NEW M \in SUBSET Inserted
               PROVE  \E T \in SUBSET Slotted' : Banks(M) = XorOf(T)'
    BY <1>5 DEF Spans
  <2>1. PICK T \in SUBSET Slotted : Banks(M \ {b}) = XorOf(T)
    BY <1>3 DEF Spans
  <2>2. PICK U \in SUBSET Slotted : Signature(b) = SymDiff(v, XorOf(U))
    BY <1>3 DEF ReducedFrom
  <2>3. CASE b \notin M
    <3>1. M \ {b} = M
      BY <2>3
    <3>2. Banks(M) = XorOf(T)' /\ T \in SUBSET Slotted'
      BY <1>6, <1>7, <2>1, <3>1
    <3>3. QED
      BY <3>2
  <2>4. CASE b \in M
    <3> DEFINE V == SymDiff(T, U)
    <3>1. V \in SUBSET Slotted /\ SymDiff(V, {f}) \in SUBSET Slotted'
          /\ T \in SUBSET Fn /\ U \in SUBSET Fn
      BY <1>6 DEF SymDiff, Slotted
    <3>2. Banks(M) = SymDiff(Banks(M \ {b}), Signature(b))
      <4>1. M = SymDiff(M \ {b}, {b})
        BY <2>4 DEF SymDiff
      <4>2. b \in Bit /\ {b} \in SUBSET Bit /\ M \ {b} \in SUBSET Bit
        BY DEF Inserted, SlackBits
      <4>3. Banks(SymDiff(M \ {b}, {b})) = SymDiff(Banks(M \ {b}), Banks({b}))
        BY <1>4, <4>2, BanksXor
      <4>4. QED
        BY <1>4, <4>1, <4>2, <4>3, BanksBit
    <3>3. XorOf(V) = SymDiff(XorOf(T), XorOf(U))
      BY <1>4, <3>1, XorOfXor
    <3> HIDE DEF V
    <3>4. XorOf(SymDiff(V, {f}))' = SymDiff(XorOf(V), v)
      BY <1>8, <3>1
    <3>5. Banks(M) = SymDiff(XorOf(V), v)
      BY <2>1, <2>2, <3>2, <3>3 DEF SymDiff
    <3>6. QED
      BY <3>1, <3>4, <3>5
  <2>5. QED
    BY <2>3, <2>4
<1>12. AllNeeded'
  <2>1. ASSUME NEW g \in Slotted', NEW t \in slot'[g].combo PROVE Needed(t)
    <3>1. CASE g = f
      <4>1. t \in c
        BY <1>2, <1>4, <2>1, <3>1
      <4>2. QED
        BY <1>3, <1>9, <4>1
    <3>2. CASE g # f
      <4>1. g \in Slotted /\ slot'[g] = slot[g]
        BY <1>2, <1>4, <1>6, <3>2 DEF Slotted
      <4>2. QED
        BY <1>4, <2>1, <4>1 DEF AllNeeded
    <3>3. QED
      BY <3>1, <3>2
  <2>2. \A k \in DOMAIN masks' : \A t \in masks'[k] \ sys'.column : Needed(t)'
    BY <1>1, <1>4, <1>5 DEF AllNeeded
  <2>3. QED
    BY <1>1, <1>5, <2>1, <2>2 DEF AllNeeded
<1>13. Spanning'
  BY <1>1, <1>4, <1>5, <1>11 DEF Spanning
<1>14. QED
  BY <1>10, <1>12, <1>13 DEF Basis

\* A bit whose vector came to nothing adds nothing to what is spanned.
LEMMA BasisDependent ==
    ASSUME Sound, Basis, Dependent
    PROVE  Basis'
<1>1. /\ pc = "reduce" /\ pc' = "insert" /\ sys' = sys /\ slack' = slack /\ masks' = masks
      /\ slot' = slot /\ v = {}
  BY DEF Dependent
<1>2. PICK b \in Inserted : Spans(Inserted \ {b}) /\ ReducedFrom(b)
  BY <1>1 DEF Basis, Spanning
<1>3. IsMapping(sys)
  BY DEF Sound, TypeOK
<1>4. Spans(Inserted)
  <2> SUFFICES ASSUME NEW M \in SUBSET Inserted
               PROVE  \E T \in SUBSET Slotted : Banks(M) = XorOf(T)
    BY DEF Spans
  <2>1. PICK T \in SUBSET Slotted : Banks(M \ {b}) = XorOf(T)
    BY <1>2 DEF Spans
  <2>2. PICK U \in SUBSET Slotted : Signature(b) = SymDiff(v, XorOf(U))
    BY <1>2 DEF ReducedFrom
  <2>3. CASE b \notin M
    <3>1. M \ {b} = M
      BY <2>3
    <3>2. QED
      BY <2>1, <3>1
  <2>4. CASE b \in M
    <3>1. SymDiff(T, U) \in SUBSET Slotted /\ T \in SUBSET Fn /\ U \in SUBSET Fn
      BY DEF SymDiff, Slotted
    <3>2. M = SymDiff(M \ {b}, {b}) /\ b \in Bit /\ {b} \in SUBSET Bit /\ M \ {b} \in SUBSET Bit
      BY <2>4 DEF SymDiff, Inserted, SlackBits
    <3>3. Banks(SymDiff(M \ {b}, {b})) = SymDiff(Banks(M \ {b}), Signature(b))
      BY <1>3, <3>2, BanksXor, BanksBit
    <3>4. XorOf(SymDiff(T, U)) = SymDiff(XorOf(T), XorOf(U))
      BY <1>3, <3>1, XorOfXor
    <3>5. Signature(b) = XorOf(U)
      BY <1>1, <2>2 DEF SymDiff
    <3>6. Banks(M) = XorOf(SymDiff(T, U))
      BY <2>1, <3>2, <3>3, <3>4, <3>5
    <3>7. QED
      BY <3>1, <3>6
  <2>5. QED
    BY <2>3, <2>4
<1>5. Inserted' = Inserted /\ SlackBits(sys)' = SlackBits(sys) /\ \A S : Spans(S)' <=> Spans(S)
  BY <1>1, SystemFrame, SlotFrame DEF Inserted
<1>6. Spanning'
  BY <1>1, <1>4, <1>5 DEF Basis, Spanning
<1>7. Echelon' /\ AllNeeded'
  BY <1>1, SlotFrame, NeededFrame DEF Basis
<1>8. QED
  BY <1>6, <1>7 DEF Basis

\* Solving reads the basis and leaves it alone.
LEMMA BasisSolveBit ==
    ASSUME Sound, Basis, SolveBit
    PROVE  Basis'
<1>1. PICK b \in cols : bit' = b /\ v' = Signature(b) /\ c' = {}
  BY DEF SolveBit
<1>2. /\ pc = "solve" /\ pc' = "cancel" /\ sys' = sys /\ slack' = slack /\ masks' = masks
      /\ slot' = slot
  BY DEF SolveBit
<1>3. ReducedFrom(bit)'
  <2>1. Signature(bit)' = Signature(b)
    BY <1>1, <1>2 DEF Signature, Fn
  <2>2. XorOf({})' = {} /\ {} \in SUBSET Slotted'
    BY <1>2, SlotFrame, XorOfNone
  <2>3. Signature(bit)' = SymDiff(v', XorOf({})')
    BY <1>1, <2>1, <2>2 DEF SymDiff
  <2>4. QED
    BY <2>2, <2>3 DEF ReducedFrom
<1>4. Inserted' = Inserted /\ SlackBits(sys)' = SlackBits(sys) /\ \A S : Spans(S)' <=> Spans(S)
  BY <1>2, SystemFrame, SlotFrame DEF Inserted
<1>5. Spanning'
  BY <1>2, <1>3, <1>4 DEF Basis, Spanning
<1>6. Echelon' /\ AllNeeded'
  BY <1>1, <1>2, SlotFrame, NeededFrame DEF Basis
<1>7. QED
  BY <1>5, <1>6 DEF Basis

LEMMA BasisCancel ==
    ASSUME Sound, Basis, Cancel
    PROVE  Basis'
<1>1. /\ pc = "cancel" /\ pc' = pc /\ sys' = sys /\ slack' = slack /\ slot' = slot
      /\ bit' = bit /\ masks' = masks
  BY DEF Cancel
<1>2. PICK f \in v : slot[f] # NoVector /\ XorSlot(f)
  BY DEF Cancel
<1>3. AllNeeded /\ Spanning /\ ReducedFrom(bit) /\ \A t \in c : Needed(t)
  BY <1>1 DEF Basis, Spanning, AllNeeded
<1>4. (\A b : ReducedFrom(b) => ReducedFrom(b)') /\ \A t \in c' : t \in c \/ Needed(t)
  BY <1>1, <1>2, <1>3, XorReduces
<1>5. ReducedFrom(bit)'
  <2>1. PICK b : b = bit
    OBVIOUS
  <2>2. ReducedFrom(b)'
    BY <1>3, <1>4, <2>1
  <2>3. QED
    BY <1>1, <2>1, <2>2 DEF ReducedFrom, Signature
<1>6. /\ Inserted' = Inserted /\ SlackBits(sys)' = SlackBits(sys)
      /\ \A S : Spans(S)' <=> Spans(S)
      /\ \A t : Needed(t)' <=> Needed(t)
      /\ Slotted' = Slotted
  BY <1>1, SystemFrame, SlotFrame DEF Inserted
<1>7. Spanning'
  BY <1>1, <1>3, <1>5, <1>6 DEF Spanning
<1>8. AllNeeded'
  BY <1>1, <1>3, <1>4, <1>6 DEF AllNeeded
<1>9. QED
  BY <1>1, <1>7, <1>8, SlotFrame DEF Basis

LEMMA BasisSolved ==
    ASSUME Sound, Basis, Solved
    PROVE  Basis'
<1>1. /\ pc = "cancel" /\ pc' = "solve" /\ sys' = sys /\ slack' = slack /\ slot' = slot
      /\ masks' = Append(masks, {bit} \cup c)
  BY DEF Solved
<1>2. /\ masks \in Seq(SUBSET Bit) /\ bit \in sys.column /\ AllNeeded
      /\ \A t \in c : Needed(t)
  BY <1>1 DEF Sound, TypeOK, Working, Basis, AllNeeded
<1>3. /\ Inserted' = Inserted /\ SlackBits(sys)' = SlackBits(sys)
      /\ \A S : Spans(S)' <=> Spans(S)
      /\ \A t : Needed(t)' <=> Needed(t)
      /\ Slotted' = Slotted
  BY <1>1, SystemFrame, SlotFrame DEF Inserted
<1>4. ASSUME NEW k \in DOMAIN masks', NEW t \in masks'[k] \ sys.column
      PROVE  Needed(t)
  <2>1. CASE k \in DOMAIN masks
    <3>1. masks'[k] = masks[k]
      BY <1>1, <1>2, <2>1
    <3>2. QED
      BY <1>2, <1>4, <2>1, <3>1 DEF AllNeeded
  <2>2. CASE k \notin DOMAIN masks
    <3>1. masks'[k] = {bit} \cup c
      BY <1>1, <1>2, <2>2
    <3>2. QED
      BY <1>2, <1>4, <3>1
  <2>3. QED
    BY <2>1, <2>2
<1>5. AllNeeded'
  BY <1>1, <1>2, <1>3, <1>4 DEF AllNeeded
<1>6. Spanning'
  BY <1>1, <1>3 DEF Basis, Spanning
<1>7. QED
  BY <1>1, <1>5, <1>6, SlotFrame DEF Basis

LEMMA BasisMovesOn ==
    ASSUME Sound, Basis, BasisDone \/ Unreachable \/ AllSolved \/ UNCHANGED vars
    PROVE  Basis'
<1>1. /\ sys' = sys /\ slack' = slack /\ slot' = slot /\ bit' = bit /\ v' = v /\ c' = c
      /\ masks' = masks
      /\ \/ pc' = pc
         \/ pc' = "solve" /\ pc = "insert" /\ slack = {}
         \/ pc' = "done" /\ pc \in {"cancel", "solve"}
  BY DEF BasisDone, Unreachable, AllSolved, vars
<1>2. /\ Inserted' = Inserted /\ SlackBits(sys)' = SlackBits(sys)
      /\ \A S : Spans(S)' <=> Spans(S)
      /\ \A t : Needed(t)' <=> Needed(t)
      /\ Slotted' = Slotted
  BY <1>1, SystemFrame, SlotFrame DEF Inserted
<1>3. \A b : ReducedFrom(b)' <=> ReducedFrom(b)
  BY <1>1, SystemFrame, SlotFrame DEF ReducedFrom
<1>4. ReducedFrom(bit)' <=> ReducedFrom(bit)
  <2>1. PICK b : b = bit
    OBVIOUS
  <2>2. ReducedFrom(b)' <=> ReducedFrom(b)
    BY <1>3
  <2>3. QED
    BY <1>1, <2>1, <2>2 DEF ReducedFrom, Signature
<1>5. Spanning'
  BY <1>1, <1>2, <1>3, <1>4 DEF Basis, Spanning
<1>6. AllNeeded'
  BY <1>1, <1>2 DEF Basis, AllNeeded
<1>7. QED
  BY <1>1, <1>5, <1>6, SlotFrame DEF Basis

------------------------------------------------------------------------------
(* The order of the masks, and where the list ends.                        *)

\* The column bits are linearly ordered, and a bit's rank is below those of later bits.
LEMMA BeforeOrder ==
    ASSUME Sound, NEW d \in sys.column, NEW b \in sys.column
    PROVE  /\ d # b => Before(d, b, high) \/ Before(b, d, high)
           /\ Before(d, b, high) => d # b /\ ~Before(b, d, high)
           /\ \A e \in sys.column : Before(e, d, high) /\ Before(d, b, high)
                                       => Before(e, b, high)
<1>1. sys.column \subseteq Nat
  BY DEF Sound, TypeOK, IsMapping, Bit
<1>2. QED
  BY <1>1 DEF Before

LEMMA ColumnsFinite ==
    ASSUME Sound
    PROVE  \A S \in SUBSET sys.column : IsFiniteSet(S) /\ Cardinality(S) \in Nat
<1>1. sys.column \subseteq Bit
  BY DEF Sound, TypeOK, IsMapping
<1>2. QED
  BY <1>1, BitsFinite

LEMMA RankOrder ==
    ASSUME Sound, NEW d \in sys.column, NEW b \in sys.column, Before(d, b, high)
    PROVE  Rank(d) < Rank(b)
<1> DEFINE A == {e \in sys.column : Before(e, d, high)}
           B == {e \in sys.column : Before(e, b, high)}
<1>1. d \notin A /\ d \in B /\ A \cup {d} \subseteq B
  BY BeforeOrder
<1>2. A \in SUBSET sys.column /\ B \in SUBSET sys.column
  OBVIOUS
<1>3. IsFiniteSet(A) /\ IsFiniteSet(B) /\ Cardinality(A) \in Nat /\ Cardinality(B) \in Nat
  BY <1>2, ColumnsFinite
<1> HIDE DEF A, B
<1>4. Cardinality(A \cup {d}) = Cardinality(A) + 1
  BY <1>1, <1>3, FS_AddElement
<1>5. Cardinality(A \cup {d}) <= Cardinality(B)
  BY <1>1, <1>3, FS_Subset
<1>6. QED
  BY <1>3, <1>4, <1>5 DEF Rank, A, B

LEMMA RankInjective ==
    ASSUME Sound, NEW d \in sys.column, NEW b \in sys.column, Rank(d) = Rank(b)
    PROVE  d = b
<1>1. Rank(d) \in Nat /\ Rank(b) \in Nat
  BY ColumnsFinite DEF Rank
<1>2. QED
  BY <1>1, BeforeOrder, RankOrder

LEMMA ColumnBitsRank ==
    ASSUME Sound
    PROVE  ColumnBits(sys, high) = {b \in sys.column : Rank(b) < MaxBits}
BY DEF ColumnBits, Rank

\* The next column bit is preceded by exactly those taken before it.
LEMMA NextRank ==
    ASSUME Sound, InOrder, NEW b \in cols, NextColumn(b)
    PROVE  Rank(b) = Cardinality(Taken)
<1>1. cols \subseteq ColumnBits(sys, high) /\ ColumnBits(sys, high) \subseteq sys.column
  BY DEF Sound, TypeOK, ColumnBits
<1>2. ASSUME NEW d \in sys.column, Before(d, b, high) PROVE d \in Taken
  <2>1. Rank(d) < Rank(b) /\ Rank(b) < MaxBits
    BY <1>1, <1>2, RankOrder, ColumnBitsRank
  <2>2. Rank(d) \in Nat /\ Rank(b) \in Nat
    BY ColumnsFinite DEF Rank
  <2>3. d \in ColumnBits(sys, high)
    BY <2>1, <2>2, ColumnBitsRank, WidthAssumption
  <2>4. QED
    BY <1>2, <2>3 DEF NextColumn, Taken
<1>3. {d \in sys.column : Before(d, b, high)} = Taken
  BY <1>1, <1>2 DEF InOrder, Taken
<1>4. QED
  BY <1>3 DEF Rank

LEMMA OrderFrame ==
    ASSUME sys' = sys, high' = high
    PROVE  /\ ColumnBits(sys, high)' = ColumnBits(sys, high)
           /\ \A b : Rank(b)' = Rank(b)
           /\ \A d, b : Before(d, b, high)' <=> Before(d, b, high)
BY DEF ColumnBits, Rank, Before

LEMMA OrderInit == Init => InOrder /\ Ended
<1> SUFFICES ASSUME Init PROVE InOrder /\ Ended
  OBVIOUS
<1>1. Taken = {} /\ Len(masks) = 0 /\ DOMAIN masks = {} /\ pc = "insert"
  BY DEF Init, Taken
<1>2. Cardinality({}) = 0
  BY FS_EmptySet
<1>3. QED
  BY <1>1, <1>2 DEF InOrder, Ended

LEMMA OrderSolveBit ==
    ASSUME Sound, InOrder, SolveBit
    PROVE  InOrder' /\ Ended'
<1>1. PICK b \in cols : NextColumn(b) /\ bit' = b /\ cols' = cols \ {b}
  BY DEF SolveBit
<1>2. /\ pc = "solve" /\ pc' = "cancel" /\ sys' = sys /\ high' = high /\ masks' = masks
  BY DEF SolveBit
<1>3. cols \subseteq ColumnBits(sys, high) /\ ColumnBits(sys, high) \subseteq sys.column
  BY DEF Sound, TypeOK, ColumnBits
<1>4. /\ ColumnBits(sys, high)' = ColumnBits(sys, high)
      /\ \A e : Rank(e)' = Rank(e)
      /\ \A d, e : Before(d, e, high)' <=> Before(d, e, high)
  BY <1>2, OrderFrame
<1>5. Taken' = Taken \cup {b} /\ b \notin Taken /\ Taken \in SUBSET sys.column
  BY <1>1, <1>3, <1>4 DEF Taken
<1>6. Cardinality(Taken') = Cardinality(Taken) + 1
  <2>1. IsFiniteSet(Taken)
    BY <1>5, ColumnsFinite
  <2>2. QED
    BY <1>5, <2>1, FS_AddElement
<1>7. Rank(b) = Len(masks) /\ Len(masks) = Cardinality(Taken)
  BY <1>1, <1>2, NextRank DEF InOrder
<1>8. \A d \in Taken', e \in cols' : Before(d, e, high)'
  <2> SUFFICES ASSUME NEW d \in Taken', NEW e \in cols' PROVE Before(d, e, high)
    BY <1>4
  <2>1. e \in cols /\ e # b
    BY <1>1
  <2>2. CASE d \in Taken
    BY <2>1, <2>2 DEF InOrder
  <2>3. CASE d = b
    <3>1. ~Before(e, b, high) /\ b \in sys.column /\ e \in sys.column
      BY <1>1, <1>3, <2>1 DEF NextColumn
    <3>2. QED
      BY <2>1, <2>3, <3>1, BeforeOrder
  <2>4. QED
    BY <1>5, <2>2, <2>3
<1>9. /\ bit' \in Taken' /\ Rank(bit)' = Len(masks') /\ Len(masks') + 1 = Cardinality(Taken')
  <2>1. Rank(bit)' = Rank(b)
    BY <1>1, <1>2 DEF Rank, Before
  <2>2. QED
    BY <1>1, <1>2, <1>5, <1>6, <1>7, <2>1
<1>10. \A k \in DOMAIN masks' : \A e \in masks'[k] \cap sys'.column :
          e \in ColumnBits(sys, high)' /\ Rank(e)' + 1 = k
  BY <1>2, <1>4 DEF InOrder
<1>11. QED
  BY <1>2, <1>8, <1>9, <1>10 DEF InOrder, Ended

LEMMA OrderSolved ==
    ASSUME Sound, InOrder, Solved
    PROVE  InOrder' /\ Ended'
<1>1. /\ pc = "cancel" /\ pc' = "solve" /\ sys' = sys /\ high' = high /\ cols' = cols
      /\ masks' = Append(masks, {bit} \cup c)
  BY DEF Solved
<1>2. /\ masks \in Seq(SUBSET Bit) /\ c \subseteq Outside /\ bit \in sys.column
  BY <1>1 DEF Sound, TypeOK, Working, Outside
<1>3. /\ ColumnBits(sys, high)' = ColumnBits(sys, high)
      /\ \A e : Rank(e)' = Rank(e)
      /\ \A d, e : Before(d, e, high)' <=> Before(d, e, high)
      /\ Taken' = Taken
  BY <1>1, OrderFrame DEF Taken
<1>4. /\ bit \in Taken /\ Rank(bit) = Len(masks) /\ Len(masks) + 1 = Cardinality(Taken)
  BY <1>1 DEF InOrder
<1>5. Len(masks') = Cardinality(Taken')
  BY <1>1, <1>2, <1>3, <1>4
<1>6. ASSUME NEW k \in DOMAIN masks', NEW e \in masks'[k] \cap sys.column
      PROVE  e \in ColumnBits(sys, high) /\ Rank(e) + 1 = k
  <2>1. CASE k \in DOMAIN masks
    <3>1. masks'[k] = masks[k]
      BY <1>1, <1>2, <2>1
    <3>2. QED
      BY <1>6, <2>1, <3>1 DEF InOrder
  <2>2. CASE k \notin DOMAIN masks
    <3>1. masks'[k] = {bit} \cup c /\ k = Len(masks) + 1
      BY <1>1, <1>2, <2>2
    <3>2. e = bit
      BY <1>2, <1>6, <3>1 DEF Outside
    <3>3. QED
      BY <1>4, <3>1, <3>2 DEF Taken
  <2>3. QED
    BY <2>1, <2>2
<1>7. \A k \in DOMAIN masks' : \A e \in masks'[k] \cap sys'.column :
          e \in ColumnBits(sys, high)' /\ Rank(e)' + 1 = k
  BY <1>1, <1>3, <1>6
<1>8. \A d \in Taken', e \in cols' : Before(d, e, high)'
  BY <1>1, <1>3 DEF InOrder
<1>9. QED
  BY <1>1, <1>5, <1>7, <1>8 DEF InOrder, Ended

\* No bits outside row and column flip what a stuck column bit flips.
LEMMA OutOfReach ==
    ASSUME Sound, Basis, Unreachable
    PROVE  v # {} /\ Cancelling(bit) = {}
<1>1. PICK f \in v : Top(f, v) /\ slot[f] = NoVector
  BY DEF Unreachable
<1>2. /\ TypeOK /\ IsMapping(sys) /\ Echelon /\ Spans(Inserted) /\ ReducedFrom(bit)
      /\ Inserted = SlackBits(sys)
  BY DEF Unreachable, Sound, TypeOK, Basis, Spanning, Inserted
<1>3. ASSUME NEW C \in SUBSET Outside PROVE Banks(C) # Signature(bit)
  <2>1. C \cap SlackBits(sys) \in SUBSET Inserted
    BY <1>2
  <2>2. Banks(C \cap SlackBits(sys)) # Signature(bit)
    BY <1>1, <1>2, <2>1, StuckUnspanned
  <2>3. QED
    BY <1>2, <2>2, BanksSlack
<1>4. QED
  BY <1>1, <1>3 DEF Cancelling, Outside

LEMMA OrderUnreachable ==
    ASSUME Sound, Basis, InOrder, Unreachable
    PROVE  InOrder' /\ Ended'
<1>1. /\ pc = "cancel" /\ pc' = "done" /\ sys' = sys /\ high' = high /\ cols' = cols
      /\ masks' = masks /\ v' = v /\ bit' = bit
  BY DEF Unreachable
<1>2. /\ ColumnBits(sys, high)' = ColumnBits(sys, high)
      /\ \A e : Rank(e)' = Rank(e)
      /\ \A d, e : Before(d, e, high)' <=> Before(d, e, high)
      /\ Taken' = Taken
  BY <1>1, OrderFrame DEF Taken
<1>3. Stuck'
  <2>1. Cancelling(bit)' = Cancelling(bit)
    BY <1>1 DEF Cancelling, Banks, Signature, Fn, Odd
  <2>2. v' # {} /\ Cancelling(bit)' = {}
    BY <1>1, <2>1, OutOfReach
  <2>3. bit \in ColumnBits(sys, high) /\ Rank(bit) = Len(masks)
    BY <1>1 DEF InOrder, Taken
  <2>4. Rank(bit)' = Rank(bit)
    BY <1>1 DEF Rank, Before
  <2>5. QED
    BY <1>1, <1>2, <2>2, <2>3, <2>4 DEF Stuck
<1>4. InOrder'
  BY <1>1, <1>2 DEF InOrder
<1>5. QED
  BY <1>3, <1>4 DEF Ended

LEMMA OrderAllSolved ==
    ASSUME Sound, InOrder, AllSolved
    PROVE  InOrder' /\ Ended'
<1>1. /\ pc = "solve" /\ pc' = "done" /\ sys' = sys /\ high' = high /\ cols' = cols
      /\ masks' = masks /\ cols = {}
  BY DEF AllSolved
<1>2. /\ ColumnBits(sys, high)' = ColumnBits(sys, high)
      /\ \A e : Rank(e)' = Rank(e)
      /\ \A d, e : Before(d, e, high)' <=> Before(d, e, high)
      /\ Taken' = Taken /\ Taken = ColumnBits(sys, high)
  BY <1>1, OrderFrame DEF Taken
<1>3. Len(masks') = Cardinality(ColumnBits(sys, high)')
  BY <1>1, <1>2 DEF InOrder
<1>4. InOrder'
  BY <1>1, <1>2 DEF InOrder
<1>5. QED
  BY <1>3, <1>4 DEF Ended

LEMMA OrderElsewhere ==
    ASSUME Sound, InOrder, Ended,
           InsertBit \/ Reduce \/ Store \/ Dependent \/ BasisDone \/ Cancel \/ UNCHANGED vars
    PROVE  InOrder' /\ Ended'
<1>1. /\ sys' = sys /\ high' = high /\ cols' = cols /\ masks' = masks /\ bit' = bit
      /\ \/ pc \in {"insert", "reduce"} /\ pc' \in {"insert", "reduce", "solve"}
         \/ pc = "cancel" /\ pc' = "cancel"
         \/ pc' = pc /\ v' = v
  BY DEF InsertBit, Reduce, Store, Dependent, BasisDone, Cancel, vars
<1>2. /\ ColumnBits(sys, high)' = ColumnBits(sys, high)
      /\ \A e : Rank(e)' = Rank(e)
      /\ \A d, e : Before(d, e, high)' <=> Before(d, e, high)
      /\ Taken' = Taken
  BY <1>1, OrderFrame DEF Taken
<1>3. Rank(bit)' = Rank(bit)
  BY <1>1 DEF Rank, Before
<1>4. Cancelling(bit)' = Cancelling(bit)
  BY <1>1 DEF Cancelling, Banks, Signature, Fn, Odd
<1>5. InOrder'
  <2>1. \A d \in Taken', e \in cols' : Before(d, e, high)'
    BY <1>1, <1>2 DEF InOrder
  <2>2. \A k \in DOMAIN masks' : \A e \in masks'[k] \cap sys'.column :
          e \in ColumnBits(sys, high)' /\ Rank(e)' + 1 = k
    BY <1>1, <1>2 DEF InOrder
  <2>3. QED
    BY <1>1, <1>2, <1>3, <2>1, <2>2 DEF InOrder
<1>6. Ended'
  BY <1>1, <1>2, <1>3, <1>4 DEF Ended, Stuck
<1>7. QED
  BY <1>5, <1>6

------------------------------------------------------------------------------
(* What follows from the invariant.                                        *)

\* IInv is an invariant of col_step_masks(), whatever mapping it is given.
THEOREM ColumnInvariant == Spec => []IInv
<1>1. Init => IInv
  BY SoundInit, BasisInit, OrderInit DEF IInv, Basis
<1>2. IInv /\ [Next]_vars => IInv'
  <2> SUFFICES ASSUME IInv, [Next]_vars PROVE IInv'
    OBVIOUS
  <2>1. Sound /\ Basis /\ InOrder /\ Ended
    BY DEF IInv, Basis
  <2>2. Sound'
    BY <2>1, StepInsertBit, StepReduce, StepStore, StepSolveBit, StepCancel, StepSolved,
       StepMovesOn DEF Next
  <2>3. Basis'
    BY <2>1, BasisInsertBit, BasisReduce, BasisStore, BasisDependent, BasisSolveBit,
       BasisCancel, BasisSolved, BasisMovesOn DEF Next
  <2>4. InOrder' /\ Ended'
    BY <2>1, OrderSolveBit, OrderSolved, OrderUnreachable, OrderAllSolved, OrderElsewhere
       DEF Next
  <2>5. QED
    BY <2>2, <2>3, <2>4 DEF IInv, Basis
<1>3. QED
  BY <1>1, <1>2, PTL DEF Spec

\* The state of the solver keeps its type.
THEOREM ColumnTypes == Spec => []TypeOK
<1>1. IInv => TypeOK
  BY DEF IInv, Sound
<1>2. QED
  BY <1>1, ColumnInvariant, PTL

\* gen_access_masks.py's self-check passes for every mapping and on every address,
\* not only on the 256 it draws: a mask keeps bank and row and toggles one column bit,
\* which no other mask toggles.
THEOREM MasksPassSelfCheck == Spec => []SelfCheck
<1>1. ASSUME IInv, NEW k \in DOMAIN masks, NEW b \in sys.column, masks[k] \cap sys.column = {b}
      PROVE  Toggles(k, b)
  <2> SUFFICES ASSUME NEW a \in Addresses
               PROVE  LET d0 == Decode(a)
                          d1 == Decode(SymDiff(a, masks[k]))
                      IN  /\ d1.banks = d0.banks
                          /\ d1.row = d0.row
                          /\ d1.col = SymDiff(d0.col, {b})
    BY DEF Toggles
  <2>1. IsMapping(sys) /\ masks[k] \in SUBSET Bit /\ a \in SUBSET Bit
    BY <1>1, CallAssumption DEF IInv, Sound, TypeOK
  <2>2. Banks(masks[k]) = {} /\ masks[k] \cap sys.row = {}
    BY <1>1 DEF IInv, Sound, MasksKeepPlace
  <2>3. Banks(SymDiff(a, masks[k])) = Banks(a)
    <3>1. Banks(SymDiff(a, masks[k])) = SymDiff(Banks(a), Banks(masks[k]))
      BY <2>1, BanksXor
    <3>2. QED
      BY <2>2, <3>1 DEF SymDiff
  <2>4. SymDiff(a, masks[k]) \cap sys.row = a \cap sys.row
    BY <2>2 DEF SymDiff
  <2>5. SymDiff(a, masks[k]) \cap sys.column = SymDiff(a \cap sys.column, {b})
    BY <1>1 DEF SymDiff
  <2>6. QED
    BY <2>3, <2>4, <2>5 DEF Decode
\* One address is enough to tell which column bit a mask toggles.
<1>2. ASSUME NEW k \in DOMAIN masks, NEW b \in sys.column, Toggles(k, b)
      PROVE  b \in masks[k]
  <2>1. PICK a \in Addresses : TRUE
    BY CallAssumption
  <2>2. SymDiff(a, masks[k]) \cap sys.column = SymDiff(a \cap sys.column, {b})
    BY <1>2 DEF Toggles, Decode
  <2>3. QED
    BY <2>2 DEF SymDiff
<1>3. ASSUME IInv PROVE SelfCheck
  <2>1. ASSUME NEW k \in DOMAIN masks
        PROVE  \E b \in sys.column : Toggles(k, b)
    <3>1. PICK b \in sys.column : masks[k] \cap sys.column = {b}
      BY <1>3 DEF IInv, Sound, MasksKeepPlace
    <3>2. QED
      BY <1>1, <1>3, <3>1
  <2>2. ASSUME NEW k \in DOMAIN masks, NEW l \in DOMAIN masks, k # l, NEW b \in sys.column
        PROVE  ~(Toggles(k, b) /\ Toggles(l, b))
    <3>1. masks[k] \cap masks[l] \cap sys.column = {}
      BY <1>3, <2>2 DEF IInv, Sound, MasksFresh
    <3>2. QED
      BY <1>2, <3>1
  <2>3. QED
    BY <2>1, <2>2 DEF SelfCheck
<1>4. QED
  BY <1>3, ColumnInvariant, PTL

\* The list stops early only at a column bit that no bits outside row and column can
\* step: elimination misses no solution.
THEOREM ListIsComplete == Spec => []StopsOnlyWhenUnreachable
<1>1. ASSUME IInv PROVE StopsOnlyWhenUnreachable
  <2> SUFFICES ASSUME pc = "done", Len(masks) < Cardinality(ColumnBits(sys, high))
               PROVE  Stuck
    BY DEF StopsOnlyWhenUnreachable
  <2>1. Cardinality(ColumnBits(sys, high)) \in Nat /\ Len(masks) \in Nat
    <3>1. ColumnBits(sys, high) \in SUBSET sys.column
      BY DEF ColumnBits
    <3>2. QED
      BY <1>1, <3>1, ColumnsFinite DEF IInv, Sound, TypeOK
  <2>2. QED
    BY <1>1, <2>1 DEF IInv, Ended
<1>2. QED
  BY <1>1, ColumnInvariant, PTL

\* No mask that steps the same column bit and keeps bank and row is a smaller number:
\* the two would differ by bits that flip nothing, and the highest of these, which lower
\* ones can stand in for, is combined in no mask.
THEOREM MasksAreSmallest == Spec => []Smallest
<1>1. ASSUME IInv, NEW k \in DOMAIN masks, NEW b \in masks[k] \cap sys.column,
             NEW C \in Cancelling(b), Below(C \cup {b}, masks[k])
      PROVE  FALSE
  <2> DEFINE K == SymDiff(C \cup {b}, masks[k])
  <2>1. PICK t \in masks[k] : Top(t, K)
    BY <1>1 DEF Below
  <2>2. /\ IsMapping(sys) /\ masks[k] \in SUBSET Bit /\ Banks(masks[k]) = {}
        /\ masks[k] \cap sys.row = {} /\ masks[k] \cap sys.column = {b}
    <3>1. PICK d \in sys.column : masks[k] \cap sys.column = {d}
      BY <1>1 DEF IInv, Sound, MasksKeepPlace
    <3>2. d = b
      BY <3>1
    <3>3. QED
      BY <1>1, <3>1, <3>2 DEF IInv, Sound, TypeOK, MasksKeepPlace
  <2>3. C \in SUBSET Outside /\ Banks(C) = Signature(b) /\ b \in Bit /\ b \in sys.column
    BY <1>1, <2>2 DEF Cancelling, Outside
  <2>4. Banks(C \cup {b}) = {}
    <3>1. C \cup {b} = SymDiff(C, {b}) /\ C \in SUBSET Bit /\ {b} \in SUBSET Bit
      BY <2>3 DEF SymDiff, Outside
    <3>2. Banks(SymDiff(C, {b})) = SymDiff(Banks(C), Signature(b))
      BY <2>2, <2>3, <3>1, BanksXor, BanksBit
    <3>3. QED
      BY <2>3, <3>1, <3>2 DEF SymDiff
  <2>5. Banks(K) = {}
    <3>1. C \cup {b} \in SUBSET Bit
      BY <2>3 DEF Outside
    <3>2. Banks(K) = SymDiff(Banks(C \cup {b}), Banks(masks[k]))
      BY <2>2, <3>1, BanksXor
    <3>3. QED
      BY <2>2, <2>4, <3>2 DEF SymDiff
  <2>6. K \subseteq Outside
    BY <2>2, <2>3 DEF SymDiff, Outside
  <2>7. t \in K /\ (\A g \in K : g <= t) /\ t \notin sys.column
    BY <2>1, <2>6 DEF Top, Outside
  <2> HIDE DEF K
  <2>8. Needed(t)
    BY <1>1, <2>1, <2>7 DEF IInv, AllNeeded
  <2>9. K \ {t} \in SUBSET {d \in Outside : d < t}
    <3>1. \A g \in K : g \in Nat
      BY <2>6 DEF Outside, Bit
    <3>2. QED
      BY <2>6, <2>7, <3>1
  <2>10. Banks(K \ {t}) = Signature(t)
    <3>1. K \ {t} = SymDiff(K, {t}) /\ K \in SUBSET Bit /\ t \in Bit /\ {t} \in SUBSET Bit
      BY <2>6, <2>7 DEF SymDiff, Outside
    <3>2. Banks(SymDiff(K, {t})) = SymDiff(Banks(K), Signature(t))
      BY <2>2, <3>1, BanksXor, BanksBit
    <3>3. QED
      BY <2>5, <3>1, <3>2 DEF SymDiff
  <2>11. QED
    BY <2>8, <2>9, <2>10 DEF Needed
<1>2. IInv => Smallest
  BY <1>1 DEF Smallest
<1>3. QED
  BY <1>2, ColumnInvariant, PTL

\* A mask of at least one bit outside the page has a highest bit, outside it too.
LEMMA HighestOutside ==
    ASSUME NEW D \in SUBSET Bit, NEW s \in D, NEW n \in Nat, s >= n
    PROVE  \E t \in D : Top(t, D) /\ t >= n
<1>1. W \in Nat /\ \A y \in D : y \in 0 .. W - 1
  BY WidthAssumption DEF Bit
<1> DEFINE E == {y + 1 : y \in D}
<1>2. E \in SUBSET (1 .. W) /\ E # {}
  <2>1. \A y \in D : y + 1 \in 1 .. W
    BY <1>1
  <2>2. QED
    BY <2>1
<1>3. PICK e \in E : \A y \in E : y <= e
  <2> HIDE DEF E
  <2>1. QED
    BY <1>1, <1>2, MaxExists
<1>4. PICK t \in D : e = t + 1
  OBVIOUS
<1>5. \A y \in D : y <= t
  <2>1. \A y \in D : y + 1 <= t + 1
    BY <1>3, <1>4
  <2>2. QED
    BY <1>1, <2>1
<1>6. QED
  BY <1>1, <1>5 DEF Top

\* The mask at a column bit's position steps that bit.
LEMMA MaskOfColumn ==
    ASSUME Sound, InOrder, NEW b \in sys.column, Rank(b) + 1 \in DOMAIN masks
    PROVE  masks[Rank(b) + 1] \cap sys.column = {b}
<1>1. PICK d \in sys.column : masks[Rank(b) + 1] \cap sys.column = {d}
  BY DEF Sound, MasksKeepPlace
<1>2. Rank(d) + 1 = Rank(b) + 1 /\ Rank(d) \in Nat /\ Rank(b) \in Nat
  BY <1>1, ColumnsFinite DEF InOrder, Rank
<1>3. d = b
  BY <1>2, RankInjective
<1>4. QED
  BY <1>1, <1>3

\* A mapping whose column bits can be stepped inside a page gets all its masks, and each
\* of them stays inside the page, since one that left it would not be the smallest; any
\* other mapping cannot be served by any masks at all.
THEOREM ServedIfPossible == Spec => [](pc = "done" => (WidthsServed <=> Servable))
<1>1. ASSUME IInv, Smallest, pc = "done", Servable
      PROVE  WidthsServed
  <2>1. Len(masks) = MaxBits
    BY <1>1 DEF IInv, Ended, Stuck, Servable
  <2>2. ASSUME NEW k \in DOMAIN masks, NEW s \in masks[k], ~(s \in 0 .. PageBits - 1)
        PROVE  FALSE
    <3>1. masks[k] \in SUBSET Bit /\ sys.column \subseteq Bit
      BY <1>1 DEF IInv, Sound, TypeOK, IsMapping
    <3>2. PICK b \in sys.column : masks[k] \cap sys.column = {b}
      BY <1>1 DEF IInv, Sound, MasksKeepPlace
    <3>3. b \in masks[k] \cap sys.column /\ b \in ColumnBits(sys, high)
      BY <1>1, <3>2 DEF IInv, InOrder
    <3>4. PICK C \in Cancelling(b) : C \cup {b} \subseteq 0 .. PageBits - 1
      BY <1>1, <3>3 DEF Servable
    <3> DEFINE D == SymDiff(C \cup {b}, masks[k])
    <3>5. C \cup {b} \in SUBSET Bit
      BY <3>1, <3>4 DEF Cancelling
    <3>6. D \in SUBSET Bit /\ s \in D
      BY <2>2, <3>1, <3>4, <3>5 DEF SymDiff
    <3>7. s >= PageBits /\ PageBits \in Nat
      BY <2>2, <3>1, WidthAssumption DEF Bit
    <3>8. PICK t \in D : Top(t, D) /\ t >= PageBits
      <4> HIDE DEF D
      <4>1. QED
        BY <3>6, <3>7, HighestOutside
    <3>9. t \notin C \cup {b}
      BY <3>4, <3>7, <3>8
    <3>10. t \in masks[k]
      BY <3>9 DEF SymDiff
    <3>11. Below(C \cup {b}, masks[k])
      BY <3>8, <3>10 DEF Below
    <3>12. QED
      BY <1>1, <3>3, <3>4, <3>11 DEF Smallest
  <2>3. QED
    BY <2>1, <2>2 DEF WidthsServed
<1>2. ASSUME IInv, pc = "done", WidthsServed
      PROVE  Servable
  <2>1. Len(masks) = MaxBits /\ \A k \in DOMAIN masks : masks[k] \subseteq 0 .. PageBits - 1
    BY <1>2 DEF WidthsServed
  <2>2. \A b \in ColumnBits(sys, high) : Rank(b) < MaxBits /\ Rank(b) \in Nat /\ b \in sys.column
    <3>1. ColumnBits(sys, high) \subseteq sys.column
      BY DEF ColumnBits
    <3>2. QED
      BY <1>2, <3>1, ColumnBitsRank, ColumnsFinite DEF IInv, Rank
  <2>3. ~Stuck
    BY <2>1, <2>2, WidthAssumption DEF Stuck
  <2>4. Cardinality(ColumnBits(sys, high)) = MaxBits
    BY <1>2, <2>1, <2>3 DEF IInv, Ended
  <2>5. ASSUME NEW b \in ColumnBits(sys, high)
        PROVE  \E C \in Cancelling(b) : C \cup {b} \subseteq 0 .. PageBits - 1
    <3>1. PICK k \in DOMAIN masks : masks[k] \cap sys.column = {b}
      <4>1. Rank(b) + 1 \in DOMAIN masks
        BY <1>2, <2>1, <2>2 DEF IInv, Sound, TypeOK
      <4>2. QED
        BY <1>2, <2>2, <4>1, MaskOfColumn DEF IInv
    <3>2. masks[k] \cap sys.column = {b} /\ b \in masks[k]
      BY <3>1
    <3> DEFINE C == masks[k] \ {b}
    <3>3. IsMapping(sys) /\ masks[k] \in SUBSET Bit /\ b \in Bit
      BY <1>2, <3>1 DEF IInv, Sound, TypeOK
    <3>4. C \in SUBSET Outside /\ C \in SUBSET Bit
      BY <1>2, <3>2, <3>3 DEF Outside, IInv, Sound, MasksKeepPlace
    <3>5. Banks(C) = Signature(b)
      <4>1. C = SymDiff(masks[k], {b}) /\ {b} \in SUBSET Bit
        BY <3>2, <3>3 DEF SymDiff
      <4>2. Banks(SymDiff(masks[k], {b})) = SymDiff(Banks(masks[k]), Signature(b))
        BY <3>3, <4>1, BanksXor, BanksBit
      <4>3. Banks(masks[k]) = {}
        BY <1>2, <3>1 DEF IInv, Sound, MasksKeepPlace
      <4>4. QED
        BY <4>1, <4>2, <4>3 DEF SymDiff
    <3>6. C \cup {b} = masks[k]
      BY <3>2
    <3>7. QED
      BY <2>1, <3>4, <3>5, <3>6 DEF Cancelling, Outside
  <2>6. QED
    BY <2>4, <2>5 DEF Servable
<1>3. IInv /\ Smallest => (pc = "done" => (WidthsServed <=> Servable))
  BY <1>1, <1>2
<1>4. QED
  BY <1>3, ColumnInvariant, MasksAreSmallest, PTL

\* Two addresses decode alike if and only if the bits in which they differ, none of them in
\* row or column, decode like none: looking at differences is enough to know that no two
\* lines of the memory share a place in the DRAM.
THEOREM DifferencesDecide ==
    ASSUME IsMapping(sys), NEW L \in SUBSET Bit
    PROVE  TellsApart(L) <=> \A A, B \in SUBSET L : Decode(A) = Decode(B) => A = B
<1>1. ASSUME TellsApart(L), NEW A \in SUBSET L, NEW B \in SUBSET L, Decode(A) = Decode(B)
      PROVE  A = B
  <2>1. /\ Banks(A) = Banks(B) /\ A \cap sys.row = B \cap sys.row
        /\ A \cap sys.column = B \cap sys.column
    BY <1>1 DEF Decode
  <2> DEFINE D == SymDiff(A, B)
  <2>2. D \in SUBSET (L \ (sys.row \cup sys.column))
    BY <2>1 DEF SymDiff
  <2>3. Banks(D) = {}
    <3>1. A \in SUBSET Bit /\ B \in SUBSET Bit
      OBVIOUS
    <3>2. Banks(D) = SymDiff(Banks(A), Banks(B))
      BY <3>1, BanksXor
    <3>3. QED
      BY <2>1, <3>2 DEF SymDiff
  <2>4. Decode(D) = Decode({})
    <3>1. D \cap sys.row = {} \cap sys.row /\ D \cap sys.column = {} \cap sys.column
      BY <2>2
    <3>2. QED
      BY <2>3, <3>1, BanksNothing DEF Decode
  <2>5. D = {}
    BY <1>1, <2>2, <2>4 DEF TellsApart
  <2>6. QED
    BY <2>5 DEF SymDiff
<1>2. ASSUME \A A, B \in SUBSET L : Decode(A) = Decode(B) => A = B
      PROVE  TellsApart(L)
  BY <1>2 DEF TellsApart
<1>3. QED
  BY <1>1, <1>2

\* The XOR of any masks flips no function.
LEMMA StepKeepsBanks ==
    ASSUME Sound, NEW D \in SUBSET DOMAIN masks
    PROVE  Banks(StepMask(D)) = {}
<1> DEFINE Bad == {n \in Nat : \E E \in SUBSET DOMAIN masks :
                                  E \subseteq 1 .. n /\ Banks(StepMask(E)) # {}}
<1>1. /\ masks \in Seq(SUBSET Bit) /\ DOMAIN masks = 1 .. Len(masks) /\ Len(masks) \in Nat
      /\ IsMapping(sys) /\ MasksKeepPlace
  BY DEF Sound, TypeOK
<1>2. \A E \in SUBSET DOMAIN masks : IsFiniteSet(E)
  <2>1. IsFiniteSet(DOMAIN masks)
    BY <1>1, FS_Interval
  <2>2. QED
    BY <2>1, FS_Subset
<1>3. Banks(StepMask({})) = {}
  <2>1. \A b \in Bit : {k \in {} : b \in masks[k]} = {}
    OBVIOUS
  <2>2. StepMask({}) = {}
    BY <2>1, OddNone DEF StepMask
  <2>3. QED
    BY <2>2, BanksNothing
<1>4. Bad = {}
  <2> SUFFICES ASSUME Bad # {} PROVE FALSE
    OBVIOUS
  <2>1. PICK n \in Bad : \A m \in Bad : n <= m
    <3>1. Bad \subseteq Nat
      OBVIOUS
    <3> HIDE DEF Bad
    <3>2. QED
      BY <3>1, NatMin
  <2>2. PICK E \in SUBSET DOMAIN masks : E \subseteq 1 .. n /\ Banks(StepMask(E)) # {}
    BY <2>1
  <2>3. n \in E
    <3> SUFFICES ASSUME n \notin E PROVE FALSE
      OBVIOUS
    <3>1. CASE n = 0
      <4>1. E = {}
        BY <2>2, <3>1
      <4>2. QED
        BY <1>3, <2>2, <4>1
    <3>2. CASE n > 0
      <4>1. n - 1 \in Nat /\ E \subseteq 1 .. n - 1 /\ n \in Nat
        BY <2>1, <2>2, <3>2
      <4>2. n - 1 \in Bad
        BY <2>2, <4>1
      <4> HIDE DEF Bad
      <4>3. n <= n - 1
        BY <2>1, <4>2
      <4>4. QED
        BY <4>1, <4>3
    <3>3. n \in Nat
      BY <2>1
    <3>4. QED
      BY <3>1, <3>2, <3>3
  <2> DEFINE F == E \ {n}
  <2>4. Banks(StepMask(F)) = {}
    <3> SUFFICES ASSUME Banks(StepMask(F)) # {} PROVE FALSE
      OBVIOUS
    <3>1. n \in Nat \ {0}
      BY <1>1, <2>3
    <3>2. n - 1 \in Nat /\ F \subseteq 1 .. n - 1 /\ F \in SUBSET DOMAIN masks
      BY <2>2, <3>1
    <3>3. n - 1 \in Bad
      BY <3>2
    <3> HIDE DEF Bad
    <3>4. n <= n - 1
      BY <2>1, <3>3
    <3>5. QED
      BY <3>1, <3>4
  <2>5. StepMask(E) = SymDiff(StepMask(F), masks[n])
    <3>1. n \in DOMAIN masks /\ masks[n] \subseteq Bit /\ n \notin F
      BY <1>1, <2>3
    <3>2. ASSUME NEW b \in Bit
          PROVE  Odd({k \in E : b \in masks[k]})
                   <=> ~(Odd({k \in F : b \in masks[k]}) <=> b \in masks[n])
      <4> DEFINE A == {k \in F : b \in masks[k]}
      <4>1. CASE b \in masks[n]
        <5>1. {k \in E : b \in masks[k]} = SymDiff(A, {n})
          BY <2>3, <4>1 DEF SymDiff
        <5>2. IsFiniteSet(A) /\ IsFiniteSet({n})
          <6>1. A \in SUBSET DOMAIN masks /\ {n} \in SUBSET DOMAIN masks
            BY <3>1
          <6>2. QED
            BY <1>2, <6>1
        <5> HIDE DEF A
        <5>3. Odd(SymDiff(A, {n})) <=> ~(Odd(A) <=> Odd({n}))
          BY <5>2, OddXor
        <5>4. QED
          BY <4>1, <5>1, <5>3, OddOne DEF A
      <4>2. CASE b \notin masks[n]
        <5>1. {k \in E : b \in masks[k]} = A
          BY <4>2
        <5>2. QED
          BY <4>2, <5>1
      <4>3. QED
        BY <4>1, <4>2
    <3>3. QED
      BY <3>1, <3>2 DEF StepMask, SymDiff
  <2>6. StepMask(F) \in SUBSET Bit /\ masks[n] \in SUBSET Bit /\ Banks(masks[n]) = {}
    BY <1>1, <2>3 DEF StepMask, MasksKeepPlace
  <2> HIDE DEF F
  <2>7. Banks(StepMask(E)) = SymDiff(Banks(StepMask(F)), Banks(masks[n]))
    BY <1>1, <2>5, <2>6, BanksXor
  <2>8. QED
    BY <2>2, <2>4, <2>6, <2>7 DEF SymDiff
<1>5. QED
  BY <1>1, <1>4

\* It touches no row bit, and the column bits of the masks it is made of.
LEMMA StepColumns ==
    ASSUME Sound, InOrder, NEW D \in SUBSET DOMAIN masks
    PROVE  /\ StepMask(D) \cap sys.row = {}
           /\ StepMask(D) \cap sys.column = ColumnsOf(D)
<1>1. /\ masks \in Seq(SUBSET Bit) /\ IsMapping(sys) /\ MasksKeepPlace
      /\ sys.column \subseteq Bit /\ sys.row \subseteq Bit
  BY DEF Sound, TypeOK, IsMapping
<1>2. ASSUME NEW b \in sys.row PROVE b \notin StepMask(D)
  <2>1. {k \in D : b \in masks[k]} = {}
    BY <1>1 DEF MasksKeepPlace
  <2>2. QED
    BY <2>1, OddNone DEF StepMask
<1>3. ASSUME NEW b \in sys.column PROVE b \in StepMask(D) <=> b \in ColumnsOf(D)
  <2>1. \A k \in D : b \in masks[k] => b \in ColumnBits(sys, high) /\ k = Rank(b) + 1
    BY DEF InOrder
  <2>2. CASE b \in ColumnsOf(D)
    <3>1. Rank(b) + 1 \in D /\ Rank(b) \in Nat
      BY <2>2, ColumnsFinite DEF ColumnsOf, Rank
    <3>2. PICK d \in sys.column : masks[Rank(b) + 1] \cap sys.column = {d}
      BY <1>1, <3>1 DEF MasksKeepPlace
    <3>3. Rank(d) + 1 = Rank(b) + 1 /\ Rank(d) \in Nat
      BY <3>1, <3>2, ColumnsFinite DEF InOrder, Rank
    <3>4. d = b
      BY <3>1, <3>3, RankInjective
    <3>5. {k \in D : b \in masks[k]} = {Rank(b) + 1}
      BY <2>1, <3>1, <3>2, <3>4
    <3>6. QED
      BY <1>1, <2>2, <3>5, OddOne DEF StepMask
  <2>3. CASE b \notin ColumnsOf(D)
    <3>1. {k \in D : b \in masks[k]} = {}
      BY <2>1, <2>3 DEF ColumnsOf
    <3>2. QED
      BY <2>3, <3>1, OddNone DEF StepMask
  <2>4. QED
    BY <2>2, <2>3
<1>4. ColumnsOf(D) \subseteq sys.column
  BY DEF ColumnsOf, ColumnBits
<1>5. QED
  BY <1>2, <1>3, <1>4

\* XOR-ing the masks of any steps into any address changes just their column bits: the
\* bank and the row stay.
THEOREM StepsKeepRow == Spec => []StepsStayInRow
<1>1. ASSUME IInv, NEW D \in SUBSET DOMAIN masks, NEW a \in Addresses
      PROVE  Decode(SymDiff(a, StepMask(D))) = [Decode(a) EXCEPT !.col = SymDiff(@, ColumnsOf(D))]
  <2>1. /\ Sound /\ InOrder /\ IsMapping(sys) /\ a \in SUBSET Bit /\ StepMask(D) \in SUBSET Bit
    BY <1>1, CallAssumption DEF IInv, Sound, TypeOK, StepMask
  <2>2. Banks(SymDiff(a, StepMask(D))) = Banks(a)
    <3>1. Banks(SymDiff(a, StepMask(D))) = SymDiff(Banks(a), Banks(StepMask(D)))
      BY <2>1, BanksXor
    <3>2. QED
      BY <2>1, <3>1, StepKeepsBanks DEF SymDiff
  <2>3. /\ StepMask(D) \cap sys.row = {}
        /\ StepMask(D) \cap sys.column = ColumnsOf(D)
    BY <2>1, StepColumns
  <2>4. SymDiff(a, StepMask(D)) \cap sys.row = a \cap sys.row
    BY <2>3 DEF SymDiff
  <2>5. SymDiff(a, StepMask(D)) \cap sys.column = SymDiff(a \cap sys.column, ColumnsOf(D))
    BY <2>3 DEF SymDiff
  <2>6. QED
    BY <2>2, <2>4, <2>5 DEF Decode
<1>2. IInv => StepsStayInRow
  BY <1>1 DEF StepsStayInRow
<1>3. QED
  BY <1>2, ColumnInvariant, PTL

------------------------------------------------------------------------------
(* The solver ends: an XOR clears the top of a vector, so that one pass    *)
(* over the functions from the highest down reduces it as far as it goes.  *)

\* address_mapping.py:255-263 and 269-276.  What is left of a vector after an XOR is below
\* the function that was on top: the loop need not come back to one it has passed, and
\* after its last round nothing is left, as the comment at line 263 says.
THEOREM OnePassReduces ==
    Spec => [][Reduce \/ Cancel => \A f \in v : Top(f, v) => \A g \in v' : g < f]_vars
<1>1. IInv /\ [Next]_vars
        => [Reduce \/ Cancel => \A f \in v : Top(f, v) => \A g \in v' : g < f]_vars
  <2> SUFFICES ASSUME IInv, Reduce \/ Cancel, NEW f \in v, Top(f, v), NEW g \in v'
               PROVE  g < f
    OBVIOUS
  <2>1. v \subseteq Fn /\ Fn \subseteq Nat /\ slot \in [Fn -> [vec : SUBSET Fn, combo : SUBSET Outside]]
    BY Functions DEF IInv, Sound, TypeOK, Outside
  <2>2. PICK h \in v : Top(h, v) /\ slot[h] # NoVector /\ v' = SymDiff(v, slot[h].vec)
    BY DEF Reduce, Cancel, XorSlot
  <2>3. h = f
    BY <2>1, <2>2 DEF Top
  <2>4. Top(f, slot[f].vec)
    BY <2>1, <2>2, <2>3 DEF IInv, Echelon, Slotted
  <2>5. slot[f].vec \subseteq Fn
    BY <2>1
  <2>6. g \in v \cup slot[f].vec /\ g # f
    BY <2>2, <2>3, <2>4 DEF SymDiff, Top
  <2>7. g <= f /\ g \in Nat /\ f \in Nat
    BY <2>1, <2>4, <2>5, <2>6 DEF Top
  <2> QED
    BY <2>6, <2>7
<1> QED
  BY <1>1, ColumnInvariant, PTL DEF Spec

\* The functions a vector may still have to be reduced at.
Reach == {g \in Fn : \E f \in v : g <= f}
Height == Cardinality(Reach)

\* How many steps the solver has left at most: for each bit one XOR per function and two
\* more, and a step after each of the two loops over the bits.
PerBit == Len(sys.fun) + 2
BitsLeft == Cardinality(slack) + Cardinality(cols)
StepsLeft == CASE pc = "insert" -> BitsLeft * PerBit + 2
               [] pc = "reduce" -> BitsLeft * PerBit + 2 + Height + 1
               [] pc = "solve"  -> BitsLeft * PerBit + 1
               [] pc = "cancel" -> BitsLeft * PerBit + 1 + Height + 1
               [] pc = "done"   -> 0

StepsLeftCases ==
    /\ pc = "insert" => StepsLeft = BitsLeft * PerBit + 2
    /\ pc = "reduce" => StepsLeft = BitsLeft * PerBit + 2 + Height + 1
    /\ pc = "solve" => StepsLeft = BitsLeft * PerBit + 1
    /\ pc = "cancel" => StepsLeft = BitsLeft * PerBit + 1 + Height + 1
    /\ pc = "done" => StepsLeft = 0

\* The cases exclude each other.
LEMMA StepsLeftEach == StepsLeftCases
BY Zenon DEF StepsLeftCases, StepsLeft

\* The quantities StepsLeft is made of.
Measures == /\ PerBit \in Nat
            /\ Height \in Nat /\ Height + 2 <= PerBit
            /\ Cardinality(slack) \in Nat /\ Cardinality(cols) \in Nat
            /\ BitsLeft \in Nat /\ BitsLeft * PerBit \in Nat

\* They are numbers, and no vector takes more rounds than there are functions.
LEMMA MeasuresHold == IInv => Measures
<1> SUFFICES ASSUME IInv PROVE Measures
  OBVIOUS
<1>1. /\ IsMapping(sys) /\ slack \subseteq Bit /\ cols \subseteq sys.column /\ v \subseteq Fn
  BY DEF IInv, Sound, TypeOK, ColumnBits
<1>2. Len(sys.fun) \in Nat /\ Fn = 1 .. Len(sys.fun) /\ IsFiniteSet(Fn)
  BY <1>1, Functions
<1>3. Cardinality(Fn) = Len(sys.fun)
  <2>1. CASE Len(sys.fun) = 0
    <3>1. Fn = {}
      BY <1>2, <2>1
    <3> QED
      BY <2>1, <3>1, FS_EmptySet
  <2>2. CASE Len(sys.fun) # 0
    <3>1. Cardinality(1 .. Len(sys.fun)) = Len(sys.fun) - 1 + 1
      BY <1>2, <2>2, FS_Interval
    <3> QED
      BY <1>2, <3>1
  <2> QED
    BY <2>1, <2>2
<1>4. Height \in Nat /\ Height <= Len(sys.fun)
  BY <1>2, <1>3, FS_Subset, FS_CardinalityType DEF Reach, Height
<1>5. Cardinality(slack) \in Nat
  BY <1>1, BitsFinite
<1>6. Cardinality(cols) \in Nat
  BY <1>1, ColumnsFinite DEF IInv
<1>7. PerBit \in Nat /\ Height + 2 <= PerBit
  BY <1>2, <1>4 DEF PerBit
<1>8. BitsLeft \in Nat
  BY <1>5, <1>6 DEF BitsLeft
<1> HIDE DEF PerBit, BitsLeft, Height
<1>9. BitsLeft * PerBit \in Nat
  BY <1>7, <1>8
<1> QED
  BY <1>4, <1>5, <1>6, <1>7, <1>8, <1>9 DEF Measures

\* A bit that is done with takes its steps along.
LEMMA OneBitLess ==
    ASSUME NEW n \in Nat, NEW m \in Nat, NEW k, k = n - 1
    PROVE  k * m = n * m - m
OBVIOUS

\* The bit begun costs less than it was reckoned at.
LEMMA FewerSteps ==
    ASSUME NEW all \in Nat, NEW p \in Nat, NEW h \in Nat, h + 2 <= p, NEW b \in {1, 2}
    PROVE  (all - p) + b + h + 1 < all + b
OBVIOUS

\* An XOR lowers what a vector has to be reduced at.
LEMMA HeightFalls == IInv /\ (Reduce \/ Cancel) /\ sys' = sys /\
                     (\A f \in v : Top(f, v) => \A g \in v' : g < f) => Height' < Height
<1> SUFFICES ASSUME IInv, Reduce \/ Cancel, sys' = sys,
                    \A f \in v : Top(f, v) => \A g \in v' : g < f
             PROVE  Height' < Height
  OBVIOUS
<1>1. PICK f \in v : Top(f, v)
  BY DEF Reduce, Cancel
<1>2. IsMapping(sys) /\ v \subseteq Fn
  BY DEF IInv, Sound, TypeOK
<1>3. Fn \subseteq Nat /\ \A T \in SUBSET Fn : IsFiniteSet(T)
  BY <1>2, Functions
<1>4. Fn' = Fn
  BY DEF Fn
<1>5. f \in Reach
  BY <1>1, <1>2, <1>3 DEF Reach
<1>6. Reach' \subseteq Reach \ {f}
  <2> SUFFICES ASSUME NEW g \in Reach' PROVE g \in Reach \ {f}
    OBVIOUS
  <2>1. g \in Fn /\ \E h \in v' : g <= h
    BY <1>4 DEF Reach
  <2>2. PICK h \in v' : g <= h
    BY <2>1
  <2>3. h < f
    BY <1>1
  <2>4. h \in Fn
    BY <1>1, <1>2, <2>2 DEF Reduce, Cancel, XorSlot, SymDiff, IInv, Sound, TypeOK
  <2>5. g < f
    BY <1>2, <1>3, <2>1, <2>2, <2>3, <2>4
  <2> QED
    BY <1>2, <1>3, <2>1, <2>5 DEF Reach
<1>7. Reach \subseteq Fn
  BY DEF Reach
<1>8. IsFiniteSet(Reach) /\ IsFiniteSet(Reach \ {f})
  BY <1>3, <1>7
<1>9. Cardinality(Reach \ {f}) = Cardinality(Reach) - 1 /\ Cardinality(Reach) \in Nat
  BY <1>5, <1>8, FS_RemoveElement, FS_CardinalityType
<1>10. Cardinality(Reach') <= Cardinality(Reach \ {f}) /\ Cardinality(Reach') \in Nat
  BY <1>6, <1>8, FS_Subset, FS_CardinalityType
<1> QED
  BY <1>9, <1>10 DEF Height

\* address_mapping.py:325-340.  For any mapping the solver takes at most as many steps as
\* StepsLeft has at the beginning; each step leaves it fewer.
THEOREM SolverTakesBoundedSteps ==
    Spec => [](StepsLeft \in Nat) /\ [][StepsLeft' < StepsLeft]_vars
<1>1. IInv /\ Measures /\ Measures' /\ StepsLeftCases /\ StepsLeftCases' /\ [Next]_vars
      /\ [Reduce \/ Cancel => \A f \in v : Top(f, v) => \A g \in v' : g < f]_vars
        => [StepsLeft' < StepsLeft]_vars
  <2> SUFFICES ASSUME IInv, Measures, Measures', StepsLeftCases, StepsLeftCases', Next,
                      Reduce \/ Cancel => \A f \in v : Top(f, v) => \A g \in v' : g < f
               PROVE  StepsLeft' < StepsLeft
    BY DEF Reduce, Cancel, vars
  <2>1. sys' = sys /\ PerBit' = PerBit
    BY DEF Next, InsertBit, Reduce, Store, Dependent, BasisDone, SolveBit, Cancel, Unreachable,
           Solved, AllSolved, PerBit
  <2>2. /\ PerBit \in Nat /\ Height \in Nat /\ Height' \in Nat /\ Height' + 2 <= PerBit
        /\ BitsLeft \in Nat /\ BitsLeft * PerBit \in Nat
    BY <2>1 DEF Measures
  <2>3. ASSUME BitsLeft' = BitsLeft PROVE BitsLeft' * PerBit' = BitsLeft * PerBit
    BY <2>1, <2>3
  <2>4. ASSUME BitsLeft' = BitsLeft - 1
        PROVE  BitsLeft' * PerBit' = BitsLeft * PerBit - PerBit
    <3> HIDE DEF BitsLeft, PerBit
    <3> QED
      BY <2>1, <2>2, <2>4, OneBitLess
  <2> HIDE DEF StepsLeft, Height, PerBit
  <2>5. CASE InsertBit
    <3>1. pc = "insert" /\ pc' = "reduce" /\ cols' = cols /\ \E b \in slack : slack' = slack \ {b}
      BY <2>5 DEF InsertBit
    <3>2. IsFiniteSet(slack)
      BY BitsFinite DEF IInv, Sound, TypeOK
    <3>3. Cardinality(slack') = Cardinality(slack) - 1
      BY <3>1, <3>2, FS_RemoveElement
    <3>4. BitsLeft' = BitsLeft - 1
      BY <3>1, <3>3 DEF BitsLeft, Measures
    <3>5. BitsLeft' * PerBit' = BitsLeft * PerBit - PerBit
      BY <2>4, <3>4
    <3> HIDE DEF BitsLeft
    <3>6. StepsLeft = BitsLeft * PerBit + 2
      BY <3>1 DEF StepsLeftCases
    <3>7. StepsLeft' = BitsLeft' * PerBit' + 2 + Height' + 1
      BY <3>1 DEF StepsLeftCases
    <3> QED
      BY <2>2, <3>5, <3>6, <3>7, FewerSteps
  <2>6. CASE SolveBit
    <3>1. pc = "solve" /\ pc' = "cancel" /\ slack' = slack /\ \E b \in cols : cols' = cols \ {b}
      BY <2>6 DEF SolveBit
    <3>2. IsFiniteSet(cols)
      BY ColumnsFinite DEF IInv, Sound, TypeOK, ColumnBits
    <3>3. Cardinality(cols') = Cardinality(cols) - 1
      BY <3>1, <3>2, FS_RemoveElement
    <3>4. BitsLeft' = BitsLeft - 1
      BY <3>1, <3>3 DEF BitsLeft, Measures
    <3>5. BitsLeft' * PerBit' = BitsLeft * PerBit - PerBit
      BY <2>4, <3>4
    <3> HIDE DEF BitsLeft
    <3>6. StepsLeft = BitsLeft * PerBit + 1
      BY <3>1 DEF StepsLeftCases
    <3>7. StepsLeft' = BitsLeft' * PerBit' + 1 + Height' + 1
      BY <3>1 DEF StepsLeftCases
    <3> QED
      BY <2>2, <3>5, <3>6, <3>7, FewerSteps
  <2>7. CASE Reduce \/ Cancel
    <3>1. pc' = pc /\ pc \in {"reduce", "cancel"} /\ slack' = slack /\ cols' = cols
      BY <2>7 DEF Reduce, Cancel
    <3>2. Height' < Height
      BY <2>1, <2>7, HeightFalls
    <3>3. BitsLeft' * PerBit' = BitsLeft * PerBit
      BY <2>3, <3>1 DEF BitsLeft
    <3> HIDE DEF BitsLeft
    <3> QED
      BY <2>2, <3>1, <3>2, <3>3 DEF StepsLeftCases
  <2>8. CASE Store \/ Dependent \/ BasisDone \/ Solved
    <3>1. /\ slack' = slack /\ cols' = cols
          /\ \/ pc = "reduce" /\ pc' = "insert"
             \/ pc = "insert" /\ pc' = "solve"
             \/ pc = "cancel" /\ pc' = "solve"
      BY <2>8 DEF Store, Dependent, BasisDone, Solved
    <3>2. BitsLeft' * PerBit' = BitsLeft * PerBit
      BY <2>3, <3>1 DEF BitsLeft
    <3> HIDE DEF BitsLeft
    <3> QED
      BY <2>2, <3>1, <3>2 DEF StepsLeftCases
  <2>9. CASE Unreachable \/ AllSolved
    <3>1. pc \in {"cancel", "solve"} /\ pc' = "done"
      BY <2>9 DEF Unreachable, AllSolved
    <3> HIDE DEF BitsLeft
    <3> QED
      BY <2>2, <3>1 DEF StepsLeftCases
  <2> QED
    BY <2>5, <2>6, <2>7, <2>8, <2>9 DEF Next
<1>2. IInv /\ Measures /\ StepsLeftCases => StepsLeft \in Nat
  <2> SUFFICES ASSUME IInv, Measures, StepsLeftCases PROVE StepsLeft \in Nat
    OBVIOUS
  <2>1. pc \in {"insert", "reduce", "solve", "cancel", "done"}
    BY DEF IInv, Sound, TypeOK
  <2> HIDE DEF StepsLeft, BitsLeft, PerBit, Height
  <2> QED
    BY <2>1 DEF Measures, StepsLeftCases
<1> QED
  BY <1>1, <1>2, OnePassReduces, StepsLeftEach, MeasuresHold, ColumnInvariant, PTL DEF Spec
=============================================================================
