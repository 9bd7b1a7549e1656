----------------------------- MODULE ColumnSteps -----------------------------
(***************************************************************************)
(* address_mapping.py: col_step_masks() looks, for each column bit of a    *)
(* DRAM mapping, for the slack bits of the physical address that cancel    *)
(* its effect on every bank-selection function.  XOR-ing the resulting     *)
(* mask into an address moves it to another column of the same channel,    *)
(* rank, bank group, bank and row.  The slack bits are reduced to a GF(2)  *)
(* basis (class _XorBasis) that remembers which bits make up each vector.  *)
(*                                                                         *)
(* An address, a mask and a combination of bits are sets of bit positions, *)
(* a signature is the set of functions a combination flips, and XOR is the *)
(* symmetric difference.  The three copies of the file differ only in the  *)
(* registered mappings and in the parameter high of the one in Temp/.      *)
(***************************************************************************)
EXTENDS Naturals, Sequences, FiniteSets, FiniteSetsExt

CONSTANTS
    W,          \* address bits, 64 in the source
    Mappings,   \* the mappings col_step_masks is called with
    Highs,      \* the values of its parameter high
    MaxBits,    \* its parameter max_bits
    PageBits,   \* address bits inside a hugepage
    Addresses   \* the addresses the masks are checked on

Bit == 0 .. W - 1

\* fun lists the bank-selection functions: channel, rank, bank group, bank.
\* A bit is copied into the row or into the column, never into both.
IsMapping(s) == /\ s.fun \in Seq(SUBSET Bit)
                /\ s.row \subseteq Bit
                /\ s.column \subseteq Bit
                /\ s.row \cap s.column = {}

ASSUME WidthAssumption == W \in Nat /\ MaxBits \in Nat /\ PageBits \in Nat
ASSUME MappingAssumption == \A s \in Mappings : IsMapping(s)
ASSUME CallAssumption == /\ Highs \subseteq BOOLEAN
                         /\ Addresses \subseteq SUBSET Bit /\ Addresses # {}

VARIABLES
    sys,      \* the mapping
    high,     \* the column bits are taken from the top
    pc,       \* "insert", "reduce", "solve", "cancel" or "done"
    slack,    \* slack bits not yet inserted
    slot,     \* the basis: the vector with top bit f, and the bits it combines
    cols,     \* column bits not yet solved
    bit,      \* the column bit being solved
    v,        \* what is left of the vector being reduced
    c,        \* the slack bits combined so far
    masks     \* the masks found

vars == <<sys, high, pc, slack, slot, cols, bit, v, c, masks>>

Fn == DOMAIN sys.fun

\* decode: the bank functions' parities, and the row and column bits as they are.
Odd(S) == Cardinality(S) % 2 = 1
Banks(a) == {f \in Fn : Odd(sys.fun[f] \cap a)}
Decode(a) == [banks |-> Banks(a), row |-> a \cap sys.row, col |-> a \cap sys.column]

\* The functions one bit takes part in.
Signature(b) == {f \in Fn : b \in sys.fun[f]}

\* Bits that are neither column nor row and that some function looks at.
SlackBits(s) == {b \in Bit \ (s.column \cup s.row) : \E f \in DOMAIN s.fun : b \in s.fun[f]}

Before(d, b, h) == IF h THEN d > b ELSE d < b

\* The max_bits lowest column bits, or highest ones when high is set.
ColumnBits(s, h) ==
    {b \in s.column : Cardinality({d \in s.column : Before(d, b, h)}) < MaxBits}

NoVector == [vec |-> {}, combo |-> {}]
Top(f, S) == f \in S /\ \A g \in S : g <= f

------------------------------------------------------------------------------
Init == /\ sys \in Mappings
        /\ high \in Highs
        /\ pc = "insert"
        /\ slack = SlackBits(sys)
        /\ slot = [f \in Fn |-> NoVector]
        /\ cols = ColumnBits(sys, high)
        /\ bit = 0
        /\ v = {}
        /\ c = {}
        /\ masks = <<>>

\* The slack bit the loop comes to: they are inserted in ascending order.
NextSlack_Highest(b) == b \in slack /\ \A d \in slack : d <= b
NextSlack(b) == b \in slack /\ \A d \in slack : b <= d

InsertBit == /\ pc = "insert"
             /\ \E b \in slack : /\ NextSlack(b)
                                 /\ slack' = slack \ {b}
                                 /\ v' = Signature(b)
                                 /\ c' = {b}
             /\ pc' = "reduce"
             /\ UNCHANGED <<sys, high, slot, cols, bit, masks>>

\* One XOR with the basis vector that has the same top bit.
XorSlot_LastOnly(f) == /\ v' = SymDiff(v, slot[f].vec)
                       /\ c' = slot[f].combo
XorSlot(f) == /\ v' = SymDiff(v, slot[f].vec)
              /\ c' = SymDiff(c, slot[f].combo)

Reduce == /\ pc = "reduce"
          /\ \E f \in v : Top(f, v) /\ slot[f] # NoVector /\ XorSlot(f)
          /\ UNCHANGED <<sys, high, pc, slack, slot, cols, bit, masks>>

\* The vector is independent of the basis and joins it.
Store == /\ pc = "reduce"
         /\ \E f \in v : /\ Top(f, v)
                         /\ slot[f] = NoVector
                         /\ slot' = [slot EXCEPT ![f] = [vec |-> v, combo |-> c]]
         /\ pc' = "insert"
         /\ UNCHANGED <<sys, high, slack, cols, bit, v, c, masks>>

Dependent == /\ pc = "reduce"
             /\ v = {}
             /\ pc' = "insert"
             /\ UNCHANGED <<sys, high, slack, slot, cols, bit, v, c, masks>>

BasisDone == /\ pc = "insert"
             /\ slack = {}
             /\ pc' = "solve"
             /\ UNCHANGED <<sys, high, slack, slot, cols, bit, v, c, masks>>

\* The column bit the loop comes to.
NextColumn_Descending(b) == b \in cols /\ \A d \in cols : ~Before(b, d, high)
NextColumn(b) == b \in cols /\ \A d \in cols : ~Before(d, b, high)

SolveBit == /\ pc = "solve"
            /\ \E b \in cols : /\ NextColumn(b)
                               /\ bit' = b
                               /\ cols' = cols \ {b}
                               /\ v' = Signature(b)
                               /\ c' = {}
            /\ pc' = "cancel"
            /\ UNCHANGED <<sys, high, slack, slot, masks>>

Cancel == /\ pc = "cancel"
          /\ \E f \in v : Top(f, v) /\ slot[f] # NoVector /\ XorSlot(f)
          /\ UNCHANGED <<sys, high, pc, slack, slot, cols, bit, masks>>

\* No vector of the basis has this top bit: the list of masks stops here.
Unreachable_Early == /\ pc = "cancel"
                     /\ v # {}
                     /\ pc' = "done"
                     /\ UNCHANGED <<sys, high, slack, slot, cols, bit, v, c, masks>>
Unreachable == /\ pc = "cancel"
               /\ \E f \in v : Top(f, v) /\ slot[f] = NoVector
               /\ pc' = "done"
               /\ UNCHANGED <<sys, high, slack, slot, cols, bit, v, c, masks>>

Solved == /\ pc = "cancel"
          /\ v = {}
          /\ masks' = Append(masks, {bit} \cup c)
          /\ pc' = "solve"
          /\ UNCHANGED <<sys, high, slack, slot, cols, bit, v, c>>

AllSolved == /\ pc = "solve"
             /\ cols = {}
             /\ pc' = "done"
             /\ UNCHANGED <<sys, high, slack, slot, cols, bit, v, c, masks>>

Next == \/ InsertBit \/ Reduce \/ Store \/ Dependent \/ BasisDone
        \/ SolveBit \/ Cancel \/ Unreachable \/ Solved \/ AllSolved

Spec == Init /\ [][Next]_vars

------------------------------------------------------------------------------
(* What the masks promise.                                                 *)

TypeOK == /\ IsMapping(sys)
          /\ high \in BOOLEAN
          /\ pc \in {"insert", "reduce", "solve", "cancel", "done"}
          /\ slack \subseteq Bit \ (sys.row \cup sys.column)
          /\ slot \in [Fn -> [vec : SUBSET Fn, combo : SUBSET (Bit \ (sys.row \cup sys.column))]]
          /\ cols \subseteq ColumnBits(sys, high)
          /\ bit \in Bit \cup {0}
          /\ v \subseteq Fn
          /\ c \subseteq Bit \ (sys.row \cup sys.column)
          /\ masks \in Seq(SUBSET Bit)

\* gen_access_masks.py, self_check(): on every address tried, the k-th mask keeps
\* channel, rank, bank group, bank and row and toggles column bit b.
Toggles(k, b) == \A a \in Addresses :
    LET d0 == Decode(a)
        d1 == Decode(SymDiff(a, masks[k]))
    IN  d1.banks = d0.banks /\ d1.row = d0.row /\ d1.col = SymDiff(d0.col, {b})

\* The self-check passes on any set of addresses: every mask toggles one column bit,
\* the same one on every address, and no two masks the same bit.
SelfCheck == /\ \A k \in DOMAIN masks : \E b \in sys.column : Toggles(k, b)
             /\ \A k, l \in DOMAIN masks : k # l =>
                    \A b \in sys.column : ~(Toggles(k, b) /\ Toggles(l, b))

\* step_mask(d): the XOR of the masks of the set bits of d steps the column by exactly
\* those bits and stays in the same bank and row.  Bit k of d is the k-th column bit, so
\* the masks come in column order and leave none out before the last.
StepMask(D) == {b \in Bit : Odd({k \in D : b \in masks[k]})}
Rank(b) == Cardinality({d \in sys.column : Before(d, b, high)})
ColumnsOf(D) == {b \in ColumnBits(sys, high) : Rank(b) + 1 \in D}
StepsStayInRow == pc = "done" => \A D \in SUBSET DOMAIN masks : \A a \in Addresses :
    Decode(SymDiff(a, StepMask(D))) = [Decode(a) EXCEPT !.col = SymDiff(@, ColumnsOf(D))]

\* The bits a step may use at all: neither row nor column.
Cancelling(b) == {C \in SUBSET (Bit \ (sys.row \cup sys.column)) : Banks(C) = Signature(b)}

\* The first column bit without a mask cannot be stepped at all.
Stuck == /\ v # {} /\ Cancelling(bit) = {}
         /\ bit \in ColumnBits(sys, high) /\ Rank(bit) = Len(masks)

\* The list stops early only at a column bit that no combination of bits outside
\* row and column can step: greedy elimination misses no solution.
StopsOnlyWhenUnreachable ==
    (pc = "done" /\ Len(masks) < Cardinality(ColumnBits(sys, high))) => Stuck

\* "the smallest XOR mask": as a number, no mask that steps the same column bit
\* and keeps bank and row is below the one returned.
Below(A, B) == \E t \in B : Top(t, SymDiff(A, B))
Smallest == pc = "done" => \A k \in DOMAIN masks : \A b \in masks[k] \cap sys.column :
    \A C \in Cancelling(b) : ~Below(C \cup {b}, masks[k])

\* randread_bw.cpp, main(): a step stays meaningful only inside one hugepage, of
\* PageBits address bits; and LINES_PER_ACCESS up to 2 ^ MaxBits must be servable.
WidthsServed == pc = "done" =>
    Len(masks) = MaxBits /\ \A k \in DOMAIN masks : masks[k] \subseteq 0 .. PageBits - 1

\* A mapping that can serve them: it has the column bits, and bits of the page step each.
Servable == /\ Cardinality(ColumnBits(sys, high)) = MaxBits
            /\ \A b \in ColumnBits(sys, high) :
                  \E C \in Cancelling(b) : C \cup {b} \subseteq 0 .. PageBits - 1

\* Among the addresses with bits in L: no difference outside row and column decodes like
\* none.
TellsApart(L) == \A D \in SUBSET (L \ (sys.row \cup sys.column)) : Decode(D) = Decode({}) => D = {}

------------------------------------------------------------------------------
(* The inductive invariant.                                                *)

\* Every vector of the basis is what the bits recorded with it flip, and its
\* highest function is the slot's.
Traced == \A f \in Fn : slot[f] # NoVector =>
              /\ slot[f].vec = Banks(slot[f].combo)
              /\ f \in slot[f].vec

\* What is left of a vector is what the bits combined so far flip, with the
\* column bit being solved among them.
Working == /\ pc = "reduce" => v = Banks(c)
           /\ pc = "cancel" => v = Banks(c \cup {bit}) /\ bit \in sys.column

\* A mask flips no function, touches no row bit and a single column bit.
MasksKeepPlace == \A k \in DOMAIN masks :
    /\ Banks(masks[k]) = {}
    /\ masks[k] \cap sys.row = {}
    /\ \E b \in sys.column : masks[k] \cap sys.column = {b}

\* No mask toggles a column bit another one does, or one not solved yet.
MasksFresh ==
    /\ \A k \in DOMAIN masks : masks[k] \cap cols = {}
    /\ pc = "cancel" => bit \notin cols /\ \A k \in DOMAIN masks : bit \notin masks[k]
    /\ \A k, l \in DOMAIN masks : k # l => masks[k] \cap masks[l] \cap sys.column = {}

Sound == TypeOK /\ Traced /\ Working /\ MasksKeepPlace /\ MasksFresh

\* The basis is in echelon form: no vector reaches above its slot.
Slotted == {f \in Fn : slot[f] # NoVector}
Echelon == \A f \in Slotted : Top(f, slot[f].vec)

\* The XOR of the vectors in the slots of T, and what the basis spans: whatever the bits
\* inserted so far flip.  The vector being reduced differs from the signature it started
\* as by vectors of the basis.
XorOf(T) == {g \in Fn : Odd({f \in T : g \in slot[f].vec})}
Spans(S) == \A M \in SUBSET S : \E T \in SUBSET Slotted : Banks(M) = XorOf(T)
ReducedFrom(b) == \E T \in SUBSET Slotted : Signature(b) = SymDiff(v, XorOf(T))

\* Bits that no bits below them can stand in for: only these are combined.
Outside == Bit \ (sys.row \cup sys.column)
Needed(t) == \A M \in SUBSET {d \in Outside : d < t} : Banks(M) # Signature(t)

Inserted == SlackBits(sys) \ slack
Spanning ==
    /\ slack \subseteq SlackBits(sys)
    /\ \A d \in Inserted, b \in slack : d < b
    /\ pc \in {"solve", "cancel", "done"} => slack = {}
    /\ pc # "reduce" => Spans(Inserted)
    /\ pc = "reduce" => \E b \in Inserted : /\ \A d \in Inserted : d <= b
                                           /\ Spans(Inserted \ {b}) /\ ReducedFrom(b)
                                           /\ \A t \in c \ {b} : Needed(t)
    /\ pc = "cancel" => ReducedFrom(bit)

AllNeeded == /\ \A f \in Slotted : \A t \in slot[f].combo : Needed(t)
             /\ pc = "cancel" => \A t \in c : Needed(t)
             /\ \A k \in DOMAIN masks : \A t \in masks[k] \ sys.column : Needed(t)

\* The column bits are taken in order, and the k-th mask is of the k-th of them.
Taken == ColumnBits(sys, high) \ cols
InOrder ==
    /\ \A d \in Taken, b \in cols : Before(d, b, high)
    /\ pc \in {"insert", "reduce", "solve"} => Len(masks) = Cardinality(Taken)
    /\ pc = "cancel" => /\ bit \in Taken /\ Rank(bit) = Len(masks)
                        /\ Len(masks) + 1 = Cardinality(Taken)
    /\ \A k \in DOMAIN masks : \A b \in masks[k] \cap sys.column :
            b \in ColumnBits(sys, high) /\ Rank(b) + 1 = k

\* The list is complete, or the vector left over is out of reach.
Ended == pc = "done" => Len(masks) = Cardinality(ColumnBits(sys, high)) \/ Stuck

IInv == Sound /\ Echelon /\ Spanning /\ AllNeeded /\ InOrder /\ Ended
=============================================================================
