------------------------------ MODULE RandRead ------------------------------
(***************************************************************************)
(* randread_bw.cpp: each thread walks its own stretch of one LFSR sequence *)
(* and loads, for every state, the cachelines of one access: consecutive   *)
(* lines (mode 0), or lines the column-step masks of a DRAM mapping keep   *)
(* in one bank and row (mode 1, near columns; mode 2 of Temp/, far ones).  *)
(*                                                                         *)
(* A word is the set of its bits.  Offsets and addresses are numbers: the  *)
(* code multiplies and adds them, and the DRAM hole is subtracted from     *)
(* them.  The threads, their barrier and the join are StreamBench's.       *)
(***************************************************************************)
EXTENDS Integers, Sequences, FiniteSets, FiniteSetsExt

CONSTANTS
    W,          \* bits of a word, 64 in the source
    POLY,       \* the feedback bits of the LFSR
    PERIOD,     \* the length of its cycle
    LineBits,   \* address bits inside a cacheline, 6
    PageBits,   \* address bits inside a hugepage, 30
    Widths,     \* the accepted lines_per_access: 1, 2, 4, 8, 16
    NCores,     \* threads
    Requests,   \* argument lists: [pages, lines, mode, map, iters]
    Maps,       \* access_masks.h: name -> [low, high, fun, row, column]
    DefaultMap, \* ACCESS_DEFAULT_MAP
    Regions,    \* the physical pages hp_alloc may put behind the slots
    HoleEnd,    \* DECODE_HOLE_END, in address units
    HoleSize    \* DECODE_HOLE_SIZE

Thread == 0 .. NCores - 1
Bit == 0 .. W - 1
Word == SUBSET Bit

\* 1 << k, the bits of a number, and the number a word is.
Pow2[k \in Nat] == IF k = 0 THEN 1 ELSE 2 * Pow2[k - 1]
BitsOf(x) == {b \in Bit : (x \div Pow2[b]) % 2 = 1}
Num(S) == LET top[k \in Nat] ==  \* the highest k bits
                  IF k = 0 THEN 0 ELSE 2 * top[k - 1] + (IF W - k \in S THEN 1 ELSE 0)
          IN  top[W]

Odd(S) == Cardinality(S) % 2 = 1

\* The lines of a hugepage.
PageLines == Pow2[PageBits - LineBits]

ASSUME WordAssumption == /\ W \in Nat /\ W >= 2 /\ POLY \subseteq Bit
                         /\ LineBits \in Nat /\ PageBits \in Nat /\ LineBits < PageBits
                         /\ NCores \in Nat \ {0}

\* The sizes are powers of two that fit in a page; a region fits in a word.
ASSUME RequestAssumption ==
    /\ Widths \subseteq {Pow2[k] : k \in 0 .. PageBits - LineBits}
    /\ Requests \subseteq [pages : Int, lines : Int, mode : 0 .. 2, map : STRING, iters : Nat]
    /\ \A r \in Requests : r.pages * Pow2[PageBits] <= Pow2[W]
    /\ \A p \in Regions : \A s \in DOMAIN p : p[s] \in Nat

\* config_template.py:76-77, the hole is a whole number of pages (2GB below 4GB).
ASSUME HoleAssumption == /\ HoleEnd \in Nat /\ HoleSize \in 0 .. HoleEnd
                         /\ HoleEnd % Pow2[PageBits] = 0 /\ HoleSize % Pow2[PageBits] = 0

\* What gen_access_masks.py checks of the masks it writes: each flips no function and no
\* row bit, and a column bit no other one of its list flips.  They stay in a page, of
\* which main only warns when it is not so; the registered mappings' do.
StepsColumns(M, masks) ==
    /\ masks \in Seq(SUBSET (LineBits .. PageBits - 1))
    /\ \A k \in DOMAIN masks :
          /\ \A f \in DOMAIN M.fun : ~Odd(M.fun[f] \cap masks[k])
          /\ masks[k] \cap M.row = {}
          /\ \E b \in Bit : masks[k] \cap M.column = {b}
          /\ \A l \in DOMAIN masks : k # l => masks[k] \cap masks[l] \cap M.column = {}
ASSUME MapAssumption == /\ DefaultMap \in DOMAIN Maps
                        /\ \A m \in DOMAIN Maps : /\ StepsColumns(Maps[m], Maps[m].low)
                                                  /\ StepsColumns(Maps[m], Maps[m].high)

VARIABLES
    req,      \* the arguments
    pc,       \* "check", "alloc", "run", "done", "rejected" or "failed"
    mask,     \* the bits of a state that select a block
    step,     \* col_masks: column step -> mask
    L,        \* states each thread walks
    phys,     \* the physical page behind each slot of the region
    at,       \* "seed", "walk" or "exited", for each thread
    ran,      \* its LFSR state
    n,        \* how many states it has walked
    seen,     \* which ones (a history variable)
    touched,  \* the offsets its last access has read
    reads     \* cachelines read by all threads

setup == <<req, mask, step, L>>
walk == <<ran, n, seen>>
vars == <<req, pc, mask, step, L, phys, at, walk, touched, reads>>

------------------------------------------------------------------------------
(* The LFSR.                                                               *)

\* One Galois step: shift left, and fold the bit that falls out back in.
Step(r) == SymDiff({b + 1 : b \in r \ {W - 1}}, IF W - 1 \in r THEN POLY ELSE {})

\* m2: what squaring does to each bit.
M2[b \in Nat] == IF b = 0 THEN {0} ELSE Step(Step(M2[b - 1]))
Square(r) == {c \in Bit : Odd({b \in r : c \in M2[b]})}

\* hpcc_starts: the j-th state, by squaring down the bits of j.
hpcc_starts_FromOne(j) ==
    LET m == IF j > PERIOD THEN ((j - 1) % PERIOD) + 1 ELSE j
        top == Max(BitsOf(m))
        state[i \in Nat] ==
            IF i = 0 THEN {0}
            ELSE LET sq == Square(state[i - 1]) IN IF top - i \in BitsOf(m) THEN Step(sq) ELSE sq
    IN  IF j = 0 THEN {0} ELSE state[top]
hpcc_starts(j) ==
    LET m == IF j > PERIOD THEN ((j - 1) % PERIOD) + 1 ELSE j
        top == Max(BitsOf(m))
        state[i \in Nat] ==
            IF i = 0 THEN {1}
            ELSE LET sq == Square(state[i - 1]) IN IF top - i \in BitsOf(m) THEN Step(sq) ELSE sq
    IN  IF j = 0 THEN {0} ELSE state[top]

\* The sequence: the j-th state is the first one stepped j times.  PERIOD is the length
\* of its cycle.
Orbit[j \in Nat] == IF j = 0 THEN {0} ELSE Step(Orbit[j - 1])
ASSUME PeriodAssumption == /\ PERIOD \in Nat \ {0} /\ PERIOD < Pow2[W]
                           /\ Orbit[PERIOD] = {0}
                           /\ \A j \in 1 .. PERIOD - 1 : Orbit[j] # {0}

------------------------------------------------------------------------------
(* What main makes of its arguments.                                       *)

Slots == 0 .. req.pages - 1
NLines == req.pages * PageLines
NBlocks == NLines \div req.lines

\* ACCESS_MAP, or the default when it is unset.
MapName == IF req.map = "" THEN DefaultMap ELSE req.map

\* The masks of the mode: the lowest columns, or (Temp/) the highest.
ColumnSteps == IF req.mode = 1 THEN Maps[MapName].low ELSE Maps[MapName].high

PowerOfTwo_Any(x) == x > 0
PowerOfTwo(x) == BitsOf(x) \cap BitsOf(x - 1) = {}

Accepted == /\ req.pages >= 1 /\ PowerOfTwo(req.pages)
            /\ req.lines \in Widths
            /\ MapName \in DOMAIN Maps
            /\ req.mode # 0 => req.lines <= Pow2[Len(ColumnSteps)]

\* Which bits of a state pick the block: mode 0 counts blocks, the others lines.
BlockMask == IF req.mode = 0 THEN BitsOf(NBlocks - 1) ELSE BitsOf(NLines - 1)

\* The XOR of the masks of the bits of d steps the column by d.
StepMask_ColumnOnly(d) ==
    {c \in Maps[MapName].column : Odd({b \in BitsOf(d) : c \in ColumnSteps[b + 1]})}
StepMask(d) == {c \in Bit : Odd({b \in BitsOf(d) : c \in ColumnSteps[b + 1]})}
Steps == IF req.mode = 0 THEN <<>> ELSE [d \in 0 .. req.lines - 1 |-> StepMask(d)]

\* iters_per_thread, rounded down to whole accesses.
Rounded == (req.iters \div req.lines) * req.lines

------------------------------------------------------------------------------
Init == /\ req \in Requests
        /\ pc = "check"
        /\ mask = {}
        /\ step = <<>>
        /\ L = 0
        /\ phys = <<>>
        /\ at = [t \in Thread |-> "seed"]
        /\ ran = [t \in Thread |-> {}]
        /\ n = [t \in Thread |-> 0]
        /\ seen = [t \in Thread |-> {}]
        /\ touched = [t \in Thread |-> {}]
        /\ reads = 0

Reject == /\ pc = "check"
          /\ ~Accepted
          /\ pc' = "rejected"
          /\ UNCHANGED <<setup, phys, at, walk, touched, reads>>

Rounds == Rounded \div req.lines

Accept == /\ pc = "check"
          /\ Accepted
          /\ mask' = BlockMask
          /\ step' = Steps
          /\ L' = Rounds
          /\ pc' = "alloc"
          /\ UNCHANGED <<req, phys, at, walk, touched, reads>>

\* hp_alloc puts distinct pages behind the slots, the threads are launched.
Alloc == /\ pc = "alloc"
         /\ phys' \in {p \in Regions : DOMAIN p = Slots}
         /\ pc' = "run"
         /\ UNCHANGED <<setup, at, walk, touched, reads>>

AllocFails == /\ pc = "alloc"
              /\ pc' = "failed"
              /\ UNCHANGED <<setup, phys, at, walk, touched, reads>>

\* How far thread t skips ahead.
StreamStart_Tid(t) == t
StreamStart(t) == t * L

\* A thread skips ahead to the state its stretch starts from.
Seed(t) == /\ pc = "run"
           /\ at[t] = "seed"
           /\ ran' = [ran EXCEPT ![t] = hpcc_starts(StreamStart(t))]
           /\ at' = [at EXCEPT ![t] = "walk"]
           /\ UNCHANGED <<setup, pc, phys, n, seen, touched, reads>>

\* The offset the block of a state starts at, and those of the lines read there.
Offset(r) == Num(r \cap mask) * (IF req.mode = 0 THEN req.lines ELSE 1) * Pow2[LineBits]
Line(off, k) == IF req.mode = 0
                THEN off + k * Pow2[LineBits]
                ELSE Num(SymDiff(BitsOf(off), step[k]))

Access(t) == /\ pc = "run"
             /\ at[t] = "walk"
             /\ n[t] < L
             /\ LET r == Step(ran[t])
                IN  /\ ran' = [ran EXCEPT ![t] = r]
                    /\ n' = [n EXCEPT ![t] = @ + 1]
                    /\ seen' = [seen EXCEPT ![t] = @ \cup {r}]
                    /\ touched' = [touched EXCEPT
                                     ![t] = {Line(Offset(r), k) : k \in 0 .. req.lines - 1}]
             /\ reads' = reads + req.lines
             /\ UNCHANGED <<setup, pc, phys, at>>

Exit(t) == /\ pc = "run"
           /\ at[t] = "walk"
           /\ n[t] = L
           /\ at' = [at EXCEPT ![t] = "exited"]
           /\ UNCHANGED <<setup, pc, phys, walk, touched, reads>>

Join == /\ pc = "run"
        /\ \A t \in Thread : at[t] = "exited"
        /\ pc' = "done"
        /\ UNCHANGED <<setup, phys, at, walk, touched, reads>>

Next == \/ Reject \/ Accept \/ Alloc \/ AllocFails \/ Join
        \/ \E t \in Thread : Seed(t) \/ Access(t) \/ Exit(t)

Spec == Init /\ [][Next]_vars

------------------------------------------------------------------------------
(* The memory the accesses reach.                                          *)

\* phys_to_dram: the controller does not see the hole below HoleEnd.
PhysToDram(a) == IF a >= HoleEnd THEN a - HoleSize ELSE a

\* The address the memory controller decodes for an offset of the region.
DramOf(off) == PhysToDram(phys[off \div Pow2[PageBits]] * Pow2[PageBits] + (off % Pow2[PageBits]))

Banks(a) == {f \in DOMAIN Maps[MapName].fun : Odd(Maps[MapName].fun[f] \cap BitsOf(a))}
RowOf(a) == BitsOf(a) \cap Maps[MapName].row
ColumnOf(a) == BitsOf(a) \cap Maps[MapName].column

------------------------------------------------------------------------------
TypeOK == /\ req \in Requests
          /\ pc \in {"check", "alloc", "run", "done", "rejected", "failed"}
          /\ mask \subseteq Bit
          /\ \A d \in DOMAIN step : step[d] \subseteq Bit
          /\ L \in Nat
          /\ phys \in Regions \cup {<<>>}
          /\ at \in [Thread -> {"seed", "walk", "exited"}]
          /\ ran \in [Thread -> SUBSET Bit]
          /\ n \in [Thread -> 0 .. L]
          /\ seen \in [Thread -> SUBSET SUBSET Bit]
          /\ touched \in [Thread -> SUBSET Nat]
          /\ reads \in Nat

\* randread_bw.cpp:3-4, "per-thread skip-ahead keeps thread sequences disjoint": no
\* LFSR state is walked by two threads, nor twice by one, as long as all of them
\* together walk less than a cycle; and the skip-ahead is exact: a thread ends at the
\* state the next one starts from, so that together they walk one unbroken stretch.
StreamsDisjoint ==
    /\ NCores * L <= PERIOD =>
        \A t, u \in Thread : /\ Cardinality(seen[t]) = n[t]
                             /\ t # u => seen[t] \cap seen[u] = {}
    /\ \A t \in Thread : (t + 1 \in Thread /\ at[t] = "exited" /\ at[t + 1] = "walk"
                           /\ n[t + 1] = 0)
        => ran[t] = ran[t + 1]

\* One access reads lines_per_access distinct lines of one hugepage: every load is of a
\* whole cacheline and none leaves the region.  A block of consecutive lines starts at a
\* multiple of its size (config_template.py:35), and every block of the region is some
\* state's: none is left out by the mask that picks it.
WholeAccess ==
    /\ \A t \in Thread : n[t] > 0 =>
        /\ \A o \in touched[t] : o \in 0 .. NLines * Pow2[LineBits] - 1 /\ o % Pow2[LineBits] = 0
        /\ Cardinality(touched[t]) = req.lines
        /\ Cardinality({o \div Pow2[PageBits] : o \in touched[t]}) = 1
    /\ pc = "alloc" => {Num(r \cap mask) : r \in SUBSET Bit}
                          = 0 .. (IF req.mode = 0 THEN NBlocks ELSE NLines) - 1

\* randread_bw.cpp:18-20, mode 1: "all lines land in the same channel/rank/bank-group/
\* bank/row".  Whatever physical pages hp_alloc found, the lines of an access are in
\* one bank and one row of the DRAM, at distinct columns.
SameBankRow == req.mode # 0 => \A t \in Thread :
    /\ \A o, p \in touched[t] : /\ Banks(DramOf(o)) = Banks(DramOf(p))
                                /\ RowOf(DramOf(o)) = RowOf(DramOf(p))
    /\ \A o, p \in touched[t] : ColumnOf(DramOf(o)) = ColumnOf(DramOf(p)) => o = p

------------------------------------------------------------------------------
(* The inductive invariant.                                                *)

\* What main derives from the arguments stands from Accept on, the region from Alloc on.
Setting ==
    /\ pc \in {"alloc", "run", "done", "failed"} =>
          Accepted /\ mask = BlockMask /\ step = Steps /\ L = Rounds
    /\ pc \in {"check", "rejected"} => L = 0
    /\ pc \in {"run", "done"} => phys \in Regions /\ DOMAIN phys = Slots
    /\ pc \notin {"run", "done"} => \A t \in Thread : at[t] = "seed"
    /\ pc = "done" => \A t \in Thread : at[t] = "exited"

\* Thread t has walked the states after the (t * L)-th, and its last access has read the
\* lines of the last one.
Walked(t) ==
    /\ at[t] = "seed" => n[t] = 0
    /\ at[t] # "seed" => ran[t] = Orbit[t * L + n[t]]
    /\ at[t] = "exited" => n[t] = L
    /\ seen[t] = {Orbit[t * L + i] : i \in 1 .. n[t]}
    /\ touched[t] = IF n[t] = 0 THEN {}
                    ELSE {Line(Offset(ran[t]), k) : k \in 0 .. req.lines - 1}

\* Every access has counted its lines; in the end they are the traffic main reports,
\* NCores times the rounded iterations.
Accounted ==
    /\ reads = req.lines * Cardinality({p \in Thread \X (1 .. L) : p[2] <= n[p[1]]})
    /\ pc = "done" => reads = NCores * Rounded

IInv == TypeOK /\ Setting /\ (\A t \in Thread : Walked(t)) /\ Accounted
=============================================================================
