------------------------------- MODULE Benchmark -------------------------------
(***************************************************************************)
(* sweep_bw.run_benchmark and what reads its command line.  The three      *)
(* copies of sweep_bw.py ("top", "chbal" and "temp") pass the name of the  *)
(* DRAM mapping in the environment, each in its own cases, through sudo if *)
(* config.py says so; chbal/ passes two more arguments.  The benchmarks    *)
(* read their arguments by position.                                       *)
(*                                                                         *)
(* c is config.py, the environment of the caller and what was built.       *)
(***************************************************************************)
EXTENDS Integers, Sequences

CONSTANTS
    Widths,       \* the lines per access the benchmarks know: 1, 2, 4, 8, 16
    ColumnSteps,  \* registered mapping -> [low, high]: the column steps it has
    MaxColBits    \* MAX_COL_BITS of gen_access_masks.py: the steps compiled in

ASSUME WidthAssumption == Widths \subseteq 1 .. 2 ^ MaxColBits
ASSUME StepAssumption == /\ MaxColBits \in Nat
                         /\ \A m \in DOMAIN ColumnSteps :
                                ColumnSteps[m] \in [low : Nat, high : Nat]

None == -1
NoMap == ""
PowerOfTwo(x) == \E e \in 0 .. x : x = 2 ^ e

\* What the caller leaves out is taken from config.py; mode 0 is not left out.
OrDefault_Falsy(x, default) == IF x \in {None, 0} THEN default ELSE x
OrDefault(x, default) == IF x = None THEN default ELSE x

\* pass_map: when the mapping's name is put into the environment.
TopPasses(mode, access) == mode = "rand" /\ access = 1
TempPasses(mode, access) == mode = "rand" /\ access \in {1, 2}
PassMap(c, mode, access) == \/ c.copy = "top" /\ TopPasses(mode, access)
                            \/ c.copy = "temp" /\ TempPasses(mode, access)
                            \/ c.copy = "chbal"

\* ACCESS_MAP as the benchmark sees it: sudo drops a variable, the caller's own one
\* too, unless it is told to preserve it.
Environment_SudoForgets(c, pass) == IF c.sudo THEN NoMap ELSE IF pass THEN c.map ELSE c.shell
Environment(c, pass) == IF pass THEN c.map ELSE IF c.sudo THEN NoMap ELSE c.shell

\* The trailing arguments of chbal/: balance the hugepages, print their addresses.
ChbalFlags(c) == IF c.copy = "chbal" THEN <<c.balance, c.print>> ELSE <<>>

\* The numbers of iterations and of the memory node are left out.
Command(c, job, cpus) ==
    LET access == OrDefault(job.access, c.access)
        lines == OrDefault(job.lines, c.lines)
    IN  [binary |-> job.pattern, cpus |-> cpus,
         args |-> <<Len(cpus), c.pages>>
                    \o (IF job.pattern = "rand" THEN <<lines, access>> ELSE <<>>) \o ChbalFlags(c),
         env |-> Environment(c, PassMap(c, job.pattern, access))]

------------------------------------------------------------------------------
(* The benchmarks.                                                         *)

Arg(cmd, k, default) == IF k <= Len(cmd.args) THEN cmd.args[k] ELSE default

\* What main of randread_bw.cpp or stream_bw.cpp makes of argv and ACCESS_MAP; only
\* those of chbal/ know the flags.
Reading(c, cmd) ==
    LET rand == cmd.binary = "rand"
    IN  [threads |-> Arg(cmd, 1, 16), pages |-> Arg(cmd, 2, 4),
         lines |-> IF rand THEN Arg(cmd, 3, 1) ELSE None,
         access |-> IF rand THEN Arg(cmd, 4, 0) ELSE None,
         balance |-> IF c.copy = "chbal" THEN Arg(cmd, IF rand THEN 5 ELSE 3, 0) ELSE None,
         map |-> IF cmd.env = NoMap THEN c.baked ELSE cmd.env]

AccessModes(copy) == IF copy = "temp" THEN 0 .. 2 ELSE 0 .. 1

\* Modes 1 and 2 look the mapping up for its column steps, chbal/ for its channels too.
LooksUpMap(c, r) == c.copy = "chbal" \/ r.access \in {1, 2}

\* num_col_bits of the compiled table.
CompiledBits(r) ==
    LET steps == ColumnSteps[r.map]
        all == IF r.access = 1 THEN steps.low ELSE steps.high
    IN  IF all < MaxColBits THEN all ELSE MaxColBits

\* What they do not refuse.
Accepts(c, r) == /\ r.threads >= 1 /\ r.pages >= 1
                 /\ LooksUpMap(c, r) => r.map \in DOMAIN ColumnSteps
                 /\ r.access # None => /\ PowerOfTwo(r.pages)
                                       /\ r.lines \in Widths
                                       /\ r.access \in AccessModes(c.copy)
                 /\ r.access \in {1, 2} => r.lines <= 2 ^ CompiledBits(r)
=============================================================================
