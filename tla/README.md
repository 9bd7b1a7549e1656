# bwtest in TLA+

bwtest measures the memory bandwidth and latency of a machine through 1GB hugepages: random
reads that stay in one DRAM bank and row (`randread_bw`), sequential scans (`stream_bw`), and
pairs of addresses whose DRAM relation is known (`latency_bw`), driven over numbers of cores by
Python scripts. All of it rests on address arithmetic that a wrong result does not betray: a
mask with one bit off still gives a bandwidth, only not the one the label says. This directory
holds TLA+ models of that arithmetic and of the programs around it, TLC runs that check them on
small instances, and TLAPS proofs of the central invariants for every instance.

The repository has three copies of its files: the top directory, `chbal/` (the newest, with
hugepages balanced over channels) and `Temp/` (with a third access mode). Each model says which
copy it follows; where the copies differ in behaviour the difference is in the model or named
below.

## The system

| Component | State | Operations | Interacts with |
|---|---|---|---|
| mapping registry, `address_mapping.py` `SYSTEMS` | constant tables | lookup, `decode` | everything below |
| column-step solver, `col_step_masks`, `_XorBasis` | GF(2) basis, masks | insert, solve | mask generators |
| mask generators, `gen_access_masks.py`, `gen_decode_masks.py` | headers on disk | self-check, write | make, the benchmarks |
| build, `Makefile`, `bw_width.h` | files and their times | `make`, `make config`, `make clean` | config, registry, generators |
| hugepage allocator, `chbal/hugepage_alloc.h` | memfd, VA range, page lists | `hp_alloc`, `hp_free` | kernel pool, mempolicy, other processes |
| channel classes, `hp_class_info` | masks | `classify` | allocator |
| `randread_bw.cpp` | LFSR per thread, masks | check arguments, seed, access, join | allocator, headers |
| `stream_bw.cpp` | barrier, part and sink per thread, times | launch, arrive, scan, read, join, report | allocator |
| `latency_bw.cpp` | budget, pairs seen and found | draw, match, measure, summarise | headers, pagemap |
| sweeps, `sweep_matrix.py`, `sweep_bw.py` | job list, rows, two CSV files | plan, run, write | benchmarks, config, registry |
| plots, `plot_sweep.py`, `Run.sh` | figures | load, draw | the CSV file of the sweep |
| `hugepage_addr.cpp` | a mapping of all free pages | map, touch, translate, print | kernel pool, other processes |
| configuration, `config_template.py` | constants | | all of the above |
| shell wrappers | none | | |

What is hard here, and what each component must get right:

* **Allocator.** Every system call may fail, other processes take pages of the same pool between
  any two calls, a fault without a page is fatal. A region must hold distinct pages, a region
  reported as balanced must interleave the classes, an unbalanced one must be due to the pool,
  and every path that fails must give back all it took before the next one starts.
* **Address report.** The number of free pages is read before they are mapped; meanwhile others map
  and return pages. No page another process has been promised may be taken, and a row that is left
  out must not shift the ones after it.
* **Solver.** Masks must keep channel, rank, bank group, bank and row for *every* address, be the
  smallest that do, and the list may end only where no mask exists.
* **Threads.** Nobody may read before the barrier, parts must neither overlap nor leave a gap, and
  the interval and the checksum must not depend on the schedule.
* **Random walk.** The skip-ahead must give every thread its own stretch of one sequence, and a
  column step computed from DRAM bits must still be right when applied to an offset of a region
  whose pages lie anywhere, above or below the DRAM hole.
* **Pair search.** A budget shared by two nested loops; pairs must be distinct and related as
  their category says although only the XOR of their addresses is looked at.
* **Sweep.** Any run may fail or print garbage; rows must be what was measured, the summary the
  best of them. What a job means passes through a positional command line and, by way of sudo, the
  environment, and must arrive; no job may ask for a width the binary refuses.
* **Plots.** They choose the best run a second time, by another measure than the summary.
* **Build.** Sources are edited at any time, recipes fail before or while they write; the programs
  must follow the sources.

`PROJECT.json` lists the hazards at their lines with the properties that watch them.

## Modules

| Module | Code | Content |
|---|---|---|
| `HugepageAlloc` | `chbal/hugepage_alloc.h` | `hp_alloc` and `hp_free`, one action per system call or loop round |
| `PageGrant` | | what `hp_alloc` promises, abstractly |
| `ChannelClass` | `chbal/hugepage_alloc.h` | `phys_to_dram`, `hp_class_info`, `classify` |
| `ChannelBalance` | both | `HugepageAlloc` with the classes of a mapping: how a region uses the channels |
| `HugepageAllocProofs` | | inductive invariant and theorems; the refinement; channels |
| `HugepageAddr`, `HugepageAddrProofs` | `hugepage_addr.cpp` | the report beside other processes; invariant and theorems |
| `ColumnSteps`, `ColumnStepsProofs` | `address_mapping.py` | the solver, one action per XOR; invariant and theorems |
| `Systems` | the three registries | every registered mapping as bit sets |
| `StreamBench`, `StreamBenchProofs` | `stream_bw.cpp` | threads, barrier, reads, join; invariant and theorems |
| `RandRead`, `RandReadProofs` | `chbal/randread_bw.cpp`, mode 2 from `Temp/` | argument checks, LFSR, accesses; invariant and theorems |
| `Latency`, `LatencyProofs` | `chbal/latency_bw.cpp` | argument checks, self-check, pair search; invariant and theorems |
| `Benchmark` | `sweep_bw.run_benchmark`, `main` of the benchmarks | the command line and environment, and what is read of them |
| `Sweep`, `SweepProofs` | both sweep drivers, all three copies | plan, loops, rows, files; invariant and theorems |
| `Plot` | `Run.sh`, `plot_sweep.py` | `Sweep` followed by the figures |
| `Build`, `BuildProofs` | `chbal/Makefile`, both generators, `bw_width.h` | make over edits and failures; invariant and theorems |
| `MC*` | | the small instances |

`Plot` extends `Sweep`, which extends `Benchmark`: one run goes from `config.py` to the figures.
`ChannelBalance` composes the allocator with `ChannelClass`: its `PageClass` and `K` are what
`hp_class_info` derives from a mapping. `MCSystems` runs the solver on the registry, and checks what
the proofs assume of each registered mapping. `HugepageAlloc` instantiates `PageGrant` under a
refinement mapping.

Conventions. An address, mask or word is the set of its one bits where the code XORs, shifts by
constants and takes parities, and a number where it adds and subtracts (the DRAM hole, offsets).
`pc` names the place in the code; an action is one system call, one iteration, or one stretch of
code without an observable step inside. Names are the source's where there is one.
Kernel, make, compiler, sudo and scheduler are external: the models contain what the code relies
on, and every choice they have is a nondeterministic one. Operators named `X_Something` that stand
before `X` are variants of `X` with a plausible mistake; each property is violated when one of
them takes the place of `X`.

Correspondence of state, module by module:

* `HugepageAlloc`. `free`, `reserved`: the kernel's pool and this process's reservation.
  `file`: the memfd, `anon`: the plain mapping, `base`: the VA range. `cap`, `probed`, `byClass`,
  `chosen`, `chosenCls`, `next`, `i`, `phys`, `cls`, `balanced` are the variables of
  `hp_alloc_balanced` and the fields of `HugeRegion`. `env` holds what is fixed before the call.
  A page leaves `free` only by a fault, in `ProbeFault` or `PlainFault`. The parameter `Faults`
  says which calls may fail for no reason of the pool. `OtherTakes` and `OtherReturns` are the
  rest of the machine.
* `HugepageAddr`. `free`, `others`, `reserved`: the pages nobody has touched, and how many of them
  are promised to others and to this process; mmap reserves, the first touch takes any free page.
  `slots` is the mapping as far as it is touched, `rows` what is printed; `n` and `i` are main's.
* `ColumnSteps`. `slot` is `_XorBasis`, `v` and `c` the vector and the combination being reduced,
  `masks` the result. `high` is a parameter of `Temp/`'s copy.
* `StreamBench`. Time counts reads. A sink is the set of lines read an odd number of times: the
  XOR of their contents whatever these are. `at[t]` is a thread's place; `arrived` the barrier's.
* `RandRead`. `req` is the command line; `phys` the pages behind the region; `ran` the LFSR states,
  `seen` and `touched` histories of them and of the last access. The barrier and the timing are
  those of `StreamBench`.
* `Latency`. Addresses count cachelines. A draw gives any line. `draws` and `measured` are
  history variables.
* `Sweep`. `config` joins `config.py`, the command line, the caller's environment and what was
  built; `config.copy` says which of the three copies runs, `config.prog` which driver. A benchmark
  may fail, print what does not parse, or report any value of `Bandwidths`. `log` and `measured`
  are history variables. `Command` is `run_benchmark`'s list and environment, `Reading` what the
  benchmark's `main` makes of it by position.
* `Plot`. A figure is its curves, a curve a set of points. `figures` start as an earlier run's.
* `Build`. A time is also the revision of the file that has it. `from` records of which revisions a
  built file was made, `compiled` the load width of a program, `partial` the headers cut short.
  `make` stats a source once, so that it may miss a save made after it began; a recipe reads when
  it begins (`took`) and writes when it ends.

## Runs

All are exhaustive. CHECK_DEADLOCK is off where a program ends (all but the `hp_` runs, in which
other processes always have a step).

| Run | Instance | Question |
|---|---|---|
| `hp_alloc` | 5 pages, 2 classes of a mapping with 4 channels, one page outside the bound node, 3 slots, every call may fail | `IInv`, `BalancedInterleaves`, `BestMix`, `ChannelsEven`, `RegionKept`; `GrantsPages`, the refinement of `PageGrant`; `Terminates` |
| `hp_addr` | 4 pages in any state, every call may fail, others map, touch and return pages | `IInv` (with `NobodyStarves`, `RowsTrue`); `Ends` |
| `hp_bind_sigbus` | 4 pages on two nodes, bound to one | violated: `ProbeSurvives` |
| `hp_pread_keeps` | 4 pages, translation may fail | violated: `UnusedPagesReturned` |
| `col_small` | all pairs of functions over 5 bits, 6 layouts, both ends | `IInv`, `StepsStayInRow`, `StopsOnlyWhenUnreachable`, `Smallest` |
| `col_registry` | every registered mapping | `SelfCheck`, `WidthsServed`, `LinesApart`; as an assumption, `RegisteredIndependent` |
| `registry_alder` | the same | violated: `EveryMappingDecodesApart` |
| `stream_run` | 3 threads, 7 lines, 4 reads each | `IInv`, `EndsAfterLastRead`, `ChecksumIsFixed`; `Completes` |
| `rand_run` | 3 threads, 8-bit LFSR with a cycle of 21 states, 6 or 12 iterations, up to 3 pages asked for, modes 0 to 2, a hole of one page | `IInv`, `StreamsDisjoint`, `WholeAccess`, `SameBankRow` |
| `latency_pairs` | 1 or 2 pages of 4 lines, up to 2 pairs, budget 2, 3 tries, a hole that is no multiple of a page | `IInv`, `PairsRelated`, `PairsDistinct`, `GivesUpAtBudget`; `SearchEnds` |
| `sweep_run` | a node of 3 CPUs, 2 widths, both drivers in three copies, good and wrong configurations, sudo and shell environments | `RunInv` (`IInv` and `Drawing`), `EveryCoreTried`, `RowsAreMeasurements`, `ConfigReachesBenchmark`, `SummaryIsBest`, `JobsAccepted`, `FilesTogether`, `FiguresShowSummary` |
| `build_make` | 3 saves, 2 runs of make, 3 edited files, an AVX2 target, WIDTH 512 or none | `IInv`, `FollowsSources`, `Settled` |

Why the bounds are enough for the interesting cases to happen:

* `hp_alloc`: three slots over two classes give unequal quotas (2 and 1); the five pages allow a
  region that is short of one class, one that is not, a pool emptied by others before, during and
  after the probe, and a page that counts for the reservation but not for the policy. Balanced,
  unbalanced, plain, refused and killed endings all occur. Of the mapping's two channel functions one
  mixes a bit inside the page with one above it, as zen4's do, and one is constant over a page, as
  cascade's second is; no registered mapping has both kinds. The pages take all values of the
  functions' bits above the page.
* `hp_addr`: of four pages any number is free at first and any number of these promised to others,
  so that main's number of free pages is too high, exact and too low by the time it maps; a failed
  translation falls on the first, a middle and the last page.
* `col_small`: two functions over five bits include equal, dependent, empty and row-touching
  functions, so that vectors get reduced once, twice and to nothing, and lists stop at each place.
  `col_registry` is not small: these are the masks the programs ship with, and `W = 37` covers
  every bit they use. `Smallest` and `StopsOnlyWhenUnreachable` enumerate bit sets and are left
  to `col_small`; that they hold of every mapping is proved.
* `stream_run`: seven lines over three threads leave a remainder; four reads are two scans of a
  part of two lines and one and a bit of the part of three.
* `rand_run`: the start of the LFSR repeats after `PERIOD` steps and not before, as the source's does;
  with three threads 12 iterations each the stretches exceed the period, so that the skip-ahead is
  reduced modulo it and streams meet, with 6 they do not; pages of 16 lines hold functions that reach over line, row and page bits; regions lie below, above and
  on both sides of the hole, in and out of order.
* `latency_pairs`: a budget of two per pair and three tries let each loop end first, on the last
  draw and with a pair found on it.
* `sweep_run`: up to three jobs on up to three numbers of cores, each run with every outcome; two
  mappings of which either serves one kind of access only, and a name that is not registered.
* `build_make`: a full build has six writes; two runs of make with three saves let a save fall
  before, between and inside two builds, with a mistake repaired in between. A WIDTH the target
  does not have makes the compiler refuse.

Fairness. `hp_alloc` and `hugepage_addr` are one thread each that the kernel schedules, and every
system call returns or kills it: weak fairness of the process, none of other processes. Threads and
main of `stream_bw` are scheduled by the kernel: weak fairness of each; a thread is neither obliged
to fail nor to be created in finite time other than through main's own step. `latency_bw` is
sequential: weak fairness of its next step; no fairness of the random draw, the budget alone ends
the search. The remaining modules claim no liveness.

## What the violated runs show

* `hugepage_alloc.h:265` raises the probe's cap to `npages` however few pages the allowed nodes
  have. Under `numactl -m` the probe's fault then kills the process (SIGBUS) where the README
  says the bound is there to prevent just that.
* `hugepage_alloc.h:281` leaves the loop on a failed translation before `probed` counts the page,
  and the loop that returns unused pages ends at `probed`.
* `chbal/address_mapping.py:87`: the second bank-group mask of `alder_1ch_1dpc_1rank_16gb` is
  0x88440000, which leaves bit 14 to no function, row or column. Lines that differ in that bit alone
  decode to one place. The top directory has 0x88844000 under the same name, which tells all lines
  apart, and the other mask as `alder_1ch_1dpc_1rank_16gb-2`. `LinesApart` excepts these two and
  holds of all others.

Observed on the way, within what the code says of itself:

* The start time of `stream_bw` is stored by thread 0 after the barrier; the reads other threads
  have done by then, up to all of theirs, are outside the measured interval. `EndsAfterLastRead`
  states this bound.
* `chbal/stream_bw.cpp:10-12` says parts of an interleaved region spread the threads over the
  channels. Parts that are a multiple of the number of classes long all begin on class 0.
* `chbal/randread_bw.cpp:145` XORs DRAM masks onto offsets. That is right while the hole is a whole
  number of pages, as in `config_template.py`; with another one the subtraction carries into the
  bits the masks touch, and accesses leave their bank or row.
* With four classes the greedy choice of `hugepage_alloc.h:298` is not always the most even one once
  a class has run short; no registered mapping has four page-constant classes. `BestMix` is checked
  for two classes and proved for one and two; a choice that stays balanced is proved to be the best
  for any number.
* With a hole that is no whole number of pages `hp_alloc` skips balancing
  (`chbal/hugepage_alloc.h:473-479`), but the plain path still classifies its pages into all classes,
  from addresses that begin no page in DRAM space. `balanced` then says nothing about channels, and
  `ChannelsEven` excepts it.
* The top directory's 16GB arrow mapping uses bit 35, which 16GB do not reach.
* A benchmark that exits with 0 and prints no number raises `ValueError` in `parse_bandwidth`: all
  that was measured is lost, no file is touched. So does the empty CPU list of a memory-only node.
* The check of `ADDR_MAP` in `sweep_matrix.validate` is not reached when a mapped mode is scheduled:
  `build_jobs` has raised `KeyError` before.
* A generator that fails while writing leaves a header newer than its sources. The next `make`
  takes it for current, and the compiler fails until a source is saved or the header is removed.
  No `make` ends well over such a header: `FollowsSources`.
* `WIDTH` is no prerequisite in the Makefile: `make WIDTH=256` after `make` rebuilds nothing. The
  third conjunct of `FollowsSources` says which programs have the width asked for: those that
  make compiled, and no others are promised.

## Proofs

TLAPS checks eight modules: `HugepageAllocProofs`, `HugepageAddrProofs`, `ColumnStepsProofs`,
`StreamBenchProofs`, `RandReadProofs`, `LatencyProofs`, `SweepProofs` and `BuildProofs`. The
assumptions are the named ASSUMEs of the modules: finitely many pages, classes in range, a positive
request; mappings that copy no bit into both row and column; at least one thread and a line for
each; for the random walk also page and word sizes that are powers of two, a hole of whole pages,
step masks that keep bank and row, and a `PERIOD` after which the LFSR's start repeats; a hole
inside its end and a positive budget; ascending widths the benchmarks know. For the channels of
a region: classes that are those of a mapping (`MachineAssumption`) whose channel functions, as far
as they are not constant over a page, take all combinations of values within one
(`IndependenceAssumption`).

* **Allocator**, for all pages, nodes, classes, sizes, policies and failing calls:
  `Invariant == Spec => []IInv`, and from it `BalancedRegionsInterleave` (slot `i` of a balanced
  region holds a page of class `i % K`), `RegionsDoNotAlias`, `FailuresDoNotLeak` and
  `RegionsAreKept`. A balanced region's classes are not inductive by themselves: that slot `i` gets
  the right page depends on the list the index was taken from. `IInv` adds that indexes filed under
  a class hold pages of that class (`Filed`), that lists hold each probed index once (`Lists`), that
  picked indexes come from the front of their lists (`Picked`, `Choice`), that `balanced` is still
  true only if every pick so far was of class `i % K` (`RoundRobin`), and that each page is in one
  place: pool, file or mapping (`Ownership`, `OnePlace`, `PlainFilled`). The step is proved conjunct
  by conjunct, each over all actions.
* **Mix of classes**: `BalancedChoiceIsBest` and `BalanceIsLostToAShortClass`, for any number of
  classes, and `BestMixOfTwo`, for one and two. `Shares` makes `next` the number of picks of each
  class, and says what losing the balance means: some class was used up below its quota, because
  as long as picks are taken in turn the class whose turn it is has had fewer than its quota
  (`TurnsBelow`). No mix does better than the quotas: `K` classes of at most `m` slots hold `m * K`
  (`SharesCover`, by adding one class at a time). With two classes, a mix cannot use more of the short
  class than the choice did, so the other class has at least as many slots in it. With four classes
  this last step, and the claim, are false.
* **Refinement**, `AllocGrants`: `Spec => GrantsPages`. Under the mapping of `HugepageAlloc` each
  step is one of `PageGrant` or a stutter, given `IInv` before and after. The step that matters is
  the one that publishes a region: from picks in turn it follows that each class fills its quota.
* **Channel balance**, for any such mapping, any page size, hole of whole pages and pool: `PagesReachTheirChannels`, that a page reaches exactly the channels
  `hp_class_info` files under its class, each from equally many offsets;
  `BalancedRegionsUseChannelsEvenly` (`ChannelsEven`), that two channels of one class get equally
  many lines of a balanced region and those of different classes as many as their quotas; and
  `WholeQuotasUseChannelsAlike`, that a region of a multiple of `K` pages gives all channels alike.
  A channel is linear in the address (`SelectedXor`, `ChannelXor`), so the offsets of a page that
  lead to one channel are those that leave the channel alone, shifted (`KernelShifts`): a
  bijection, in place of counting. A class number is the parities of the
  page-constant functions, and names them uniquely (`ClassNumbers`, from a loop over bits proved with
  its remainder as an invariant, `LoopRuns`). That a class fills its quota comes from the refinement
  (`EvenGranted`), so that this theorem joins the greedy choice, its abstraction and the arithmetic
  of the hardware. The run `col_registry` evaluates the independence for every registered mapping.
* **Address report**, for any pool and any failing calls: `AddrInvariant`, `OthersKeepTheirs`,
  `TouchFindsPage` and `ReportIsTrue`. The central conjunct is that what is promised never exceeds
  what is free (`NobodyStarves`), kept because a touch takes one of each.
* **Solver**, for mappings of any width: `ColumnInvariant`; `MasksPassSelfCheck`, the generator's
  self-check for *every* address instead of the random ones it tries; `StepsKeepRow`;
  `ListIsComplete`; `MasksAreSmallest`. Soundness rests on `Traced` and `Working`: each basis vector is
  what the bits recorded with it flip, preserved because parity is linear (`OddXor`, `BanksXor`).
  Completeness needs `Echelon` (no vector reaches above its slot) and `Spanning` (the basis spans
  whatever the inserted bits flip): a vector that is reduced as far as it goes and not zero is then
  outside the span. Minimality needs that bits are inserted in ascending order and `AllNeeded`: only
  bits no lower ones can stand in for are ever combined, so that a smaller mask would make its
  highest differing bit dispensable. From completeness and minimality, `ServedIfPossible`: all
  widths are served within a page exactly when the mapping has the column bits and bits of the
  page that step each (`Servable`). `DifferencesDecide`: two addresses decode alike exactly when
  a difference of them does, so that `LinesApart` may enumerate differences in place of pairs.
* **Threads**, for any number of threads, lines and reads: `StreamInvariant`, `ReadsStayInPart`,
  `PartsDisjoint`, `BarrierHolds`, `IntervalCoversReads`, `ChecksumDetermined`. The invariant ties the
  barrier's counter to the set of threads that have arrived (`Counted`), and bounds the line of a
  scan with the reads it has left (`Scanning`). `Tally` says of each thread how often it has read
  each of its lines, from the reads it has left alone: that is what makes the checksum independent
  of the schedule. `Timed` equates the clock with the number of reads done by all.
* **Random walk**, for any word width, feedback, seed, number of threads, mapping, pages and request:
  `RandInvariant`, `SkipAhead`, `StreamsAreDisjoint`, `AccessesAreWhole`, `AccessesKeepRow`.
  `SkipAhead` says that `hpcc_starts(n)` is the start advanced by `n` steps, though it takes only
  about as many steps as `n` has bits. One step is linear over GF(2) (`StepsXor`), so
  squaring a state by XORing the columns its bits select doubles the number of steps it stands for
  (`SquareOrbit`), and going down the bits of `n` reaches `n` (`Descent`, `OrbitCycle` for the
  reduction). `Walked` then makes a thread's state a function of its number and of the accesses
  it has done, and `StreamsDisjoint` follows as long as the stretches fit the period. That an
  access stays in its row and bank rests on lemmas about what adding the base of a power-of-two page,
  and the hole above it, does to the bits of an offset (`BitAt`, `SameBits`, `MaskRange`).
  Functions on the naturals are obtained without an induction rule: least number, then sets closed
  under successor (`SetInduction`), then `PrimitiveRecursion`.
  The source's constants satisfy `PeriodAssumption`: its `PERIOD` is 7*73*127*337*92737*649657, and
  x^PERIOD is 1 modulo x^64 + x^2 + x + 1 while no x^(PERIOD/p) is, for a prime p of it; this is
  arithmetic outside these modules.
* **Pair search**, for any mapping, hole, budget and region: `LatencyInvariant`, `RelatedPairs`
  (testing the XOR of two addresses tests their decodes), `DistinctPairs`, `BudgetSpent`. The
  invariant counts the draws that the budget and the tries left over account for.
* **Sweep**, for any configuration, node, table of column steps, widths and bandwidths:
  `SweepInvariant` and from it the six safety properties of the run that are about the sweep
  (`CoresTried`, `RowsMeasured`, `ConfigReaches`, `SummaryOfBest`, `NothingRefused`,
  `FilesBelongTogether`); `PlotsOnlyRead`: with the plots it still implements `Sweep`. Where one
  would use induction on a length, the proof takes the least number that fails (`NatMin`).
* **Figures**, for the sweep followed by its plots: `RunInvariant` and `FiguresAreSummary`, that the
  figures drawn of `results/sweep_full.csv` show the rows of `results/sweep_summary.csv`: the curves
  by width point for point, and both curves of the figure by cores (stream, and single lines at
  random) by their best point, with one point for each run. Figures are drawn from a finished matrix
  only (`Drawing`); there every row of the summary is one of the full file (`Chosen`), and a job has
  one row for each number of cores (`RunOnce`), so no two points fall together and the row a figure
  takes for its best is the one the driver took, up to equal bandwidths. The point of a width needs its highest
  percentage to belong to its highest bandwidth: rounding is monotone. A maximum is shown by its
  witness, the summary's row, and needs no induction.
* **Build**, for any target, edited files, and number of saves and makes: `BuildInvariant`,
  `MadeOfSources`, `MakeSettles`. `Fresh` says of each file `make` has looked at that only sources
  saved since it began are newer, `Origins` traces every revision in a built file to a source read
  directly or by way of a header, and `CutShort` that a cut header is newer than a program that will
  not compile with it. The one fact about the Makefile they all need is that its prerequisites name
  whatever the recipes read (`EveryReadNamed`).

* **Termination, as far as it is safety**: `AllocTakesBoundedSteps`, `ReportTakesBoundedSteps`,
  `ThreadsTakeBoundedSteps`, `SearchTakesBoundedSteps`, `SolverTakesBoundedSteps`. Each gives a number of steps left
  that is a natural in every reachable state, grows less with every step of the program and is not
  changed by other processes (or, with threads, by another thread). What the numbers need beyond
  counters that count down: a probe may not outrun its file; an A is drawn only while the budget
  lasts, so that a candidate is drawn for each (`Looping`); an XOR with a vector of an echelon basis
  clears the top and sets nothing above it (`OnePassReduces`: one pass of `_XorBasis` is enough, and
  its comment "v == 0 here" true). That nobody is stuck before the end is proved where it is not
  plain: `SomebodyGoesOn` (the barrier opens: once nobody else can move all threads have arrived),
  `ChoiceFindsClass` (the fill-in loop finds a class as long as a page is left), `TouchFindsPage`.

Checked by TLC only:

* the step from these to liveness under fairness (`Terminates`, `Ends`, `Completes`, `SearchEnds`),
  since ENABLED is out of the prover's reach;
* that the registered mappings are `Servable` (`WidthsServed`), tell lines apart (`LinesApart`) and
  have independent channel functions: they are about those mappings, all of which the run goes through.

## Not modelled

* Shell wrappers other than `Run.sh`: they set the machine up or start one program, and have no state.
* `latency_bw`'s timing kernel, TSC calibration and statistics (real time); the warm-ups, the cache
  flush and the SIMD loads, which change no state the programs look at; argument parsing of
  `stream_bw` beyond the values `Reading` takes.
* The text of the generated headers, of reports and progress output; colours, scales and labels of
  the figures; `sweep_bw.py`'s `--simd` probe, whose result is only printed.
* `make -j`: a recipe runs alone in `Build`. A source saved while a recipe that has read it runs sets
  `raced`, which no later step resets, so the first conjunct of `FollowsSources` says nothing of
  the rest of that behaviour.
* `config_template.py` is constants: they are the configurations, requests and holes of the models.
* The programs of the top directory and of `Temp/` allocate with one plain mmap, as `hp_alloc` does
  when it does not balance; their Makefiles have `chbal/`'s graph without `hugepage_alloc.h` and the
  headers it includes.

## Plan

Done, in this order: allocator, solver and registry, threads, random access, latency, sweep, build;
then the plots, the address report, the three copies of the drivers with their command line and
environment, WIDTH and cut headers in the build, and the proofs of all of these.

What would add most from here: the barrier of `StreamBench` under `RandRead`; how far from the
best mix a greedy choice over four classes can be; an instance of
`HugepageAddr` beside `HugepageAlloc` on one pool, in place of nameless other processes, now that
either is proved against any others.
