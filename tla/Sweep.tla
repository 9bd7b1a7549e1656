-------------------------------- MODULE Sweep --------------------------------
(***************************************************************************)
(* sweep_matrix.py runs every job (pattern, access mode, lines per access) *)
(* on every number of cores and writes two CSV files; sweep_bw.py runs the *)
(* one job config.py describes and prints its best.  Both go through       *)
(* sweep_bw.run_benchmark.  There are three copies of the pair: those of   *)
(* the top directory and of chbal/ know the access modes 0 and 1, those of *)
(* Temp/ also mode 2, and may leave the stream job out.                    *)
(*                                                                         *)
(* The benchmark is outside: whatever it accepts, it may fail, print what  *)
(* cannot be parsed, or report any bandwidth.                              *)
(***************************************************************************)
EXTENDS Benchmark, FiniteSets, SequencesExt

CONSTANTS
    Configs,      \* config.py, the command line and the files that were built
    OnlineCpus,   \* os.cpu_count()
    LpaValues,    \* LPA_VALUES, the widths of the matrix: 1, 2, 4, 8, 16
    Bandwidths    \* what a benchmark may report

ASSUME CpuAssumption == OnlineCpus \in Nat \ {0}
ASSUME LpaAssumption == /\ LpaValues \in Seq(Widths) /\ LpaValues # <<>>
                        /\ \A k, l \in DOMAIN LpaValues : k < l => LpaValues[k] < LpaValues[l]
ASSUME BandwidthAssumption == Bandwidths \subseteq Nat
ASSUME ConfigAssumption ==
    \A c \in Configs :
        /\ c.copy \in {"top", "chbal", "temp"} /\ c.prog \in {"matrix", "bw"}
        /\ c.map # NoMap
        /\ c.access \in Nat /\ c.lines \in Nat /\ c.pages \in Nat /\ c.peak \in Nat
        /\ c.start \in Nat /\ c.step \in Nat /\ c.max \in Nat \cup {None}
        /\ c.cpulist \in Seq((Nat \cup {None}) \X (Nat \cup {None}))

VARIABLES
    config,       \* [copy, prog, arg, skip, built, cpulist, sudo, shell, baked, access,
                  \*  lines, map, pages, balance, print, start, max, step, peak]
    pc,           \* what main does next, "done", or "died"
    jobs,         \* the jobs, in order
    core_list,    \* the numbers of cores, in order
    j, i,         \* the job and the number of cores the loops are at
    best,         \* the best row of this job so far, or NoRow
    full_rows,    \* the rows measured
    summary_rows, \* the best row of each finished job
    full_csv,     \* the two files: [new, rows]
    summary_csv,
    log,          \* the benchmark runs so far (a history variable)
    measured      \* those of them that gave a bandwidth (a history variable)

history == <<log, measured>>
loops == <<j, i, best, full_rows, summary_rows, history>>
files == <<full_csv, summary_csv>>
vars == <<config, pc, jobs, core_list, loops, files>>

Matrix == config.prog = "matrix"
Temp == config.copy = "temp"
Skipped(kind) == kind \in config.skip
Registered == config.map \in DOMAIN ColumnSteps

------------------------------------------------------------------------------
(* The jobs.                                                               *)

Job(pattern, access, lines) == [pattern |-> pattern, access |-> access, lines |-> lines]
StreamJob == <<Job("stream", None, None)>>

\* LPA_VALUES ascends: the widths up to a limit come first.
Fitting(most) == Cardinality({k \in DOMAIN LpaValues : LpaValues[k] <= most})
RandJobs(access, most) == [k \in 1 .. Fitting(most) |-> Job("rand", access, LpaValues[k])]
ConsecutiveJobs == RandJobs(0, LpaValues[Len(LpaValues)])

\* The widest access a mapping's column steps allow.
MaxLpa_OffByOne(n) == 2 ^ (n + 1)
MaxLpa(n) == 2 ^ n

SamerowJobs == IF Skipped("samerow") THEN <<>> ELSE RandJobs(1, MaxLpa(ColumnSteps[config.map].low))
SpreadJobs == IF Skipped("spread") THEN <<>> ELSE RandJobs(2, MaxLpa(ColumnSteps[config.map].high))

\* build_jobs, and what it looks up in the registry.
MainJobs == StreamJob \o (IF Skipped("consecutive") THEN <<>> ELSE ConsecutiveJobs) \o SamerowJobs
TempJobs == (IF Skipped("stream") THEN <<>> ELSE StreamJob)
                \o (IF Skipped("consecutive") THEN <<>> ELSE ConsecutiveJobs) \o SamerowJobs \o SpreadJobs
NeedsMap == ~Skipped("samerow") \/ (Temp /\ ~Skipped("spread"))

\* resolve_mode: what sweep_bw.py's argument stands for; none is random access.
ModeArgs == [m \in {"", "rand", "random", "stream"} |-> IF m = "stream" THEN "stream" ELSE "rand"]
Mode == ModeArgs[config.arg]

\* sweep_bw.py has one job, and leaves its parameters to run_benchmark's defaults.
SingleJob == <<Job(Mode, None, None)>>

HasJob(pattern) == \E k \in DOMAIN jobs : jobs[k].pattern = pattern
HasMapped == \E k \in DOMAIN jobs : jobs[k].access \in {1, 2}

\* validate: what sweep_matrix.py checks before anything is run.
ValidJobs == /\ HasJob("stream") => "stream" \in config.built
             /\ HasJob("rand") => "rand" \in config.built /\ PowerOfTwo(config.pages)
             /\ HasMapped => Registered

\* What sweep_bw.py checks of config.py's one job.
ValidSingle == /\ Mode \in config.built
               /\ Mode = "rand" => /\ PowerOfTwo(config.pages)
                                   /\ config.lines \in Widths
                                   /\ config.access \in AccessModes(config.copy)
                                   /\ config.access # 0 => Registered

Valid == IF Matrix THEN ValidJobs ELSE ValidSingle

------------------------------------------------------------------------------
(* The cores.                                                              *)

\* The file cpulist of the NUMA node holds ranges <<first, last>>, in any order, and none
\* for a node of memory only; a node without the file is taken to have every CPU.
NoFile == <<<<None, None>>>>
node_cpus == IF config.cpulist = NoFile THEN 0 .. OnlineCpus - 1
             ELSE UNION {r[1] .. r[2] : r \in Range(config.cpulist)}
NumCpus == Cardinality(node_cpus)

\* They are sorted: the k-th has k - 1 below it.
Below(cpu) == {c \in node_cpus : c < cpu}
numa_node_cpus == [k \in 1 .. NumCpus |-> CHOOSE cpu \in node_cpus : Cardinality(Below(cpu)) = k - 1]

max_cores == IF config.max = None \/ config.max > NumCpus THEN NumCpus ELSE config.max

\* list(range(start, max_cores + 1, step)), not empty.
Steps == (max_cores - config.start) \div config.step
CoreRange == [k \in 1 .. Steps + 1 |-> config.start + (k - 1) * config.step]

\* The range, and the maximum when the step jumps over it.
CoreList_RangeOnly == CoreRange
CoreList == IF CoreRange[Steps + 1] = max_cores THEN CoreRange ELSE Append(CoreRange, max_cores)

------------------------------------------------------------------------------
(* The rows.  A percentage of the peak is rounded: one stands for several  *)
(* bandwidths, more for a higher peak.                                     *)

Pct(bw) == bw \div config.peak
RowOf(job, n, bw) == [pattern |-> job.pattern, access |-> job.access, lines |-> job.lines,
                      cores |-> n, bw |-> bw, pct |-> Pct(bw)]
NoRow == [pattern |-> "", access |-> None, lines |-> None, cores |-> 0, bw |-> None, pct |-> None]
Label(row) == Job(row.pattern, row.access, row.lines)

\* A row replaces the best so far if it is better, not if it is as good.
Better_OrEqual(row) == row.bw >= best.bw
Better(row) == row.bw > best.bw

\* max(results, key): of equals the first.
FirstBest(rows) == rows[CHOOSE k \in DOMAIN rows :
    \A l \in DOMAIN rows : rows[l].bw < rows[k].bw \/ (rows[l].bw = rows[k].bw /\ k <= l)]

------------------------------------------------------------------------------
Init == /\ config \in Configs
        /\ pc = "build"
        /\ jobs = <<>> /\ core_list = <<>>
        /\ j = 1 /\ i = 1 /\ best = NoRow
        /\ full_rows = <<>> /\ summary_rows = <<>> /\ log = <<>> /\ measured = <<>>
        /\ full_csv = [new |-> FALSE, rows |-> <<>>]
        /\ summary_csv = [new |-> FALSE, rows |-> <<>>]

Die == pc' = "died"

BuildJobs == /\ pc = "build" /\ Matrix
             /\ NeedsMap => Registered
             /\ jobs' = IF Temp THEN TempJobs ELSE MainJobs
             /\ pc' = "validate"
             /\ UNCHANGED <<config, core_list, loops, files>>

\* build_jobs looks ADDR_MAP up before validate has a word to say about it.
NoSuchMap == /\ pc = "build" /\ Matrix
             /\ NeedsMap /\ ~Registered
             /\ Die
             /\ UNCHANGED <<config, jobs, core_list, loops, files>>

ResolveMode == /\ pc = "build" /\ ~Matrix
               /\ config.arg \in DOMAIN ModeArgs
               /\ jobs' = SingleJob
               /\ pc' = "validate"
               /\ UNCHANGED <<config, core_list, loops, files>>

UnknownMode == /\ pc = "build" /\ ~Matrix
               /\ config.arg \notin DOMAIN ModeArgs
               /\ Die
               /\ UNCHANGED <<config, jobs, core_list, loops, files>>

Validate == /\ pc = "validate"
            /\ Valid
            /\ pc' = "plan"
            /\ UNCHANGED <<config, jobs, core_list, loops, files>>

Refuse == /\ pc = "validate"
          /\ ~Valid
          /\ Die
          /\ UNCHANGED <<config, jobs, core_list, loops, files>>

Plan == /\ pc = "plan"
        /\ config.cpulist # <<>>
        /\ config.step > 0 /\ config.start <= max_cores
        /\ core_list' = CoreList
        /\ pc' = "run"
        /\ UNCHANGED <<config, jobs, loops, files>>

\* int() refuses the empty cpulist of a node without CPUs, range() a step of 0 (a loop
\* that counts would not end), and core_list[-1] an empty list.
PlanFails == /\ pc = "plan"
             /\ config.cpulist = <<>> \/ config.step = 0 \/ config.start > max_cores
             /\ Die
             /\ UNCHANGED <<config, jobs, core_list, loops, files>>

------------------------------------------------------------------------------
(* The loops over jobs and cores.                                          *)

Running == pc = "run" /\ j <= Len(jobs) /\ i <= Len(core_list)
Cmd == Command(config, jobs[j], SubSeq(numa_node_cpus, 1, core_list[i]))
Run(out) == [job |-> j, cmd |-> Cmd, out |-> out]
Accepted == Accepts(config, Reading(config, Cmd))

\* A benchmark reports bw: it has its row, and the loop goes on.
Reports(bw) == /\ Running /\ Accepted /\ config.peak > 0
               /\ log' = Append(log, Run(bw)) /\ measured' = Append(measured, Run(bw))
               /\ full_rows' = Append(full_rows, RowOf(jobs[j], core_list[i], bw))
               /\ i' = i + 1
               /\ UNCHANGED <<config, pc, jobs, core_list, j, summary_rows, files>>

Measure == /\ Matrix
           /\ \E bw \in Bandwidths :
                LET row == RowOf(jobs[j], core_list[i], bw)
                IN  /\ Reports(bw)
                    /\ best' = IF Better(row) THEN row ELSE best

Collect == /\ ~Matrix
           /\ \E bw \in Bandwidths : Reports(bw)
           /\ UNCHANGED best

\* After a run that failed: go on with the next number of cores.
Skip_Retries == i
Skip == i + 1

MeasureFails == /\ Running
                /\ log' = Append(log, Run(None))
                /\ i' = Skip
                /\ UNCHANGED <<config, pc, jobs, core_list, j, best, full_rows, summary_rows,
                               measured, files>>

\* The command cannot be started, its output cannot be parsed, or the peak is 0 and cannot
\* divide: nothing catches it.
Raises == /\ Running
          /\ Die
          /\ UNCHANGED <<config, jobs, core_list, loops, files>>

EndJob == /\ pc = "run" /\ Matrix
          /\ j <= Len(jobs) /\ i > Len(core_list)
          /\ summary_rows' = IF best = NoRow THEN summary_rows ELSE Append(summary_rows, best)
          /\ best' = NoRow
          /\ j' = j + 1 /\ i' = 1
          /\ UNCHANGED <<config, pc, jobs, core_list, full_rows, history, files>>

\* sweep_bw.py prints its best result, or exits when there is none.
Report == /\ pc = "run" /\ ~Matrix /\ i > Len(core_list)
          /\ IF full_rows = <<>> THEN Die /\ UNCHANGED summary_rows
             ELSE pc' = "done" /\ summary_rows' = <<FirstBest(full_rows)>>
          /\ j' = j + 1 /\ i' = 1
          /\ UNCHANGED <<config, jobs, core_list, best, full_rows, history, files>>

------------------------------------------------------------------------------
(* The two files.                                                          *)

EndMatrix == /\ pc = "run" /\ Matrix
             /\ j > Len(jobs)
             /\ pc' = "dirs"
             /\ UNCHANGED <<config, jobs, core_list, loops, files>>

MakeDirs_OpensBoth == /\ pc = "dirs"
                      /\ full_csv' = [new |-> TRUE, rows |-> <<>>]
                      /\ summary_csv' = [new |-> TRUE, rows |-> <<>>]
                      /\ pc' = "full"
                      /\ UNCHANGED <<config, jobs, core_list, loops>>
MakeDirs == /\ pc = "dirs"
            /\ pc' = "full"
            /\ UNCHANGED <<config, jobs, core_list, loops, files>>

\* What open("w") and the writes leave of a file when one of them fails.
Broken(file, rows) == {file} \cup {[new |-> TRUE, rows |-> SubSeq(rows, 1, k)] : k \in 0 .. Len(rows) - 1}

\* A directory, a file or the disk refuses.
WriteFails == /\ pc \in {"dirs", "full", "summary"}
              /\ IF pc = "full" THEN full_csv' \in Broken(full_csv, full_rows) ELSE UNCHANGED full_csv
              /\ IF pc = "summary" THEN summary_csv' \in Broken(summary_csv, summary_rows)
                                   ELSE UNCHANGED summary_csv
              /\ Die
              /\ UNCHANGED <<config, jobs, core_list, loops>>

WriteFull == /\ pc = "full"
             /\ full_csv' = [new |-> TRUE, rows |-> full_rows]
             /\ pc' = "summary"
             /\ UNCHANGED <<config, jobs, core_list, loops, summary_csv>>

WriteSummary == /\ pc = "summary"
                /\ summary_csv' = [new |-> TRUE, rows |-> summary_rows]
                /\ pc' = "done"
                /\ UNCHANGED <<config, jobs, core_list, loops, full_csv>>

Next == \/ BuildJobs \/ NoSuchMap \/ ResolveMode \/ UnknownMode \/ Validate \/ Refuse
        \/ Plan \/ PlanFails \/ Measure \/ Collect \/ MeasureFails \/ Raises
        \/ EndJob \/ Report \/ EndMatrix \/ MakeDirs \/ WriteFails \/ WriteFull \/ WriteSummary

Spec == Init /\ [][Next]_vars

------------------------------------------------------------------------------
JobType == [pattern : {"stream", "rand"}, access : {None, 0, 1, 2}, lines : Widths \cup {None}]
Row == [pattern : {"stream", "rand"}, access : {None, 0, 1, 2}, lines : Widths \cup {None},
        cores : 0 .. NumCpus, bw : Bandwidths, pct : Nat]
File == [new : BOOLEAN, rows : Seq(Row)]

TypeOK == /\ config \in Configs
          /\ pc \in {"build", "validate", "plan", "run", "dirs", "full", "summary", "done", "died"}
          /\ jobs \in Seq(JobType)
          /\ core_list \in Seq(0 .. NumCpus)
          /\ j \in 1 .. Len(jobs) + 1 /\ i \in 1 .. Len(core_list) + 1
          /\ best \in Row \cup {NoRow}
          /\ full_rows \in Seq(Row) /\ summary_rows \in Seq(Row)
          /\ full_csv \in File /\ summary_csv \in File
          /\ log \in Seq(Range(log)) /\ measured \in Seq(Range(measured))

Finished(k) == k < j

\* The number of the run of job k on the n-th number of cores.
RunNumber(k, n) == (k - 1) * Len(core_list) + n

\* Every job is run once on every number of cores of the plan, failures included, one
\* job after the other; the plan ascends from CORE_START to the most cores there are,
\* jumps by at most CORE_STEP, and never asks for a CPU the node does not have.
EveryCoreTried ==
    /\ Len(log) = RunNumber(j, i - 1)
    /\ \A k \in DOMAIN jobs, n \in DOMAIN core_list : RunNumber(k, n) <= Len(log) =>
        /\ log[RunNumber(k, n)].job = k
        /\ Len(log[RunNumber(k, n)].cmd.cpus) = core_list[n]
    /\ core_list # <<>> =>
        /\ core_list[1] = config.start /\ core_list[Len(core_list)] = max_cores
        /\ \A k \in 1 .. Len(core_list) - 1 :
                core_list[k + 1] - core_list[k] \in 1 .. config.step

\* The labels of a row are the parameters its benchmark read from its arguments, and
\* every run that gave a bandwidth has its row: no row is lost when others fail, and none
\* carries the defaults of config.py instead of its job's mode and width.
RowsAreMeasurements ==
    /\ Len(full_rows) = Len(measured)
    /\ \A k \in DOMAIN full_rows :
        LET row == full_rows[k]
            run == measured[k]
            read == Reading(config, run.cmd)
        IN  /\ run.out = row.bw
            /\ run.cmd.binary = row.pattern /\ read.threads = row.cores
            /\ Matrix => read.access = row.access /\ read.lines = row.lines
            /\ (~Matrix /\ row.pattern = "rand") => read.access = config.access /\ read.lines = config.lines

\* "the sweep always uses config.ADDR_MAP regardless of the binary's baked-in default"
\* (sweep_bw.py:97-99): a benchmark that looks a mapping up finds the one of config.py,
\* through sudo or not, whatever ACCESS_MAP was in the caller's environment and whatever
\* the binary was built for; and the pages and the balancing are config.py's too.
ConfigReachesBenchmark ==
    \A r \in Range(log) :
        LET read == Reading(config, r.cmd)
        IN  /\ LooksUpMap(config, read) => read.map = config.map
            /\ read.pages = config.pages
            /\ config.copy = "chbal" => read.balance = config.balance

\* "one row per (pattern/access_mode/lines_per_access) with the best bandwidth measured
\* across the core sweep" (sweep_matrix.py:8-9): a finished job has exactly one summary
\* row if any of its runs succeeded, none otherwise, and the row is a measured one, on
\* the fewest cores that reach its best bandwidth.
SummaryIsBest ==
    /\ \A k \in DOMAIN jobs : Finished(k) =>
        Cardinality({r \in DOMAIN summary_rows : Label(summary_rows[r]) = jobs[k]}) =
            IF \E r \in Range(log) : r.job = k /\ r.out # None THEN 1 ELSE 0
    /\ \A row \in Range(summary_rows) :
        /\ row \in Range(full_rows)
        /\ \A r \in Range(log) : (jobs[r.job] = Label(row) /\ r.out # None) =>
                r.out < row.bw \/ (r.out = row.bw /\ row.cores <= Len(r.cmd.cpus))

\* The matrix schedules no job that the benchmark's own checks refuse: a width that a
\* mapping's column steps cannot serve is skipped, whatever the configuration.  (The
\* binaries of chbal/ look ADDR_MAP up for every job, sweep_matrix.py only for mode 1.)
JobsAccepted ==
    Matrix => \A r \in Range(log) :
        LET read == Reading(config, r.cmd)
        IN  (read.threads >= 1 /\ read.pages >= 1 /\ (config.copy = "chbal" => Registered))
                => Accepts(config, read)

\* The results of an earlier sweep stay on disk until this one has measured everything,
\* and a new summary never stands beside a full file it was not made from.
FilesTogether ==
    /\ full_csv.new => j > Len(jobs)
    /\ summary_csv.new => full_csv = [new |-> TRUE, rows |-> full_rows]
    /\ pc = "done" /\ Matrix => summary_csv = [new |-> TRUE, rows |-> summary_rows]

------------------------------------------------------------------------------
(* The inductive invariant behind the safety properties.                   *)

\* Nothing is measured before the plan is made.
Early == /\ pc = "build" => jobs = <<>>
         /\ pc \in {"build", "validate", "plan"} =>
                j = 1 /\ i = 1 /\ core_list = <<>> /\ log = <<>>
         /\ log = <<>> \/ Valid
         /\ pc \in {"plan", "run", "dirs", "full", "summary", "done"} => Valid

\* What the matrix schedules: a width that its mapping can serve.
Scheduled(job) ==
    \/ job = Job("stream", None, None)
    \/ /\ job.pattern = "rand"
       /\ job.lines \in Widths /\ job.access \in AccessModes(config.copy)
       /\ job.access # 0 => Registered
       /\ job.access = 1 => job.lines <= MaxLpa(ColumnSteps[config.map].low)
       /\ job.access = 2 => job.lines <= MaxLpa(ColumnSteps[config.map].high)

JobPlan == /\ Matrix => \A k \in DOMAIN jobs : Scheduled(jobs[k])
           /\ \A k, l \in DOMAIN jobs : jobs[k] = jobs[l] => k = l
           /\ (~Matrix /\ jobs # <<>>) => config.arg \in DOMAIN ModeArgs /\ jobs = SingleJob
           /\ (~Matrix /\ pc \in {"validate", "plan", "run"}) => j = 1 /\ jobs # <<>>

\* The plan of cores ascends.
CorePlan == core_list # <<>> =>
    /\ core_list[1] = config.start /\ core_list[Len(core_list)] = max_cores
    /\ \A k \in 1 .. Len(core_list) - 1 : core_list[k + 1] - core_list[k] \in 1 .. config.step
    /\ \A k, l \in DOMAIN core_list : k < l => core_list[k] < core_list[l]

\* A run is one of a job's commands, and the latest runs are those of job j.
Logged == \A r \in Range(log) :
    /\ r.job \in DOMAIN jobs /\ r.job <= j /\ (i = 1 => r.job < j)
    /\ r.cmd = Command(config, jobs[r.job], r.cmd.cpus)
    /\ r.out \in Bandwidths \cup {None}
    /\ Len(r.cmd.cpus) \in 0 .. NumCpus

\* The rows are those of the runs that gave a bandwidth, in their order.
RowOfRun(r) == RowOf(jobs[r.job], Len(r.cmd.cpus), r.out)
Measurements == /\ Len(full_rows) = Len(measured)
                /\ \A k \in DOMAIN measured : /\ measured[k] \in Range(log) /\ measured[k].out # None
                                              /\ full_rows[k] = RowOfRun(measured[k])
                /\ \A r \in Range(log) : r.out # None => r \in Range(measured)
                /\ (~Matrix /\ j = 1) => \A k \in DOMAIN full_rows :
                      /\ \E n \in 1 .. i - 1 : full_rows[k].cores = core_list[n]
                      /\ \A l \in 1 .. k - 1 : full_rows[l].cores < full_rows[k].cores

\* A job has at most one run on a number of cores, and none gives a bandwidth without a peak.
RunOnce == /\ \A r \in Range(log) : r.job = j => \E n \in 1 .. i - 1 : Len(r.cmd.cpus) = core_list[n]
           /\ \A k, l \in DOMAIN measured :
                (measured[k].job = measured[l].job /\ Len(measured[k].cmd.cpus) = Len(measured[l].cmd.cpus))
                    => k = l
           /\ measured # <<>> => config.peak > 0

\* row is the best of job k: no run of it has more, or as much on fewer cores.
Succeeded(k) == \E r \in Range(log) : r.job = k /\ r.out # None
IsBest(row, k) == \A r \in Range(log) : (r.job = k /\ r.out # None) =>
    r.out < row.bw \/ (r.out = row.bw /\ row.cores <= Len(r.cmd.cpus))

BestSoFar == /\ ~Matrix => best = NoRow
             /\ Matrix => (best # NoRow <=> Succeeded(j))
             /\ best # NoRow => /\ j \in DOMAIN jobs /\ Label(best) = jobs[j] /\ IsBest(best, j)
                                /\ \E n \in 1 .. i - 1 : best.cores = core_list[n]

\* What is chosen is one of the rows measured.
Chosen == /\ best # NoRow => best \in Range(full_rows)
          /\ Range(summary_rows) \subseteq Range(full_rows)

\* Each job that is finished and succeeded has its row, and no other job has one.
Summarised == /\ pc \in {"build", "validate", "plan"} => summary_rows = <<>>
              /\ (~Matrix /\ pc = "run") => summary_rows = <<>>
              /\ \A n \in DOMAIN summary_rows : \E k \in 1 .. j - 1 :
                    /\ k \in DOMAIN jobs /\ Label(summary_rows[n]) = jobs[k]
                    /\ Succeeded(k) /\ IsBest(summary_rows[n], k)
              /\ \A k \in 1 .. j - 1 : Succeeded(k) =>
                    \E n \in DOMAIN summary_rows : Label(summary_rows[n]) = jobs[k]
              /\ \A m, n \in DOMAIN summary_rows :
                    Label(summary_rows[m]) = Label(summary_rows[n]) => m = n

\* The files are opened one after the other, when all jobs are finished.
Files == /\ pc \in {"dirs", "full", "summary"} => j > Len(jobs) /\ Matrix
         /\ pc \in {"build", "validate", "plan", "run", "dirs", "full"} => ~full_csv.new
         /\ pc \in {"build", "validate", "plan", "run", "dirs", "full", "summary"} => ~summary_csv.new
         /\ pc = "summary" => full_csv = [new |-> TRUE, rows |-> full_rows]
         /\ FilesTogether

IInv == /\ TypeOK /\ Early /\ JobPlan /\ CorePlan /\ Logged /\ EveryCoreTried
        /\ Measurements /\ RunOnce /\ BestSoFar /\ Chosen /\ Summarised /\ Files
=============================================================================
