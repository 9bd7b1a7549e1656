----------------------------- MODULE SweepProofs -----------------------------
(***************************************************************************)
(* For any configurations, machine, mappings and bandwidths: config.py     *)
(* reaches the benchmark, the matrix schedules nothing it refuses, no core *)
(* and no row is lost, the summary is the best of each job, the two files  *)
(* belong together, and the figures drawn from them show the summary.      *)
(***************************************************************************)
EXTENDS Plot, FiniteSetTheorems, SequenceTheorems, WellFoundedInduction, TLAPS

(* The order of the naturals stands in for induction.                      *)

LEMMA NatMin ==
    ASSUME NEW T, T \subseteq Nat, T # {}
    PROVE  \E x \in T : \A y \in T : x <= y
<1>1. PICK x \in T : \A y \in T : ~ (<<y, x>> \in OpToRel(<, Nat))
  BY NatLessThanWellFounded, WFMin
<1>2. ASSUME NEW y \in T
      PROVE  x <= y
  <2>1. ~ (<<y, x>> \in OpToRel(<, Nat)) /\ x \in Nat /\ y \in Nat
    BY <1>1
  <2>2. ~ (y < x)
    BY <2>1 DEF OpToRel
  <2>3. x \in Nat /\ y \in Nat
    OBVIOUS
  <2>4. QED
    BY <2>2, <2>3
<1>3. QED
  BY <1>2

------------------------------------------------------------------------------
(* Command lines.                                                          *)

\* What run_benchmark puts together: two, four or six arguments.
LEMMA TwoArgs ==
    ASSUME NEW a, NEW b
    PROVE  /\ <<a, b>> \o <<>> = <<a, b>>
           /\ (<<a, b>> \o <<>>) \o <<>> = <<a, b>>
<1>1. <<a, b>> \in Seq({a, b})
  OBVIOUS
<1>2. QED
  BY <1>1, ConcatEmptySeq

LEMMA FourArgs ==
    ASSUME NEW a, NEW b, NEW c, NEW d
    PROVE  LET s == <<a, b>> \o <<c, d>>
           IN  /\ Len(s) = 4
               /\ s[1] = a /\ s[2] = b /\ s[3] = c /\ s[4] = d
               /\ s \o <<>> = s
<1> DEFINE S == {a, b, c, d}
<1> DEFINE s == <<a, b>> \o <<c, d>>
<1>1. Len(s) = 4
  OBVIOUS
<1>2. s[1] = a /\ s[2] = b
  OBVIOUS
<1>3. s[3] = c /\ s[4] = d
  OBVIOUS
<1>4. <<a, b>> \in Seq(S) /\ <<c, d>> \in Seq(S)
  OBVIOUS
<1>5. s \in Seq(S)
  BY <1>4
<1>6. s \o <<>> = s
  <2> HIDE DEF S, s
  <2>1. QED
    BY <1>5, ConcatEmptySeq
<1>7. QED
  BY <1>1, <1>2, <1>3, <1>6

LEMMA SixArgs ==
    ASSUME NEW a, NEW b, NEW c, NEW d, NEW e, NEW f
    PROVE  LET s == (<<a, b>> \o <<c, d>>) \o <<e, f>>
           IN  /\ Len(s) = 6
               /\ s[1] = a /\ s[2] = b /\ s[3] = c /\ s[4] = d /\ s[5] = e
<1> DEFINE S == {a, b, c, d, e, f}
<1> DEFINE r == <<a, b>> \o <<c, d>>
<1> DEFINE t == <<e, f>>
<1>1. Len(r) = 4 /\ r[1] = a /\ r[2] = b /\ r[3] = c /\ r[4] = d
  BY FourArgs
<1>2. <<a, b>> \in Seq(S) /\ <<c, d>> \in Seq(S)
  OBVIOUS
<1>3. r \in Seq(S)
  BY <1>2
<1>4. t \in Seq(S) /\ Len(t) = 2 /\ t[1] = e
  OBVIOUS
<1>5. Len(r \o t) = 6 /\ \A k \in 1 .. 6 : (r \o t)[k] = IF k <= 4 THEN r[k] ELSE t[k - 4]
  <2> HIDE DEF r, t, S
  <2>1. /\ Len(r \o t) = Len(r) + Len(t)
        /\ \A k \in 1 .. Len(r) + Len(t) : (r \o t)[k] = IF k <= Len(r) THEN r[k] ELSE t[k - Len(r)]
    BY <1>3, <1>4, ConcatProperties, Zenon
  <2>2. QED
    BY <2>1, <1>1, <1>4
<1>6. QED
  <2> HIDE DEF r, t
  <2>1. /\ Len(r \o t) = 6
        /\ (r \o t)[1] = a /\ (r \o t)[2] = b /\ (r \o t)[3] = c /\ (r \o t)[4] = d /\ (r \o t)[5] = e
    BY <1>1, <1>4, <1>5
  <2>2. QED
    BY <2>1 DEF r, t

\* What main reads is what run_benchmark wrote: the arguments keep their positions,
\* whichever are left out at the end.
LEMMA ReadBack ==
    ASSUME NEW c, c.copy \in {"top", "chbal", "temp"},
           NEW job, job.pattern \in {"stream", "rand"}, NEW cpus
    PROVE  LET read == Reading(c, Command(c, job, cpus))
           IN  /\ read.threads = Len(cpus) /\ read.pages = c.pages
               /\ job.pattern = "rand" => /\ read.lines = OrDefault(job.lines, c.lines)
                                          /\ read.access = OrDefault(job.access, c.access)
               /\ job.pattern = "stream" => read.lines = None /\ read.access = None
               /\ c.copy = "chbal" => read.balance = c.balance
               /\ read.map = LET env == Environment(c, PassMap(c, job.pattern, OrDefault(job.access, c.access)))
                             IN  IF env = NoMap THEN c.baked ELSE env
<1> DEFINE cmd == Command(c, job, cpus)
<1> DEFINE access == OrDefault(job.access, c.access)
<1> DEFINE lines == OrDefault(job.lines, c.lines)
<1>1. /\ cmd.binary = job.pattern
      /\ cmd.env = Environment(c, PassMap(c, job.pattern, access))
  BY DEF Command
<1>2. CASE job.pattern = "rand" /\ c.copy # "chbal"
  <2>1. cmd.args = (<<Len(cpus), c.pages>> \o <<lines, access>>) \o <<>>
    BY <1>2 DEF Command, ChbalFlags
  <2>2. /\ Len(cmd.args) = 4
        /\ cmd.args[1] = Len(cpus) /\ cmd.args[2] = c.pages /\ cmd.args[3] = lines /\ cmd.args[4] = access
    BY <2>1, FourArgs
  <2>3. QED
    BY <1>1, <1>2, <2>2 DEF Reading, Arg
<1>3. CASE job.pattern = "rand" /\ c.copy = "chbal"
  <2>1. cmd.args = (<<Len(cpus), c.pages>> \o <<lines, access>>) \o <<c.balance, c.print>>
    BY <1>3 DEF Command, ChbalFlags
  <2>2. /\ Len(cmd.args) = 6
        /\ cmd.args[1] = Len(cpus) /\ cmd.args[2] = c.pages /\ cmd.args[3] = lines /\ cmd.args[4] = access
        /\ cmd.args[5] = c.balance
    BY <2>1, SixArgs
  <2>3. QED
    BY <1>1, <1>3, <2>2 DEF Reading, Arg
<1>4. CASE job.pattern = "stream" /\ c.copy # "chbal"
  <2>1. cmd.args = <<Len(cpus), c.pages>>
    BY <1>4, TwoArgs DEF Command, ChbalFlags
  <2>2. Len(cmd.args) = 2 /\ cmd.args[1] = Len(cpus) /\ cmd.args[2] = c.pages
    BY <2>1
  <2>3. QED
    BY <1>1, <1>4, <2>2 DEF Reading, Arg
<1>5. CASE job.pattern = "stream" /\ c.copy = "chbal"
  <2>1. cmd.args = <<Len(cpus), c.pages>> \o <<c.balance, c.print>>
    BY <1>5, TwoArgs DEF Command, ChbalFlags
  <2>2. /\ Len(cmd.args) = 4
        /\ cmd.args[1] = Len(cpus) /\ cmd.args[2] = c.pages /\ cmd.args[3] = c.balance
    BY <2>1, FourArgs
  <2>3. QED
    BY <1>1, <1>5, <2>2 DEF Reading, Arg
<1>6. QED
  BY <1>2, <1>3, <1>4, <1>5

------------------------------------------------------------------------------
(* The jobs of the matrix.                                                 *)

LEMMA WidthIsNat == Widths \subseteq Nat
<1>1. 2 ^ MaxColBits \in Int
  BY StepAssumption
<1>2. QED
  BY <1>1, WidthAssumption

LEMMA LpaFacts ==
    /\ Len(LpaValues) \in Nat /\ DOMAIN LpaValues = 1 .. Len(LpaValues)
    /\ \A k \in DOMAIN LpaValues : LpaValues[k] \in Widths /\ LpaValues[k] \in Nat
<1>1. Widths \subseteq Nat
  BY WidthIsNat
<1>2. LpaValues \in Seq(Widths)
  BY LpaAssumption
<1>3. /\ Len(LpaValues) \in Nat /\ DOMAIN LpaValues = 1 .. Len(LpaValues)
      /\ \A k \in DOMAIN LpaValues : LpaValues[k] \in Widths
  BY <1>2
<1>4. QED
  BY <1>1, <1>3

\* The widths up to a limit are the first ones.
LEMMA FittingWidths ==
    ASSUME NEW most \in Int
    PROVE  /\ Fitting(most) \in Nat /\ Fitting(most) <= Len(LpaValues)
           /\ \A k \in 1 .. Fitting(most) : k \in DOMAIN LpaValues /\ LpaValues[k] <= most
<1> DEFINE F == {k \in DOMAIN LpaValues : LpaValues[k] <= most}
<1>1. IsFiniteSet(1 .. Len(LpaValues)) /\ Cardinality(1 .. Len(LpaValues)) = Len(LpaValues)
  BY LpaFacts, FS_Interval
<1>2. F \subseteq 1 .. Len(LpaValues)
  BY LpaFacts
<1>3. Fitting(most) \in Nat /\ Fitting(most) <= Len(LpaValues)
  BY <1>1, <1>2, FS_Subset, FS_CardinalityType DEF Fitting
<1>4. ASSUME NEW k \in 1 .. Fitting(most)
      PROVE  k \in DOMAIN LpaValues /\ LpaValues[k] <= most
  <2>1. k \in DOMAIN LpaValues
    BY <1>3, LpaFacts
  <2>2. SUFFICES ASSUME LpaValues[k] > most
                 PROVE  FALSE
    BY <2>1, LpaFacts
  <2>3. ASSUME NEW l \in F
        PROVE  l \in 1 .. k - 1
    <3>1. /\ l \in DOMAIN LpaValues /\ LpaValues[l] <= most
          /\ LpaValues[l] \in Nat /\ LpaValues[k] \in Nat
      BY <2>1, LpaFacts
    <3>2. ~ (k < l) /\ k # l
      BY <2>1, <2>2, <3>1, LpaAssumption
    <3>3. l \in Nat /\ l >= 1 /\ k \in Nat
      BY <2>1, <3>1, LpaFacts
    <3>4. QED
      BY <3>2, <3>3
  <2>4. IsFiniteSet(1 .. k - 1) /\ Cardinality(1 .. k - 1) = k - 1
    <3>1. 1 \in Int /\ k - 1 \in Int /\ k >= 1
      BY <2>1, LpaFacts
    <3>2. QED
      BY <3>1, FS_Interval
  <2>5. Cardinality(F) <= k - 1
    BY <2>3, <2>4, FS_Subset
  <2>6. QED
    BY <1>3, <2>5 DEF Fitting
<1>5. QED
  BY <1>3, <1>4

\* No job of a list comes twice.
Distinct(s) == \A k, l \in DOMAIN s : s[k] = s[l] => k = l

LEMMA RandJobsFacts ==
    ASSUME NEW access \in {0, 1, 2}, NEW most \in Int
    PROVE  /\ RandJobs(access, most) \in Seq(JobType)
           /\ Distinct(RandJobs(access, most))
           /\ \A k \in DOMAIN RandJobs(access, most) :
                LET job == RandJobs(access, most)[k]
                IN  /\ job.pattern = "rand" /\ job.access = access
                    /\ job.lines \in Widths /\ job.lines <= most
<1> DEFINE s == RandJobs(access, most)
<1>1. DOMAIN s = 1 .. Fitting(most) /\ Fitting(most) \in Nat
  BY FittingWidths DEF RandJobs
<1>2. ASSUME NEW k \in 1 .. Fitting(most)
      PROVE  /\ s[k] = Job("rand", access, LpaValues[k]) /\ s[k] \in JobType
             /\ k \in DOMAIN LpaValues /\ LpaValues[k] \in Widths /\ LpaValues[k] <= most
  BY FittingWidths, LpaFacts DEF RandJobs, Job, JobType
<1>3. s \in Seq(JobType)
  BY <1>1, <1>2 DEF RandJobs
<1>4. ASSUME NEW k \in DOMAIN s, NEW l \in DOMAIN s, s[k] = s[l]
      PROVE  k = l
  <2>1. LpaValues[k] = LpaValues[l] /\ k \in DOMAIN LpaValues /\ l \in DOMAIN LpaValues
    BY <1>1, <1>2, <1>4 DEF Job
  <2>2. QED
    BY <2>1, LpaAssumption, LpaFacts
<1>5. \A k \in DOMAIN s : /\ s[k].pattern = "rand" /\ s[k].access = access
                          /\ s[k].lines \in Widths /\ s[k].lines <= most
  BY <1>1, <1>2 DEF Job
<1>6. QED
  BY <1>3, <1>4, <1>5 DEF Distinct

\* Two lists with nothing in common, one after the other.
LEMMA DistinctConcat ==
    ASSUME NEW s \in Seq(JobType), NEW t \in Seq(JobType), Distinct(s), Distinct(t),
           \A k \in DOMAIN s, l \in DOMAIN t : s[k] # t[l]
    PROVE  /\ s \o t \in Seq(JobType) /\ Distinct(s \o t)
           /\ \A k \in DOMAIN (s \o t) : \/ \E l \in DOMAIN s : (s \o t)[k] = s[l]
                                        \/ \E l \in DOMAIN t : (s \o t)[k] = t[l]
<1> DEFINE u == s \o t
<1>1. u \in Seq(JobType) /\ Len(u) = Len(s) + Len(t)
  OBVIOUS
<1>2. \A k \in DOMAIN u : u[k] = IF k <= Len(s) THEN s[k] ELSE t[k - Len(s)]
  OBVIOUS
<1>3. /\ DOMAIN s = 1 .. Len(s) /\ DOMAIN t = 1 .. Len(t) /\ DOMAIN u = 1 .. Len(u)
      /\ Len(s) \in Nat /\ Len(t) \in Nat
  BY <1>1
<1> HIDE DEF u
<1>4. \A k \in DOMAIN u : /\ k \in Nat
                          /\ k <= Len(s) => k \in DOMAIN s /\ u[k] = s[k]
                          /\ k > Len(s) => k - Len(s) \in DOMAIN t /\ u[k] = t[k - Len(s)]
  BY <1>1, <1>2, <1>3
<1>5. ASSUME NEW k \in DOMAIN u, NEW l \in DOMAIN u, u[k] = u[l]
      PROVE  k = l
  <2>1. CASE k <= Len(s) /\ l <= Len(s)
    BY <1>4, <1>5, <2>1 DEF Distinct
  <2>2. CASE k > Len(s) /\ l > Len(s)
    <3>1. k - Len(s) = l - Len(s)
      BY <1>4, <1>5, <2>2 DEF Distinct
    <3>2. QED
      BY <3>1, <1>3, <1>4
  <2>3. CASE k <= Len(s) /\ l > Len(s)
    BY <1>4, <1>5, <2>3
  <2>4. CASE k > Len(s) /\ l <= Len(s)
    BY <1>4, <1>5, <2>4
  <2>5. QED
    BY <1>3, <1>4, <2>1, <2>2, <2>3, <2>4
<1>6. \A k \in DOMAIN u : (\E l \in DOMAIN s : u[k] = s[l]) \/ (\E l \in DOMAIN t : u[k] = t[l])
  BY <1>3, <1>4
<1>7. QED
  BY <1>1, <1>5, <1>6 DEF Distinct, u

LEMMA WidestLpa == LpaValues[Len(LpaValues)] \in Int
<1>1. Len(LpaValues) \in DOMAIN LpaValues
  BY LpaAssumption
<1>2. QED
  BY <1>1, LpaFacts

\* A part of the list: its modes are in A, and the mapping can serve it.
Part(s, A) == /\ s \in Seq(JobType)
              /\ Distinct(s)
              /\ \A k \in DOMAIN s : s[k].access \in A /\ Scheduled(s[k])

LEMMA NoPart == ASSUME NEW A PROVE Part(<<>>, A)
BY DEF Part, Distinct

LEMMA StreamPart == Part(StreamJob, {None})
BY DEF StreamJob, Job, JobType, Distinct, None, Part, Scheduled

LEMMA RandPart ==
    ASSUME NEW access \in AccessModes(config.copy), NEW most \in Int, config \in Configs,
           access # 0 => Registered,
           access = 1 => most = MaxLpa(ColumnSteps[config.map].low),
           access = 2 => most = MaxLpa(ColumnSteps[config.map].high)
    PROVE  Part(RandJobs(access, most), {access})
<1> DEFINE s == RandJobs(access, most)
<1>1. access \in {0, 1, 2}
  BY DEF AccessModes
<1>2. /\ s \in Seq(JobType) /\ Distinct(s)
      /\ \A k \in DOMAIN s : /\ s[k].pattern = "rand" /\ s[k].access = access
                             /\ s[k].lines \in Widths /\ s[k].lines <= most
  BY <1>1, RandJobsFacts
<1> HIDE DEF s
<1>3. QED
  BY <1>2 DEF Part, Scheduled, s

\* The parts of the two lists.
LEMMA Parts ==
    ASSUME config \in Configs, NeedsMap => Registered
    PROVE  /\ Part(ConsecutiveJobs, {0})
           /\ Part(SamerowJobs, {1})
           /\ Temp => Part(SpreadJobs, {2})
<1>1. 0 \in AccessModes(config.copy) /\ 1 \in AccessModes(config.copy) /\ (Temp => 2 \in AccessModes(config.copy))
  BY ConfigAssumption DEF AccessModes, Temp
<1>2. Part(ConsecutiveJobs, {0})
  BY <1>1, WidestLpa, RandPart DEF ConsecutiveJobs
<1>3. Part(SamerowJobs, {1})
  <2>1. CASE Skipped("samerow")
    BY <2>1, NoPart DEF SamerowJobs
  <2>2. CASE ~Skipped("samerow")
    <3>1. Registered /\ ColumnSteps[config.map].low \in Nat
      BY <2>2, StepAssumption DEF NeedsMap, Registered
    <3>2. MaxLpa(ColumnSteps[config.map].low) \in Int
      BY <3>1 DEF MaxLpa
    <3>3. QED
      BY <1>1, <2>2, <3>1, <3>2, RandPart DEF SamerowJobs
  <2>3. QED
    BY <2>1, <2>2
<1>4. ASSUME Temp
      PROVE  Part(SpreadJobs, {2})
  <2>1. CASE Skipped("spread")
    BY <2>1, NoPart DEF SpreadJobs
  <2>2. CASE ~Skipped("spread")
    <3>1. Registered /\ ColumnSteps[config.map].high \in Nat
      BY <1>4, <2>2, StepAssumption DEF NeedsMap, Registered
    <3>2. MaxLpa(ColumnSteps[config.map].high) \in Int
      BY <3>1 DEF MaxLpa
    <3>3. QED
      BY <1>1, <1>4, <2>2, <3>1, <3>2, RandPart DEF SpreadJobs
  <2>3. QED
    BY <2>1, <2>2
<1>5. QED
  BY <1>2, <1>3, <1>4

LEMMA Joined ==
    ASSUME NEW s, NEW t, NEW A, NEW B, Part(s, A), Part(t, B), A \cap B = {}
    PROVE  Part(s \o t, A \cup B)
<1>1. s \in Seq(JobType) /\ t \in Seq(JobType) /\ Distinct(s) /\ Distinct(t)
  BY DEF Part
<1>2. \A k \in DOMAIN s, l \in DOMAIN t : s[k] # t[l]
  BY DEF Part
<1>3. /\ s \o t \in Seq(JobType) /\ Distinct(s \o t)
      /\ \A k \in DOMAIN (s \o t) : \/ \E l \in DOMAIN s : (s \o t)[k] = s[l]
                                   \/ \E l \in DOMAIN t : (s \o t)[k] = t[l]
  BY <1>1, <1>2, DistinctConcat
<1> DEFINE u == s \o t
<1> HIDE DEF u
<1>4. /\ u \in Seq(JobType) /\ Distinct(u)
      /\ \A k \in DOMAIN u : (\E l \in DOMAIN s : u[k] = s[l]) \/ (\E l \in DOMAIN t : u[k] = t[l])
  BY <1>3 DEF u
<1>5. ASSUME NEW k \in DOMAIN u
      PROVE  u[k].access \in A \cup B /\ Scheduled(u[k])
  <2>1. CASE \E l \in DOMAIN s : u[k] = s[l]
    BY <2>1 DEF Part
  <2>2. CASE \E l \in DOMAIN t : u[k] = t[l]
    BY <2>2 DEF Part
  <2>3. QED
    BY <1>4, <2>1, <2>2
<1>6. Part(u, A \cup B)
  BY <1>4, <1>5 DEF Part
<1>7. QED
  BY <1>6 DEF u

\* What build_jobs returns: no job twice, and none the mapping cannot serve.
LEMMA BuiltJobs ==
    ASSUME config \in Configs, NeedsMap => Registered
    PROVE  \E A : Part(IF Temp THEN TempJobs ELSE MainJobs, A)
<1> DEFINE Con == IF Skipped("consecutive") THEN <<>> ELSE ConsecutiveJobs
<1> DEFINE Str == IF Skipped("stream") THEN <<>> ELSE StreamJob
<1>1. Part(Con, {0}) /\ Part(Str, {None}) /\ Part(StreamJob, {None})
  BY Parts, NoPart, StreamPart
<1>2. {None} \cap {0} = {} /\ ({None} \cup {0}) \cap {1} = {} /\ (({None} \cup {0}) \cup {1}) \cap {2} = {}
  BY DEF None
<1> HIDE DEF Con, Str
<1>3. ASSUME Temp
      PROVE  Part(((Str \o Con) \o SamerowJobs) \o SpreadJobs, (({None} \cup {0}) \cup {1}) \cup {2})
  <2>1. Part(Str \o Con, {None} \cup {0})
    BY <1>1, <1>2, Joined
  <2>2. Part((Str \o Con) \o SamerowJobs, ({None} \cup {0}) \cup {1})
    BY <1>2, <2>1, Parts, Joined
  <2>3. QED
    BY <1>2, <1>3, <2>2, Parts, Joined
<1>4. Part((StreamJob \o Con) \o SamerowJobs, ({None} \cup {0}) \cup {1})
  <2>1. Part(StreamJob \o Con, {None} \cup {0})
    BY <1>1, <1>2, Joined
  <2>2. QED
    BY <1>2, <2>1, Parts, Joined
<1>5. QED
  BY <1>3, <1>4 DEF TempJobs, MainJobs, Con, Str

------------------------------------------------------------------------------
(* The plan of cores.                                                      *)

LEMMA NodeCpus ==
    ASSUME config \in Configs
    PROVE  IsFiniteSet(node_cpus) /\ NumCpus \in Nat
<1> DEFINE N == Nat \cup {None}
<1> DEFINE Ranges == {r[1] .. r[2] : r \in Range(config.cpulist)}
<1>1. IsFiniteSet(0 .. OnlineCpus - 1)
  BY CpuAssumption, FS_Interval
<1>2. config.cpulist \in Seq(N \X N)
  BY ConfigAssumption
<1>3. IsFiniteSet(DOMAIN config.cpulist)
  <2>1. Len(config.cpulist) \in Nat /\ DOMAIN config.cpulist = 1 .. Len(config.cpulist)
    BY <1>2
  <2>2. QED
    BY <2>1, FS_Interval
<1>4. Ranges = {config.cpulist[k][1] .. config.cpulist[k][2] : k \in DOMAIN config.cpulist}
  BY DEF Range
<1>5. IsFiniteSet(Ranges)
  <2> DEFINE f == [k \in DOMAIN config.cpulist |-> config.cpulist[k][1] .. config.cpulist[k][2]]
  <2>1. f \in Surjection(DOMAIN config.cpulist, Ranges)
    BY <1>4 DEF Surjection
  <2>2. QED
    BY <1>3, <2>1, FS_Surjection
<1>6. \A S \in Ranges : IsFiniteSet(S)
  <2>1. ASSUME NEW k \in DOMAIN config.cpulist
        PROVE  config.cpulist[k][1] \in Int /\ config.cpulist[k][2] \in Int
    BY <1>2 DEF None
  <2>2. ASSUME NEW k \in DOMAIN config.cpulist
        PROVE  IsFiniteSet(config.cpulist[k][1] .. config.cpulist[k][2])
    BY <2>1, FS_Interval
  <2>3. QED
    BY <1>4, <2>2
<1>7. IsFiniteSet(UNION Ranges)
  BY <1>5, <1>6, FS_UNION
<1>8. IsFiniteSet(node_cpus)
  BY <1>1, <1>7 DEF node_cpus
<1>9. QED
  BY <1>8, FS_CardinalityType DEF NumCpus

LEMMA MaxCores ==
    ASSUME config \in Configs
    PROVE  max_cores \in 0 .. NumCpus
BY NodeCpus, ConfigAssumption DEF max_cores, None

LEMMA TimesMonotone ==
    ASSUME NEW a \in Int, NEW b \in Int, NEW q \in Nat, a <= b
    PROVE  a * q <= b * q
OBVIOUS

\* The range of numbers from start that are at most max, in steps of step.
LEMMA StepsFit ==
    ASSUME NEW start \in Nat, NEW max \in Nat, NEW step \in Nat, step > 0, start <= max
    PROVE  LET q == (max - start) \div step
           IN  /\ q \in Nat
               /\ start + q * step <= max /\ max < start + q * step + step
               /\ \A k \in 1 .. q + 1 : start + (k - 1) * step \in start .. max
               /\ \A k, l \in 1 .. q + 1 : k < l =>
                     start + (k - 1) * step < start + (l - 1) * step
<1> DEFINE q == (max - start) \div step
<1>1. q \in Nat /\ q * step <= max - start /\ max - start < q * step + step
  OBVIOUS
<1> HIDE DEF q
<1>2. ASSUME NEW k \in 1 .. q + 1
      PROVE  start + (k - 1) * step \in start .. max
  <2>1. (k - 1) * step <= q * step
    BY <1>1, TimesMonotone
  <2>2. (k - 1) * step \in Nat
    BY <1>1
  <2>3. q * step \in Nat
    BY <1>1
  <2>4. QED
    BY <1>1, <2>1, <2>2, <2>3
<1>3. ASSUME NEW k \in 1 .. q + 1, NEW l \in 1 .. q + 1, k < l
      PROVE  start + (k - 1) * step < start + (l - 1) * step
  <2>1. k * step <= (l - 1) * step
    BY <1>1, <1>3, TimesMonotone
  <2>2. k * step = (k - 1) * step + step
    BY <1>1
  <2>3. (k - 1) * step \in Int /\ (l - 1) * step \in Int /\ k * step \in Int
    BY <1>1
  <2>4. QED
    BY <2>1, <2>2, <2>3
<1>4. start + q * step <= max /\ max < start + q * step + step
  <2>1. q * step \in Nat
    BY <1>1
  <2>2. QED
    BY <1>1, <2>1
<1>5. QED
  BY <1>1, <1>2, <1>3, <1>4 DEF q

CorePlanOf(s) == /\ s \in Seq(0 .. NumCpus) /\ s # <<>>
                 /\ s[1] = config.start /\ s[Len(s)] = max_cores
                 /\ \A k \in 1 .. Len(s) - 1 : s[k + 1] - s[k] \in 1 .. config.step
                 /\ \A k, l \in DOMAIN s : k < l => s[k] < s[l]

LEMMA CoreListFacts ==
    ASSUME config \in Configs, config.step > 0, config.start <= max_cores
    PROVE  CorePlanOf(CoreList)
<1> DEFINE st == config.start
<1> DEFINE d == config.step
<1> DEFINE m == max_cores
<1> DEFINE q == Steps
<1> DEFINE r == CoreRange
<1>1. st \in Nat /\ d \in Nat /\ d > 0 /\ m \in Nat /\ st <= m
  BY MaxCores, NodeCpus, ConfigAssumption
<1>2. /\ q \in Nat
      /\ st + q * d <= m /\ m < st + q * d + d
      /\ \A k \in 1 .. q + 1 : st + (k - 1) * d \in st .. m
      /\ \A k, l \in 1 .. q + 1 : k < l => st + (k - 1) * d < st + (l - 1) * d
  <2> HIDE DEF st, d, m
  <2>1. LET p == (m - st) \div d
        IN  /\ p \in Nat
            /\ st + p * d <= m /\ m < st + p * d + d
            /\ \A k \in 1 .. p + 1 : st + (k - 1) * d \in st .. m
            /\ \A k, l \in 1 .. p + 1 : k < l => st + (k - 1) * d < st + (l - 1) * d
    BY <1>1, StepsFit
  <2>2. q = (m - st) \div d
    BY DEF Steps, m, st, d
  <2>3. QED
    BY <2>1, <2>2
<1>3. /\ \A k \in 1 .. q + 1 : r[k] = st + (k - 1) * d
      /\ DOMAIN r = 1 .. q + 1
  BY DEF CoreRange
<1>4. r \in Seq(0 .. NumCpus) /\ Len(r) = q + 1
  <2>1. \A k \in 1 .. q + 1 : st + (k - 1) * d \in 0 .. NumCpus
    BY <1>1, <1>2, MaxCores, NodeCpus
  <2>2. QED
    BY <1>2, <2>1 DEF CoreRange
<1>5. r[1] = st
  <2>1. r[1] = st + (1 - 1) * d
    BY <1>2, <1>3
  <2>2. (1 - 1) * d = 0
    BY <1>1
  <2>3. QED
    BY <1>1, <2>1, <2>2
<1>6. r[q + 1] = st + q * d
  BY <1>2, <1>3
<1>7. ASSUME NEW k \in 1 .. q
      PROVE  r[k + 1] - r[k] = d
  <2>1. r[k + 1] = st + k * d /\ r[k] = st + (k - 1) * d
    BY <1>2, <1>3
  <2>2. k * d = (k - 1) * d + d /\ k * d \in Int /\ (k - 1) * d \in Int
    BY <1>1, <1>2
  <2>3. QED
    BY <1>1, <2>1, <2>2
<1>8. \A k, l \in DOMAIN r : k < l => r[k] < r[l]
  BY <1>2, <1>3
<1>9. CASE r[q + 1] = m
  <2>1. CoreList = r
    BY <1>9 DEF CoreList
  <2> HIDE DEF r, st, d, m, q
  <2>2. /\ r # <<>> /\ r[Len(r)] = m
        /\ \A k \in 1 .. Len(r) - 1 : r[k + 1] - r[k] \in 1 .. d
    BY <1>1, <1>2, <1>4, <1>7, <1>9
  <2>3. QED
    BY <1>4, <1>5, <1>8, <2>1, <2>2 DEF CorePlanOf, st, d, m
<1>10. CASE r[q + 1] # m
  <2> DEFINE s == Append(r, m)
  <2>1. CoreList = s
    BY <1>10 DEF CoreList
  <2>2. m \in 0 .. NumCpus
    BY MaxCores
  <2>3. q \in Nat /\ r[q + 1] \in st .. m
    BY <1>2, <1>3
  <2> HIDE DEF r, st, d, m, q
  <2>4. /\ s \in Seq(0 .. NumCpus) /\ Len(s) = q + 2 /\ s[q + 2] = m
        /\ \A k \in 1 .. q + 1 : s[k] = r[k]
    BY <1>4, <2>2, <2>3
  <2> HIDE DEF s
  <2>5. r[q + 1] < m /\ m - r[q + 1] <= d
    <3>1. q * d \in Nat
      BY <1>1, <1>2
    <3>2. QED
      BY <1>1, <1>2, <1>6, <1>10, <2>3, <3>1
  <2>6. /\ s # <<>> /\ s[1] = st /\ s[Len(s)] = m
    BY <1>5, <2>3, <2>4
  <2>7. ASSUME NEW k \in 1 .. Len(s) - 1
        PROVE  s[k + 1] - s[k] \in 1 .. d
    <3>1. CASE k <= q
      BY <1>1, <1>7, <2>3, <2>4, <3>1
    <3>2. CASE k = q + 1
      BY <1>1, <2>3, <2>4, <2>5, <3>2
    <3>3. QED
      BY <2>3, <2>4, <3>1, <3>2
  <2>8. ASSUME NEW k \in DOMAIN s, NEW l \in DOMAIN s, k < l
        PROVE  s[k] < s[l]
    <3>1. DOMAIN s = 1 .. q + 2
      BY <2>3, <2>4
    <3>2. CASE l <= q + 1
      BY <1>3, <1>8, <2>3, <2>4, <2>8, <3>1, <3>2
    <3>3. CASE l = q + 2
      <4>1. k \in 1 .. q + 1 /\ q + 1 \in 1 .. q + 1
        BY <2>3, <2>8, <3>1, <3>3
      <4>2. r[k] <= r[q + 1] /\ r[k] \in Int
        BY <1>2, <1>3, <1>8, <2>3, <4>1
      <4>3. QED
        BY <1>1, <2>3, <2>4, <2>5, <3>3, <4>1, <4>2
    <3>4. QED
      BY <2>3, <3>1, <3>2, <3>3
  <2>9. QED
    BY <2>1, <2>4, <2>6, <2>7, <2>8 DEF CorePlanOf, st, d, m
<1>11. QED
  BY <1>9, <1>10

\* The list of the node's CPUs holds as many as there are.
LEMMA CpuList ==
    ASSUME config \in Configs, NEW n \in 0 .. NumCpus
    PROVE  Len(SubSeq(numa_node_cpus, 1, n)) = n
<1> DEFINE s == numa_node_cpus
<1>1. NumCpus \in Nat
  BY NodeCpus
<1>2. s \in Seq(Range(s)) /\ Len(s) = NumCpus
  <2> DEFINE e(k) == CHOOSE cpu \in node_cpus : Cardinality(Below(cpu)) = k - 1
  <2>1. s = [k \in 1 .. NumCpus |-> e(k)]
    BY DEF numa_node_cpus
  <2> HIDE DEF s, e
  <2>2. DOMAIN s = 1 .. NumCpus /\ s \in [1 .. NumCpus -> Range(s)]
    BY <2>1 DEF Range
  <2>3. QED
    BY <1>1, <2>2
<1> HIDE DEF s
<1>3. QED
  BY <1>1, <1>2

------------------------------------------------------------------------------
(* Rows and runs.                                                          *)

LEMMA AppendRange ==
    ASSUME NEW s, s \in Seq(Range(s)), NEW x
    PROVE  LET t == Append(s, x)
           IN  /\ t \in Seq(Range(t)) /\ Range(t) = Range(s) \cup {x}
               /\ Len(t) = Len(s) + 1 /\ Len(s) \in Nat
               /\ DOMAIN s = 1 .. Len(s) /\ DOMAIN t = 1 .. Len(t)
               /\ \A k \in 1 .. Len(s) : t[k] = s[k]
               /\ t[Len(s) + 1] = x
<1> DEFINE t == Append(s, x)
<1>1. /\ Len(t) = Len(s) + 1 /\ Len(s) \in Nat
      /\ DOMAIN s = 1 .. Len(s) /\ DOMAIN t = 1 .. Len(t)
      /\ \A k \in 1 .. Len(s) : t[k] = s[k]
      /\ t[Len(s) + 1] = x
  OBVIOUS
<1> HIDE DEF t
<1>2. Range(t) = Range(s) \cup {x}
  BY <1>1 DEF Range
<1>3. t \in Seq(Range(s) \cup {x})
  BY DEF t
<1>4. QED
  BY <1>1, <1>2, <1>3 DEF t

\* k is the first of the greatest of the first n numbers.
Ahead(f, n, k) == \A l \in 1 .. n : f[l] < f[k] \/ (f[l] = f[k] /\ k <= l)

LEMMA AheadStep ==
    ASSUME NEW N \in Nat, NEW f \in [1 .. N -> Nat], NEW n \in Nat, n + 1 <= N,
           NEW k \in 1 .. n, Ahead(f, n, k)
    PROVE  \E m \in 1 .. n + 1 : Ahead(f, n + 1, m)
<1>1. /\ f[k] \in Nat /\ f[n + 1] \in Nat /\ k \in Nat /\ k <= n
      /\ \A l \in 1 .. n : f[l] \in Nat
  OBVIOUS
<1>2. CASE f[n + 1] > f[k]
  <2>1. ASSUME NEW l \in 1 .. n + 1
        PROVE  f[l] < f[n + 1] \/ (f[l] = f[n + 1] /\ n + 1 <= l)
    <3>1. CASE l = n + 1
      BY <1>1, <3>1
    <3>2. CASE l \in 1 .. n
      BY <1>1, <1>2, <3>2 DEF Ahead
    <3>3. QED
      BY <3>1, <3>2
  <2>2. Ahead(f, n + 1, n + 1)
    BY <2>1 DEF Ahead
  <2>3. QED
    BY <2>2
<1>3. CASE f[n + 1] <= f[k]
  <2>1. ASSUME NEW l \in 1 .. n + 1
        PROVE  f[l] < f[k] \/ (f[l] = f[k] /\ k <= l)
    <3>1. CASE l = n + 1
      BY <1>1, <1>3, <3>1
    <3>2. CASE l \in 1 .. n
      BY <3>2 DEF Ahead
    <3>3. QED
      BY <3>1, <3>2
  <2>2. Ahead(f, n + 1, k)
    BY <2>1 DEF Ahead
  <2>3. QED
    BY <2>2
<1>4. QED
  BY <1>1, <1>2, <1>3

LEMMA AheadExists ==
    ASSUME NEW N \in Nat, N >= 1, NEW f \in [1 .. N -> Nat]
    PROVE  \E k \in 1 .. N : Ahead(f, N, k)
<1> DEFINE Bad == {n \in 1 .. N : \A k \in 1 .. n : ~ Ahead(f, n, k)}
<1>1. ASSUME NEW n \in Bad, \A m \in Bad : n <= m
      PROVE  FALSE
  <2>1. n \in 1 .. N /\ \A k \in 1 .. n : ~ Ahead(f, n, k)
    OBVIOUS
  <2>2. n # 1
    <3>1. Ahead(f, 1, 1)
      BY DEF Ahead
    <3>2. QED
      BY <2>1, <3>1
  <2>3. n - 1 \in 1 .. N /\ n - 1 \in Nat /\ ~ (n <= n - 1) /\ (n - 1) + 1 = n
    BY <2>1, <2>2
  <2>4. n - 1 \notin Bad
    <3> HIDE DEF Bad
    <3>1. QED
      BY <1>1, <2>3
  <2>5. PICK k \in 1 .. n - 1 : Ahead(f, n - 1, k)
    BY <2>3, <2>4
  <2>6. \E m \in 1 .. (n - 1) + 1 : Ahead(f, (n - 1) + 1, m)
    BY <2>1, <2>3, <2>5, AheadStep
  <2>7. QED
    BY <2>1, <2>3, <2>6
<1>2. Bad = {}
  <2>1. Bad \subseteq Nat
    OBVIOUS
  <2> HIDE DEF Bad
  <2>2. QED
    BY <1>1, <2>1, NatMin
<1>3. N \notin Bad /\ N \in 1 .. N
  <2> HIDE DEF Bad
  <2>1. QED
    BY <1>2
<1>4. QED
  BY <1>3

\* max() finds the first of the best rows.
LEMMA FirstBestExists ==
    ASSUME NEW rows \in Seq(Row), rows # <<>>
    PROVE  \E k \in DOMAIN rows :
             /\ FirstBest(rows) = rows[k]
             /\ \A l \in DOMAIN rows :
                   rows[l].bw < rows[k].bw \/ (rows[l].bw = rows[k].bw /\ k <= l)
<1> DEFINE N == Len(rows)
<1> DEFINE f == [k \in 1 .. N |-> rows[k].bw]
<1>1. N \in Nat /\ N >= 1 /\ DOMAIN rows = 1 .. N
  OBVIOUS
<1>2. \A k \in 1 .. N : rows[k].bw \in Nat
  <2>1. \A k \in 1 .. N : rows[k] \in Row
    OBVIOUS
  <2>2. QED
    BY <2>1, BandwidthAssumption DEF Row
<1>3. f \in [1 .. N -> Nat]
  BY <1>2
<1>4. \E k \in 1 .. N : Ahead(f, N, k)
  <2> HIDE DEF f, N
  <2>1. QED
    BY <1>1, <1>3, AheadExists
<1>5. \E k \in DOMAIN rows : \A l \in DOMAIN rows :
          rows[l].bw < rows[k].bw \/ (rows[l].bw = rows[k].bw /\ k <= l)
  BY <1>1, <1>4 DEF Ahead
<1>6. QED
  BY <1>5 DEF FirstBest

------------------------------------------------------------------------------
(* What depends on config alone does not change.                           *)

LEMMA SameConfig ==
    ASSUME config' = config
    PROVE  /\ Row' = Row /\ File' = File /\ NumCpus' = NumCpus /\ max_cores' = max_cores
           /\ Matrix' = Matrix /\ Temp' = Temp /\ Registered' = Registered
           /\ SingleJob' = SingleJob /\ ValidSingle' = ValidSingle
BY DEF Row, File, NumCpus, max_cores, Matrix, Temp, Registered, SingleJob, ValidSingle, Mode, node_cpus

LEMMA SameJobs ==
    ASSUME config' = config, jobs' = jobs
    PROVE  Valid' = Valid
<1>1. ValidJobs' = ValidJobs
  BY DEF ValidJobs, HasJob, HasMapped, Registered
<1>2. QED
  BY <1>1, SameConfig DEF Valid

LEMMA ConfigKept == Next => config' = config
BY DEF Next, BuildJobs, NoSuchMap, ResolveMode, UnknownMode, Validate, Refuse, Plan, PlanFails,
       Measure, Collect, Reports, MeasureFails, Raises, EndJob, Report, EndMatrix, MakeDirs, WriteFails,
       WriteFull, WriteSummary, vars

------------------------------------------------------------------------------
(* The type invariant.                                                     *)

\* A step that leaves the jobs, the plan, the loops and the rows alone.
Quiet == UNCHANGED <<config, jobs, core_list, loops>>

LEMMA TypesQuiet ==
    ASSUME TypeOK, Quiet, full_csv' \in File, summary_csv' \in File,
           pc' \in {"validate", "plan", "run", "dirs", "full", "summary", "done", "died"}
    PROVE  TypeOK'
<1>1. config' = config
  BY DEF Quiet
<1>2. Row' = Row /\ File' = File /\ NumCpus' = NumCpus
  BY <1>1, SameConfig
<1>3. QED
  BY <1>1, <1>2 DEF TypeOK, Quiet, loops, history

LEMMA QuietActions ==
    ASSUME NoSuchMap \/ UnknownMode \/ Validate \/ Refuse \/ PlanFails \/ Raises \/ EndMatrix
             \/ MakeDirs \/ WriteFails \/ WriteFull \/ WriteSummary
    PROVE  Quiet
BY DEF Quiet, NoSuchMap, UnknownMode, Validate, Refuse, PlanFails, Raises, EndMatrix, MakeDirs,
       WriteFails, WriteFull, WriteSummary

\* A prefix of the rows is a list of rows.
LEMMA PrefixRows ==
    ASSUME NEW rows \in Seq(Row), NEW k \in 0 .. Len(rows) - 1
    PROVE  SubSeq(rows, 1, k) \in Seq(Row)
OBVIOUS

LEMMA TypesFiles ==
    ASSUME TypeOK,
           NoSuchMap \/ UnknownMode \/ Validate \/ Refuse \/ PlanFails \/ Raises \/ EndMatrix
             \/ MakeDirs \/ WriteFails \/ WriteFull \/ WriteSummary
    PROVE  /\ full_csv' \in File /\ summary_csv' \in File
           /\ pc' \in {"validate", "plan", "run", "dirs", "full", "summary", "done", "died"}
<1>1. /\ full_csv \in File /\ summary_csv \in File
      /\ full_rows \in Seq(Row) /\ summary_rows \in Seq(Row)
  BY DEF TypeOK
<1>2. \A rows \in Seq(Row) : [new |-> TRUE, rows |-> rows] \in File
  BY DEF File
<1>3. \A file \in File, rows \in Seq(Row) : Broken(file, rows) \subseteq File
  BY <1>2, PrefixRows DEF Broken
<1>4. CASE WriteFails
  BY <1>1, <1>3, <1>4 DEF WriteFails, Die
<1>5. CASE WriteFull \/ WriteSummary
  BY <1>1, <1>2, <1>5 DEF WriteFull, WriteSummary
<1>6. CASE NoSuchMap \/ UnknownMode \/ Validate \/ Refuse \/ PlanFails \/ Raises \/ EndMatrix \/ MakeDirs
  BY <1>1, <1>6 DEF NoSuchMap, UnknownMode, Validate, Refuse, PlanFails, Raises, EndMatrix, MakeDirs, Die, files
<1>7. QED
  BY <1>4, <1>5, <1>6

LEMMA TypesBuild ==
    ASSUME IInv, BuildJobs \/ ResolveMode
    PROVE  TypeOK' /\ (Matrix => \E A : Part(jobs', A))
<1>1. /\ config \in Configs /\ config' = config
      /\ Row' = Row /\ File' = File /\ NumCpus' = NumCpus /\ i' = i /\ j' = j /\ core_list' = core_list
      /\ pc = "build"
  BY SameConfig DEF IInv, TypeOK, BuildJobs, ResolveMode, loops
<1>2. j = 1 /\ i = 1
  BY <1>1 DEF IInv, Early
<1>3. Matrix => \E A : Part(jobs', A)
  BY <1>1, BuiltJobs DEF BuildJobs, ResolveMode
<1>4. jobs' \in Seq(JobType)
  <2>1. CASE BuildJobs
    BY <1>3, <2>1 DEF Part, BuildJobs
  <2>2. CASE ResolveMode
    <3>1. Mode \in {"stream", "rand"}
      BY <2>2 DEF ResolveMode, Mode, ModeArgs
    <3>2. Job(Mode, None, None) \in JobType
      BY <3>1 DEF Job, JobType
    <3>3. jobs' = <<Job(Mode, None, None)>>
      BY <2>2 DEF ResolveMode, SingleJob
    <3>4. QED
      BY <3>2, <3>3
  <2>3. QED
    BY <2>1, <2>2
<1>5. j' \in 1 .. Len(jobs') + 1 /\ i' \in 1 .. Len(core_list') + 1
  <2>1. Len(jobs') \in Nat /\ Len(core_list) \in Nat
    BY <1>4 DEF IInv, TypeOK
  <2>2. QED
    BY <1>1, <1>2, <2>1
<1>6. QED
  BY <1>1, <1>3, <1>4, <1>5 DEF IInv, TypeOK, BuildJobs, ResolveMode, loops, history, files

LEMMA TypesPlan ==
    ASSUME IInv, Plan
    PROVE  TypeOK' /\ CorePlanOf(core_list')
<1>1. config \in Configs /\ config' = config /\ pc = "plan" /\ i' = i /\ j' = j /\ jobs' = jobs
  BY DEF IInv, TypeOK, Plan, loops
<1>2. Row' = Row /\ File' = File /\ NumCpus' = NumCpus
  BY <1>1, SameConfig
<1>3. CorePlanOf(core_list')
  BY <1>1, CoreListFacts DEF Plan
<1>4. core_list' \in Seq(0 .. NumCpus)
  BY <1>3 DEF CorePlanOf
<1>5. i' \in 1 .. Len(core_list') + 1
  <2>1. i = 1
    BY <1>1 DEF IInv, Early
  <2>2. Len(core_list') \in Nat
    BY <1>4
  <2>3. QED
    BY <1>1, <2>1, <2>2
<1>6. QED
  BY <1>1, <1>2, <1>3, <1>4, <1>5 DEF IInv, TypeOK, Plan, loops, history, files

\* One run: its number of cores is one of the plan's, its CPUs are that many.
LEMMA RunFacts ==
    ASSUME TypeOK, Running
    PROVE  /\ config \in Configs
           /\ j \in DOMAIN jobs /\ i \in DOMAIN core_list /\ i \in Nat /\ j \in Nat
           /\ jobs[j] \in JobType /\ core_list[i] \in 0 .. NumCpus
           /\ Len(core_list) \in Nat /\ DOMAIN core_list = 1 .. Len(core_list)
           /\ Len(Cmd.cpus) = core_list[i]
           /\ Cmd = Command(config, jobs[j], Cmd.cpus)
<1>1. /\ config \in Configs /\ jobs \in Seq(JobType) /\ core_list \in Seq(0 .. NumCpus)
      /\ j \in 1 .. Len(jobs) + 1 /\ i \in 1 .. Len(core_list) + 1
      /\ j <= Len(jobs) /\ i <= Len(core_list)
  BY DEF TypeOK, Running
<1>2. /\ Len(jobs) \in Nat /\ DOMAIN jobs = 1 .. Len(jobs)
      /\ Len(core_list) \in Nat /\ DOMAIN core_list = 1 .. Len(core_list)
  BY <1>1
<1>3. j \in DOMAIN jobs /\ i \in DOMAIN core_list /\ i \in Nat /\ j \in Nat
  BY <1>1, <1>2
<1>4. jobs[j] \in JobType /\ core_list[i] \in 0 .. NumCpus
  <2>1. jobs[j] \in JobType
    BY <1>3 DEF TypeOK
  <2>2. core_list[i] \in 0 .. NumCpus
    <3> DEFINE S == 0 .. NumCpus
    <3>1. core_list \in Seq(S)
      BY <1>1
    <3> HIDE DEF S
    <3>2. core_list[i] \in S
      BY <1>3, <3>1
    <3>3. QED
      BY <3>2 DEF S
  <2>3. QED
    BY <2>1, <2>2
<1>5. Cmd.cpus = SubSeq(numa_node_cpus, 1, core_list[i])
  BY DEF Cmd, Command
<1>6. Len(Cmd.cpus) = core_list[i]
  BY <1>1, <1>4, <1>5, CpuList
<1>7. Cmd = Command(config, jobs[j], Cmd.cpus)
  BY <1>5 DEF Cmd
<1>8. QED
  BY <1>1, <1>2, <1>3, <1>4, <1>6, <1>7

LEMMA RowTyped ==
    ASSUME TypeOK, Running, config.peak > 0, NEW bw \in Bandwidths
    PROVE  RowOf(jobs[j], core_list[i], bw) \in Row
<1>1. jobs[j] \in JobType /\ core_list[i] \in 0 .. NumCpus /\ config \in Configs
  BY RunFacts
<1>2. Pct(bw) \in Nat
  <2>1. bw \in Nat /\ config.peak \in Nat
    BY <1>1, BandwidthAssumption, ConfigAssumption
  <2>2. QED
    BY <2>1 DEF Pct
<1>3. QED
  BY <1>1, <1>2 DEF RowOf, Row, JobType

\* What the three actions that run a benchmark have in common.
LEMMA RunStep ==
    ASSUME TypeOK, Measure \/ Collect \/ MeasureFails
    PROVE  /\ Running /\ UNCHANGED <<config, pc, jobs, core_list, j, summary_rows, files>>
           /\ i' = i + 1
           /\ \E out \in Bandwidths \cup {None} :
                /\ log' = Append(log, Run(out))
                /\ out = None => UNCHANGED <<best, full_rows, measured>>
                /\ out # None =>
                     LET row == RowOf(jobs[j], core_list[i], out)
                     IN  /\ config.peak > 0 /\ row \in Row /\ out \in Bandwidths
                         /\ measured' = Append(measured, Run(out))
                         /\ full_rows' = Append(full_rows, row)
                         /\ best' = IF Matrix /\ Better(row) THEN row ELSE best
<1>1. None \notin Bandwidths
  BY BandwidthAssumption DEF None
<1>2. CASE MeasureFails
  BY <1>2 DEF MeasureFails, Skip
<1>3. CASE Measure
  <2>1. PICK bw \in Bandwidths :
          LET row == RowOf(jobs[j], core_list[i], bw)
          IN  Reports(bw) /\ best' = IF Better(row) THEN row ELSE best
    BY <1>3 DEF Measure
  <2>2. Running /\ config.peak > 0 /\ Matrix
    BY <1>3, <2>1 DEF Reports, Measure
  <2>3. RowOf(jobs[j], core_list[i], bw) \in Row
    BY <2>2, RowTyped
  <2>4. QED
    BY <1>1, <2>1, <2>2, <2>3 DEF Reports
<1>4. CASE Collect
  <2>1. PICK bw \in Bandwidths : Reports(bw) /\ best' = best
    BY <1>4 DEF Collect
  <2>2. Running /\ config.peak > 0 /\ ~Matrix
    BY <1>4, <2>1 DEF Reports, Collect
  <2>3. RowOf(jobs[j], core_list[i], bw) \in Row
    BY <2>2, RowTyped
  <2>4. QED
    BY <1>1, <2>1, <2>2, <2>3 DEF Reports
<1>5. QED
  BY <1>2, <1>3, <1>4

LEMMA TypesRun ==
    ASSUME TypeOK, Measure \/ Collect \/ MeasureFails
    PROVE  TypeOK'
<1>1. Running /\ UNCHANGED <<config, pc, jobs, core_list, j, summary_rows, files>> /\ i' = i + 1
  BY RunStep
<1>2. Row' = Row /\ File' = File /\ NumCpus' = NumCpus
  BY <1>1, SameConfig
<1>3. PICK out \in Bandwidths \cup {None} :
        /\ log' = Append(log, Run(out))
        /\ out = None => UNCHANGED <<best, full_rows, measured>>
        /\ out # None =>
             LET row == RowOf(jobs[j], core_list[i], out)
             IN  /\ config.peak > 0 /\ row \in Row /\ out \in Bandwidths
                 /\ measured' = Append(measured, Run(out))
                 /\ full_rows' = Append(full_rows, row)
                 /\ best' = IF Matrix /\ Better(row) THEN row ELSE best
  BY RunStep
<1>4. log' \in Seq(Range(log'))
  BY <1>3, AppendRange DEF TypeOK
<1>5. measured' \in Seq(Range(measured'))
  <2>1. CASE out = None
    BY <1>3, <2>1 DEF TypeOK
  <2>2. CASE out # None
    <3>1. measured \in Seq(Range(measured)) /\ measured' = Append(measured, Run(out))
      BY <1>3, <2>2 DEF TypeOK
    <3>2. QED
      BY <3>1, AppendRange
  <2>3. QED
    BY <2>1, <2>2
<1>6. full_rows' \in Seq(Row) /\ best' \in Row \cup {NoRow}
  <2>1. full_rows \in Seq(Row) /\ best \in Row \cup {NoRow}
    BY DEF TypeOK
  <2>2. CASE out = None
    BY <1>3, <2>1, <2>2
  <2>3. CASE out # None
    <3> DEFINE row == RowOf(jobs[j], core_list[i], out)
    <3>1. row \in Row /\ full_rows' = Append(full_rows, row) /\ best' \in {row, best}
      BY <1>3, <2>3
    <3> HIDE DEF row
    <3>2. QED
      BY <2>1, <3>1
  <2>4. QED
    BY <2>2, <2>3
<1>7. i' \in 1 .. Len(core_list') + 1
  BY <1>1, RunFacts
<1>8. NoRow' = NoRow
  BY DEF NoRow
<1>9. QED
  BY <1>1, <1>2, <1>4, <1>5, <1>6, <1>7, <1>8 DEF TypeOK, files

LEMMA TypesEndJob ==
    ASSUME TypeOK, EndJob
    PROVE  TypeOK'
<1>1. config' = config /\ jobs' = jobs /\ core_list' = core_list
  BY DEF EndJob
<1>2. Row' = Row /\ File' = File /\ NumCpus' = NumCpus
  BY <1>1, SameConfig
<1>3. summary_rows' \in Seq(Row)
  BY DEF TypeOK, EndJob
<1>4. j' \in 1 .. Len(jobs') + 1 /\ i' \in 1 .. Len(core_list') + 1
  <2>1. Len(jobs) \in Nat /\ Len(core_list) \in Nat
    BY DEF TypeOK
  <2>2. QED
    BY <1>1, <2>1 DEF TypeOK, EndJob
<1>5. QED
  BY <1>1, <1>2, <1>3, <1>4 DEF TypeOK, EndJob, history, files, NoRow

LEMMA TypesReport ==
    ASSUME IInv, Report
    PROVE  TypeOK'
<1>1. config' = config /\ jobs' = jobs /\ core_list' = core_list /\ TypeOK
  BY DEF Report, IInv
<1>2. Row' = Row /\ File' = File /\ NumCpus' = NumCpus
  BY <1>1, SameConfig
<1>3. summary_rows' \in Seq(Row) /\ pc' \in {"done", "died"}
  <2>1. CASE full_rows = <<>>
    BY <1>1, <2>1 DEF TypeOK, Report, Die
  <2>2. CASE full_rows # <<>>
    <3>1. FirstBest(full_rows) \in Row
      BY <1>1, <2>2, FirstBestExists DEF TypeOK
    <3>2. QED
      <4>1. summary_rows' = <<FirstBest(full_rows)>> /\ pc' = "done"
        BY <2>2 DEF Report
      <4>2. QED
        BY <3>1, <4>1
  <2>3. QED
    BY <2>1, <2>2
<1>4. j' \in 1 .. Len(jobs') + 1 /\ i' \in 1 .. Len(core_list') + 1
  <2>1. Len(jobs) \in Nat /\ Len(core_list) \in Nat
    BY <1>1 DEF TypeOK
  <2>2. ~Matrix /\ pc = "run"
    BY DEF Report
  <2>3. j = 1
    BY <2>2 DEF IInv, JobPlan
  <2>4. Len(jobs) >= 1
    BY <2>1, <2>2 DEF IInv, JobPlan, TypeOK
  <2>5. QED
    BY <1>1, <2>1, <2>3, <2>4 DEF Report
<1>5. QED
  BY <1>1, <1>2, <1>3, <1>4 DEF TypeOK, Report, history, files, NoRow

LEMMA TypesStep ==
    ASSUME IInv, Next
    PROVE  TypeOK'
<1>1. TypeOK
  BY DEF IInv
<1>2. CASE BuildJobs \/ ResolveMode
  BY <1>2, TypesBuild
<1>3. CASE Plan
  BY <1>3, TypesPlan
<1>4. CASE Measure \/ Collect \/ MeasureFails
  BY <1>1, <1>4, TypesRun
<1>5. CASE EndJob
  BY <1>1, <1>5, TypesEndJob
<1>6. CASE Report
  BY <1>6, TypesReport
<1>7. CASE NoSuchMap \/ UnknownMode \/ Validate \/ Refuse \/ PlanFails \/ Raises \/ EndMatrix
             \/ MakeDirs \/ WriteFails \/ WriteFull \/ WriteSummary
  BY <1>1, <1>7, TypesFiles, TypesQuiet, QuietActions
<1>8. QED
  BY <1>2, <1>3, <1>4, <1>5, <1>6, <1>7 DEF Next

------------------------------------------------------------------------------
(* The other parts of the invariant.                                       *)

\* Only building the jobs changes them, only the plan changes the cores, and only the
\* three actions of a run change the log.
LEMMA WhoChanges ==
    ASSUME Next
    PROVE  /\ ~ (BuildJobs \/ ResolveMode) => jobs' = jobs
           /\ ~ Plan => core_list' = core_list
           /\ ~ (Measure \/ Collect \/ MeasureFails) =>
                 UNCHANGED <<log, measured, full_rows>>
           /\ ~ (Measure \/ EndJob) => best' = best
           /\ ~ (Measure \/ Collect \/ MeasureFails \/ EndJob \/ Report) => UNCHANGED <<i, j>>
           /\ ~ (EndJob \/ Report) => j' = j /\ summary_rows' = summary_rows
<1>1. CASE BuildJobs \/ ResolveMode \/ Plan
  BY <1>1 DEF BuildJobs, ResolveMode, Plan, loops, history
<1>2. CASE Measure \/ Collect \/ MeasureFails
  BY <1>2 DEF Measure, Collect, Reports, MeasureFails
<1>3. CASE EndJob \/ Report
  BY <1>3 DEF EndJob, Report, history
<1>4. CASE NoSuchMap \/ UnknownMode \/ Validate \/ Refuse \/ PlanFails \/ Raises \/ EndMatrix
             \/ MakeDirs \/ WriteFails \/ WriteFull \/ WriteSummary
  BY <1>4, QuietActions DEF Quiet, loops, history
<1>5. QED
  BY <1>1, <1>2, <1>3, <1>4 DEF Next

LEMMA EarlyStep ==
    ASSUME IInv, Next
    PROVE  Early'
<1>1. config' = config /\ Early
  BY ConfigKept DEF IInv
<1>2. CASE BuildJobs \/ ResolveMode
  BY <1>1, <1>2 DEF Early, BuildJobs, ResolveMode, loops, history
<1>3. jobs' = jobs => Valid' = Valid
  BY <1>1, SameJobs
<1>4. CASE Plan
  BY <1>1, <1>3, <1>4 DEF Early, Plan, loops, history
<1>5. CASE Validate
  BY <1>1, <1>3, <1>5 DEF Early, Validate, loops, history
<1>6. CASE NoSuchMap \/ UnknownMode \/ Refuse \/ PlanFails \/ Raises
  BY <1>1, <1>3, <1>6 DEF Early, NoSuchMap, UnknownMode, Refuse, PlanFails, Raises, Die, loops, history
<1>7. CASE Measure \/ Collect \/ MeasureFails
  <2>1. pc = "run" /\ pc' = "run" /\ jobs' = jobs
    BY <1>7 DEF Measure, Collect, Reports, MeasureFails, Running
  <2>2. QED
    BY <1>1, <1>3, <2>1 DEF Early
<1>8. CASE EndJob \/ Report
  BY <1>1, <1>3, <1>8 DEF Early, EndJob, Report, Die, history
<1>9. CASE EndMatrix \/ MakeDirs \/ WriteFails \/ WriteFull \/ WriteSummary
  BY <1>1, <1>3, <1>9 DEF Early, EndMatrix, MakeDirs, WriteFails, WriteFull, WriteSummary, Die, loops, history
<1>10. QED
  BY <1>2, <1>4, <1>5, <1>6, <1>7, <1>8, <1>9 DEF Next

LEMMA JobPlanStep ==
    ASSUME IInv, Next
    PROVE  JobPlan'
<1>1. config' = config /\ JobPlan /\ (Matrix' = Matrix) /\ (SingleJob' = SingleJob)
  BY ConfigKept, SameConfig DEF IInv
<1>2. CASE BuildJobs
  <2>1. Matrix /\ pc' = "validate"
    BY <1>2 DEF BuildJobs
  <2>2. PICK A : Part(jobs', A)
    BY <1>2, <2>1, TypesBuild
  <2>3. \A k \in DOMAIN jobs' : Scheduled(jobs'[k])
    BY <2>2 DEF Part
  <2>4. \A k \in DOMAIN jobs' : Scheduled(jobs[k])'
    BY <1>1, <2>3 DEF Scheduled, Registered
  <2>5. \A k, l \in DOMAIN jobs' : jobs'[k] = jobs'[l] => k = l
    BY <2>2 DEF Part, Distinct
  <2>6. QED
    BY <1>1, <2>1, <2>4, <2>5 DEF JobPlan
<1>3. CASE ResolveMode
  <2>1. /\ ~Matrix /\ jobs' = SingleJob /\ config.arg \in DOMAIN ModeArgs
        /\ j' = j /\ j = 1
    BY <1>3 DEF ResolveMode, IInv, Early, loops
  <2>2. DOMAIN SingleJob = {1} /\ SingleJob # <<>>
    BY DEF SingleJob
  <2>3. QED
    BY <1>1, <2>1, <2>2 DEF JobPlan, ModeArgs
<1>4. CASE ~ (BuildJobs \/ ResolveMode)
  <2>1. jobs' = jobs
    BY <1>4, WhoChanges
  <2>2. Matrix' => \A k \in DOMAIN jobs' : Scheduled(jobs[k])'
    BY <1>1, <2>1 DEF JobPlan, Scheduled, Registered
  <2>3. (~Matrix /\ pc' \in {"validate", "plan", "run"}) => j' = 1 /\ jobs # <<>>
    <3>1. CASE EndJob \/ Report
      BY <3>1 DEF EndJob, Report, Die
    <3>2. CASE Measure \/ Collect \/ MeasureFails
      <4>1. pc = "run" /\ j' = j
        BY <3>2 DEF Measure, Collect, Reports, MeasureFails, Running
      <4>2. QED
        BY <1>1, <4>1 DEF JobPlan
    <3>3. CASE NoSuchMap \/ UnknownMode \/ Validate \/ Refuse \/ Plan \/ PlanFails \/ Raises
      BY <1>1, <3>3 DEF JobPlan, NoSuchMap, UnknownMode, Validate, Refuse, Plan, PlanFails, Raises, Die, loops
    <3>4. CASE EndMatrix \/ MakeDirs \/ WriteFails \/ WriteFull \/ WriteSummary
      BY <3>4 DEF EndMatrix, MakeDirs, WriteFails, WriteFull, WriteSummary, Die
    <3>5. QED
      BY <1>4, <3>1, <3>2, <3>3, <3>4 DEF Next
  <2>4. QED
    BY <1>1, <2>1, <2>2, <2>3 DEF JobPlan, ModeArgs
<1>5. QED
  BY <1>2, <1>3, <1>4

LEMMA CorePlanStep ==
    ASSUME IInv, Next
    PROVE  CorePlan'
<1>1. config' = config /\ max_cores' = max_cores /\ CorePlan
  BY ConfigKept, SameConfig DEF IInv
<1>2. CASE Plan
  <2>1. CorePlanOf(core_list')
    BY <1>2, TypesPlan
  <2>2. QED
    BY <1>1, <2>1 DEF CorePlanOf, CorePlan
<1>3. CASE ~Plan
  BY <1>1, <1>3, WhoChanges DEF CorePlan
<1>4. QED
  BY <1>2, <1>3

\* A run adds one record to the log.
LEMMA LogGrows ==
    ASSUME IInv, Measure \/ Collect \/ MeasureFails
    PROVE  \E out \in Bandwidths \cup {None} :
             /\ Range(log') = Range(log) \cup {Run(out)}
             /\ Len(log') = Len(log) + 1 /\ Len(log) \in Nat
             /\ \A k \in 1 .. Len(log) : log'[k] = log[k]
             /\ log'[Len(log) + 1] = Run(out)
<1>1. log \in Seq(Range(log))
  BY DEF IInv, TypeOK
<1>2. TypeOK
  BY DEF IInv
<1>3. PICK out \in Bandwidths \cup {None} : log' = Append(log, Run(out))
  BY <1>2, RunStep
<1>4. QED
  BY <1>1, <1>3, AppendRange

LEMMA EmptyRange == Range(<<>>) = {}
BY DEF Range

LEMMA LoggedStep ==
    ASSUME IInv, Next
    PROVE  Logged'
<1>1. config' = config /\ NumCpus' = NumCpus /\ TypeOK /\ Logged
  BY ConfigKept, SameConfig DEF IInv
<1>2. CASE Measure \/ Collect \/ MeasureFails
  <2>1. /\ Running /\ jobs' = jobs /\ j' = j /\ i' = i + 1
    BY <1>1, <1>2, RunStep
  <2>2. PICK out \in Bandwidths \cup {None} : Range(log') = Range(log) \cup {Run(out)}
    BY <1>2, LogGrows
  <2>3. /\ j \in DOMAIN jobs /\ i \in Nat /\ j \in Nat /\ i # 0
        /\ Len(Cmd.cpus) \in 0 .. NumCpus
        /\ Cmd = Command(config, jobs[j], Cmd.cpus)
    BY <1>1, <2>1, RunFacts
  <2>4. ASSUME NEW r \in Range(log')
        PROVE  /\ r.job \in DOMAIN jobs /\ r.job <= j
               /\ r.cmd = Command(config, jobs[r.job], r.cmd.cpus)
               /\ r.out \in Bandwidths \cup {None}
               /\ Len(r.cmd.cpus) \in 0 .. NumCpus
    <3>1. CASE r \in Range(log)
      BY <1>1, <3>1 DEF Logged
    <3>2. CASE r = Run(out)
      <4>1. r.job = j /\ r.cmd = Cmd /\ r.out = out
        BY <3>2 DEF Run
      <4>2. QED
        BY <2>3, <4>1
    <3>3. QED
      BY <2>2, <3>1, <3>2
  <2>5. i' # 1
    BY <2>1, <2>3
  <2>6. QED
    BY <1>1, <2>1, <2>4, <2>5 DEF Logged
<1>3. CASE EndJob \/ Report
  <2>1. /\ log' = log /\ jobs' = jobs /\ j' = j + 1
    BY <1>3 DEF EndJob, Report, history
  <2>2. j \in Nat /\ jobs \in Seq(JobType)
    BY <1>1 DEF TypeOK
  <2>3. ASSUME NEW r \in Range(log)
        PROVE  r.job <= j + 1 /\ r.job < j + 1
    <3>1. r.job \in DOMAIN jobs /\ r.job <= j
      BY <1>1 DEF Logged
    <3>2. r.job \in Nat
      BY <2>2, <3>1
    <3>3. QED
      BY <2>2, <3>1, <3>2
  <2>4. QED
    BY <1>1, <2>1, <2>3 DEF Logged
<1>4. CASE BuildJobs \/ ResolveMode
  <2>1. log' = <<>>
    BY <1>4 DEF BuildJobs, ResolveMode, IInv, Early, loops, history
  <2>2. QED
    BY <2>1, EmptyRange DEF Logged
<1>5. CASE ~ (Measure \/ Collect \/ MeasureFails \/ EndJob \/ Report \/ BuildJobs \/ ResolveMode)
  BY <1>1, <1>5, WhoChanges DEF Logged
<1>6. QED
  BY <1>2, <1>3, <1>4, <1>5

------------------------------------------------------------------------------
(* The runs are numbered through.                                          *)

LEMMA NumbersOrdered ==
    ASSUME NEW L \in Nat, NEW k \in Nat \ {0}, NEW l \in Nat \ {0}, k < l,
           NEW m \in 1 .. L, NEW n \in 1 .. L
    PROVE  (k - 1) * L + m < (l - 1) * L + n
<1>1. k * L <= (l - 1) * L
  BY TimesMonotone
<1>2. k * L = (k - 1) * L + L
  OBVIOUS
<1>3. (k - 1) * L \in Int /\ (l - 1) * L \in Int /\ k * L \in Int
  OBVIOUS
<1>4. QED
  BY <1>1, <1>2, <1>3

LEMMA NumbersUnique ==
    ASSUME NEW L \in Nat, NEW k \in Nat \ {0}, NEW l \in Nat \ {0},
           NEW m \in 1 .. L, NEW n \in 1 .. L, (k - 1) * L + m = (l - 1) * L + n
    PROVE  k = l /\ m = n
<1>1. (k - 1) * L \in Int /\ (l - 1) * L \in Int
  OBVIOUS
<1>2. ~ (k < l)
  <2>1. k < l => (k - 1) * L + m < (l - 1) * L + n
    BY NumbersOrdered
  <2>2. QED
    BY <1>1, <2>1
<1>3. ~ (l < k)
  <2>1. l < k => (l - 1) * L + n < (k - 1) * L + m
    BY NumbersOrdered
  <2>2. QED
    BY <1>1, <2>1
<1>4. k = l
  BY <1>2, <1>3
<1>5. QED
  BY <1>1, <1>4

LEMMA NoRunsYet ==
    ASSUME NEW L \in Nat, NEW k \in Nat \ {0}, NEW n \in 1 .. L
    PROVE  ~ ((k - 1) * L + n <= 0)
<1>1. (k - 1) * L \in Nat
  OBVIOUS
<1>2. QED
  BY <1>1

LEMMA NumberedStep ==
    ASSUME IInv, Next
    PROVE  EveryCoreTried'
<1>1. TypeOK /\ EveryCoreTried /\ TypeOK' /\ CorePlan' /\ config' = config
  BY TypesStep, CorePlanStep, ConfigKept DEF IInv
<1>2. core_list' # <<>> =>
        /\ core_list'[1] = config'.start /\ core_list'[Len(core_list')] = max_cores'
        /\ \A k \in 1 .. Len(core_list') - 1 : core_list'[k + 1] - core_list'[k] \in 1 .. config'.step
  BY <1>1 DEF CorePlan
<1>3. /\ Len(core_list) \in Nat /\ DOMAIN core_list = 1 .. Len(core_list)
      /\ Len(core_list') \in Nat /\ DOMAIN core_list' = 1 .. Len(core_list')
      /\ DOMAIN jobs \subseteq Nat \ {0} /\ DOMAIN jobs' \subseteq Nat \ {0}
      /\ j \in Nat \ {0} /\ i \in Nat \ {0}
  <2>1. core_list \in Seq(0 .. NumCpus) /\ jobs \in Seq(JobType)
    BY <1>1 DEF TypeOK
  <2>2. core_list' \in Seq(0 .. NumCpus') /\ jobs' \in Seq(JobType)
    BY <1>1 DEF TypeOK, JobType
  <2>3. Len(core_list) \in Nat /\ DOMAIN core_list = 1 .. Len(core_list)
    BY <2>1
  <2>4. Len(core_list') \in Nat /\ DOMAIN core_list' = 1 .. Len(core_list')
    BY <2>2
  <2>5. DOMAIN jobs \subseteq Nat \ {0}
    BY <2>1
  <2>6. DOMAIN jobs' \subseteq Nat \ {0}
    BY <2>2
  <2>7. QED
    BY <1>1, <2>3, <2>4, <2>5, <2>6 DEF TypeOK
<1>4. CASE BuildJobs \/ ResolveMode \/ Plan
  <2>1. log = <<>> /\ log' = <<>> /\ j' = 1 /\ i' = 1
    BY <1>4 DEF BuildJobs, ResolveMode, Plan, IInv, Early, loops, history
  <2>2. Len(log') = 0
    BY <2>1
  <2>3. (1 - 1) * Len(core_list') + (1 - 1) = 0
    BY <1>3
  <2>4. \A k \in DOMAIN jobs', n \in DOMAIN core_list' : ~ ((k - 1) * Len(core_list') + n <= 0)
    BY <1>3, NoRunsYet
  <2>5. QED
    BY <1>2, <2>1, <2>2, <2>3, <2>4 DEF EveryCoreTried, RunNumber
<1>5. CASE Measure \/ Collect \/ MeasureFails
  <2>1. /\ Running /\ jobs' = jobs /\ core_list' = core_list /\ j' = j /\ i' = i + 1
    BY <1>1, <1>5, RunStep
  <2>2. PICK out \in Bandwidths \cup {None} :
          /\ Len(log') = Len(log) + 1 /\ Len(log) \in Nat
          /\ \A k \in 1 .. Len(log) : log'[k] = log[k]
          /\ log'[Len(log) + 1] = Run(out)
    BY <1>5, LogGrows
  <2>3. i \in DOMAIN core_list /\ Len(Cmd.cpus) = core_list[i]
    BY <1>1, <2>1, RunFacts
  <2> DEFINE L == Len(core_list)
  <2>4. Len(log) + 1 = (j - 1) * L + i /\ (j - 1) * L \in Int
    BY <1>1, <1>3, <2>2 DEF EveryCoreTried, RunNumber
  <2>5. ASSUME NEW k \in DOMAIN jobs, NEW n \in DOMAIN core_list, (k - 1) * L + n <= Len(log')
        PROVE  /\ log'[(k - 1) * L + n].job = k
               /\ Len(log'[(k - 1) * L + n].cmd.cpus) = core_list[n]
    <3> DEFINE r == (k - 1) * L + n
    <3>1. r \in Nat /\ r >= 1
      BY <1>3
    <3>2. CASE r <= Len(log)
      <4>1. log'[r] = log[r]
        BY <2>2, <3>1, <3>2
      <4>2. log[r].job = k /\ Len(log[r].cmd.cpus) = core_list[n]
        BY <1>1, <3>2 DEF EveryCoreTried, RunNumber
      <4>3. QED
        BY <4>1, <4>2
    <3>3. CASE r = Len(log) + 1
      <4>1. k = j /\ n = i
        <5>1. k \in Nat \ {0} /\ n \in 1 .. L /\ i \in 1 .. L
          BY <1>3, <2>3
        <5>2. (k - 1) * L + n = (j - 1) * L + i
          BY <2>4, <3>3
        <5> HIDE DEF L
        <5>3. L \in Nat /\ j \in Nat \ {0}
          BY <1>3 DEF L
        <5>4. QED
          BY <5>1, <5>2, <5>3, NumbersUnique
      <4>2. QED
        BY <2>2, <2>3, <3>3, <4>1 DEF Run
    <3> HIDE DEF r
    <3>4. r <= Len(log) \/ r = Len(log) + 1
      BY <2>2, <2>5, <3>1 DEF r
    <3>5. QED
      BY <3>2, <3>3, <3>4 DEF r
  <2>6. Len(log') = (j' - 1) * L + (i' - 1)
    BY <1>3, <2>1, <2>2, <2>4
  <2>7. QED
    BY <1>2, <2>1, <2>5, <2>6 DEF EveryCoreTried, RunNumber
<1>6. CASE EndJob \/ Report
  <2>1. /\ log' = log /\ jobs' = jobs /\ core_list' = core_list /\ j' = j + 1 /\ i' = 1
        /\ i > Len(core_list)
    BY <1>6 DEF EndJob, Report, history
  <2>2. i = Len(core_list) + 1
    BY <1>1, <1>3, <2>1 DEF TypeOK
  <2>3. (j - 1) * Len(core_list) + Len(core_list) = j * Len(core_list)
    BY <1>3
  <2>4. Len(log') = (j' - 1) * Len(core_list') + (i' - 1)
    <3>1. Len(log) = (j - 1) * Len(core_list) + (i - 1) /\ i - 1 = Len(core_list)
      BY <1>1, <1>3, <2>2 DEF EveryCoreTried, RunNumber
    <3>2. j' - 1 = j /\ i' - 1 = 0 /\ j * Len(core_list) \in Nat
      BY <1>3, <2>1
    <3>3. QED
      BY <2>1, <2>3, <3>1, <3>2
  <2>5. QED
    BY <1>1, <1>2, <2>1, <2>4 DEF EveryCoreTried, RunNumber
<1>7. CASE ~ (Measure \/ Collect \/ MeasureFails \/ EndJob \/ Report \/ BuildJobs \/ ResolveMode \/ Plan)
  <2>1. /\ log' = log /\ jobs' = jobs /\ core_list' = core_list /\ j' = j /\ i' = i
    BY <1>7, WhoChanges
  <2>2. QED
    BY <1>1, <1>2, <2>1 DEF EveryCoreTried, RunNumber
<1>8. QED
  BY <1>4, <1>5, <1>6, <1>7

------------------------------------------------------------------------------
(* The rows.                                                               *)

\* A run that gave a bandwidth adds its record and its row; any other adds neither.
LEMMA RowsGrow ==
    ASSUME IInv, Measure \/ Collect \/ MeasureFails
    PROVE  \E out \in Bandwidths \cup {None} :
             /\ Range(log') = Range(log) \cup {Run(out)}
             /\ out = None => UNCHANGED <<best, full_rows, measured>>
             /\ out # None =>
                  LET row == RowOf(jobs[j], core_list[i], out)
                  IN  /\ row \in Row /\ out \in Bandwidths
                      /\ measured' = Append(measured, Run(out))
                      /\ full_rows' = Append(full_rows, row)
                      /\ best' = IF Matrix /\ Better(row) THEN row ELSE best
<1>1. TypeOK /\ log \in Seq(Range(log))
  BY DEF IInv, TypeOK
<1>2. PICK out \in Bandwidths \cup {None} :
        /\ log' = Append(log, Run(out))
        /\ out = None => UNCHANGED <<best, full_rows, measured>>
        /\ out # None =>
             LET row == RowOf(jobs[j], core_list[i], out)
             IN  /\ config.peak > 0 /\ row \in Row /\ out \in Bandwidths
                 /\ measured' = Append(measured, Run(out))
                 /\ full_rows' = Append(full_rows, row)
                 /\ best' = IF Matrix /\ Better(row) THEN row ELSE best
  BY <1>1, RunStep
<1>3. Range(log') = Range(log) \cup {Run(out)}
  BY <1>1, <1>2, AppendRange
<1>4. QED
  BY <1>2, <1>3

LEMMA NothingMeasured ==
    ASSUME IInv, log = <<>>
    PROVE  /\ measured = <<>> /\ full_rows = <<>>
           /\ \A k : ~ Succeeded(k)
<1>1. measured \in Seq(Range(measured)) /\ full_rows \in Seq(Row) /\ Measurements
  BY DEF IInv, TypeOK
<1>2. Range(log) = {}
  BY EmptyRange
<1>3. DOMAIN measured = {}
  BY <1>1, <1>2 DEF Measurements
<1>4. measured = <<>> /\ Len(measured) = 0
  BY <1>1, <1>3
<1>5. full_rows = <<>>
  BY <1>1, <1>4 DEF Measurements
<1>6. QED
  BY <1>2, <1>4, <1>5 DEF Succeeded

LEMMA MeasurementsStep ==
    ASSUME IInv, Next
    PROVE  Measurements'
<1>1. TypeOK /\ Measurements /\ config' = config /\ Matrix' = Matrix
  BY ConfigKept, SameConfig DEF IInv
<1>2. CASE BuildJobs \/ ResolveMode \/ Plan
  <2>1. log = <<>> /\ log' = <<>>
    BY <1>2 DEF BuildJobs, ResolveMode, Plan, IInv, Early, loops, history
  <2>2. measured' = <<>> /\ full_rows' = <<>>
    BY <1>2, <2>1, NothingMeasured, WhoChanges DEF BuildJobs, ResolveMode, Plan, loops, history
  <2>3. QED
    BY <2>1, <2>2, EmptyRange DEF Measurements
<1>3. CASE Measure \/ Collect \/ MeasureFails
  <2>1. /\ Running /\ jobs' = jobs /\ core_list' = core_list /\ j' = j /\ i' = i + 1
    BY <1>1, <1>3, RunStep
  <2>2. PICK out \in Bandwidths \cup {None} :
          /\ Range(log') = Range(log) \cup {Run(out)}
          /\ out = None => UNCHANGED <<best, full_rows, measured>>
          /\ out # None =>
               LET row == RowOf(jobs[j], core_list[i], out)
               IN  /\ row \in Row /\ out \in Bandwidths
                   /\ measured' = Append(measured, Run(out))
                   /\ full_rows' = Append(full_rows, row)
                   /\ best' = IF Matrix /\ Better(row) THEN row ELSE best
    BY <1>3, RowsGrow
  <2>3. /\ i \in DOMAIN core_list /\ i \in Nat /\ Len(Cmd.cpus) = core_list[i]
        /\ DOMAIN core_list = 1 .. Len(core_list) /\ Len(core_list) \in Nat
    BY <1>1, <2>1, RunFacts
  <2>4. 1 .. i - 1 \subseteq 1 .. i' - 1 /\ i \in 1 .. i' - 1
    BY <2>1, <2>3
  <2>5. CASE out = None
    <3>1. measured' = measured /\ full_rows' = full_rows
      BY <2>2, <2>5
    <3>2. \A r \in Range(log') : r.out # None => r \in Range(log)
      BY <2>2, <2>5 DEF Run
    <3>3. QED
      BY <1>1, <2>1, <2>2, <2>4, <3>1, <3>2 DEF Measurements, RowOfRun, RowOf, Pct
  <2>6. CASE out # None
    <3> DEFINE row == RowOf(jobs[j], core_list[i], out)
    <3> DEFINE n == Len(measured)
    <3>1. /\ row \in Row /\ out \in Bandwidths
          /\ measured' = Append(measured, Run(out)) /\ full_rows' = Append(full_rows, row)
      BY <2>2, <2>6
    <3>2. /\ measured \in Seq(Range(measured)) /\ full_rows \in Seq(Row) /\ Len(full_rows) = n
      BY <1>1 DEF TypeOK, Measurements
    <3>3. /\ Len(measured') = n + 1 /\ n \in Nat
          /\ DOMAIN measured = 1 .. n /\ DOMAIN measured' = 1 .. n + 1
          /\ \A k \in 1 .. n : measured'[k] = measured[k]
          /\ measured'[n + 1] = Run(out)
          /\ Range(measured') = Range(measured) \cup {Run(out)}
      BY <3>1, <3>2, AppendRange
    <3>4. /\ Len(full_rows') = n + 1
          /\ DOMAIN full_rows = 1 .. n /\ DOMAIN full_rows' = 1 .. n + 1
          /\ \A k \in 1 .. n : full_rows'[k] = full_rows[k]
          /\ full_rows'[n + 1] = row
      <4> HIDE DEF row, n
      <4>1. QED
        BY <3>1, <3>2, <3>3
    <3>5. /\ Run(out).job = j /\ Run(out).out = out /\ row = RowOfRun(Run(out))
          /\ row.cores = core_list[i]
      BY <2>3 DEF Run, RowOfRun, RowOf
    <3> HIDE DEF row, n
    <3>6. \A k \in 1 .. n : /\ measured[k] \in Range(log) /\ measured[k].out # None
                            /\ full_rows[k] = RowOfRun(measured[k])
      BY <1>1, <3>3 DEF Measurements
    <3>7. \A k \in DOMAIN measured' : /\ measured'[k] \in Range(log') /\ measured'[k].out # None
                                      /\ full_rows'[k] = RowOfRun(measured'[k])
      BY <2>2, <2>6, <3>3, <3>4, <3>5, <3>6
    <3>8. \A r : RowOfRun(r)' = RowOf(jobs[r.job], Len(r.cmd.cpus), r.out)
      BY <1>1, <2>1 DEF RowOfRun, RowOf, Pct
    <3>9. \A k \in DOMAIN measured' : full_rows'[k] =
              RowOf(jobs[measured'[k].job], Len(measured'[k].cmd.cpus), measured'[k].out)
      BY <3>7 DEF RowOfRun
    <3>10. \A r \in Range(log') : r.out # None => r \in Range(measured')
      BY <1>1, <2>2, <3>3 DEF Measurements
    <3>11. ASSUME ~Matrix, j = 1, NEW k \in DOMAIN full_rows'
           PROVE  /\ \E m \in 1 .. i' - 1 : full_rows'[k].cores = core_list[m]
                  /\ \A l \in 1 .. k - 1 : full_rows'[l].cores < full_rows'[k].cores
      <4>1. \A p \in 1 .. n : /\ \E m \in 1 .. i - 1 : full_rows[p].cores = core_list[m]
                              /\ \A l \in 1 .. p - 1 : full_rows[l].cores < full_rows[p].cores
        BY <1>1, <3>4, <3>11 DEF Measurements
      <4>2. CASE k \in 1 .. n
        <5>1. \A l \in 1 .. k - 1 : l \in 1 .. n
          BY <3>3, <4>2
        <5>2. QED
          BY <2>4, <3>4, <4>1, <4>2, <5>1
      <4>3. CASE k = n + 1
        <5>1. \A m \in 1 .. i - 1 : core_list[m] < core_list[i]
          <6>1. core_list # <<>> /\ CorePlan
            BY <2>3 DEF IInv
          <6>2. ASSUME NEW m \in 1 .. i - 1
                PROVE  m \in DOMAIN core_list /\ m < i
            BY <2>3
          <6>3. QED
            BY <2>3, <6>1, <6>2 DEF CorePlan
        <5>2. ASSUME NEW l \in 1 .. k - 1
              PROVE  full_rows'[l].cores < full_rows'[k].cores
          <6>1. l \in 1 .. n
            BY <3>3, <4>3
          <6>2. QED
            BY <3>4, <3>5, <4>1, <4>3, <5>1, <6>1
        <5>3. QED
          BY <2>4, <3>4, <3>5, <4>3, <5>2
      <4>4. QED
        BY <3>3, <3>4, <4>2, <4>3
    <3>12. QED
      BY <1>1, <2>1, <3>3, <3>4, <3>7, <3>8, <3>9, <3>10, <3>11 DEF Measurements
  <2>7. QED
    BY <2>5, <2>6
<1>4. CASE EndJob \/ Report
  <2>1. /\ log' = log /\ measured' = measured /\ full_rows' = full_rows
        /\ jobs' = jobs /\ j' = j + 1
    BY <1>4 DEF EndJob, Report, history
  <2>2. j' # 1
    BY <1>1, <2>1 DEF TypeOK
  <2>3. QED
    BY <1>1, <2>1, <2>2 DEF Measurements, RowOfRun, RowOf, Pct
<1>5. CASE ~ (Measure \/ Collect \/ MeasureFails \/ EndJob \/ Report \/ BuildJobs \/ ResolveMode \/ Plan)
  <2>1. /\ UNCHANGED <<log, measured, full_rows, jobs, core_list, i, j>>
    BY <1>5, WhoChanges
  <2>2. QED
    BY <1>1, <2>1 DEF Measurements, RowOfRun, RowOf, Pct
<1>6. QED
  BY <1>2, <1>3, <1>4, <1>5

------------------------------------------------------------------------------
(* The best row of each job.                                               *)

LEMMA LabelOfRow ==
    ASSUME NEW job \in JobType, NEW n, NEW bw
    PROVE  Label(RowOf(job, n, bw)) = job
BY DEF Label, RowOf, Job, JobType

LEMMA NoneBelow == NoRow.bw = -1 /\ \A bw \in Bandwidths : bw \in Nat /\ bw > NoRow.bw
BY BandwidthAssumption DEF NoRow, None

\* A run of job j leaves what was said of the earlier jobs.
LEMMA OtherJobs ==
    ASSUME NEW rec, Range(log') = Range(log) \cup {rec}, NEW k, rec.job # k
    PROVE  /\ Succeeded(k)' <=> Succeeded(k)
           /\ \A row : IsBest(row, k)' <=> IsBest(row, k)
BY DEF Succeeded, IsBest

LEMMA BestOfRun ==
    ASSUME IInv, Measure \/ Collect \/ MeasureFails
    PROVE  BestSoFar'
<1>1. TypeOK /\ BestSoFar
  BY DEF IInv
<1>2. /\ Running /\ jobs' = jobs /\ core_list' = core_list /\ j' = j /\ i' = i + 1 /\ config' = config
  BY <1>1, RunStep
<1>3. PICK out \in Bandwidths \cup {None} :
        /\ Range(log') = Range(log) \cup {Run(out)}
        /\ out = None => UNCHANGED <<best, full_rows, measured>>
        /\ out # None =>
             LET row == RowOf(jobs[j], core_list[i], out)
             IN  /\ row \in Row /\ out \in Bandwidths
                 /\ measured' = Append(measured, Run(out))
                 /\ full_rows' = Append(full_rows, row)
                 /\ best' = IF Matrix /\ Better(row) THEN row ELSE best
  BY RowsGrow
<1>4. /\ i \in DOMAIN core_list /\ i \in Nat /\ Len(Cmd.cpus) = core_list[i]
      /\ DOMAIN core_list = 1 .. Len(core_list) /\ Len(core_list) \in Nat
      /\ j \in DOMAIN jobs /\ jobs[j] \in JobType
      /\ core_list[i] \in 0 .. NumCpus
  BY <1>1, <1>2, RunFacts
<1>5. 1 .. i - 1 \subseteq 1 .. i' - 1 /\ i \in 1 .. i' - 1
  BY <1>2, <1>4
<1>6. Run(out).job = j /\ Run(out).out = out /\ Run(out).cmd = Cmd
  BY DEF Run
<1>7. Matrix' = Matrix /\ NoRow' = NoRow
  BY <1>2, SameConfig DEF NoRow
<1>8. CASE out = None
  <2>1. best' = best
    BY <1>3, <1>8
  <2>2. Succeeded(j)' <=> Succeeded(j)
    BY <1>2, <1>3, <1>6, <1>8 DEF Succeeded
  <2>3. IsBest(best, j) => IsBest(best, j)'
    BY <1>2, <1>3, <1>6, <1>8, <2>1 DEF IsBest
  <2>4. QED
    BY <1>1, <1>2, <1>5, <1>7, <2>1, <2>2, <2>3 DEF BestSoFar, Label
<1>9. CASE out # None /\ ~Matrix
  BY <1>1, <1>3, <1>7, <1>9 DEF BestSoFar
<1>10. CASE out # None /\ Matrix
  <2> DEFINE row == RowOf(jobs[j], core_list[i], out)
  <2>1. /\ row \in Row /\ out \in Bandwidths
        /\ best' = IF Better(row) THEN row ELSE best
    BY <1>3, <1>10
  <2>2. row.bw = out /\ row.cores = core_list[i] /\ Label(row) = jobs[j]
    BY <1>4, LabelOfRow DEF RowOf
  <2>3. out \in Nat /\ out > NoRow.bw /\ row # NoRow
    BY <2>1, <2>2, NoneBelow
  <2>4. Succeeded(j)'
    BY <1>2, <1>3, <1>6, <1>10 DEF Succeeded
  <2> HIDE DEF row
  <2>5. CASE Better(row)
    <3>1. best' = row
      BY <2>1, <2>5
    <3>2. ASSUME NEW r \in Range(log'), r.job = j, r.out # None
          PROVE  r.out < row.bw \/ (r.out = row.bw /\ row.cores <= Len(r.cmd.cpus))
      <4>1. CASE r = Run(out)
        BY <1>4, <1>6, <2>2, <4>1
      <4>2. CASE r \in Range(log)
        <5>1. best # NoRow /\ IsBest(best, j)
          BY <1>1, <1>10, <3>2, <4>2 DEF BestSoFar, Succeeded
        <5>2. r.out < best.bw \/ r.out = best.bw
          BY <3>2, <4>2, <5>1 DEF IsBest
        <5>3. row.bw > best.bw
          BY <2>5 DEF Better
        <5>4. best.bw \in Nat /\ row.bw \in Nat /\ r.out \in Nat
          <6>1. best \in Row
            BY <1>1, <5>1 DEF TypeOK
          <6>2. r.out \in Bandwidths
            BY <3>2, <4>2 DEF IInv, Logged
          <6>3. QED
            BY <2>2, <2>3, <6>1, <6>2, BandwidthAssumption DEF Row
        <5>5. QED
          BY <5>2, <5>3, <5>4
      <4>3. QED
        BY <1>3, <3>2, <4>1, <4>2
    <3>3. IsBest(best, j)'
      BY <1>2, <3>1, <3>2 DEF IsBest
    <3>4. \E n \in 1 .. i' - 1 : best'.cores = core_list'[n]
      BY <1>2, <1>5, <2>2, <3>1
    <3>5. Label(best)' = jobs'[j']
      BY <1>2, <2>2, <3>1 DEF Label
    <3>6. QED
      BY <1>2, <1>4, <1>7, <1>10, <2>3, <2>4, <3>1, <3>3, <3>4, <3>5 DEF BestSoFar
  <2>6. CASE ~ Better(row)
    <3>1. best' = best /\ ~ (row.bw > best.bw)
      BY <2>1, <2>6 DEF Better
    <3>2. best # NoRow
      BY <2>2, <2>3, <3>1
    <3>3. /\ Label(best) = jobs[j] /\ IsBest(best, j)
          /\ \E n \in 1 .. i - 1 : best.cores = core_list[n]
      BY <1>1, <3>2 DEF BestSoFar
    <3>4. best.bw \in Nat /\ best.cores \in Nat
      <4>1. best \in Row
        BY <1>1, <3>2 DEF TypeOK
      <4>2. best.bw \in Bandwidths /\ best.cores \in 0 .. NumCpus
        BY <4>1 DEF Row
      <4>3. NumCpus \in Nat
        BY <1>1, NodeCpus DEF TypeOK
      <4>4. best.cores \in Nat
        BY <4>2, <4>3
      <4>5. best.bw \in Nat
        BY <4>2, BandwidthAssumption
      <4>6. QED
        BY <4>4, <4>5
    <3>5. best.cores <= core_list[i]
      <4>1. PICK n \in 1 .. i - 1 : best.cores = core_list[n]
        BY <3>3
      <4>2. n \in DOMAIN core_list /\ n < i
        BY <1>4, <4>1
      <4>3. core_list # <<>> /\ CorePlan
        BY <1>4 DEF IInv
      <4>4. core_list[n] < core_list[i]
        BY <1>4, <4>2, <4>3 DEF CorePlan
      <4>5. QED
        BY <1>4, <3>4, <4>1, <4>4
    <3>6. ASSUME NEW r \in Range(log'), r.job = j, r.out # None
          PROVE  r.out < best.bw \/ (r.out = best.bw /\ best.cores <= Len(r.cmd.cpus))
      <4>1. CASE r = Run(out)
        BY <1>4, <1>6, <2>2, <2>3, <3>1, <3>4, <3>5, <4>1
      <4>2. CASE r \in Range(log)
        BY <3>3, <3>6, <4>2 DEF IsBest
      <4>3. QED
        BY <1>3, <3>6, <4>1, <4>2
    <3>7. IsBest(best, j)'
      BY <1>2, <3>1, <3>6 DEF IsBest
    <3>8. QED
      BY <1>2, <1>4, <1>5, <1>7, <1>10, <2>4, <3>1, <3>2, <3>3, <3>7 DEF BestSoFar, Label
  <2>7. QED
    BY <2>5, <2>6
<1>11. QED
  BY <1>8, <1>9, <1>10

LEMMA BestStep ==
    ASSUME IInv, Next
    PROVE  BestSoFar'
<1>1. TypeOK /\ BestSoFar /\ config' = config /\ Matrix' = Matrix /\ NoRow' = NoRow
  BY ConfigKept, SameConfig DEF IInv, NoRow
<1>2. CASE Measure \/ Collect \/ MeasureFails
  BY <1>2, BestOfRun
<1>3. CASE BuildJobs \/ ResolveMode \/ Plan
  <2>1. log = <<>> /\ log' = log /\ best' = best /\ j' = j
    BY <1>3 DEF BuildJobs, ResolveMode, Plan, IInv, Early, loops, history
  <2>2. ~ Succeeded(j) /\ ~ Succeeded(j)'
    BY <2>1, EmptyRange DEF Succeeded
  <2>3. best = NoRow
    BY <1>1, <2>2 DEF BestSoFar
  <2>4. QED
    BY <1>1, <2>1, <2>2, <2>3 DEF BestSoFar
<1>4. CASE EndJob
  <2>1. best' = NoRow /\ j' = j + 1 /\ log' = log /\ j \in Nat
    BY <1>1, <1>4 DEF EndJob, history, TypeOK
  <2>2. ~ Succeeded(j)'
    <3>1. ASSUME NEW r \in Range(log)
          PROVE  r.job # j + 1
      <4>1. r.job \in DOMAIN jobs /\ r.job <= j /\ jobs \in Seq(JobType)
        BY <1>1 DEF IInv, Logged, TypeOK
      <4>2. r.job \in Nat
        BY <4>1
      <4>3. QED
        BY <2>1, <4>1, <4>2
    <3>2. QED
      BY <2>1, <3>1 DEF Succeeded
  <2>3. QED
    BY <1>1, <2>1, <2>2 DEF BestSoFar
<1>5. CASE Report
  BY <1>1, <1>5 DEF Report, BestSoFar
<1>6. CASE ~ (Measure \/ Collect \/ MeasureFails \/ EndJob \/ Report \/ BuildJobs \/ ResolveMode \/ Plan)
  <2>1. UNCHANGED <<log, best, jobs, core_list, i, j>>
    BY <1>6, WhoChanges
  <2>2. QED
    BY <1>1, <2>1 DEF BestSoFar, Succeeded, IsBest, Label
<1>7. QED
  BY <1>2, <1>3, <1>4, <1>5, <1>6

LEMMA SummaryOfRun ==
    ASSUME IInv, Measure \/ Collect \/ MeasureFails
    PROVE  Summarised'
<1>1. TypeOK /\ Summarised
  BY DEF IInv
<1>2. /\ Running /\ jobs' = jobs /\ j' = j /\ config' = config /\ pc' = pc
      /\ summary_rows' = summary_rows
  BY <1>1, RunStep
<1>3. PICK out \in Bandwidths \cup {None} : Range(log') = Range(log) \cup {Run(out)}
  BY RowsGrow
<1>4. j \in Nat /\ Run(out).job = j
  BY <1>1 DEF TypeOK, Run
<1>5. ASSUME NEW k \in 1 .. j - 1
      PROVE  /\ Succeeded(k)' <=> Succeeded(k)
             /\ \A row : IsBest(row, k)' <=> IsBest(row, k)
  <2>1. Run(out).job # k
    BY <1>4
  <2>2. QED
    BY <1>3, <2>1, OtherJobs
<1>6. Matrix' = Matrix
  BY <1>2, SameConfig
<1>7. ASSUME NEW n \in DOMAIN summary_rows
      PROVE  \E k \in 1 .. j - 1 :
               /\ k \in DOMAIN jobs /\ Label(summary_rows[n]) = jobs[k]
               /\ Succeeded(k)' /\ IsBest(summary_rows[n], k)'
  <2>1. PICK k \in 1 .. j - 1 :
          /\ k \in DOMAIN jobs /\ Label(summary_rows[n]) = jobs[k]
          /\ Succeeded(k) /\ IsBest(summary_rows[n], k)
    BY <1>1 DEF Summarised
  <2>2. IsBest(summary_rows[n], k)'
    BY <1>2, <1>3, <1>4, <2>1 DEF IsBest
  <2>3. QED
    BY <1>5, <2>1, <2>2
<1>8. QED
  BY <1>1, <1>2, <1>5, <1>6, <1>7 DEF Summarised, Label

LEMMA SummaryOfJob ==
    ASSUME IInv, EndJob
    PROVE  Summarised'
<1>1. /\ TypeOK /\ Summarised /\ BestSoFar /\ Matrix /\ pc = "run" /\ pc' = "run"
      /\ config' = config /\ jobs' = jobs /\ log' = log /\ j' = j + 1
      /\ summary_rows' = IF best = NoRow THEN summary_rows ELSE Append(summary_rows, best)
  BY DEF IInv, EndJob, history
<1>2. /\ j \in Nat \ {0} /\ jobs \in Seq(JobType) /\ summary_rows \in Seq(Row) /\ best \in Row \cup {NoRow}
      /\ j \in DOMAIN jobs
  <2>1. j \in Nat \ {0} /\ jobs \in Seq(JobType) /\ summary_rows \in Seq(Row) /\ best \in Row \cup {NoRow}
    BY <1>1 DEF TypeOK
  <2>2. j <= Len(jobs)
    BY DEF EndJob
  <2>3. QED
    BY <2>1, <2>2
<1>3. Matrix' = Matrix
  BY <1>1, SameConfig
<1>4. \A k : (Succeeded(k)' <=> Succeeded(k)) /\ (\A row : IsBest(row, k)' <=> IsBest(row, k))
  BY <1>1 DEF Succeeded, IsBest
<1>5. \A k \in 1 .. j' - 1 : k \in 1 .. j - 1 \/ k = j
  BY <1>1, <1>2
<1>6. 1 .. j - 1 \subseteq 1 .. j' - 1 /\ j \in 1 .. j' - 1
  BY <1>1, <1>2
<1>7. CASE best = NoRow
  <2>1. ~ Succeeded(j) /\ summary_rows' = summary_rows
    BY <1>1, <1>7 DEF BestSoFar
  <2>2. \A k \in 1 .. j' - 1 : Succeeded(k) => k \in 1 .. j - 1
    BY <1>5, <2>1
  <2>3. \A n \in DOMAIN summary_rows : \E k \in 1 .. j' - 1 :
          /\ k \in DOMAIN jobs /\ Label(summary_rows[n]) = jobs[k]
          /\ Succeeded(k) /\ IsBest(summary_rows[n], k)
    BY <1>1, <1>6 DEF Summarised
  <2>4. QED
    BY <1>1, <1>3, <1>4, <2>1, <2>2, <2>3 DEF Summarised, Label, Succeeded, IsBest
<1>8. CASE best # NoRow
  <2> DEFINE s == summary_rows
  <2> DEFINE t == Append(summary_rows, best)
  <2>1. /\ Succeeded(j) /\ Label(best) = jobs[j] /\ IsBest(best, j) /\ summary_rows' = t
    BY <1>1, <1>8 DEF BestSoFar
  <2>2. /\ Len(s) \in Nat /\ DOMAIN s = 1 .. Len(s) /\ DOMAIN t = 1 .. Len(s) + 1
        /\ \A n \in 1 .. Len(s) : t[n] = s[n]
        /\ t[Len(s) + 1] = best
    BY <1>2
  <2> HIDE DEF s, t
  <2>3. \A n \in DOMAIN t : n \in DOMAIN s \/ n = Len(s) + 1
    BY <2>2
  <2>4. ASSUME NEW n \in DOMAIN t
        PROVE  \E k \in 1 .. j' - 1 : /\ k \in DOMAIN jobs /\ Label(t[n]) = jobs[k]
                                      /\ Succeeded(k) /\ IsBest(t[n], k)
    <3>1. CASE n \in DOMAIN s
      <4>1. PICK k \in 1 .. j - 1 : /\ k \in DOMAIN jobs /\ Label(s[n]) = jobs[k]
                                    /\ Succeeded(k) /\ IsBest(s[n], k)
        BY <1>1, <3>1 DEF Summarised, s
      <4>2. t[n] = s[n] /\ k \in 1 .. j' - 1
        BY <1>6, <2>2, <3>1
      <4>3. QED
        BY <4>1, <4>2
    <3>2. CASE n = Len(s) + 1
      BY <1>2, <1>6, <2>1, <2>2, <3>2
    <3>3. QED
      BY <2>3, <3>1, <3>2
  <2>5. ASSUME NEW k \in 1 .. j' - 1, Succeeded(k)
        PROVE  \E n \in DOMAIN t : Label(t[n]) = jobs[k]
    <3>1. CASE k \in 1 .. j - 1
      <4>1. PICK n \in DOMAIN s : Label(s[n]) = jobs[k]
        BY <1>1, <2>5, <3>1 DEF Summarised, s
      <4>2. n \in DOMAIN t /\ t[n] = s[n]
        BY <2>2
      <4>3. QED
        BY <4>1, <4>2
    <3>2. CASE k = j
      <4>1. Len(s) + 1 \in DOMAIN t
        BY <2>2
      <4>2. QED
        BY <2>1, <2>2, <3>2, <4>1
    <3>3. QED
      BY <1>5, <3>1, <3>2
  <2>6. \A n \in DOMAIN s : Label(s[n]) # Label(best)
    <3>1. ASSUME NEW n \in DOMAIN s
          PROVE  Label(s[n]) # jobs[j]
      <4>1. PICK k \in 1 .. j - 1 : k \in DOMAIN jobs /\ Label(s[n]) = jobs[k]
        BY <1>1 DEF Summarised, s
      <4>2. jobs[k] # jobs[j]
        <5>1. k # j
          BY <1>2
        <5>2. QED
          BY <1>2, <4>1, <5>1 DEF IInv, JobPlan
      <4>3. QED
        BY <4>1, <4>2
    <3>2. QED
      BY <2>1, <3>1
  <2>7. ASSUME NEW m \in DOMAIN t, NEW n \in DOMAIN t, Label(t[m]) = Label(t[n])
        PROVE  m = n
    <3>1. \A p, q \in DOMAIN s : Label(s[p]) = Label(s[q]) => p = q
      BY <1>1 DEF Summarised, s
    <3>2. \A p \in DOMAIN s : t[p] = s[p]
      BY <2>2
    <3>3. QED
      BY <2>2, <2>3, <2>6, <2>7, <3>1, <3>2
  <2>8. ASSUME NEW n \in DOMAIN summary_rows'
        PROVE  \E k \in 1 .. j' - 1 : /\ k \in DOMAIN jobs' /\ Label(summary_rows[n])' = jobs'[k]
                                      /\ Succeeded(k)' /\ IsBest(summary_rows[n], k)'
    <3>1. PICK k \in 1 .. j' - 1 : /\ k \in DOMAIN jobs /\ Label(t[n]) = jobs[k]
                                   /\ Succeeded(k) /\ IsBest(t[n], k)
      BY <2>1, <2>4, <2>8
    <3>2. summary_rows'[n] = t[n]
      BY <2>1
    <3>3. IsBest(summary_rows[n], k)'
      BY <1>1, <3>1, <3>2 DEF IsBest
    <3>4. Label(summary_rows[n])' = Label(t[n])
      BY <3>2 DEF Label
    <3>5. QED
      BY <1>1, <1>4, <3>1, <3>3, <3>4
  <2>9. \A k \in 1 .. j' - 1 : Succeeded(k)' =>
          \E n \in DOMAIN summary_rows' : Label(summary_rows[n])' = jobs'[k]
    BY <1>1, <1>4, <2>1, <2>5 DEF Label
  <2>10. \A m, n \in DOMAIN summary_rows' :
           Label(summary_rows[m])' = Label(summary_rows[n])' => m = n
    BY <2>1, <2>7 DEF Label
  <2>11. QED
    BY <1>1, <1>3, <2>8, <2>9, <2>10 DEF Summarised
<1>9. QED
  BY <1>7, <1>8

\* sweep_bw.py's one row is the best of its one job.
LEMMA SummaryOfReport ==
    ASSUME IInv, Report
    PROVE  Summarised'
<1>1. /\ TypeOK /\ Measurements /\ Logged /\ Summarised /\ ~Matrix /\ pc = "run" /\ pc' \in {"done", "died"}
      /\ config' = config /\ jobs' = jobs /\ log' = log /\ j' = j + 1
  BY DEF IInv, Report, history, Die
<1>2. j = 1 /\ jobs = SingleJob /\ summary_rows = <<>>
  BY <1>1 DEF IInv, JobPlan, Summarised
<1>3. DOMAIN jobs = {1} /\ 1 \in DOMAIN jobs /\ jobs[1] \in JobType /\ Len(jobs) = 1
  <2>1. DOMAIN jobs = {1} /\ Len(jobs) = 1
    BY <1>2 DEF SingleJob
  <2>2. jobs \in Seq(JobType)
    BY <1>1 DEF TypeOK
  <2>3. QED
    BY <2>1, <2>2
<1>4. 1 .. j' - 1 = {1}
  BY <1>1, <1>2
<1>5. /\ full_rows \in Seq(Row) /\ measured \in Seq(Range(measured))
      /\ DOMAIN full_rows = DOMAIN measured
  <2>1. full_rows \in Seq(Row) /\ measured \in Seq(Range(measured)) /\ Len(full_rows) = Len(measured)
    BY <1>1 DEF TypeOK, Measurements
  <2>2. QED
    BY <2>1
<1>6. ASSUME NEW r \in Range(log), r.out # None
      PROVE  \E l \in DOMAIN full_rows : measured[l] = r
  <2>1. r \in Range(measured)
    BY <1>1, <1>6 DEF Measurements
  <2>2. QED
    BY <1>5, <2>1 DEF Range
<1>7. CASE full_rows = <<>>
  <2>1. summary_rows' = <<>>
    BY <1>2, <1>7 DEF Report
  <2>2. \A k : ~ Succeeded(k)'
    <3>1. DOMAIN full_rows = {}
      BY <1>7
    <3>2. QED
      BY <1>1, <1>6, <3>1 DEF Succeeded
  <2>3. QED
    BY <1>1, <2>1, <2>2 DEF Summarised
<1>8. CASE full_rows # <<>>
  <2>1. PICK m \in DOMAIN full_rows :
          /\ FirstBest(full_rows) = full_rows[m]
          /\ \A l \in DOMAIN full_rows :
                full_rows[l].bw < full_rows[m].bw \/ (full_rows[l].bw = full_rows[m].bw /\ m <= l)
    BY <1>5, <1>8, FirstBestExists
  <2> DEFINE row == full_rows[m]
  <2>2. summary_rows' = <<row>>
    BY <1>8, <2>1 DEF Report
  <2>3. \A l \in DOMAIN full_rows :
          /\ measured[l] \in Range(log) /\ measured[l].out # None /\ measured[l].job = 1
          /\ full_rows[l].bw = measured[l].out /\ full_rows[l].cores = Len(measured[l].cmd.cpus)
          /\ Label(full_rows[l]) = jobs[1]
    <3>1. ASSUME NEW l \in DOMAIN full_rows
          PROVE  /\ measured[l] \in Range(log) /\ measured[l].out # None /\ measured[l].job = 1
                 /\ full_rows[l] = RowOf(jobs[1], Len(measured[l].cmd.cpus), measured[l].out)
      <4>1. /\ measured[l] \in Range(log) /\ measured[l].out # None
            /\ full_rows[l] = RowOfRun(measured[l])
        BY <1>1, <1>5 DEF Measurements
      <4>2. measured[l].job \in DOMAIN jobs
        BY <1>1, <4>1 DEF Logged
      <4>3. measured[l].job = 1
        BY <1>3, <4>2
      <4>4. QED
        BY <4>1, <4>3 DEF RowOfRun
    <3>2. \A n, bw : /\ RowOf(jobs[1], n, bw).bw = bw /\ RowOf(jobs[1], n, bw).cores = n
                     /\ Label(RowOf(jobs[1], n, bw)) = jobs[1]
      BY <1>3, LabelOfRow DEF RowOf
    <3>3. QED
      BY <3>1, <3>2
  <2>4. ASSUME NEW r \in Range(log), r.job = 1, r.out # None
        PROVE  r.out < row.bw \/ (r.out = row.bw /\ row.cores <= Len(r.cmd.cpus))
    <3>1. PICK l \in DOMAIN full_rows : measured[l] = r
      BY <1>6, <2>4
    <3>2. full_rows[l].bw = r.out /\ full_rows[l].cores = Len(r.cmd.cpus)
      BY <2>3, <3>1
    <3>3. m <= l => row.cores <= full_rows[l].cores
      <4>1. l \in Nat /\ m \in Nat /\ m >= 1
        BY <1>5
      <4>2. \A p \in 1 .. l - 1 : full_rows[p].cores < full_rows[l].cores
        BY <1>1, <1>2 DEF Measurements
      <4>3. full_rows[l].cores \in Int /\ row.cores \in Int
        <5>1. full_rows[l] \in Row /\ row \in Row
          BY <1>5
        <5>2. QED
          BY <5>1 DEF Row
      <4>4. CASE m < l
        <5>1. m \in 1 .. l - 1
          BY <4>1, <4>4
        <5>2. QED
          BY <4>2, <4>3, <5>1
      <4>5. CASE m = l
        BY <4>3, <4>5
      <4>6. QED
        BY <4>1, <4>4, <4>5
    <3>4. QED
      BY <2>1, <3>2, <3>3
  <2> HIDE DEF row
  <2>5. /\ Label(row) = jobs[1] /\ \E r \in Range(log) : r.job = 1 /\ r.out # None
    BY <2>3 DEF row
  <2>6. DOMAIN summary_rows' = {1} /\ summary_rows'[1] = row
    BY <2>2
  <2>7. /\ Label(summary_rows[1])' = jobs'[1] /\ Succeeded(1)' /\ IsBest(summary_rows[1], 1)'
    BY <1>1, <2>4, <2>5, <2>6 DEF Label, Succeeded, IsBest
  <2>8. QED
    BY <1>1, <1>3, <1>4, <2>6, <2>7 DEF Summarised
<1>9. QED
  BY <1>7, <1>8

LEMMA SummarisedStep ==
    ASSUME IInv, Next
    PROVE  Summarised'
<1>1. TypeOK /\ Summarised /\ config' = config /\ Matrix' = Matrix
  BY ConfigKept, SameConfig DEF IInv
<1>2. CASE Measure \/ Collect \/ MeasureFails
  BY <1>2, SummaryOfRun
<1>3. CASE EndJob
  BY <1>3, SummaryOfJob
<1>4. CASE Report
  BY <1>4, SummaryOfReport
<1>5. CASE BuildJobs \/ ResolveMode \/ Plan
  <2>1. log' = <<>> /\ summary_rows' = <<>>
    BY <1>1, <1>5 DEF BuildJobs, ResolveMode, Plan, IInv, Early, Summarised, loops, history
  <2>2. \A k : ~ Succeeded(k)'
    BY <2>1, EmptyRange DEF Succeeded
  <2>3. QED
    BY <2>1, <2>2 DEF Summarised
<1>6. CASE ~ (Measure \/ Collect \/ MeasureFails \/ EndJob \/ Report \/ BuildJobs \/ ResolveMode \/ Plan)
  <2>1. UNCHANGED <<log, jobs, summary_rows, j>>
    BY <1>6, WhoChanges
  <2>2. /\ pc' \in {"build", "validate", "plan"} => pc \in {"build", "validate", "plan"}
        /\ (pc' = "run" /\ ~Matrix) => pc = "run"
    BY <1>1, <1>6 DEF Next, NoSuchMap, UnknownMode, Validate, Refuse, PlanFails, Raises, EndMatrix,
                      MakeDirs, WriteFails, WriteFull, WriteSummary, Die
  <2>3. QED
    BY <1>1, <2>1, <2>2 DEF Summarised, Succeeded, IsBest, Label
<1>7. QED
  BY <1>2, <1>3, <1>4, <1>5, <1>6

------------------------------------------------------------------------------
(* The two files.                                                          *)

LEMMA FilesStep ==
    ASSUME IInv, Next
    PROVE  Files'
<1>1. TypeOK /\ Files /\ Early /\ config' = config /\ Matrix' = Matrix
  BY ConfigKept, SameConfig DEF IInv
<1>2. CASE BuildJobs \/ ResolveMode \/ Plan \/ Validate \/ MakeDirs
  BY <1>1, <1>2 DEF BuildJobs, ResolveMode, Plan, Validate, MakeDirs, Files, FilesTogether, loops, files
<1>3. CASE NoSuchMap \/ UnknownMode \/ Refuse \/ PlanFails \/ Raises
  BY <1>1, <1>3 DEF NoSuchMap, UnknownMode, Refuse, PlanFails, Raises, Running, Die, Files,
                    FilesTogether, loops, files
<1>4. CASE Measure \/ Collect \/ MeasureFails
  <2>1. pc = "run" /\ pc' = "run" /\ UNCHANGED files
    BY <1>4 DEF Measure, Collect, Reports, MeasureFails, Running
  <2>2. QED
    BY <1>1, <2>1 DEF Files, FilesTogether, files
<1>5. CASE EndJob
  BY <1>1, <1>5 DEF EndJob, Files, FilesTogether, files
<1>6. CASE Report
  BY <1>1, <1>6 DEF Report, Files, FilesTogether, files, Die
<1>7. CASE EndMatrix
  BY <1>1, <1>7 DEF EndMatrix, Files, FilesTogether, files, loops
<1>8. CASE WriteFull \/ WriteSummary
  BY <1>1, <1>8 DEF WriteFull, WriteSummary, Files, FilesTogether, loops
<1>9. CASE WriteFails
  BY <1>1, <1>9 DEF WriteFails, Broken, Die, Files, FilesTogether, loops
<1>10. QED
  BY <1>2, <1>3, <1>4, <1>5, <1>6, <1>7, <1>8, <1>9 DEF Next

------------------------------------------------------------------------------
(* What is measured once, and chosen from what is measured.                *)

LEMMA RunOnceStep ==
    ASSUME IInv, Next
    PROVE  RunOnce'
<1>1. TypeOK /\ RunOnce /\ Logged /\ config' = config
  BY ConfigKept DEF IInv
<1>2. CASE Measure \/ Collect \/ MeasureFails
  <2>1. /\ Running /\ jobs' = jobs /\ core_list' = core_list /\ j' = j /\ i' = i + 1
    BY <1>1, <1>2, RunStep
  <2>2. PICK out \in Bandwidths \cup {None} :
          /\ log' = Append(log, Run(out))
          /\ out = None => UNCHANGED <<best, full_rows, measured>>
          /\ out # None => config.peak > 0 /\ measured' = Append(measured, Run(out))
    BY <1>1, <1>2, RunStep
  <2>3. Range(log') = Range(log) \cup {Run(out)}
    BY <1>1, <2>2, AppendRange DEF TypeOK
  <2>4. /\ i \in DOMAIN core_list /\ i \in Nat /\ Len(Cmd.cpus) = core_list[i]
        /\ DOMAIN core_list = 1 .. Len(core_list) /\ Len(core_list) \in Nat
        /\ core_list[i] \in 0 .. NumCpus
    BY <1>1, <2>1, RunFacts
  <2>5. 1 .. i - 1 \subseteq 1 .. i' - 1 /\ i \in 1 .. i' - 1
    BY <2>1, <2>4
  <2>6. Run(out).job = j /\ Len(Run(out).cmd.cpus) = core_list[i]
    BY <2>4 DEF Run
  <2>7. \A r \in Range(log') : r.job = j => \E n \in 1 .. i' - 1 : Len(r.cmd.cpus) = core_list[n]
    BY <1>1, <2>3, <2>5, <2>6 DEF RunOnce
  <2>8. CASE out = None
    <3>1. measured' = measured
      BY <2>2, <2>8
    <3>2. QED
      BY <1>1, <2>1, <2>7, <3>1 DEF RunOnce
  <2>9. CASE out # None
    <3> DEFINE n == Len(measured)
    <3>1. measured' = Append(measured, Run(out)) /\ config.peak > 0
      BY <2>2, <2>9
    <3>2. /\ n \in Nat /\ DOMAIN measured = 1 .. n /\ DOMAIN measured' = 1 .. n + 1
          /\ \A k \in 1 .. n : measured'[k] = measured[k]
          /\ measured'[n + 1] = Run(out)
      BY <1>1, <3>1, AppendRange DEF TypeOK
    <3> HIDE DEF n
    <3>3. ASSUME NEW m \in 1 .. i - 1
          PROVE  core_list[m] # core_list[i]
      <4>1. m \in DOMAIN core_list /\ m < i
        BY <2>4
      <4>2. core_list # <<>> /\ CorePlan
        BY <2>4 DEF IInv
      <4>3. core_list[m] < core_list[i]
        BY <2>4, <4>1, <4>2 DEF CorePlan
      <4>4. QED
        BY <2>4, <4>3
    <3>4. ASSUME NEW k \in 1 .. n, measured[k].job = j
          PROVE  Len(measured[k].cmd.cpus) # core_list[i]
      <4>1. measured[k] \in Range(log)
        BY <3>2 DEF IInv, Measurements
      <4>2. QED
        BY <1>1, <3>3, <3>4, <4>1 DEF RunOnce
    <3>5. ASSUME NEW k \in 1 .. n + 1, NEW l \in 1 .. n + 1,
                 measured'[k].job = measured'[l].job,
                 Len(measured'[k].cmd.cpus) = Len(measured'[l].cmd.cpus)
          PROVE  k = l
      <4>1. CASE k \in 1 .. n /\ l \in 1 .. n
        BY <1>1, <3>2, <3>5, <4>1 DEF RunOnce
      <4>2. CASE k = n + 1 /\ l \in 1 .. n
        BY <2>6, <3>2, <3>4, <3>5, <4>2
      <4>3. CASE l = n + 1 /\ k \in 1 .. n
        BY <2>6, <3>2, <3>4, <3>5, <4>3
      <4>4. QED
        BY <3>2, <4>1, <4>2, <4>3
    <3>6. QED
      BY <1>1, <2>1, <2>7, <3>1, <3>2, <3>5 DEF RunOnce
  <2>10. QED
    BY <2>8, <2>9
<1>3. CASE EndJob \/ Report
  <2>1. /\ log' = log /\ measured' = measured /\ j' = j + 1 /\ j \in Nat
    BY <1>1, <1>3 DEF EndJob, Report, history, TypeOK
  <2>2. ASSUME NEW r \in Range(log)
        PROVE  r.job # j + 1
    <3>1. r.job \in DOMAIN jobs /\ r.job <= j
      BY <1>1 DEF Logged
    <3>2. r.job \in Nat
      BY <1>1, <3>1 DEF TypeOK
    <3>3. QED
      BY <2>1, <3>1, <3>2
  <2>3. QED
    BY <1>1, <2>1, <2>2 DEF RunOnce
<1>4. CASE Plan
  <2>1. log = <<>> /\ log' = log /\ measured' = measured
    BY <1>4 DEF Plan, IInv, Early, loops, history
  <2>2. QED
    BY <1>1, <2>1, EmptyRange DEF RunOnce
<1>5. CASE ~ (Measure \/ Collect \/ MeasureFails \/ EndJob \/ Report \/ Plan)
  <2>1. UNCHANGED <<log, measured, core_list, i, j>>
    BY <1>5, WhoChanges
  <2>2. QED
    BY <1>1, <2>1 DEF RunOnce
<1>6. QED
  BY <1>2, <1>3, <1>4, <1>5

LEMMA RowRange ==
    ASSUME NEW s \in Seq(Row), NEW row \in Row
    PROVE  Range(Append(s, row)) = Range(s) \cup {row}
<1>1. s \in Seq(Range(s))
  <2>1. \A k \in 1 .. Len(s) : s[k] \in Range(s)
    BY DEF Range
  <2>2. QED
    BY <2>1, SeqDef
<1>2. QED
  BY <1>1, AppendRange

LEMMA ChosenStep ==
    ASSUME IInv, Next
    PROVE  Chosen'
<1>1. /\ TypeOK /\ Chosen /\ NoRow' = NoRow
      /\ full_rows \in Seq(Row) /\ summary_rows \in Seq(Row)
  BY DEF IInv, NoRow, TypeOK
<1>2. CASE Measure \/ Collect \/ MeasureFails
  <2>1. summary_rows' = summary_rows
    BY <1>1, <1>2, RunStep
  <2>2. PICK out \in Bandwidths \cup {None} :
          /\ out = None => UNCHANGED <<best, full_rows, measured>>
          /\ out # None =>
               LET row == RowOf(jobs[j], core_list[i], out)
               IN  /\ row \in Row
                   /\ full_rows' = Append(full_rows, row)
                   /\ best' = IF Matrix /\ Better(row) THEN row ELSE best
    BY <1>2, RowsGrow
  <2>3. CASE out = None
    BY <1>1, <2>1, <2>2, <2>3 DEF Chosen
  <2>4. CASE out # None
    <3> DEFINE row == RowOf(jobs[j], core_list[i], out)
    <3>1. row \in Row /\ full_rows' = Append(full_rows, row) /\ best' \in {row, best}
      BY <2>2, <2>4
    <3> HIDE DEF row
    <3>2. Range(full_rows') = Range(full_rows) \cup {row}
      BY <1>1, <3>1, RowRange
    <3>3. QED
      BY <1>1, <2>1, <3>1, <3>2 DEF Chosen
  <2>5. QED
    BY <2>3, <2>4
<1>3. CASE EndJob
  <2>1. /\ full_rows' = full_rows /\ best' = NoRow
        /\ summary_rows' = IF best = NoRow THEN summary_rows ELSE Append(summary_rows, best)
    BY <1>3 DEF EndJob
  <2>2. best # NoRow => Range(Append(summary_rows, best)) = Range(summary_rows) \cup {best}
    BY <1>1, RowRange DEF TypeOK
  <2>3. QED
    BY <1>1, <2>1, <2>2 DEF Chosen
<1>4. CASE Report
  <2>1. full_rows' = full_rows /\ best' = best
    BY <1>4 DEF Report
  <2>2. CASE full_rows = <<>>
    BY <1>1, <1>4, <2>1, <2>2 DEF Report, Chosen
  <2>3. CASE full_rows # <<>>
    <3>1. summary_rows' = <<FirstBest(full_rows)>>
      BY <1>4, <2>3 DEF Report
    <3>2. FirstBest(full_rows) \in Range(full_rows)
      BY <1>1, <2>3, FirstBestExists DEF Range
    <3>3. Range(summary_rows') = {FirstBest(full_rows)}
      BY <3>1 DEF Range
    <3>4. QED
      BY <1>1, <2>1, <3>2, <3>3 DEF Chosen
  <2>4. QED
    BY <2>2, <2>3
<1>5. CASE ~ (Measure \/ Collect \/ MeasureFails \/ EndJob \/ Report)
  BY <1>1, <1>5, WhoChanges DEF Chosen
<1>6. QED
  BY <1>2, <1>3, <1>4, <1>5

------------------------------------------------------------------------------
(* The invariant.                                                          *)

LEMMA IInvInit == Init => IInv
<1> SUFFICES ASSUME Init PROVE IInv
  OBVIOUS
<1>1. /\ log = <<>> /\ Range(log) = {} /\ jobs = <<>> /\ core_list = <<>> /\ measured = <<>>
      /\ full_rows = <<>> /\ summary_rows = <<>> /\ j = 1 /\ i = 1 /\ best = NoRow /\ pc = "build"
      /\ config \in Configs /\ full_csv = [new |-> FALSE, rows |-> <<>>]
      /\ summary_csv = [new |-> FALSE, rows |-> <<>>]
  BY EmptyRange DEF Init
<1>2. TypeOK
  <2>1. full_csv \in File /\ summary_csv \in File
    BY <1>1 DEF File
  <2>2. j \in 1 .. Len(jobs) + 1 /\ i \in 1 .. Len(core_list) + 1
    BY <1>1
  <2>3. full_rows \in Seq(Row) /\ summary_rows \in Seq(Row) /\ jobs \in Seq(JobType)
    BY <1>1
  <2>4. core_list \in Seq(0 .. NumCpus)
    BY <1>1
  <2>5. log \in Seq(Range(log)) /\ measured \in Seq(Range(measured))
    BY <1>1
  <2>6. QED
    BY <1>1, <2>1, <2>2, <2>3, <2>4, <2>5 DEF TypeOK
<1>3. \A k : ~ Succeeded(k)
  BY <1>1 DEF Succeeded
<1>4. Early /\ JobPlan /\ CorePlan /\ Logged /\ Files
  BY <1>1 DEF Early, JobPlan, CorePlan, Logged, Files, FilesTogether
<1>5. EveryCoreTried
  <2>1. Len(log) = RunNumber(j, i - 1)
    BY <1>1 DEF RunNumber
  <2>2. QED
    BY <1>1, <2>1 DEF EveryCoreTried
<1>6. Measurements /\ Summarised
  BY <1>1, <1>3 DEF Measurements, Summarised
<1>7. BestSoFar
  BY <1>1, <1>3 DEF BestSoFar
<1>8. RunOnce /\ Chosen
  BY <1>1 DEF RunOnce, Chosen
<1>9. QED
  BY <1>2, <1>4, <1>5, <1>6, <1>7, <1>8 DEF IInv

LEMMA IInvStep == IInv /\ [Next]_vars => IInv'
<1> SUFFICES ASSUME IInv, [Next]_vars PROVE IInv'
  OBVIOUS
<1>1. CASE Next
  BY <1>1, TypesStep, EarlyStep, JobPlanStep, CorePlanStep, LoggedStep, NumberedStep,
     MeasurementsStep, RunOnceStep, BestStep, ChosenStep, SummarisedStep, FilesStep DEF IInv
<1>2. CASE UNCHANGED vars
  <2>1. /\ UNCHANGED <<config, pc, jobs, core_list, j, i, best, full_rows, summary_rows, log, measured,
                       full_csv, summary_csv>>
    BY <1>2 DEF vars, loops, history, files
  <2>2. /\ Matrix' = Matrix /\ NumCpus' = NumCpus /\ Row' = Row /\ File' = File /\ max_cores' = max_cores
        /\ Registered' = Registered /\ SingleJob' = SingleJob /\ Valid' = Valid /\ NoRow' = NoRow
    BY <2>1, SameConfig, SameJobs DEF NoRow
  <2>3. TypeOK' /\ Early' /\ CorePlan' /\ Files'
    BY <2>1, <2>2 DEF IInv, TypeOK, Early, CorePlan, Files, FilesTogether
  <2>4. JobPlan'
    BY <2>1, <2>2 DEF IInv, JobPlan, Scheduled
  <2>5. Logged' /\ EveryCoreTried'
    BY <2>1, <2>2 DEF IInv, Logged, EveryCoreTried, RunNumber
  <2>6. Measurements'
    BY <2>1, <2>2 DEF IInv, Measurements, RowOfRun, RowOf, Pct
  <2>7. BestSoFar' /\ Summarised'
    BY <2>1, <2>2 DEF IInv, BestSoFar, Summarised, Succeeded, IsBest, Label
  <2>8. RunOnce' /\ Chosen'
    BY <2>1, <2>2 DEF IInv, RunOnce, Chosen
  <2>9. QED
    BY <2>3, <2>4, <2>5, <2>6, <2>7, <2>8 DEF IInv
<1>3. QED
  BY <1>1, <1>2

\* The inductive invariant holds, whatever the configuration, the node and the number of
\* benchmark runs (Init, the loops of main in sweep_matrix.py and sweep_bw.py).
THEOREM SweepInvariant == Spec => []IInv
BY IInvInit, IInvStep, PTL DEF Spec

\* Drawing the figures changes nothing of the sweep: Run.sh's plot_sweep.py only reads.
THEOREM PlotsOnlyRead == RunSpec => Spec
<1>1. RunInit => Init
  BY DEF RunInit
<1>2. [RunNext]_allVars => [Next]_vars
  BY DEF RunNext, Load, Draw, DrawFails, allVars, vars
<1>3. QED
  BY <1>1, <1>2, PTL DEF RunSpec, Spec

------------------------------------------------------------------------------
(* What the runs of the log read from their arguments.                     *)

LEMMA RunReads ==
    ASSUME IInv, NEW r \in Range(log)
    PROVE  LET job == jobs[r.job]
               read == Reading(config, r.cmd)
           IN  /\ config \in Configs /\ r.job \in DOMAIN jobs /\ job \in JobType /\ Valid
               /\ r.cmd.binary = job.pattern
               /\ read.threads = Len(r.cmd.cpus) /\ read.pages = config.pages
               /\ config.copy = "chbal" => read.balance = config.balance
               /\ job.pattern = "stream" => read.access = None /\ read.lines = None
               /\ Matrix => Scheduled(job) /\ read.access = job.access /\ read.lines = job.lines
               /\ (~Matrix /\ job.pattern = "rand") =>
                     read.access = config.access /\ read.lines = config.lines
               /\ job.pattern = "rand" => read.access \in AccessModes(config.copy)
               /\ LooksUpMap(config, read) => read.map = config.map
<1> DEFINE job == jobs[r.job]
<1> DEFINE read == Reading(config, r.cmd)
<1>1. /\ config \in Configs /\ jobs \in Seq(JobType) /\ r.job \in DOMAIN jobs
      /\ r.cmd = Command(config, job, r.cmd.cpus)
  BY DEF IInv, TypeOK, Logged
<1>2. job \in JobType
  BY <1>1
<1>3. /\ config.copy \in {"top", "chbal", "temp"} /\ config.map # NoMap /\ config.access \in Nat
  BY <1>1, ConfigAssumption
<1>4. Valid
  <2>1. log # <<>>
    BY EmptyRange
  <2>2. QED
    BY <2>1 DEF IInv, Early
<1>5. r.cmd.binary = job.pattern
  BY <1>1 DEF Command
<1>6. job.pattern \in {"stream", "rand"}
  BY <1>2 DEF JobType
<1> HIDE DEF job
<1>7. /\ read.threads = Len(r.cmd.cpus) /\ read.pages = config.pages
      /\ job.pattern = "rand" => /\ read.lines = OrDefault(job.lines, config.lines)
                                 /\ read.access = OrDefault(job.access, config.access)
      /\ job.pattern = "stream" => read.lines = None /\ read.access = None
      /\ config.copy = "chbal" => read.balance = config.balance
      /\ read.map = LET env == Environment(config, PassMap(config, job.pattern, OrDefault(job.access, config.access)))
                    IN  IF env = NoMap THEN config.baked ELSE env
  BY <1>1, <1>3, <1>6, ReadBack
<1> HIDE DEF read
<1>8. Matrix => Scheduled(job)
  BY <1>1 DEF IInv, JobPlan, job
<1>9. Matrix => read.access = job.access /\ read.lines = job.lines
  <2>1. CASE Matrix /\ job = Job("stream", None, None)
    BY <1>7, <2>1 DEF Job
  <2>2. CASE Matrix /\ job # Job("stream", None, None)
    <3>1. job.pattern = "rand" /\ job.lines \in Widths /\ job.access \in AccessModes(config.copy)
      BY <1>8, <2>2 DEF Scheduled
    <3>2. job.access # None
      BY <3>1 DEF AccessModes, None
    <3>3. job.lines # None
      BY <3>1, WidthIsNat DEF None
    <3>4. QED
      BY <1>7, <3>1, <3>2, <3>3 DEF OrDefault
  <2>3. QED
    BY <2>1, <2>2
<1>10. ~Matrix => jobs = SingleJob /\ job = Job(Mode, None, None)
  <2>1. ASSUME ~Matrix
        PROVE  jobs = SingleJob /\ job = Job(Mode, None, None)
    <3>1. jobs # <<>>
      BY <1>1
    <3>2. jobs = SingleJob
      BY <2>1, <3>1 DEF IInv, JobPlan
    <3>3. r.job = 1
      BY <1>1, <3>2 DEF SingleJob
    <3>4. QED
      BY <3>2, <3>3 DEF SingleJob, job
  <2>2. QED
    BY <2>1
<1>11. (~Matrix /\ job.pattern = "rand") => read.access = config.access /\ read.lines = config.lines
  BY <1>7, <1>10 DEF Job, OrDefault
<1>12. job.pattern = "rand" => read.access \in AccessModes(config.copy)
  <2>1. CASE Matrix /\ job.pattern = "rand"
    BY <1>8, <1>9, <2>1 DEF Scheduled, Job
  <2>2. CASE ~Matrix /\ job.pattern = "rand"
    <3>1. Mode = "rand"
      BY <1>10, <2>2 DEF Job
    <3>2. config.access \in AccessModes(config.copy)
      BY <1>4, <2>2, <3>1 DEF Valid, ValidSingle
    <3>3. QED
      BY <1>11, <2>2, <3>2
  <2>3. QED
    BY <2>1, <2>2
<1>13. LooksUpMap(config, read) => read.map = config.map
  <2>1. ASSUME LooksUpMap(config, read)
        PROVE  PassMap(config, job.pattern, OrDefault(job.access, config.access))
    <3>1. CASE config.copy = "chbal"
      BY <3>1 DEF PassMap
    <3>2. CASE config.copy # "chbal"
      <4>1. read.access \in {1, 2}
        BY <2>1, <3>2 DEF LooksUpMap
      <4>2. job.pattern = "rand" /\ read.access = OrDefault(job.access, config.access)
        BY <1>6, <1>7, <4>1 DEF None
      <4>3. CASE config.copy = "temp"
        BY <4>1, <4>2, <4>3 DEF PassMap, TempPasses
      <4>4. CASE config.copy = "top"
        <5>1. read.access \in 0 .. 1
          BY <1>12, <4>2, <4>4 DEF AccessModes
        <5>2. read.access = 1
          BY <4>1, <5>1
        <5>3. QED
          BY <4>2, <4>4, <5>2 DEF PassMap, TopPasses
      <4>5. QED
        BY <1>3, <3>2, <4>3, <4>4
    <3>3. QED
      BY <3>1, <3>2
  <2>2. QED
    BY <1>3, <1>7, <2>1 DEF Environment
<1>14. QED
  BY <1>1, <1>2, <1>4, <1>5, <1>7, <1>8, <1>9, <1>11, <1>12, <1>13 DEF job, read

------------------------------------------------------------------------------
(* The properties.                                                         *)

\* Every job of the matrix is run on every number of cores of the plan, failures included,
\* and the plan asks for no CPU the node does not have (main's loops, build_core_list).
THEOREM CoresTried == Spec => []EveryCoreTried
<1>1. IInv => EveryCoreTried
  BY DEF IInv
<1>2. QED
  BY <1>1, SweepInvariant, PTL

\* An older full file stays until everything is measured, and a new summary never stands
\* beside a full file it was not made from (the two open("w") at the end of main).
THEOREM FilesBelongTogether == Spec => []FilesTogether
<1>1. IInv => FilesTogether
  BY DEF IInv, Files
<1>2. QED
  BY <1>1, SweepInvariant, PTL

\* Each row carries the parameters its benchmark read, and no successful run is without
\* its row (run_benchmark's command line, main's rows).
THEOREM RowsMeasured == Spec => []RowsAreMeasurements
<1>1. ASSUME IInv
      PROVE  RowsAreMeasurements
  <2>1. Measurements
    BY <1>1 DEF IInv
  <2>2. DOMAIN full_rows = DOMAIN measured
    <3>1. full_rows \in Seq(Row) /\ measured \in Seq(Range(measured)) /\ Len(full_rows) = Len(measured)
      BY <1>1, <2>1 DEF IInv, TypeOK, Measurements
    <3>2. QED
      BY <3>1
  <2>3. ASSUME NEW k \in DOMAIN full_rows
        PROVE  LET row == full_rows[k]
                   run == measured[k]
                   read == Reading(config, run.cmd)
               IN  /\ run.out = row.bw
                   /\ run.cmd.binary = row.pattern /\ read.threads = row.cores
                   /\ Matrix => read.access = row.access /\ read.lines = row.lines
                   /\ (~Matrix /\ row.pattern = "rand") =>
                         read.access = config.access /\ read.lines = config.lines
    <3> DEFINE run == measured[k]
    <3> DEFINE job == jobs[run.job]
    <3>1. run \in Range(log) /\ full_rows[k] = RowOfRun(run)
      BY <2>1, <2>2 DEF Measurements
    <3> HIDE DEF run, job
    <3>2. /\ full_rows[k].pattern = job.pattern /\ full_rows[k].access = job.access
          /\ full_rows[k].lines = job.lines /\ full_rows[k].cores = Len(run.cmd.cpus)
          /\ full_rows[k].bw = run.out
      BY <3>1 DEF RowOfRun, RowOf, job
    <3>3. LET read == Reading(config, run.cmd)
          IN  /\ run.cmd.binary = job.pattern /\ read.threads = Len(run.cmd.cpus)
              /\ Matrix => read.access = job.access /\ read.lines = job.lines
              /\ (~Matrix /\ job.pattern = "rand") =>
                    read.access = config.access /\ read.lines = config.lines
      BY <1>1, <3>1, RunReads DEF job
    <3>4. QED
      BY <3>2, <3>3 DEF run
  <2>4. QED
    BY <2>1, <2>3 DEF RowsAreMeasurements, Measurements
<1>2. QED
  BY <1>1, SweepInvariant, PTL

\* Whatever the caller's environment and the binary's own default, and with sudo or not, a
\* benchmark that looks a mapping up finds the one of config.py (run_benchmark's env).
THEOREM ConfigReaches == Spec => []ConfigReachesBenchmark
<1>1. ASSUME IInv
      PROVE  ConfigReachesBenchmark
  BY <1>1, RunReads DEF ConfigReachesBenchmark
<1>2. QED
  BY <1>1, SweepInvariant, PTL

\* The matrix schedules nothing that the checks of the benchmarks' own main refuse
\* (build_jobs and validate of sweep_matrix.py).
THEOREM NothingRefused == Spec => []JobsAccepted
<1>1. ASSUME IInv, Matrix, NEW r \in Range(log),
             Reading(config, r.cmd).threads >= 1, Reading(config, r.cmd).pages >= 1,
             config.copy = "chbal" => Registered
      PROVE  Accepts(config, Reading(config, r.cmd))
  <2> DEFINE read == Reading(config, r.cmd)
  <2> DEFINE job == jobs[r.job]
  <2>1. /\ config \in Configs /\ r.job \in DOMAIN jobs /\ job \in JobType /\ ValidJobs /\ Scheduled(job)
        /\ read.pages = config.pages /\ read.access = job.access /\ read.lines = job.lines
        /\ job.pattern = "stream" => read.access = None
        /\ LooksUpMap(config, read) => read.map = config.map
    BY <1>1, RunReads DEF Valid
  <2>2. read.threads >= 1 /\ read.pages >= 1
    BY <1>1
  <2> HIDE DEF read, job
  <2>3. job.access # None => /\ job.pattern = "rand" /\ job.lines \in Widths
                             /\ job.access \in AccessModes(config.copy)
    BY <2>1 DEF Scheduled, Job
  <2>4. LooksUpMap(config, read) => read.map \in DOMAIN ColumnSteps
    <3>1. ASSUME LooksUpMap(config, read)
          PROVE  Registered
      <4>1. CASE config.copy = "chbal"
        BY <1>1, <4>1
      <4>2. CASE read.access \in {1, 2}
        BY <2>1, <4>2 DEF Scheduled, Job, None
      <4>3. QED
        BY <3>1, <4>1, <4>2 DEF LooksUpMap
    <3>2. QED
      BY <2>1, <3>1 DEF Registered
  <2>5. job.access # None => PowerOfTwo(config.pages)
    <3>1. job.access # None => HasJob("rand")
      BY <2>1, <2>3 DEF HasJob, job
    <3>2. QED
      BY <2>1, <3>1 DEF ValidJobs
  <2>6. ASSUME read.access \in {1, 2}
        PROVE  read.lines <= 2 ^ CompiledBits(read)
    <3>1. read.map = config.map /\ read.map \in DOMAIN ColumnSteps
      BY <2>1, <2>4, <2>6 DEF LooksUpMap
    <3>2. job.access # None
      BY <2>1, <2>6 DEF None
    <3>3. read.lines <= 2 ^ MaxColBits
      <4>1. read.lines \in Widths
        BY <2>1, <2>3, <3>2
      <4> DEFINE most == 2 ^ MaxColBits
      <4>2. most \in Int
        BY StepAssumption
      <4>3. read.lines \in 1 .. most
        BY <4>1, WidthAssumption
      <4> HIDE DEF most
      <4>4. read.lines <= most
        BY <4>2, <4>3
      <4>5. QED
        BY <4>4 DEF most
    <3>4. /\ read.access = 1 => read.lines <= 2 ^ ColumnSteps[config.map].low
          /\ read.access = 2 => read.lines <= 2 ^ ColumnSteps[config.map].high
      <4>1. job # Job("stream", None, None)
        BY <3>2 DEF Job
      <4>2. QED
        BY <2>1, <4>1 DEF Scheduled, MaxLpa
    <3>5. QED
      BY <2>6, <3>1, <3>3, <3>4 DEF CompiledBits
  <2>7. Accepts(config, read)
    BY <2>1, <2>2, <2>3, <2>4, <2>5, <2>6 DEF Accepts
  <2>8. QED
    BY <2>7 DEF read
<1>2. IInv => JobsAccepted
  BY <1>1 DEF JobsAccepted
<1>3. QED
  BY <1>2, SweepInvariant, PTL

\* The summary has one row for each finished job that succeeded at all, a measured one on the
\* fewest cores that reach the job's best bandwidth (best in main, max of sweep_bw.py).
THEOREM SummaryOfBest == Spec => []SummaryIsBest
<1>1. ASSUME IInv
      PROVE  SummaryIsBest
  <2>1. Summarised /\ JobPlan /\ Logged /\ jobs \in Seq(JobType) /\ j \in Nat /\ summary_rows \in Seq(Row)
    BY <1>1 DEF IInv, TypeOK
  <2>2. \A k, l \in DOMAIN jobs : jobs[k] = jobs[l] => k = l
    BY <2>1 DEF JobPlan
  <2>3. ASSUME NEW n \in DOMAIN summary_rows
        PROVE  \E k \in 1 .. j - 1 : /\ k \in DOMAIN jobs /\ Label(summary_rows[n]) = jobs[k]
                                      /\ Succeeded(k) /\ IsBest(summary_rows[n], k)
    BY <2>1 DEF Summarised
  <2>4. ASSUME NEW k \in DOMAIN jobs, Finished(k)
        PROVE  Cardinality({n \in DOMAIN summary_rows : Label(summary_rows[n]) = jobs[k]}) =
                 IF \E r \in Range(log) : r.job = k /\ r.out # None THEN 1 ELSE 0
    <3> DEFINE S == {n \in DOMAIN summary_rows : Label(summary_rows[n]) = jobs[k]}
    <3>1. CASE Succeeded(k)
      <4>1. k \in 1 .. j - 1
        BY <2>1, <2>4 DEF Finished
      <4>2. PICK n \in DOMAIN summary_rows : Label(summary_rows[n]) = jobs[k]
        BY <2>1, <3>1, <4>1 DEF Summarised
      <4>3. \A m \in DOMAIN summary_rows : Label(summary_rows[m]) = jobs[k] => m = n
        BY <2>1, <4>2 DEF Summarised
      <4>4. S = {n}
        BY <4>2, <4>3
      <4>5. Cardinality(S) = 1
        BY <4>4, FS_Singleton
      <4>6. QED
        BY <3>1, <4>5 DEF Succeeded
    <3>2. CASE ~ Succeeded(k)
      <4>1. S = {}
        BY <2>2, <2>3, <3>2
      <4>2. Cardinality(S) = 0
        BY <4>1, FS_EmptySet
      <4>3. QED
        BY <3>2, <4>2 DEF Succeeded
    <3>3. QED
      BY <3>1, <3>2
  <2>5. ASSUME NEW n \in DOMAIN summary_rows, NEW r \in Range(log),
               jobs[r.job] = Label(summary_rows[n]), r.out # None
        PROVE  \/ r.out < summary_rows[n].bw
               \/ r.out = summary_rows[n].bw /\ summary_rows[n].cores <= Len(r.cmd.cpus)
    <3>1. PICK k \in 1 .. j - 1 : /\ k \in DOMAIN jobs /\ Label(summary_rows[n]) = jobs[k]
                                  /\ IsBest(summary_rows[n], k)
      BY <2>3
    <3>2. r.job \in DOMAIN jobs
      BY <2>1 DEF Logged
    <3>3. r.job = k
      BY <2>2, <2>5, <3>1, <3>2
    <3>4. QED
      BY <2>5, <3>1, <3>3 DEF IsBest
  <2>6. \A row \in Range(summary_rows) : \E n \in DOMAIN summary_rows : row = summary_rows[n]
    BY DEF Range
  <2>7. \A row \in Range(summary_rows) : row \in Range(full_rows)
    BY <1>1 DEF IInv, Chosen
  <2>8. QED
    BY <2>4, <2>5, <2>6, <2>7 DEF SummaryIsBest
<1>2. QED
  BY <1>1, SweepInvariant, PTL

------------------------------------------------------------------------------
(* The figures.                                                            *)

LEMMA DrawingInit == RunInit => Drawing
<1> SUFFICES ASSUME RunInit PROVE Drawing
  OBVIOUS
<1>1. plot = "idle" /\ figures = [f \in Range(FigureNames) |-> Older]
  BY DEF RunInit, PlotInit
<1>2. Drawn = {}
  BY <1>1 DEF Drawn
<1>3. QED
  BY <1>1, <1>2 DEF Drawing

\* A sweep that has ended does not go on.
LEMMA DoneStays == pc = "done" => ~Next
BY DEF Next, BuildJobs, NoSuchMap, ResolveMode, UnknownMode, Validate, Refuse, Plan, PlanFails, Measure,
       Collect, Reports, MeasureFails, Raises, Running, EndJob, Report, EndMatrix, MakeDirs, WriteFails,
       WriteFull, WriteSummary

LEMMA SameFigures ==
    ASSUME config' = config, plotVars' = plotVars
    PROVE  /\ plot' = plot /\ figures' = figures /\ FigureNames' = FigureNames
           /\ Drawn' = Drawn /\ Matrix' = Matrix /\ Temp' = Temp
BY SameConfig DEF plotVars, FigureNames, Drawn

LEMMA DrawingStep ==
    ASSUME Drawing, [RunNext]_allVars
    PROVE  Drawing'
<1>1. CASE Next /\ UNCHANGED plotVars
  <2>1. config' = config
    BY <1>1, ConfigKept
  <2>2. /\ plot' = plot /\ figures' = figures /\ FigureNames' = FigureNames /\ Drawn' = Drawn
    BY <1>1, <2>1, SameFigures
  <2>3. plot = "idle" /\ Drawn = {}
    BY <1>1, DoneStays DEF Drawing
  <2>4. QED
    BY <2>2, <2>3 DEF Drawing
<1>2. ASSUME UNCHANGED vars
      PROVE  /\ config' = config /\ pc' = pc /\ full_csv' = full_csv
             /\ FigureNames' = FigureNames /\ Matrix' = Matrix /\ Temp' = Temp
  BY <1>2, SameConfig DEF vars, files, FigureNames
<1>3. CASE Load \/ DrawFails
  <2>1. UNCHANGED vars /\ figures' = figures /\ plot' \in {"draw", "died"}
    BY <1>3 DEF Load, DrawFails
  <2>2. pc = "done" /\ Matrix /\ ~Temp
    BY <1>3 DEF Load, DrawFails, Drawing
  <2>3. Drawn' = Drawn
    BY <2>1 DEF Drawn
  <2>4. QED
    BY <1>2, <2>1, <2>2, <2>3 DEF Drawing
<1>4. CASE Draw
  <2> DEFINE name == NextFigure
  <2> DEFINE figure == Figure(name, full_csv.rows)
  <2>1. /\ plot = "draw" /\ UNCHANGED vars /\ plot' \in {"draw", "done"}
        /\ figures' = [figures EXCEPT ![name] = figure]
    BY <1>4 DEF Draw
  <2>2. pc = "done" /\ Matrix /\ ~Temp
    BY <2>1 DEF Drawing
  <2> HIDE DEF name
  <2>3. DOMAIN figures' = DOMAIN figures
    BY <2>1
  <2>4. ASSUME NEW f \in Drawn'
        PROVE  figures'[f] = Figure(f, full_csv'.rows)
    <3>1. f \in DOMAIN figures /\ figures'[f] # Older
      BY <2>3, <2>4 DEF Drawn, Older
    <3>2. CASE f = name
      <4> HIDE DEF figure
      <4>1. figures'[f] = figure
        BY <2>1, <3>1, <3>2
      <4>2. QED
        BY <1>2, <2>1, <3>2, <4>1 DEF figure
    <3>3. CASE f # name
      <4>1. figures'[f] = figures[f]
        BY <2>1, <3>1, <3>3
      <4>2. f \in Drawn
        BY <3>1, <4>1 DEF Drawn
      <4>3. QED
        BY <1>2, <2>1, <4>1, <4>2 DEF Drawing
    <3>4. QED
      BY <3>2, <3>3
  <2>5. QED
    BY <1>2, <2>1, <2>2, <2>3, <2>4 DEF Drawing
<1>5. CASE UNCHANGED allVars
  <2>1. UNCHANGED vars /\ UNCHANGED plotVars
    BY <1>5 DEF allVars
  <2>2. plot' = plot /\ figures' = figures /\ Drawn' = Drawn
    BY <1>2, <2>1, SameFigures
  <2>3. QED
    BY <1>2, <2>1, <2>2 DEF Drawing
<1>6. QED
  BY <1>1, <1>3, <1>4, <1>5 DEF RunNext

\* The figures are those of a sweep that ended well, and the invariant of the sweep holds
\* beside them (Run.sh, main of plot_sweep.py).
THEOREM RunInvariant == RunSpec => []RunInv
<1>1. RunInit => Drawing
  BY DrawingInit
<1>2. Drawing /\ [RunNext]_allVars => Drawing'
  BY DrawingStep
<1>3. RunSpec => []Drawing
  BY <1>1, <1>2, PTL DEF RunSpec
<1>4. IInv /\ Drawing => RunInv
  BY DEF RunInv
<1>5. QED
  BY <1>3, <1>4, PlotsOnlyRead, SweepInvariant, PTL

\* What every row of the full file is: the row of a run.
LEMMA RowsOfRuns ==
    ASSUME IInv
    PROVE  /\ \A q \in Range(full_rows) : \E k \in DOMAIN measured :
                /\ measured[k] \in Range(log) /\ measured[k].out # None
                /\ q = full_rows[k] /\ q = RowOfRun(measured[k])
           /\ DOMAIN full_rows = DOMAIN measured /\ DOMAIN measured = 1 .. Len(measured)
           /\ Len(measured) \in Nat
<1>1. /\ measured \in Seq(Range(measured)) /\ full_rows \in Seq(Row) /\ Measurements
  BY DEF IInv, TypeOK
<1>2. /\ DOMAIN measured = 1 .. Len(measured) /\ Len(measured) \in Nat
      /\ DOMAIN full_rows = 1 .. Len(measured)
  BY <1>1 DEF Measurements
<1>3. ASSUME NEW q \in Range(full_rows)
      PROVE  \E k \in DOMAIN measured :
                /\ measured[k] \in Range(log) /\ measured[k].out # None
                /\ q = full_rows[k] /\ q = RowOfRun(measured[k])
  <2>1. PICK k \in DOMAIN full_rows : q = full_rows[k]
    BY DEF Range
  <2>2. QED
    BY <1>1, <1>2, <2>1 DEF Measurements
<1>4. QED
  BY <1>2, <1>3

\* The label of a row is the job of its run, and its percentage that of its bandwidth.
LEMMA RowFacts ==
    ASSUME IInv, NEW r \in Range(log), r.out # None, NEW q, q = RowOfRun(r)
    PROVE  /\ r.job \in DOMAIN jobs /\ r.job \in Nat /\ jobs[r.job] \in JobType
           /\ Label(q) = jobs[r.job] /\ q.pattern = jobs[r.job].pattern
           /\ q.bw = r.out /\ r.out \in Nat /\ q.pct = Pct(r.out) /\ q.cores = Len(r.cmd.cpus)
<1>1. r.job \in DOMAIN jobs /\ r.out \in Bandwidths /\ jobs \in Seq(JobType)
  BY DEF IInv, TypeOK, Logged
<1>2. r.job \in Nat /\ jobs[r.job] \in JobType
  BY <1>1
<1>3. r.out \in Nat
  BY <1>1, BandwidthAssumption
<1>4. Label(q) = jobs[r.job]
  BY <1>2, LabelOfRow DEF RowOfRun
<1>5. QED
  BY <1>1, <1>2, <1>3, <1>4 DEF RowOfRun, RowOf

LEMMA Divided ==
    ASSUME NEW x \in Nat, NEW d \in Nat, d > 0
    PROVE  /\ x \div d \in Nat /\ (x % d) \in Nat /\ (x % d) < d
           /\ x = d * (x \div d) + (x % d)
OBVIOUS

LEMMA PctMonotone ==
    ASSUME NEW a \in Nat, NEW b \in Nat, a <= b, config.peak \in Nat, config.peak > 0
    PROVE  Pct(a) <= Pct(b) /\ Pct(a) \in Nat
<1> DEFINE p == config.peak
<1> DEFINE m == a \div p
<1> DEFINE n == b \div p
<1> DEFINE u == a % p
<1> DEFINE v == b % p
<1>1. p \in Nat /\ p > 0
  OBVIOUS
<1> HIDE DEF p
<1>2. /\ m \in Nat /\ u \in Nat /\ a = p * m + u
      /\ n \in Nat /\ v \in Nat /\ v < p /\ b = p * n + v
  BY <1>1, Divided
<1> HIDE DEF m, n, u, v
<1>3. ~ (n < m)
  <2>1. ASSUME n + 1 <= m
        PROVE  FALSE
    <3>1. (n + 1) * p <= m * p
      BY <1>1, <1>2, <2>1, TimesMonotone
    <3>2. /\ (n + 1) * p = p * n + p /\ m * p = p * m
          /\ p * n \in Nat /\ p * m \in Nat
      BY <1>1, <1>2
    <3>3. QED
      BY <1>1, <1>2, <3>1, <3>2
  <2>2. QED
    BY <1>2, <2>1
<1>4. QED
  BY <1>2, <1>3 DEF Pct, m, n, p

\* A member that no other exceeds is the maximum.
LEMMA MaxIs ==
    ASSUME NEW S, S \subseteq Nat, NEW m \in S, \A y \in S : y <= m
    PROVE  Max(S) = m
<1>1. \A y \in S : m >= y
  OBVIOUS
<1>2. /\ Max(S) \in S
      /\ \A y \in S : Max(S) >= y
  BY <1>1 DEF Max
<1>3. m \in Nat /\ Max(S) \in Nat /\ m >= Max(S) /\ Max(S) >= m
  BY <1>1, <1>2
<1>4. QED
  BY <1>3

\* A summary row has the highest percentage of the rows with its label.
LEMMA SummaryHighest ==
    ASSUME IInv, NEW s \in Range(summary_rows), NEW q \in Range(full_rows), Label(q) = Label(s)
    PROVE  q.pct \in Nat /\ s.pct \in Nat /\ q.pct <= s.pct
<1>1. JobPlan /\ Chosen /\ Summarised /\ RunOnce /\ config \in Configs
  BY DEF IInv, TypeOK
<1>2. s \in Range(full_rows)
  BY <1>1 DEF Chosen
<1>3. PICK k \in DOMAIN measured : /\ measured[k] \in Range(log) /\ measured[k].out # None
                                   /\ q = RowOfRun(measured[k])
  BY RowsOfRuns
<1>4. PICK l \in DOMAIN measured : /\ measured[l] \in Range(log) /\ measured[l].out # None
                                   /\ s = RowOfRun(measured[l])
  BY <1>2, RowsOfRuns
<1> DEFINE r == measured[k]
<1> DEFINE t == measured[l]
<1>5. r \in Range(log) /\ r.out # None /\ q = RowOfRun(r)
  BY <1>3
<1>6. t \in Range(log) /\ t.out # None /\ s = RowOfRun(t)
  BY <1>4
<1> HIDE DEF r, t
<1>7. r.job \in DOMAIN jobs /\ Label(q) = jobs[r.job] /\ q.pct = Pct(r.out) /\ r.out \in Nat
  BY <1>5, RowFacts
<1>8. s.bw = t.out /\ s.pct = Pct(t.out) /\ t.out \in Nat
  BY <1>6, RowFacts
<1>9. PICK n \in DOMAIN summary_rows : s = summary_rows[n]
  BY DEF Range
<1>10. PICK m \in DOMAIN jobs : Label(s) = jobs[m] /\ IsBest(s, m)
  BY <1>1, <1>9 DEF Summarised
<1>11. r.job = m
  BY <1>1, <1>7, <1>10 DEF JobPlan
<1>12. r.out <= t.out
  BY <1>5, <1>7, <1>8, <1>10, <1>11 DEF IsBest
<1>13. config.peak \in Nat /\ config.peak > 0
  <2>1. measured # <<>>
    BY <1>3
  <2>2. QED
    BY <1>1, <2>1, ConfigAssumption DEF RunOnce
<1>14. Pct(r.out) <= Pct(t.out) /\ Pct(r.out) \in Nat
  BY <1>7, <1>8, <1>12, <1>13, PctMonotone
<1>15. Pct(t.out) \in Nat
  BY <1>8, <1>13, PctMonotone
<1>16. QED
  BY <1>7, <1>8, <1>14, <1>15

\* When all jobs are finished, each label that was measured has its summary row.
LEMMA SummaryExists ==
    ASSUME IInv, j > Len(jobs), NEW q \in Range(full_rows)
    PROVE  \E s \in Range(summary_rows) : Label(s) = Label(q)
<1>1. PICK k \in DOMAIN measured : /\ measured[k] \in Range(log) /\ measured[k].out # None
                                   /\ q = RowOfRun(measured[k])
  BY RowsOfRuns
<1>2. LET r == measured[k] IN r.job \in DOMAIN jobs /\ Label(q) = jobs[r.job] /\ Succeeded(r.job)
  BY <1>1, RowFacts DEF Succeeded
<1>3. measured[k].job \in 1 .. j - 1
  <2>1. jobs \in Seq(JobType) /\ j \in 1 .. Len(jobs) + 1
    BY DEF IInv, TypeOK
  <2>2. measured[k].job \in 1 .. Len(jobs) /\ Len(jobs) \in Nat
    BY <1>2, <2>1
  <2>3. QED
    BY <2>1, <2>2
<1>4. \E n \in DOMAIN summary_rows : Label(summary_rows[n]) = jobs[measured[k].job]
  BY <1>2, <1>3 DEF IInv, Summarised
<1>5. QED
  BY <1>2, <1>4 DEF Range

\* What the matrix has finished: its files, and the rows of stream, which have one label.
LEMMA SweepDone ==
    ASSUME RunInv, Drawn # {}
    PROVE  /\ pc = "done" /\ Matrix /\ summary_csv = [new |-> TRUE, rows |-> summary_rows]
           /\ full_csv = [new |-> TRUE, rows |-> full_rows] /\ j > Len(jobs)
           /\ \A f \in Drawn : figures[f] = Figure(f, full_rows)
<1>1. pc = "done" /\ Matrix /\ FilesTogether
  BY DEF RunInv, Drawing, IInv, Files
<1>2. summary_csv = [new |-> TRUE, rows |-> summary_rows]
  BY <1>1 DEF FilesTogether
<1>3. full_csv = [new |-> TRUE, rows |-> full_rows]
  BY <1>1, <1>2 DEF FilesTogether
<1>4. j > Len(jobs)
  BY <1>1, <1>3 DEF FilesTogether
<1>5. full_csv.rows = full_rows
  BY <1>3
<1>6. \A f \in Drawn : figures[f] = Figure(f, full_csv.rows)
  BY DEF RunInv, Drawing
<1>7. QED
  BY <1>1, <1>2, <1>3, <1>4, <1>5, <1>6

LEMMA StreamLabel ==
    ASSUME IInv, Matrix, NEW q \in Range(full_rows), q.pattern = "stream"
    PROVE  Label(q) = Job("stream", None, None)
<1>1. PICK k \in DOMAIN measured : /\ measured[k] \in Range(log) /\ measured[k].out # None
                                   /\ q = RowOfRun(measured[k])
  BY RowsOfRuns
<1>2. LET m == measured[k].job
      IN  m \in DOMAIN jobs /\ Label(q) = jobs[m] /\ jobs[m].pattern = "stream"
  BY <1>1, RowFacts
<1>3. Scheduled(jobs[measured[k].job])
  BY <1>2 DEF IInv, JobPlan
<1>4. QED
  BY <1>2, <1>3 DEF Scheduled

LEMMA SameLabel ==
    ASSUME NEW p, NEW q
    PROVE  Label(p) = Label(q) <=> p.pattern = q.pattern /\ p.access = q.access /\ p.lines = q.lines
BY DEF Label, Job

\* groupby().max() finds the percentages of the summary.
LEMMA BestAreSummary ==
    ASSUME IInv, j > Len(jobs), NEW access
    PROVE  BestByWidth(Rand(full_rows, access)) =
               {<<r.lines, r.pct>> : r \in Rand(summary_rows, access)}
<1> DEFINE S == Rand(full_rows, access)
<1> DEFINE Of(r) == {q.pct : q \in {q \in S : q.lines = r.lines}}
<1>1. ASSUME NEW r \in S, NEW s \in Range(summary_rows), Label(s) = Label(r)
      PROVE  s \in S /\ s \in Rand(summary_rows, access) /\ s.lines = r.lines /\ Max(Of(r)) = s.pct
  <2>1. r \in Range(full_rows) /\ r.pattern = "rand" /\ r.access = access
    BY DEF Rand
  <2>2. s \in Range(full_rows)
    BY DEF IInv, Chosen
  <2>3. s.pattern = "rand" /\ s.access = access /\ s.lines = r.lines
    BY <1>1, <2>1, SameLabel
  <2>4. s \in S /\ s \in Rand(summary_rows, access)
    BY <2>2, <2>3 DEF Rand
  <2>5. ASSUME NEW q \in S, q.lines = r.lines
        PROVE  q.pct \in Nat /\ q.pct <= s.pct
    <3>1. q \in Range(full_rows) /\ q.pattern = "rand" /\ q.access = access
      BY DEF Rand
    <3>2. Label(q) = Label(s)
      BY <2>3, <2>5, <3>1, SameLabel
    <3>3. QED
      BY <3>1, <3>2, SummaryHighest
  <2> HIDE DEF S
  <2>6. /\ Of(r) \subseteq Nat /\ s.pct \in Of(r)
        /\ \A y \in Of(r) : y <= s.pct
    BY <2>3, <2>4, <2>5
  <2> HIDE DEF Of
  <2>7. Max(Of(r)) = s.pct
    BY <2>6, MaxIs
  <2>8. QED
    BY <2>3, <2>4, <2>7
<1>2. BestByWidth(S) = {<<r.lines, Max(Of(r))>> : r \in S}
  BY DEF BestByWidth
<1>3. ASSUME NEW r \in S
      PROVE  \E s \in Rand(summary_rows, access) : <<r.lines, Max(Of(r))>> = <<s.lines, s.pct>>
  <2>1. r \in Range(full_rows)
    BY DEF Rand
  <2>2. PICK s \in Range(summary_rows) : Label(s) = Label(r)
    BY <2>1, SummaryExists
  <2> HIDE DEF S, Of
  <2>3. QED
    BY <1>1, <2>2
<1>4. ASSUME NEW s \in Rand(summary_rows, access)
      PROVE  \E r \in S : <<r.lines, Max(Of(r))>> = <<s.lines, s.pct>>
  <2>1. s \in Range(summary_rows) /\ s.pattern = "rand" /\ s.access = access
    BY DEF Rand
  <2>2. s \in S
    BY <2>1 DEF IInv, Chosen, Rand
  <2> HIDE DEF S, Of
  <2>3. QED
    BY <1>1, <2>1, <2>2
<1>5. QED
  <2> HIDE DEF S, Of
  <2>1. {<<r.lines, Max(Of(r))>> : r \in S} = {<<s.lines, s.pct>> : s \in Rand(summary_rows, access)}
    BY <1>3, <1>4
  <2>2. QED
    BY <1>2, <2>1 DEF S

\* The rows of one job, which a curve over cores is made of.
Labelled(rows, job) == {q \in Range(rows) : Label(q) = job}

LEMMA StreamLabelled ==
    ASSUME IInv, Matrix
    PROVE  Stream(full_rows) = Labelled(full_rows, Job("stream", None, None))
<1>1. ASSUME NEW q \in Stream(full_rows)
      PROVE  q \in Labelled(full_rows, Job("stream", None, None))
  <2>1. q \in Range(full_rows) /\ q.pattern = "stream"
    BY DEF Stream
  <2>2. QED
    BY <2>1, StreamLabel DEF Labelled
<1>2. ASSUME NEW q \in Labelled(full_rows, Job("stream", None, None))
      PROVE  q \in Stream(full_rows)
  BY DEF Labelled, Stream, Label, Job
<1>3. QED
  BY <1>1, <1>2

\* The best percentage of a job is that of its one summary row.
LEMMA BestIsSummary ==
    ASSUME IInv, j > Len(jobs), NEW job
    PROVE  /\ \A s \in Range(summary_rows) : Label(s) = job =>
                 /\ s \in Labelled(full_rows, job) /\ s.pct \in Nat
                 /\ s.pct = Max({r.pct : r \in Labelled(full_rows, job)})
           /\ Labelled(full_rows, job) # {} => \E s \in Range(summary_rows) : Label(s) = job
<1> DEFINE S == Labelled(full_rows, job)
<1> DEFINE P == {r.pct : r \in S}
<1>1. ASSUME NEW s \in Range(summary_rows), Label(s) = job
      PROVE  s \in S /\ s.pct \in Nat /\ s.pct = Max(P)
  <2>1. s \in S
    BY <1>1 DEF IInv, Chosen, Labelled
  <2>2. ASSUME NEW q \in S
        PROVE  q.pct \in Nat /\ q.pct <= s.pct
    <3>1. q \in Range(full_rows) /\ Label(q) = Label(s)
      BY <1>1 DEF Labelled
    <3>2. QED
      BY <3>1, SummaryHighest
  <2> HIDE DEF S
  <2>3. P \subseteq Nat /\ s.pct \in P /\ \A y \in P : y <= s.pct
    BY <2>1, <2>2
  <2> HIDE DEF P
  <2>4. QED
    BY <2>1, <2>3, MaxIs
<1>2. ASSUME NEW q \in S
      PROVE  \E s \in Range(summary_rows) : Label(s) = job
  <2>1. q \in Range(full_rows) /\ Label(q) = job
    BY DEF Labelled
  <2>2. QED
    BY <2>1, SummaryExists
<1>3. QED
  BY <1>1, <1>2

\* The best percentage of stream is that of its one summary row.
LEMMA StreamIsSummary ==
    ASSUME IInv, Matrix, j > Len(jobs)
    PROVE  /\ \A s \in Stream(summary_rows) :
                 s \in Stream(full_rows) /\ s.pct \in Nat
                 /\ s.pct = Max({r.pct : r \in Stream(full_rows)})
           /\ Stream(full_rows) # {} => Stream(summary_rows) # {}
<1> DEFINE job == Job("stream", None, None)
<1>1. Stream(full_rows) = Labelled(full_rows, job)
  BY StreamLabelled
<1>2. ASSUME NEW s \in Stream(summary_rows)
      PROVE  s \in Range(summary_rows) /\ Label(s) = job
  <2>1. s \in Range(summary_rows) /\ s.pattern = "stream" /\ s \in Range(full_rows)
    BY DEF Stream, IInv, Chosen
  <2>2. QED
    BY <2>1, StreamLabel
<1>3. ASSUME NEW s \in Range(summary_rows), Label(s) = job
      PROVE  s \in Stream(summary_rows)
  BY <1>3 DEF Stream, Label, Job
<1> HIDE DEF job
<1>4. QED
  BY <1>1, <1>2, <1>3, BestIsSummary

\* Each run of a job that gave a bandwidth has a point of its own.
LEMMA PointsAreRuns ==
    ASSUME IInv, Matrix, NEW job
    PROVE  Cardinality(Points(Labelled(full_rows, job))) = Cardinality(Runs(job))
<1> DEFINE N == Runs(job)
<1> DEFINE T == Points(Labelled(full_rows, job))
<1> DEFINE point == [n \in N |-> <<full_rows[n].cores, full_rows[n].pct>>]
<1>1. /\ DOMAIN full_rows = DOMAIN measured /\ DOMAIN measured = 1 .. Len(measured)
      /\ Len(measured) \in Nat
  BY RowsOfRuns
<1>2. N \subseteq DOMAIN measured
  BY DEF Runs
<1>3. ASSUME NEW n \in DOMAIN measured
      PROVE  /\ full_rows[n] \in Range(full_rows)
             /\ full_rows[n].cores = Len(measured[n].cmd.cpus)
             /\ measured[n].job \in DOMAIN jobs
             /\ Label(full_rows[n]) = jobs[measured[n].job]
             /\ n \in N <=> Label(full_rows[n]) = job
  <2>1. /\ measured[n] \in Range(log) /\ measured[n].out # None
        /\ full_rows[n] = RowOfRun(measured[n])
    BY DEF IInv, Measurements
  <2>2. full_rows[n] \in Range(full_rows)
    BY <1>1 DEF Range
  <2>3. /\ measured[n].job \in DOMAIN jobs /\ Label(full_rows[n]) = jobs[measured[n].job]
        /\ full_rows[n].cores = Len(measured[n].cmd.cpus)
    BY <2>1, RowFacts
  <2>4. LET row == full_rows[n]
            read == Reading(config, measured[n].cmd)
        IN  measured[n].cmd.binary = row.pattern /\ read.access = row.access /\ read.lines = row.lines
    <3>1. LET read == Reading(config, measured[n].cmd)
          IN  /\ measured[n].cmd.binary = jobs[measured[n].job].pattern
              /\ read.access = jobs[measured[n].job].access
              /\ read.lines = jobs[measured[n].job].lines
      BY <2>1, RunReads
    <3>2. QED
      BY <2>3, <3>1 DEF Label, Job
  <2>5. Job(measured[n].cmd.binary, Reading(config, measured[n].cmd).access,
            Reading(config, measured[n].cmd).lines) = Label(full_rows[n])
    BY <2>4 DEF Label
  <2>6. QED
    BY <2>2, <2>3, <2>5 DEF Runs
<1>4. ASSUME NEW m \in N, NEW n \in N, point[m] = point[n]
      PROVE  m = n
  <2>1. m \in DOMAIN measured /\ n \in DOMAIN measured
    BY <1>2
  <2>2. measured[m].job = measured[n].job
    BY <1>3, <2>1 DEF IInv, JobPlan
  <2>3. full_rows[m].cores = full_rows[n].cores
    BY <1>4
  <2>4. QED
    BY <1>3, <2>1, <2>2, <2>3 DEF IInv, RunOnce
<1>5. ASSUME NEW n \in N
      PROVE  point[n] \in T
  <2>1. full_rows[n] \in Labelled(full_rows, job)
    BY <1>2, <1>3 DEF Labelled
  <2>2. QED
    BY <2>1 DEF Points
<1>6. ASSUME NEW t \in T
      PROVE  \E n \in N : point[n] = t
  <2>1. PICK q \in Labelled(full_rows, job) : t = <<q.cores, q.pct>>
    BY DEF Points
  <2>2. PICK n \in DOMAIN measured : q = full_rows[n]
    BY <1>1, <2>1 DEF Labelled, Range
  <2>3. n \in N
    BY <1>3, <2>1, <2>2 DEF Labelled
  <2>4. QED
    BY <2>1, <2>2, <2>3
<1>7. point \in [N -> T]
  BY <1>5
<1>8. IsFiniteSet(N)
  <2>1. IsFiniteSet(1 .. Len(measured))
    BY <1>1, FS_Interval
  <2>2. QED
    BY <1>1, <1>2, <2>1, FS_Subset
<1> HIDE DEF N, T, point
<1>9. point \in Bijection(N, T)
  BY <1>4, <1>6, <1>7 DEF Bijection, Injection, Surjection, IsInjective
<1>10. ExistsBijection(N, T)
  BY <1>9 DEF ExistsBijection
<1>11. QED
  BY <1>8, <1>10, FS_Bijection DEF N, T

\* A curve of all points of a job shows its runs and its summary row.
LEMMA JobCurve ==
    ASSUME IInv, Matrix, j > Len(jobs), summary_csv.rows = summary_rows, NEW job
    PROVE  CurveShows(Points(Labelled(full_rows, job)), job)
<1> DEFINE S == Labelled(full_rows, job)
<1>1. Cardinality(Points(S)) = Cardinality(Runs(job))
  BY PointsAreRuns
<1>2. \A s \in Range(summary_rows) : Label(s) = job => s.pct = Max({r.pct : r \in S})
  BY BestIsSummary
<1> HIDE DEF S
<1>3. {p[2] : p \in Points(S)} = {r.pct : r \in S}
  <2>1. \A p \in Points(S) : \E r \in S : p[2] = r.pct
    BY DEF Points
  <2>2. \A r \in S : \E p \in Points(S) : p[2] = r.pct
    <3>1. \A r \in S : <<r.cores, r.pct>> \in Points(S)
      BY DEF Points
    <3>2. \A r : <<r.cores, r.pct>>[2] = r.pct
      OBVIOUS
    <3>3. QED
      BY <3>1, <3>2
  <2>3. QED
    BY <2>1, <2>2
<1>4. QED
  BY <1>1, <1>2, <1>3 DEF CurveShows, S

\* The figures by width are the percentages of the summary file, both curves of the
\* figure by cores have a point for every run of their job that gave a bandwidth and the
\* summary's best, and nothing is drawn after a sweep that failed (plot_lpa and plot_cores of plot_sweep.py, best in main of sweep_matrix.py).
THEOREM FiguresAreSummary == RunSpec => []FiguresShowSummary
<1>1. ASSUME RunInv, NEW f \in Drawn
      PROVE  /\ pc = "done" /\ summary_csv.new
             /\ f = "cores" => /\ CurveShows(figures[f].stream, Job("stream", None, None))
                               /\ CurveShows(figures[f].random, Job("rand", 0, 1))
             /\ f \in {"lpa", "lpa_consecutive"} => figures[f].consecutive = Summary(0)
             /\ f \in {"lpa", "lpa_samerow"} => figures[f].samerow = Summary(1)
             /\ f # "cores" => {figures[f].stream} \ {None} = {s.pct : s \in Stream(summary_csv.rows)}
  <2>1. /\ pc = "done" /\ Matrix /\ summary_csv.new /\ summary_csv.rows = summary_rows
        /\ j > Len(jobs) /\ figures[f] = Figure(f, full_rows) /\ IInv
    BY <1>1, SweepDone DEF RunInv
  <2>2. /\ \A s \in Stream(summary_rows) :
               s \in Stream(full_rows) /\ s.pct \in Nat /\ s.pct = Max({r.pct : r \in Stream(full_rows)})
        /\ Stream(full_rows) # {} => Stream(summary_rows) # {}
    BY <2>1, StreamIsSummary
  <2>3. CASE f = "cores"
    <3>1. /\ figures[f].stream = Points(Stream(full_rows))
          /\ figures[f].random = Points({r \in Rand(full_rows, 0) : r.lines = 1})
      BY <2>1, <2>3 DEF Figure, CoresFigure
    <3>2. Stream(full_rows) = Labelled(full_rows, Job("stream", None, None))
      BY <2>1, StreamLabelled
    <3>3. {r \in Rand(full_rows, 0) : r.lines = 1} = Labelled(full_rows, Job("rand", 0, 1))
      <4>1. \A r : Label(r) = Job("rand", 0, 1) <=>
                      r.pattern = "rand" /\ r.access = 0 /\ r.lines = 1
        BY DEF Label, Job
      <4>2. QED
        BY <4>1 DEF Rand, Labelled
    <3>4. /\ CurveShows(figures[f].stream, Job("stream", None, None))
          /\ CurveShows(figures[f].random, Job("rand", 0, 1))
      BY <2>1, <3>1, <3>2, <3>3, JobCurve
    <3>5. QED
      BY <2>1, <2>3, <3>4
  <2>4. CASE f # "cores"
    <3>1. figures[f] = LpaFigure(full_rows, f # "lpa_samerow", f # "lpa_consecutive")
      BY <2>1, <2>4 DEF Figure
    <3>2. /\ figures[f].stream = StreamMax(full_rows)
          /\ f # "lpa_samerow" => figures[f].consecutive = BestByWidth(Rand(full_rows, 0))
          /\ f # "lpa_consecutive" => figures[f].samerow = BestByWidth(Rand(full_rows, 1))
      BY <3>1 DEF LpaFigure
    <3>3. /\ BestByWidth(Rand(full_rows, 0)) = Summary(0)
          /\ BestByWidth(Rand(full_rows, 1)) = Summary(1)
      BY <2>1, BestAreSummary DEF Summary
    <3>4. {StreamMax(full_rows)} \ {None} = {s.pct : s \in Stream(summary_rows)}
      <4>1. CASE Stream(full_rows) = {}
        <5>1. Stream(summary_rows) = {}
          BY <2>2, <4>1
        <5>2. StreamMax(full_rows) = None
          BY <4>1 DEF StreamMax
        <5>3. QED
          BY <5>1, <5>2
      <4>2. CASE Stream(full_rows) # {}
        <5> DEFINE best_pct == Max({r.pct : r \in Stream(full_rows)})
        <5>1. StreamMax(full_rows) = best_pct
          BY <4>2 DEF StreamMax
        <5>2. PICK s \in Stream(summary_rows) : TRUE
          BY <2>2, <4>2
        <5>3. /\ s.pct = best_pct /\ s.pct \in Nat
              /\ \A t \in Stream(summary_rows) : t.pct = best_pct
          BY <2>2
        <5> HIDE DEF best_pct
        <5>4. best_pct # None
          BY <5>3 DEF None
        <5>5. {t.pct : t \in Stream(summary_rows)} = {best_pct}
          BY <5>2, <5>3
        <5>6. QED
          BY <5>1, <5>4, <5>5
      <4>3. QED
        BY <4>1, <4>2
    <3>5. QED
      BY <2>1, <2>4, <3>2, <3>3, <3>4
  <2>5. QED
    BY <2>3, <2>4
<1>2. RunInv => FiguresShowSummary
  BY <1>1 DEF FiguresShowSummary
<1>3. QED
  BY <1>2, RunInvariant, PTL
=============================================================================
