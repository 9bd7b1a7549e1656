----------------------------- MODULE StreamBench -----------------------------
(***************************************************************************)
(* stream_bw.cpp: main() launches NCores threads, each scans its own part  *)
(* of the region again and again until it has read Iters cachelines, and   *)
(* main joins them, takes the end time and adds up what they read.         *)
(* randread_bw.cpp runs its threads in the same harness.                   *)
(*                                                                         *)
(* Time is counted in reads: now is the number of reads done so far, so    *)
(* tEnd - tStart is the number of reads the measured interval covers.  A   *)
(* sink is the set of the lines read an odd number of times: the XOR of    *)
(* their contents, whatever these are.                                     *)
(***************************************************************************)
EXTENDS Integers, FiniteSets, FiniteSetsExt

CONSTANTS
    NCores,     \* threads
    NLines,     \* cachelines of the region
    Iters       \* reads per thread

\* A region has at least 2^24 lines, so every thread has some of its own.
ASSUME CoresAssumption == NCores \in Nat \ {0}
ASSUME LinesAssumption == NLines \in Nat /\ NLines >= NCores
ASSUME ItersAssumption == Iters \in Nat

VARIABLES
    main,       \* what main is doing
    launched,   \* threads created so far
    arrived,    \* threads that have arrived at the barrier
    at,         \* where each thread is
    remaining,  \* reads left after the current scan
    run,        \* reads left in the current scan
    line,       \* the line p points to
    sink,       \* what the thread has accumulated
    sinkOut,    \* args[t].sink_out
    now,        \* reads done so far, by all threads
    tStart,     \* g_t_start, -1 until thread 0 stores it
    tEnd,       \* t_end
    total       \* total_sink

progress == <<remaining, run, line>>
result == <<tEnd, total>>
vars == <<main, launched, arrived, at, remaining, run, line, sink, sinkOut,
          now, tStart, tEnd, total>>

Thread == 0 .. NCores - 1
Line == 0 .. NLines - 1

\* The contiguous part of the region a thread scans, [Begin, End).
PerThread == NLines \div NCores
Begin(t) == t * PerThread
End(t) == IF t = NCores - 1 THEN NLines ELSE Begin(t) + PerThread
Size(t) == End(t) - Begin(t)

Smaller(a, b) == IF a <= b THEN a ELSE b

------------------------------------------------------------------------------
Init == /\ main = "launch"
        /\ launched = 0
        /\ arrived = 0
        /\ at = [t \in Thread |-> "none"]
        /\ remaining = [t \in Thread |-> Iters]
        /\ run = [t \in Thread |-> 0]
        /\ line = [t \in Thread |-> Begin(t)]
        /\ sink = [t \in Thread |-> {}]
        /\ sinkOut = [t \in Thread |-> {}]
        /\ now = 0
        /\ tStart = -1
        /\ tEnd = -1
        /\ total = {}

Launch == /\ main = "launch"
          /\ launched < NCores
          /\ launched' = launched + 1
          /\ at' = [at EXCEPT ![launched] = "ready"]
          /\ UNCHANGED <<main, arrived, progress, sink, sinkOut, now, tStart, result>>

\* std::thread cannot be created: nothing catches the exception and the process ends.
LaunchFails == /\ main = "launch"
               /\ launched < NCores
               /\ main' = "aborted"
               /\ UNCHANGED <<launched, arrived, at, progress, sink, sinkOut, now, tStart, result>>

LaunchDone == /\ main = "launch"
              /\ launched = NCores
              /\ main' = "join"
              /\ UNCHANGED <<launched, arrived, at, progress, sink, sinkOut, now, tStart, result>>

\* The process is alive, and its threads run.
Alive == main \in {"launch", "join"}

Arrive(t) == /\ Alive
             /\ at[t] = "ready"
             /\ arrived' = arrived + 1
             /\ at' = [at EXCEPT ![t] = "waiting"]
             /\ UNCHANGED <<main, launched, progress, sink, sinkOut, now, tStart, result>>

\* The barrier opens when the last thread arrives.
BarrierOpen_Any == arrived > 0
BarrierOpen_MainToo == arrived = NCores + 1
BarrierOpen == arrived = NCores

Leave(t) == /\ Alive
            /\ at[t] = "waiting"
            /\ BarrierOpen
            /\ at' = [at EXCEPT ![t] = IF t = 0 THEN "stamp" ELSE "loop"]
            /\ UNCHANGED <<main, launched, arrived, progress, sink, sinkOut, now, tStart, result>>

\* Thread 0 stores the start time.
StoreStart == /\ Alive
              /\ at[0] = "stamp"
              /\ tStart' = now
              /\ at' = [at EXCEPT ![0] = "loop"]
              /\ UNCHANGED <<main, launched, arrived, progress, sink, sinkOut, now, result>>

\* The outer loop: scan from Begin again, the whole part or what is left to read.
StartScan_Resumes(t) == LET n == Smaller(Size(t), remaining[t])
                        IN  /\ run' = [run EXCEPT ![t] = n]
                            /\ remaining' = [remaining EXCEPT ![t] = @ - n]
                            /\ UNCHANGED line
StartScan(t) == LET n == Smaller(Size(t), remaining[t])
                IN  /\ run' = [run EXCEPT ![t] = n]
                    /\ remaining' = [remaining EXCEPT ![t] = @ - n]
                    /\ line' = [line EXCEPT ![t] = Begin(t)]

Scan(t) == /\ Alive
           /\ at[t] = "loop"
           /\ remaining[t] > 0
           /\ StartScan(t)
           /\ at' = [at EXCEPT ![t] = "scan"]
           /\ UNCHANGED <<main, launched, arrived, sink, sinkOut, now, tStart, result>>

Read(t) == /\ Alive
           /\ at[t] = "scan"
           /\ run[t] > 0
           /\ sink' = [sink EXCEPT ![t] = SymDiff(@, {line[t]})]
           /\ line' = [line EXCEPT ![t] = @ + 1]
           /\ run' = [run EXCEPT ![t] = @ - 1]
           /\ now' = now + 1
           /\ UNCHANGED <<main, launched, arrived, at, remaining, sinkOut, tStart, result>>

ScanDone(t) == /\ Alive
               /\ at[t] = "scan"
               /\ run[t] = 0
               /\ at' = [at EXCEPT ![t] = "loop"]
               /\ UNCHANGED <<main, launched, arrived, progress, sink, sinkOut, now, tStart, result>>

Finish(t) == /\ Alive
             /\ at[t] = "loop"
             /\ remaining[t] = 0
             /\ sinkOut' = [sinkOut EXCEPT ![t] = sink[t]]
             /\ at' = [at EXCEPT ![t] = "exited"]
             /\ UNCHANGED <<main, launched, arrived, progress, sink, now, tStart, result>>

\* threads.clear() has joined every thread: take the end time.
AllJoined_Last == at[NCores - 1] = "exited"
AllJoined == \A t \in Thread : at[t] = "exited"

Join == /\ main = "join"
        /\ AllJoined
        /\ tEnd' = now
        /\ main' = "report"
        /\ UNCHANGED <<launched, arrived, at, progress, sink, sinkOut, now, tStart, total>>

Report == /\ main = "report"
          /\ total' = {l \in Line : Cardinality({t \in Thread : l \in sinkOut[t]}) % 2 = 1}
          /\ main' = "done"
          /\ UNCHANGED <<launched, arrived, at, progress, sink, sinkOut, now, tStart, tEnd>>

ThreadStep(t) == \/ Arrive(t) \/ Leave(t) \/ Scan(t) \/ Read(t) \/ ScanDone(t) \/ Finish(t)
                 \/ (t = 0 /\ StoreStart)

MainStep == Launch \/ LaunchDone \/ Join \/ Report

Next == MainStep \/ LaunchFails \/ \E t \in Thread : ThreadStep(t)

Spec == Init /\ [][Next]_vars

\* The kernel schedules every thread; a thread that can run does.
FairSpec == /\ Spec
            /\ WF_vars(MainStep)
            /\ \A t \in Thread : WF_vars(ThreadStep(t))

------------------------------------------------------------------------------
(* What a run of the benchmark promises.                                   *)

TypeOK == /\ main \in {"launch", "join", "report", "done", "aborted"}
          /\ launched \in 0 .. NCores
          /\ arrived \in 0 .. NCores
          /\ at \in [Thread -> {"none", "ready", "waiting", "stamp", "loop", "scan", "exited"}]
          /\ remaining \in [Thread -> 0 .. Iters]
          /\ run \in [Thread -> 0 .. Iters]
          /\ line \in [Thread -> 0 .. NLines]
          /\ sink \in [Thread -> SUBSET Line]
          /\ sinkOut \in [Thread -> SUBSET Line]
          /\ now \in Nat
          /\ tStart \in -1 .. now
          /\ tEnd \in -1 .. now
          /\ total \in SUBSET Line

\* Each thread reads its own part only: no load leaves the region, and no two
\* threads ever load the same line.
OwnPart == \A t \in Thread :
    /\ sink[t] \subseteq Begin(t) .. End(t) - 1
    /\ at[t] = "scan" /\ run[t] > 0 => line[t] \in Begin(t) .. End(t) - 1

\* stream_bw.cpp:53, "Wait until all threads are ready": nobody reads, and the
\* start time is not taken, before every thread has been created and has arrived.
NobodyStartsEarly == (now > 0 \/ tStart # -1) => launched = NCores /\ arrived = NCores

\* The measured interval ends after the last of the reads total_bytes accounts for, and
\* leaves out at most the reads of the other threads: thread 0 stores the start time
\* before its own first read, but nothing holds the others back until it has.
EndsAfterLastRead == main \in {"report", "done"} => /\ tEnd = NCores * Iters
                                                    /\ now = tEnd
                                                    /\ tStart \in 0 .. (NCores - 1) * Iters

\* The checksum depends on the arguments alone, not on how the threads were
\* scheduled: line n of a part is read once more than the whole scans if the last,
\* partial one reaches it.
ReadsOf(t, l, n) == n \div Size(t) + (IF l - Begin(t) < n % Size(t) THEN 1 ELSE 0)
OddReads(t, n) == {l \in Begin(t) .. End(t) - 1 : ReadsOf(t, l, n) % 2 = 1}
ChecksumIsFixed ==
    main = "done" => total = UNION {OddReads(t, Iters) : t \in Thread}

\* A run ends, unless a thread could not be created.
Completes == <>(main \in {"done", "aborted"})

------------------------------------------------------------------------------
(* The inductive invariant.                                                *)

\* A thread's scan stays inside its part to the last of its reads.
Scanning == \A t \in Thread :
    /\ at[t] = "scan" => Begin(t) <= line[t] /\ line[t] + run[t] <= End(t)
    /\ sink[t] \subseteq Begin(t) .. End(t) - 1

\* The threads created are the first ones, and arrived counts those at the barrier
\* or past it.
Arrived == {t \in Thread : at[t] \notin {"none", "ready"}}
Counted == /\ arrived = Cardinality(Arrived)
           /\ \A t \in Thread : at[t] # "none" => t < launched

\* Nobody gets past the barrier before it opens.
BarrierFirst ==
    /\ \A t \in Thread : at[t] \in {"stamp", "loop", "scan", "exited"} => arrived = NCores
    /\ (now > 0 \/ tStart # -1) => arrived = NCores

Safe == TypeOK /\ Scanning /\ Counted /\ BarrierFirst

\* The reads a thread has done: all but those left to the scan and after it.
Done(t) == Iters - remaining[t] - run[t]

\* Every scan but the last is of the whole part, so the line a scan is at tells how
\* often each line of the part has been read.
Tally(t) ==
    /\ remaining[t] + run[t] <= Iters
    /\ at[t] # "scan" => run[t] = 0
    /\ at[t] \in {"none", "ready", "waiting", "stamp"} => remaining[t] = Iters
    /\ at[t] # "scan" /\ remaining[t] > 0 => \E q \in 0 .. Iters : Done(t) = q * Size(t)
    /\ at[t] = "scan" =>
        /\ \E q \in 0 .. Iters : Done(t) = q * Size(t) + (line[t] - Begin(t))
        /\ line[t] + run[t] = End(t) \/ remaining[t] = 0
    /\ at[t] = "exited" => remaining[t] = 0 /\ sinkOut[t] = sink[t]
    /\ sink[t] = OddReads(t, Done(t))
Tallied == \A t \in Thread : Tally(t)

\* The clock counts the reads of all threads; when thread 0 has stored the start time
\* it had read nothing, and main takes the end time after the last of them.
DoneReads == {p \in Thread \X (1 .. Iters) : p[2] <= Done(p[1])}
Timed == /\ now = Cardinality(DoneReads)
         /\ at[0] \in {"loop", "scan", "exited"} => tStart \in 0 .. (NCores - 1) * Iters
         /\ main \in {"report", "done"} => AllJoined /\ tEnd = now
         /\ main = "done" => total = UNION {sinkOut[t] : t \in Thread}

IInv == Safe /\ Tallied /\ Timed
=============================================================================
