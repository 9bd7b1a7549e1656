-------------------------- MODULE StreamBenchProofs --------------------------
(***************************************************************************)
(* For any number of threads, lines and reads: the parts of the region are *)
(* disjoint and inside it, a scan stays in its part, nobody reads before   *)
(* all have arrived at the barrier, the interval main measures ends after  *)
(* the last read, and the checksum does not depend on the schedule.  Each  *)
(* thread takes a bounded number of steps, and somebody can always go on.  *)
(***************************************************************************)
EXTENDS StreamBench, FiniteSetTheorems, TLAPS

(* The parts of the region.                                                *)

\* Every thread's part has the same length, and together they fit.
LEMMA PartLength == PerThread \in Nat /\ PerThread * NCores <= NLines
BY CoresAssumption, LinesAssumption DEF PerThread

\* A factor in Nat keeps an order.
LEMMA TimesMonotone ==
    ASSUME NEW a \in Int, NEW b \in Int, NEW q \in Nat, a <= b
    PROVE  a * q <= b * q
OBVIOUS

LEMMA PartBounds ==
    ASSUME NEW t \in Thread
    PROVE  /\ Begin(t) \in Nat
           /\ End(t) \in Nat
           /\ Begin(t) + PerThread <= End(t)
           /\ Begin(t) <= End(t)
           /\ End(t) <= NLines
<1>1. PerThread \in Nat /\ PerThread * NCores <= NLines /\ NLines \in Nat
  BY PartLength, LinesAssumption
<1>2. t \in Nat /\ NCores \in Nat /\ t + 1 <= NCores
  BY CoresAssumption DEF Thread
<1>3. (t + 1) * PerThread <= NCores * PerThread
  BY <1>1, <1>2, TimesMonotone
<1>4. (t + 1) * PerThread = t * PerThread + PerThread
  BY <1>1, <1>2
<1>5. NCores * PerThread = PerThread * NCores
  BY <1>1, <1>2
<1>6. t * PerThread \in Nat
  BY <1>1, <1>2
<1>7. Begin(t) \in Nat /\ Begin(t) + PerThread <= NLines
  <2> DEFINE b == t * PerThread
  <2>1. b \in Nat /\ b + PerThread <= NLines
    <3>1. NCores * PerThread <= NLines
      BY <1>1, <1>5
    <3>2. NCores * PerThread \in Nat
      BY <1>1, <1>2
    <3>3. (t + 1) * PerThread <= NLines
      BY <1>1, <1>2, <1>3, <3>1, <3>2
    <3>4. QED
      BY <1>4, <1>6, <3>3
  <2>2. QED
    BY <2>1 DEF Begin
<1>8. CASE t = NCores - 1
  BY <1>1, <1>7, <1>8 DEF End
<1>9. CASE t # NCores - 1
  BY <1>1, <1>7, <1>9 DEF End
<1>10. QED
  BY <1>8, <1>9

\* The part of a later thread begins where that of an earlier one has ended.
LEMMA PartsOrdered ==
    ASSUME NEW s \in Thread, NEW t \in Thread, s < t
    PROVE  End(s) <= Begin(t)
<1>1. PerThread \in Nat
  BY PartLength
<1>2. s \in Nat /\ t \in Nat /\ s + 1 <= t /\ s # NCores - 1
  BY CoresAssumption DEF Thread
<1>3. (s + 1) * PerThread <= t * PerThread
  BY <1>1, <1>2, TimesMonotone
<1>4. (s + 1) * PerThread = s * PerThread + PerThread
  BY <1>1, <1>2
<1>5. QED
  BY <1>2, <1>3, <1>4 DEF Begin, End

\* No line is in the parts of two threads.
LEMMA PartsDisjoint ==
    ASSUME NEW s \in Thread, NEW t \in Thread, s # t
    PROVE  (Begin(s) .. End(s) - 1) \cap (Begin(t) .. End(t) - 1) = {}
<1>1. /\ Begin(s) \in Nat /\ End(s) \in Nat
      /\ Begin(t) \in Nat /\ End(t) \in Nat
  BY PartBounds
<1>2. CASE s < t
  BY <1>1, <1>2, PartsOrdered
<1>3. CASE t < s
  BY <1>1, <1>3, PartsOrdered
<1>4. s < t \/ t < s
  BY CoresAssumption DEF Thread
<1>5. QED
  BY <1>2, <1>3, <1>4

------------------------------------------------------------------------------
(* The state.                                                              *)

ThreadStates == {"none", "ready", "waiting", "stamp", "loop", "scan", "exited"}

LEMMA ThreadsFinite == IsFiniteSet(Thread) /\ Cardinality(Thread) = NCores
<1>1. NCores - 1 \in Int /\ 0 <= NCores /\ 0 \in Int /\ (NCores - 1) - 0 + 1 = NCores
  BY CoresAssumption
<1>2. CASE NCores - 1 >= 0
  BY <1>1, <1>2, FS_Interval DEF Thread
<1>3. QED
  BY <1>2, CoresAssumption

\* The lines of a part are lines of the region.
LEMMA PartInRegion ==
    ASSUME NEW t \in Thread
    PROVE  Begin(t) .. End(t) - 1 \subseteq Line
BY PartBounds, LinesAssumption DEF Line

LEMMA StreamInit == Init => Safe
<1> SUFFICES ASSUME Init PROVE Safe
  OBVIOUS
<1>1. TypeOK
  BY PartBounds, CoresAssumption, LinesAssumption, ItersAssumption DEF Init, TypeOK, Thread
<1>2. Scanning
  BY DEF Init, Scanning
<1>3. Arrived = {}
  BY DEF Init, Arrived
<1>4. Counted
  BY <1>3, FS_EmptySet DEF Init, Counted
<1>5. BarrierFirst
  BY CoresAssumption DEF Init, BarrierFirst
<1>6. QED
  BY <1>1, <1>2, <1>4, <1>5 DEF Safe

\* A step that moves one thread, and not to the barrier, leaves the count alone.
LEMMA CountFrame ==
    ASSUME Safe, NEW t \in Thread, NEW s \in ThreadStates \ {"none", "ready"},
           at[t] \notin {"none", "ready"}, at' = [at EXCEPT ![t] = s],
           arrived' = arrived, launched' = launched
    PROVE  Counted'
<1>1. at \in [Thread -> ThreadStates]
  BY DEF Safe, TypeOK, ThreadStates
<1>2. Arrived' = Arrived
  BY <1>1 DEF Arrived, ThreadStates
<1>3. \A u \in Thread : at'[u] # "none" => u < launched
  BY <1>1 DEF Safe, Counted
<1>4. QED
  BY <1>2, <1>3 DEF Safe, Counted

\* The steps of main change no thread that is running.
LEMMA LaunchStep == Safe /\ Launch => Safe'
<1> SUFFICES ASSUME Safe, Launch PROVE Safe'
  OBVIOUS
<1>1. launched \in Nat /\ launched < NCores /\ launched \in Thread
  BY CoresAssumption DEF Safe, TypeOK, Launch, Thread
<1>2. at \in [Thread -> ThreadStates]
  BY DEF Safe, TypeOK, ThreadStates
<1>3. at[launched] = "none"
  BY <1>1, <1>2 DEF Safe, Counted
<1>4. /\ at' = [at EXCEPT ![launched] = "ready"] /\ launched' = launched + 1
      /\ arrived' = arrived /\ now' = now /\ tStart' = tStart
      /\ line' = line /\ run' = run /\ sink' = sink
      /\ main' = main /\ remaining' = remaining /\ sinkOut' = sinkOut
      /\ tEnd' = tEnd /\ total' = total
  BY DEF Launch, progress, result
<1>5. TypeOK'
  <2>1. at' \in [Thread -> ThreadStates]
    BY <1>2, <1>4 DEF ThreadStates
  <2>2. launched' \in 0 .. NCores
    BY <1>1, <1>4, CoresAssumption
  <2>3. QED
    BY <1>4, <2>1, <2>2 DEF Safe, TypeOK, ThreadStates
<1>6. Arrived' = Arrived
  BY <1>2, <1>3, <1>4 DEF Arrived
<1>7. Counted'
  <2>1. \A u \in Thread : at'[u] # "none" => u < launched'
    BY <1>1, <1>2, <1>4 DEF Safe, Counted, Thread
  <2>2. QED
    BY <1>4, <1>6, <2>1 DEF Safe, Counted
<1>8. Scanning' /\ BarrierFirst'
  BY <1>2, <1>4 DEF Safe, Scanning, BarrierFirst
<1>9. QED
  BY <1>5, <1>7, <1>8 DEF Safe

LEMMA MainSteps ==
    Safe /\ (LaunchFails \/ LaunchDone \/ Join \/ Report \/ UNCHANGED vars) => Safe'
<1> SUFFICES ASSUME Safe, LaunchFails \/ LaunchDone \/ Join \/ Report \/ UNCHANGED vars
             PROVE  Safe'
  OBVIOUS
<1>1. /\ launched' = launched /\ arrived' = arrived /\ at' = at
      /\ remaining' = remaining /\ run' = run /\ line' = line
      /\ sink' = sink /\ sinkOut' = sinkOut /\ now' = now /\ tStart' = tStart
  BY DEF LaunchFails, LaunchDone, Join, Report, vars, progress, result
<1>2. main' \in {"aborted", "join", "report", "done"} \/ main' = main
  BY DEF LaunchFails, LaunchDone, Join, Report, vars
<1>3. tEnd' = tEnd \/ tEnd' = now
  BY DEF LaunchFails, LaunchDone, Join, Report, vars, result
<1>4. total' = total \/ total' \subseteq Line
  BY DEF LaunchFails, LaunchDone, Join, Report, vars, result
<1>5. now \in Nat
  BY DEF Safe, TypeOK
<1>6. TypeOK'
  BY <1>1, <1>2, <1>3, <1>4, <1>5 DEF Safe, TypeOK
<1>7. Scanning' /\ Counted' /\ BarrierFirst'
  BY <1>1 DEF Safe, Scanning, Counted, BarrierFirst, Arrived
<1>8. QED
  BY <1>6, <1>7 DEF Safe

\* One more thread at the barrier.
LEMMA ArriveStep ==
    ASSUME Safe, NEW t \in Thread, Arrive(t)
    PROVE  Safe'
<1>1. /\ at[t] = "ready" /\ at' = [at EXCEPT ![t] = "waiting"] /\ arrived' = arrived + 1
      /\ launched' = launched /\ main' = main
      /\ remaining' = remaining /\ run' = run /\ line' = line
      /\ sink' = sink /\ sinkOut' = sinkOut /\ now' = now /\ tStart' = tStart
      /\ tEnd' = tEnd /\ total' = total
  BY DEF Arrive, progress, result
<1>2. at \in [Thread -> ThreadStates]
  BY DEF Safe, TypeOK, ThreadStates
<1>3. IsFiniteSet(Arrived) /\ t \notin Arrived
  BY <1>1, ThreadsFinite, FS_Subset DEF Arrived
<1>4. Arrived' = Arrived \cup {t}
  BY <1>1, <1>2 DEF Arrived, ThreadStates
<1>5. arrived' = Cardinality(Arrived')
  BY <1>1, <1>3, <1>4, FS_AddElement DEF Safe, Counted
<1>6. arrived' \in 0 .. NCores
  <2>1. Arrived' \subseteq Thread
    BY DEF Arrived
  <2>2. Cardinality(Arrived') <= NCores /\ Cardinality(Arrived') \in Nat
    BY <2>1, ThreadsFinite, FS_Subset, FS_CardinalityType
  <2>3. QED
    BY <1>5, <2>2, CoresAssumption
<1>7. arrived \in 0 .. NCores - 1
  BY <1>1, <1>6, CoresAssumption DEF Safe, TypeOK
<1>8. TypeOK'
  BY <1>1, <1>2, <1>6 DEF Safe, TypeOK, ThreadStates
<1>9. Counted'
  <2>1. \A u \in Thread : at'[u] # "none" => u < launched'
    BY <1>1, <1>2 DEF Safe, Counted
  <2>2. QED
    BY <1>5, <2>1 DEF Counted
<1>10. BarrierFirst'
  BY <1>1, <1>2, <1>7, CoresAssumption DEF Safe, BarrierFirst
<1>11. Scanning'
  BY <1>1, <1>2 DEF Safe, Scanning
<1>12. QED
  BY <1>8, <1>9, <1>10, <1>11 DEF Safe

\* The barrier is open for whoever leaves it; nothing else has changed.
LEMMA LeaveStep ==
    ASSUME Safe, NEW t \in Thread, Leave(t)
    PROVE  Safe'
<1>1. PICK s \in {"stamp", "loop"} : at' = [at EXCEPT ![t] = s]
  BY DEF Leave
<1>2. /\ at[t] = "waiting" /\ arrived = NCores /\ arrived' = arrived
      /\ launched' = launched /\ main' = main
      /\ remaining' = remaining /\ run' = run /\ line' = line
      /\ sink' = sink /\ sinkOut' = sinkOut /\ now' = now /\ tStart' = tStart
      /\ tEnd' = tEnd /\ total' = total
  BY DEF Leave, BarrierOpen, progress, result
<1>3. at \in [Thread -> ThreadStates]
  BY DEF Safe, TypeOK, ThreadStates
<1>4. TypeOK'
  BY <1>1, <1>2, <1>3 DEF Safe, TypeOK, ThreadStates
<1>5. Counted'
  BY <1>1, <1>2, CountFrame DEF ThreadStates
<1>6. BarrierFirst'
  BY <1>2 DEF BarrierFirst
<1>7. Scanning'
  BY <1>1, <1>2, <1>3 DEF Safe, Scanning
<1>8. QED
  BY <1>4, <1>5, <1>6, <1>7 DEF Safe

\* Thread 0 takes the time, or a thread ends its scan or its loop.
LEMMA QuietSteps ==
    ASSUME Safe, NEW t \in Thread, (t = 0 /\ StoreStart) \/ ScanDone(t) \/ Finish(t)
    PROVE  Safe'
<1>1. /\ arrived' = arrived /\ launched' = launched /\ main' = main
      /\ remaining' = remaining /\ run' = run /\ line' = line
      /\ sink' = sink /\ now' = now /\ tEnd' = tEnd /\ total' = total
  BY DEF StoreStart, ScanDone, Finish, progress, result
<1>2. /\ at[t] \in {"stamp", "loop", "scan"}
      /\ \E s \in {"loop", "exited"} : at' = [at EXCEPT ![t] = s]
      /\ tStart' \in {tStart, now}
      /\ sinkOut' = sinkOut \/ sinkOut' = [sinkOut EXCEPT ![t] = sink[t]]
  BY DEF StoreStart, ScanDone, Finish
<1>3. PICK s \in {"loop", "exited"} : at' = [at EXCEPT ![t] = s]
  BY <1>2
<1>4. at \in [Thread -> ThreadStates]
  BY DEF Safe, TypeOK, ThreadStates
<1>5. arrived = NCores
  BY <1>2 DEF Safe, BarrierFirst
<1>6. TypeOK'
  <2>1. sinkOut' \in [Thread -> SUBSET Line]
    BY <1>2 DEF Safe, TypeOK
  <2>2. tStart' \in -1 .. now /\ at' \in [Thread -> ThreadStates]
    BY <1>2, <1>3, <1>4 DEF Safe, TypeOK, ThreadStates
  <2>3. QED
    BY <1>1, <2>1, <2>2 DEF Safe, TypeOK, ThreadStates
<1>7. Counted'
  <2>1. s \in ThreadStates \ {"none", "ready"} /\ at[t] \notin {"none", "ready"}
    BY <1>2 DEF ThreadStates
  <2>2. QED
    BY <1>1, <1>3, <2>1, CountFrame
<1>8. BarrierFirst'
  BY <1>1, <1>5 DEF BarrierFirst
<1>9. Scanning'
  BY <1>1, <1>3, <1>4 DEF Safe, Scanning
<1>10. QED
  BY <1>6, <1>7, <1>8, <1>9 DEF Safe

\* A scan starts at the beginning of the part and is not longer than it.
LEMMA ScanStep ==
    ASSUME Safe, NEW t \in Thread, Scan(t)
    PROVE  Safe'
<1> DEFINE n == Smaller(End(t) - Begin(t), remaining[t])
<1>1. /\ arrived' = arrived /\ launched' = launched /\ main' = main
      /\ sink' = sink /\ sinkOut' = sinkOut /\ now' = now /\ tStart' = tStart
      /\ tEnd' = tEnd /\ total' = total
      /\ at[t] = "loop" /\ at' = [at EXCEPT ![t] = "scan"]
      /\ run' = [run EXCEPT ![t] = n]
      /\ remaining' = [remaining EXCEPT ![t] = @ - n]
      /\ line' = [line EXCEPT ![t] = Begin(t)]
  BY DEF Scan, StartScan, Size, result
<1>2. /\ at \in [Thread -> ThreadStates]
      /\ remaining \in [Thread -> 0 .. Iters]
      /\ run \in [Thread -> 0 .. Iters]
      /\ line \in [Thread -> 0 .. NLines]
  BY DEF Safe, TypeOK, ThreadStates
<1>3. /\ Begin(t) \in Nat /\ End(t) \in Nat
      /\ Begin(t) <= End(t) /\ End(t) <= NLines /\ NLines \in Nat
  BY PartBounds, LinesAssumption
<1>4. n \in 0 .. remaining[t] /\ Begin(t) + n <= End(t) /\ remaining[t] \in 0 .. Iters
  BY <1>2, <1>3, ItersAssumption DEF Smaller
<1>5. arrived = NCores
  BY <1>1 DEF Safe, BarrierFirst
<1>6. TypeOK'
  <2> HIDE DEF n
  <2>1. /\ run' \in [Thread -> 0 .. Iters]
        /\ remaining' \in [Thread -> 0 .. Iters]
        /\ line' \in [Thread -> 0 .. NLines]
    BY <1>1, <1>2, <1>3, <1>4, ItersAssumption
  <2>2. at' \in [Thread -> ThreadStates]
    BY <1>1, <1>2 DEF ThreadStates
  <2>3. QED
    BY <1>1, <2>1, <2>2 DEF Safe, TypeOK, ThreadStates
<1>7. Counted'
  BY <1>1, CountFrame DEF ThreadStates
<1>8. BarrierFirst'
  BY <1>1, <1>5 DEF BarrierFirst
<1>9. Scanning'
  <2> HIDE DEF n
  <2> SUFFICES ASSUME NEW u \in Thread
               PROVE  /\ at'[u] = "scan" => /\ Begin(u) <= line'[u]
                                            /\ line'[u] + run'[u] <= End(u)
                      /\ sink'[u] \subseteq Begin(u) .. End(u) - 1
    BY DEF Scanning, Begin, End
  <2>1. CASE u = t
    BY <1>1, <1>2, <1>3, <1>4, <2>1 DEF Safe, Scanning
  <2>2. CASE u # t
    BY <1>1, <1>2, <2>2 DEF Safe, Scanning
  <2>3. QED
    BY <2>1, <2>2
<1>10. QED
  BY <1>6, <1>7, <1>8, <1>9 DEF Safe

\* A read takes the next line of the scan.
LEMMA ReadStep ==
    ASSUME Safe, NEW t \in Thread, Read(t)
    PROVE  Safe'
<1>1. /\ arrived' = arrived /\ launched' = launched /\ main' = main /\ at' = at
      /\ remaining' = remaining /\ sinkOut' = sinkOut /\ tStart' = tStart
      /\ tEnd' = tEnd /\ total' = total
      /\ at[t] = "scan" /\ run[t] > 0 /\ now' = now + 1
      /\ sink' = [sink EXCEPT ![t] = SymDiff(@, {line[t]})]
      /\ line' = [line EXCEPT ![t] = @ + 1]
      /\ run' = [run EXCEPT ![t] = @ - 1]
  BY DEF Read, result
<1>2. /\ sink \in [Thread -> SUBSET Line]
      /\ run \in [Thread -> 0 .. Iters]
      /\ line \in [Thread -> 0 .. NLines]
      /\ now \in Nat
      /\ tStart \in -1 .. now
      /\ tEnd \in -1 .. now
  BY DEF Safe, TypeOK
<1>3. /\ Begin(t) <= line[t]
      /\ line[t] + run[t] <= End(t)
      /\ sink[t] \subseteq Begin(t) .. End(t) - 1
  BY <1>1 DEF Safe, Scanning
<1>4. Begin(t) \in Nat /\ End(t) \in Nat /\ End(t) <= NLines /\ NLines \in Nat
  BY PartBounds, LinesAssumption
<1>5. run[t] \in 0 .. Iters /\ line[t] \in 0 .. NLines
  BY <1>2
<1>6. /\ line[t] \in Begin(t) .. End(t) - 1
      /\ line[t] + 1 \in 0 .. NLines
      /\ run[t] - 1 \in 0 .. Iters
  BY <1>1, <1>3, <1>4, <1>5, ItersAssumption
<1>7. SymDiff(sink[t], {line[t]}) \subseteq Begin(t) .. End(t) - 1
  BY <1>3, <1>6 DEF SymDiff
<1>8. TypeOK'
  <2>1. sink' \in [Thread -> SUBSET Line]
    BY <1>1, <1>2, <1>7, PartInRegion
  <2>2. run' \in [Thread -> 0 .. Iters] /\ line' \in [Thread -> 0 .. NLines]
    BY <1>1, <1>2, <1>6
  <2>3. now' \in Nat /\ tStart' \in -1 .. now' /\ tEnd' \in -1 .. now'
    BY <1>1, <1>2
  <2>4. QED
    BY <1>1, <2>1, <2>2, <2>3 DEF Safe, TypeOK
<1>9. Counted'
  BY <1>1 DEF Safe, Counted, Arrived
<1>10. BarrierFirst'
  BY <1>1 DEF Safe, BarrierFirst
<1>11. Scanning'
  <2> SUFFICES ASSUME NEW u \in Thread
               PROVE  /\ at'[u] = "scan" => /\ Begin(u) <= line'[u]
                                            /\ line'[u] + run'[u] <= End(u)
                      /\ sink'[u] \subseteq Begin(u) .. End(u) - 1
    BY DEF Scanning, Begin, End
  <2>1. CASE u = t
    <3>1. line'[t] = line[t] + 1 /\ run'[t] = run[t] - 1
      BY <1>1, <1>2
    <3>2. sink'[t] = SymDiff(sink[t], {line[t]})
      BY <1>1, <1>2
    <3>3. Begin(t) <= line'[t] /\ line'[t] + run'[t] <= End(t)
      BY <1>3, <1>4, <1>5, <3>1
    <3>4. QED
      BY <1>7, <2>1, <3>2, <3>3
  <2>2. CASE u # t
    BY <1>1, <1>2, <2>2 DEF Safe, Scanning
  <2>3. QED
    BY <2>1, <2>2
<1>12. QED
  BY <1>8, <1>9, <1>10, <1>11 DEF Safe

------------------------------------------------------------------------------
(* How often a line has been read.                                         *)

\* Every part has a line.
LEMMA SizePositive ==
    ASSUME NEW t \in Thread
    PROVE  /\ Size(t) \in Nat \ {0}
           /\ End(t) = Begin(t) + Size(t)
<1>1. PerThread >= 1
  <2>1. /\ NCores \in Nat \ {0} /\ NLines \in Nat /\ NLines >= NCores
    BY CoresAssumption, LinesAssumption
  <2>2. /\ PerThread \in Nat
        /\ NLines = NCores * PerThread + (NLines % NCores)
        /\ NLines % NCores < NCores
    BY <2>1 DEF PerThread
  <2>3. CASE PerThread = 0
    BY <2>1, <2>2, <2>3
  <2>4. QED
    BY <2>2, <2>3
<1>2. QED
  BY <1>1, PartLength, PartBounds DEF Size

\* Quotient and remainder are unique.
LEMMA DivMod ==
    ASSUME NEW m \in Nat \ {0}, NEW q \in Nat, NEW r \in 0 .. m - 1
    PROVE  (q * m + r) \div m = q /\ (q * m + r) % m = r
<1> DEFINE n == q * m + r
           d == n \div m
           e == n % m
<1>1. n \in Nat /\ q * m \in Nat
  OBVIOUS
<1>2. d \in Nat /\ e \in 0 .. m - 1 /\ n = m * d + e
  BY <1>1
<1>3. m * d \in Nat /\ m * d = d * m
  BY <1>2
<1>4. ~(d < q)
  <2> SUFFICES ASSUME d + 1 <= q PROVE FALSE
    BY <1>2
  <2> HIDE DEF d
  <2>1. (d + 1) * m <= q * m
    BY <1>2, TimesMonotone
  <2>2. (d + 1) * m = d * m + m
    BY <1>2
  <2>3. QED
    BY <1>1, <1>2, <1>3, <2>1, <2>2
<1>5. ~(q < d)
  <2> SUFFICES ASSUME q + 1 <= d PROVE FALSE
    BY <1>2
  <2> HIDE DEF d
  <2>1. (q + 1) * m <= d * m
    BY <1>2, TimesMonotone
  <2>2. (q + 1) * m = q * m + m
    OBVIOUS
  <2>3. QED
    BY <1>1, <1>2, <1>3, <2>1, <2>2
<1>6. d = q
  BY <1>2, <1>4, <1>5
<1>7. QED
  BY <1>2, <1>6

\* After q whole scans and i reads of the next one, the first i lines have been read
\* once more than the others.
LEMMA ReadsAfter ==
    ASSUME NEW t \in Thread, NEW q \in Nat, NEW i \in 0 .. Size(t) - 1, NEW l
    PROVE  ReadsOf(t, l, q * Size(t) + i) = q + (IF l - Begin(t) < i THEN 1 ELSE 0)
<1>1. Size(t) \in Nat \ {0}
  BY SizePositive
<1>2. (q * Size(t) + i) \div Size(t) = q /\ (q * Size(t) + i) % Size(t) = i
  BY <1>1, DivMod
<1>3. QED
  BY <1>2 DEF ReadsOf

\* The next read is of line i of the part, and of no other.
LEMMA NextRead ==
    ASSUME NEW t \in Thread, NEW q \in Nat, NEW i \in 0 .. Size(t) - 1
    PROVE  OddReads(t, (q * Size(t) + i) + 1)
             = SymDiff(OddReads(t, q * Size(t) + i), {Begin(t) + i})
<1> DEFINE n == q * Size(t) + i
           part == Begin(t) .. End(t) - 1
<1>1. /\ Size(t) \in Nat \ {0} /\ Begin(t) \in Nat /\ End(t) \in Nat
      /\ End(t) = Begin(t) + Size(t)
  BY SizePositive, PartBounds
<1>2. \A l \in part : /\ ReadsOf(t, l, n) \in Nat
                      /\ ReadsOf(t, l, n + 1)
                           = IF l = Begin(t) + i THEN ReadsOf(t, l, n) + 1 ELSE ReadsOf(t, l, n)
  <2> SUFFICES ASSUME NEW l \in part
               PROVE  /\ ReadsOf(t, l, n) \in Nat
                      /\ ReadsOf(t, l, n + 1)
                           = IF l = Begin(t) + i THEN ReadsOf(t, l, n) + 1 ELSE ReadsOf(t, l, n)
    OBVIOUS
  <2>1. ReadsOf(t, l, n) = q + (IF l - Begin(t) < i THEN 1 ELSE 0)
    BY ReadsAfter
  <2>2. l \in Nat /\ Begin(t) <= l /\ l < Begin(t) + Size(t)
    BY <1>1
  <2>3. CASE i + 1 < Size(t)
    <3>1. i + 1 \in 0 .. Size(t) - 1 /\ n + 1 = q * Size(t) + (i + 1)
      BY <1>1, <2>3
    <3>2. ReadsOf(t, l, q * Size(t) + (i + 1)) = q + (IF l - Begin(t) < i + 1 THEN 1 ELSE 0)
      BY <3>1, ReadsAfter
    <3> HIDE DEF n
    <3>3. QED
      BY <1>1, <2>1, <2>2, <3>1, <3>2
  <2>4. CASE i + 1 = Size(t)
    <3>1. (q + 1) * Size(t) = q * Size(t) + Size(t)
      BY <1>1
    <3>2. n + 1 = (q + 1) * Size(t) + 0
      BY <1>1, <2>4, <3>1
    <3>3. ReadsOf(t, l, (q + 1) * Size(t) + 0) = (q + 1) + (IF l - Begin(t) < 0 THEN 1 ELSE 0)
      BY <1>1, ReadsAfter
    <3> HIDE DEF n
    <3>4. QED
      BY <1>1, <2>1, <2>2, <2>4, <3>2, <3>3
  <2>5. QED
    BY <1>1, <2>3, <2>4
<1>3. \A k \in Nat : (k + 1) % 2 = 1 <=> k % 2 # 1
  OBVIOUS
<1>4. \A l \in part : l \in OddReads(t, n + 1) <=> (IF l = Begin(t) + i
                                                     THEN l \notin OddReads(t, n)
                                                     ELSE l \in OddReads(t, n))
  <2> HIDE DEF n
  <2>1. QED
    BY <1>2, <1>3 DEF OddReads
<1>5. OddReads(t, n + 1) \subseteq part /\ OddReads(t, n) \subseteq part
  BY DEF OddReads
<1>6. Begin(t) + i \in part
  BY <1>1
<1> HIDE DEF n, part
<1>7. OddReads(t, n + 1) = SymDiff(OddReads(t, n), {Begin(t) + i})
  BY <1>4, <1>5, <1>6 DEF SymDiff
<1>8. QED
  BY <1>7 DEF n

LEMMA NoReads ==
    ASSUME NEW t \in Thread
    PROVE  OddReads(t, 0) = {}
<1>1. Size(t) \in Nat \ {0} /\ Begin(t) \in Nat /\ End(t) \in Nat
  BY SizePositive, PartBounds
<1>2. 0 = 0 * Size(t) + 0 /\ 0 \in 0 .. Size(t) - 1
  BY <1>1
<1>3. \A l \in Begin(t) .. End(t) - 1 : ReadsOf(t, l, 0) = 0
  <2> SUFFICES ASSUME NEW l \in Begin(t) .. End(t) - 1 PROVE ReadsOf(t, l, 0) = 0
    OBVIOUS
  <2>1. ReadsOf(t, l, 0 * Size(t) + 0) = 0 + (IF l - Begin(t) < 0 THEN 1 ELSE 0)
    BY <1>2, ReadsAfter
  <2>2. QED
    BY <1>1, <1>2, <2>1
<1>4. QED
  BY <1>3 DEF OddReads

------------------------------------------------------------------------------
(* Each thread's account of its reads.                                     *)

\* What the account of a thread is made of.
LEMMA TallyFrame ==
    ASSUME NEW t \in Thread, Tally(t),
           at'[t] = at[t], remaining'[t] = remaining[t], run'[t] = run[t],
           line'[t] = line[t], sink'[t] = sink[t], sinkOut'[t] = sinkOut[t]
    PROVE  Tally(t)' /\ Done(t)' = Done(t)
BY DEF Tally, Done, OddReads, ReadsOf, Size, Begin, End

LEMMA TallyTypes ==
    ASSUME Safe, Tallied, NEW t \in Thread
    PROVE  /\ remaining[t] \in 0 .. Iters /\ run[t] \in 0 .. Iters
           /\ line[t] \in 0 .. NLines
           /\ Iters \in Nat /\ NLines \in Nat
           /\ Done(t) \in 0 .. Iters
           /\ Tally(t)
           /\ Size(t) \in Nat \ {0} /\ Begin(t) \in Nat /\ End(t) = Begin(t) + Size(t)
<1>1. /\ remaining[t] \in 0 .. Iters /\ run[t] \in 0 .. Iters
      /\ line[t] \in 0 .. NLines
      /\ Iters \in Nat /\ NLines \in Nat /\ Tally(t)
  BY ItersAssumption, LinesAssumption DEF Safe, TypeOK, Tallied
<1>2. remaining[t] + run[t] <= Iters
  BY <1>1 DEF Tally
<1>3. Done(t) \in 0 .. Iters
  BY <1>1, <1>2 DEF Done
<1>4. QED
  BY <1>1, <1>3, SizePositive, PartBounds

LEMMA TallyInit == Init => Tallied
<1> SUFFICES ASSUME Init, NEW t \in Thread PROVE Tally(t)
  BY DEF Tallied
<1>1. /\ Size(t) \in Nat \ {0} /\ Iters \in Nat
  BY SizePositive, ItersAssumption
<1>2. /\ remaining[t] = Iters /\ run[t] = 0 /\ at[t] = "none" /\ sink[t] = {}
  BY DEF Init
<1>3. Done(t) = 0
  BY <1>1, <1>2 DEF Done
<1>4. 0 \in 0 .. Iters /\ 0 = 0 * Size(t)
  BY <1>1
<1>5. sink[t] = OddReads(t, Done(t))
  BY <1>2, <1>3, NoReads
<1>6. QED
  BY <1>1, <1>2, <1>3, <1>4, <1>5 DEF Tally

\* A thread that has not read yet and goes on towards its loop.
LEMMA StageTally ==
    ASSUME Safe, Tallied, NEW t \in Thread, NEW s \in {"ready", "waiting", "stamp", "loop"},
           at[t] \in {"none", "ready", "waiting", "stamp"}, at' = [at EXCEPT ![t] = s],
           UNCHANGED <<progress, sink, sinkOut>>
    PROVE  Tallied' /\ \A u \in Thread : Done(u)' = Done(u)
<1>1. at \in [Thread -> ThreadStates]
  BY DEF Safe, TypeOK, ThreadStates
<1>2. /\ remaining' = remaining /\ run' = run /\ line' = line
      /\ sink' = sink /\ sinkOut' = sinkOut
  BY DEF progress
<1>3. \A u \in Thread : Done(u)' = Done(u)
  BY <1>2 DEF Done
<1>4. ASSUME NEW u \in Thread, u # t PROVE Tally(u)'
  BY <1>1, <1>2, <1>4, TallyFrame DEF Tallied
<1>5. Tally(t)'
  <2>1. at'[t] = s /\ s \notin {"scan", "exited"} /\ at[t] \notin {"scan", "exited"}
    BY <1>1
  <2>2. Done(t)' = Done(t) /\ OddReads(t, Done(t))' = OddReads(t, Done(t))
        /\ Size(t)' = Size(t)
    BY <1>3 DEF OddReads, ReadsOf, Size, Begin, End
  <2>3. Tally(t) /\ remaining[t] = Iters
    BY DEF Tallied, Tally
  <2>4. QED
    BY <1>2, <2>1, <2>2, <2>3 DEF Tally
<1>6. QED
  BY <1>3, <1>4, <1>5 DEF Tallied

\* The steps of main, and of a process that has ended.
LEMMA MainTally ==
    ASSUME Safe, Tallied, LaunchFails \/ LaunchDone \/ Join \/ Report \/ UNCHANGED vars
    PROVE  Tallied' /\ \A u \in Thread : Done(u)' = Done(u)
<1>1. /\ at' = at /\ remaining' = remaining /\ run' = run /\ line' = line
      /\ sink' = sink /\ sinkOut' = sinkOut
  BY DEF LaunchFails, LaunchDone, Join, Report, vars, progress, result
<1>2. QED
  BY <1>1, TallyFrame DEF Tallied

\* A new scan begins at the beginning of the part, and only the last is shorter.
LEMMA ScanTally ==
    ASSUME Safe, Tallied, NEW t \in Thread, Scan(t)
    PROVE  Tallied' /\ \A u \in Thread : Done(u)' = Done(u)
<1> DEFINE n == Smaller(Size(t), remaining[t])
<1>1. /\ sink' = sink /\ sinkOut' = sinkOut
      /\ at[t] = "loop" /\ remaining[t] > 0 /\ at' = [at EXCEPT ![t] = "scan"]
      /\ run' = [run EXCEPT ![t] = n]
      /\ remaining' = [remaining EXCEPT ![t] = @ - n]
      /\ line' = [line EXCEPT ![t] = Begin(t)]
  BY DEF Scan, StartScan
<1>2. /\ at \in [Thread -> ThreadStates]
      /\ remaining \in [Thread -> 0 .. Iters]
      /\ run \in [Thread -> 0 .. Iters]
      /\ line \in [Thread -> 0 .. NLines]
  BY DEF Safe, TypeOK, ThreadStates
<1>3. /\ remaining[t] \in 0 .. Iters /\ Iters \in Nat
      /\ Size(t) \in Nat \ {0} /\ Begin(t) \in Nat /\ End(t) = Begin(t) + Size(t)
      /\ Tally(t)
  BY TallyTypes
<1>4. n \in 0 .. remaining[t] /\ (n = Size(t) \/ n = remaining[t])
  BY <1>3 DEF Smaller
<1>5. run[t] = 0 /\ \E q \in 0 .. Iters : Done(t) = q * Size(t)
  BY <1>1, <1>3 DEF Tally
<1> HIDE DEF n
<1>6. /\ at'[t] = "scan" /\ run'[t] = n /\ remaining'[t] = remaining[t] - n
      /\ line'[t] = Begin(t) /\ sink'[t] = sink[t] /\ sinkOut'[t] = sinkOut[t]
  BY <1>1, <1>2
<1>7. Done(t)' = Done(t)
  BY <1>3, <1>4, <1>5, <1>6 DEF Done
<1>8. ASSUME NEW u \in Thread, u # t PROVE Tally(u)' /\ Done(u)' = Done(u)
  BY <1>1, <1>2, <1>8, TallyFrame DEF Tallied
<1>9. Tally(t)'
  <2>1. /\ OddReads(t, Done(t))' = OddReads(t, Done(t)) /\ Size(t)' = Size(t)
        /\ Begin(t)' = Begin(t) /\ End(t)' = End(t)
    BY <1>7 DEF OddReads, ReadsOf, Size, Begin, End
  <2>2. \E q \in 0 .. Iters : Done(t)' = q * Size(t) + (line'[t] - Begin(t))
    <3>1. PICK q \in 0 .. Iters : Done(t) = q * Size(t)
      BY <1>5
    <3>2. line'[t] - Begin(t) = 0 /\ q * Size(t) \in Nat
      BY <1>3, <1>6
    <3>3. Done(t)' = q * Size(t) + (line'[t] - Begin(t))
      BY <1>7, <3>1, <3>2
    <3>4. QED
      BY <3>3
  <2>3. line'[t] + run'[t] = End(t) \/ remaining'[t] = 0
    BY <1>3, <1>4, <1>6
  <2>4. remaining'[t] + run'[t] <= Iters
    BY <1>3, <1>4, <1>6
  <2>5. sink'[t] = OddReads(t, Done(t))'
    BY <1>3, <1>6, <2>1 DEF Tally
  <2>6. QED
    BY <1>6, <2>1, <2>2, <2>3, <2>4, <2>5 DEF Tally
<1>10. QED
  BY <1>7, <1>8, <1>9 DEF Tallied

\* A read toggles the line it is at, which the next scan will reach once more.
LEMMA ReadTally ==
    ASSUME Safe, Tallied, NEW t \in Thread, Read(t)
    PROVE  /\ Tallied'
           /\ Done(t) \in 0 .. Iters - 1
           /\ Done(t)' = Done(t) + 1
           /\ \A u \in Thread \ {t} : Done(u)' = Done(u)
<1>1. /\ at' = at /\ remaining' = remaining /\ sinkOut' = sinkOut
      /\ at[t] = "scan" /\ run[t] > 0
      /\ sink' = [sink EXCEPT ![t] = SymDiff(@, {line[t]})]
      /\ line' = [line EXCEPT ![t] = @ + 1]
      /\ run' = [run EXCEPT ![t] = @ - 1]
  BY DEF Read
<1>2. /\ sink \in [Thread -> SUBSET Line]
      /\ run \in [Thread -> 0 .. Iters]
      /\ line \in [Thread -> 0 .. NLines]
  BY DEF Safe, TypeOK
<1>3. /\ remaining[t] \in 0 .. Iters /\ run[t] \in 0 .. Iters /\ Iters \in Nat
      /\ line[t] \in 0 .. NLines /\ NLines \in Nat
      /\ Size(t) \in Nat \ {0} /\ Begin(t) \in Nat /\ End(t) = Begin(t) + Size(t)
      /\ Tally(t) /\ Done(t) \in 0 .. Iters
  BY TallyTypes
<1>4. Begin(t) <= line[t] /\ line[t] + run[t] <= End(t)
  BY <1>1 DEF Safe, Scanning
<1>5. line[t] - Begin(t) \in 0 .. Size(t) - 1
  BY <1>1, <1>3, <1>4
<1>6. PICK q \in 0 .. Iters : Done(t) = q * Size(t) + (line[t] - Begin(t))
  BY <1>1, <1>3 DEF Tally
<1>7. remaining[t] + run[t] <= Iters
  BY <1>3 DEF Tally
<1>8. /\ run'[t] = run[t] - 1 /\ remaining'[t] = remaining[t] /\ line'[t] = line[t] + 1
      /\ sink'[t] = SymDiff(sink[t], {line[t]}) /\ at'[t] = "scan"
  BY <1>1, <1>2
<1>9. Done(t)' = Done(t) + 1 /\ Done(t) \in 0 .. Iters - 1
  BY <1>1, <1>3, <1>7, <1>8 DEF Done
<1>10. ASSUME NEW u \in Thread, u # t PROVE Tally(u)' /\ Done(u)' = Done(u)
  BY <1>1, <1>2, <1>10, TallyFrame DEF Tallied
<1>11. Tally(t)'
  <2>1. OddReads(t, Done(t))' = OddReads(t, Done(t) + 1) /\ Size(t)' = Size(t)
        /\ Begin(t)' = Begin(t) /\ End(t)' = End(t)
    BY <1>9 DEF OddReads, ReadsOf, Size, Begin, End
  <2>2. sink'[t] = OddReads(t, Done(t))'
    <3>1. Begin(t) + (line[t] - Begin(t)) = line[t] /\ q \in Nat
      BY <1>3
    <3>2. OddReads(t, Done(t) + 1) = SymDiff(OddReads(t, Done(t)), {line[t]})
      BY <1>5, <1>6, <3>1, NextRead
    <3>3. sink[t] = OddReads(t, Done(t))
      BY <1>3 DEF Tally
    <3>4. QED
      BY <1>8, <2>1, <3>2, <3>3
  <2>3. Done(t)' = q * Size(t) + (line'[t] - Begin(t))
    <3>1. q * Size(t) \in Nat
      BY <1>3
    <3>2. QED
      BY <1>3, <1>6, <1>8, <1>9, <3>1
  <2>4. line'[t] + run'[t] = End(t) \/ remaining'[t] = 0
    <3>1. line[t] + run[t] = End(t) \/ remaining[t] = 0
      BY <1>1, <1>3 DEF Tally
    <3>2. QED
      BY <1>3, <1>8, <3>1
  <2>5. remaining'[t] + run'[t] <= Iters
    BY <1>3, <1>7, <1>8
  <2>6. QED
    BY <1>8, <2>1, <2>2, <2>3, <2>4, <2>5 DEF Tally
<1>12. QED
  BY <1>9, <1>10, <1>11 DEF Tallied

\* A scan that is over and not the last was of the whole part.
LEMMA DoneTally ==
    ASSUME Safe, Tallied, NEW t \in Thread, ScanDone(t)
    PROVE  Tallied' /\ \A u \in Thread : Done(u)' = Done(u)
<1>1. /\ remaining' = remaining /\ run' = run /\ line' = line
      /\ sink' = sink /\ sinkOut' = sinkOut
      /\ at[t] = "scan" /\ run[t] = 0 /\ at' = [at EXCEPT ![t] = "loop"]
  BY DEF ScanDone, progress
<1>2. at \in [Thread -> ThreadStates]
  BY DEF Safe, TypeOK, ThreadStates
<1>3. \A u \in Thread : Done(u)' = Done(u)
  BY <1>1 DEF Done
<1>4. ASSUME NEW u \in Thread, u # t PROVE Tally(u)'
  BY <1>1, <1>2, <1>4, TallyFrame DEF Tallied
<1>5. /\ Iters \in Nat /\ Done(t) \in 0 .. Iters /\ line[t] \in Int
      /\ Size(t) \in Nat \ {0} /\ Begin(t) \in Nat /\ End(t) = Begin(t) + Size(t)
      /\ Tally(t)
  BY TallyTypes, LinesAssumption
<1>6. ASSUME remaining[t] > 0
      PROVE  \E q \in 0 .. Iters : Done(t) = q * Size(t)
  <2>1. PICK q \in 0 .. Iters : Done(t) = q * Size(t) + (line[t] - Begin(t))
    BY <1>1, <1>5 DEF Tally
  <2>2. line[t] + 0 = End(t)
    BY <1>1, <1>5, <1>6 DEF Tally
  <2>3. line[t] - Begin(t) = Size(t)
    BY <1>5, <2>2
  <2>4. (q + 1) * Size(t) = q * Size(t) + Size(t)
    BY <1>5
  <2>5. Done(t) = (q + 1) * Size(t)
    BY <2>1, <2>3, <2>4
  <2>6. 1 * (q + 1) <= Size(t) * (q + 1)
    BY <1>5, TimesMonotone
  <2>7. Size(t) * (q + 1) = (q + 1) * Size(t) /\ 1 * (q + 1) = q + 1
    BY <1>5
  <2>8. q + 1 \in 0 .. Iters
    BY <1>5, <2>5, <2>6, <2>7
  <2>9. QED
    BY <2>5, <2>8
<1>7. Tally(t)'
  <2>1. at'[t] = "loop"
    BY <1>1, <1>2
  <2>2. Done(t)' = Done(t) /\ OddReads(t, Done(t))' = OddReads(t, Done(t))
        /\ Size(t)' = Size(t)
    BY <1>3 DEF OddReads, ReadsOf, Size, Begin, End
  <2>3. QED
    BY <1>1, <1>5, <1>6, <2>1, <2>2 DEF Tally
<1>8. QED
  BY <1>3, <1>4, <1>7 DEF Tallied

\* A thread that has read all it should hands over its sink.
LEMMA FinishTally ==
    ASSUME Safe, Tallied, NEW t \in Thread, Finish(t)
    PROVE  Tallied' /\ \A u \in Thread : Done(u)' = Done(u)
<1>1. /\ remaining' = remaining /\ run' = run /\ line' = line /\ sink' = sink
      /\ at[t] = "loop" /\ remaining[t] = 0
      /\ sinkOut' = [sinkOut EXCEPT ![t] = sink[t]]
      /\ at' = [at EXCEPT ![t] = "exited"]
  BY DEF Finish, progress
<1>2. at \in [Thread -> ThreadStates] /\ sinkOut \in [Thread -> SUBSET Line]
  BY DEF Safe, TypeOK, ThreadStates
<1>3. \A u \in Thread : Done(u)' = Done(u)
  BY <1>1 DEF Done
<1>4. ASSUME NEW u \in Thread, u # t PROVE Tally(u)'
  BY <1>1, <1>2, <1>4, TallyFrame DEF Tallied
<1>5. Tally(t)'
  <2>1. at'[t] = "exited" /\ sinkOut'[t] = sink[t] /\ Tally(t)
    BY <1>1, <1>2 DEF Tallied
  <2>2. Done(t)' = Done(t) /\ OddReads(t, Done(t))' = OddReads(t, Done(t))
        /\ Size(t)' = Size(t)
    BY <1>3 DEF OddReads, ReadsOf, Size, Begin, End
  <2>3. QED
    BY <1>1, <2>1, <2>2 DEF Tally
<1>6. QED
  BY <1>3, <1>4, <1>5 DEF Tallied

------------------------------------------------------------------------------
(* The clock.                                                              *)

\* The steps by which a thread gets from its creation to its loop.
Staged(t) == \/ Launch /\ launched = t
             \/ Arrive(t) \/ Leave(t)
             \/ t = 0 /\ StoreStart

LEMMA StagedTally ==
    ASSUME Safe, Tallied, NEW t \in Thread, Staged(t)
    PROVE  Tallied' /\ \A u \in Thread : Done(u)' = Done(u)
<1>1. \E s \in {"ready", "waiting", "stamp", "loop"} : at' = [at EXCEPT ![t] = s]
  BY DEF Staged, Launch, Arrive, Leave, StoreStart
<1>2. UNCHANGED <<progress, sink, sinkOut>>
  BY DEF Staged, Launch, Arrive, Leave, StoreStart
<1>3. at[t] \in {"none", "ready", "waiting", "stamp"}
  <2>1. CASE Launch /\ launched = t
    <3>1. at[t] \in ThreadStates /\ ~(t < launched)
      BY <2>1, CoresAssumption DEF Safe, TypeOK, ThreadStates, Thread
    <3>2. QED
      BY <3>1 DEF Safe, Counted
  <2>2. QED
    BY <2>1 DEF Staged, Arrive, Leave, StoreStart
<1>4. QED
  BY <1>1, <1>2, <1>3, StageTally

LEMMA PairsFinite ==
    ASSUME NEW S \in SUBSET Thread
    PROVE  /\ IsFiniteSet(S \X (1 .. Iters))
           /\ Cardinality(S \X (1 .. Iters)) = Cardinality(S) * Iters
<1>1. IsFiniteSet(S)
  BY ThreadsFinite, FS_Subset
<1>2. IsFiniteSet(1 .. Iters) /\ Cardinality(1 .. Iters) = Iters
  <2>1. 1 \in Int /\ Iters \in Int /\ (1 > Iters <=> Iters = 0) /\ Iters - 1 + 1 = Iters
    BY ItersAssumption
  <2>2. QED
    BY <2>1, FS_Interval
<1>3. QED
  BY <1>1, <1>2, FS_Product

\* As long as thread 0 has read nothing the others have read Iters lines each at most.
LEMMA EarlyReads ==
    ASSUME Safe, Tallied, Done(0) = 0
    PROVE  Cardinality(DoneReads) \in 0 .. (NCores - 1) * Iters
<1> DEFINE S == Thread \ {0}
<1>1. 0 \in Thread /\ Iters \in Nat /\ NCores \in Nat
  BY CoresAssumption, ItersAssumption DEF Thread
<1>2. Cardinality(S) = NCores - 1
  BY <1>1, ThreadsFinite, FS_RemoveElement
<1>3. DoneReads \subseteq S \X (1 .. Iters)
  <2> SUFFICES ASSUME NEW p \in DoneReads PROVE p[1] # 0
    BY DEF DoneReads
  <2>1. p[2] \in 1 .. Iters /\ p[2] <= Done(p[1])
    BY DEF DoneReads
  <2>2. QED
    BY <1>1, <2>1
<1>4. /\ IsFiniteSet(S \X (1 .. Iters))
      /\ Cardinality(S \X (1 .. Iters)) = (NCores - 1) * Iters
  <2>1. S \in SUBSET Thread
    OBVIOUS
  <2>2. QED
    BY <1>2, <2>1, PairsFinite
<1>5. /\ Cardinality(DoneReads) \in Nat
      /\ Cardinality(DoneReads) <= (NCores - 1) * Iters
  BY <1>3, <1>4, FS_Subset, FS_CardinalityType
<1>6. (NCores - 1) * Iters \in Int
  BY <1>1
<1> HIDE DEF S
<1>7. QED
  BY <1>5, <1>6

\* A step of a thread changes nothing of main.
LEMMA ThreadAlone ==
    ASSUME NEW t \in Thread, ThreadStep(t)
    PROVE  main' = main /\ main \notin {"report", "done"}
BY DEF ThreadStep, Alive, Arrive, Leave, Scan, Read, ScanDone, Finish, StoreStart

LEMMA TimedInit == Init => Timed
<1> SUFFICES ASSUME Init PROVE Timed
  OBVIOUS
<1>1. 0 \in Thread /\ Iters \in Nat
  BY CoresAssumption, ItersAssumption DEF Thread
<1>2. DoneReads = {}
  BY <1>1 DEF Init, DoneReads, Done
<1>3. QED
  BY <1>1, <1>2, FS_EmptySet DEF Init, Timed

\* Steps that read nothing leave the clock where it is.
LEMMA ClockFrame ==
    ASSUME now = Cardinality(DoneReads), now' = now, \A u \in Thread : Done(u)' = Done(u)
    PROVE  now' = Cardinality(DoneReads')
<1>1. DoneReads' = DoneReads
  <2>1. \A p \in Thread \X (1 .. Iters) : Done(p[1])' = Done(p[1])
    OBVIOUS
  <2>2. QED
    BY <2>1 DEF DoneReads
<1>2. QED
  BY <1>1

LEMMA StagedTimed ==
    ASSUME Safe, Tallied, Timed, NEW t \in Thread, Staged(t)
    PROVE  Timed'
<1>1. now' = now /\ main' = main /\ main \notin {"report", "done"}
  BY DEF Staged, Alive, Launch, Arrive, Leave, StoreStart
<1>2. now' = Cardinality(DoneReads')
  BY <1>1, StagedTally, ClockFrame DEF Timed
<1>3. at \in [Thread -> ThreadStates] /\ 0 \in Thread
  BY CoresAssumption DEF Safe, TypeOK, ThreadStates, Thread
<1>4. at'[0] \in {"loop", "scan", "exited"} => tStart' \in 0 .. (NCores - 1) * Iters
  <2>1. CASE StoreStart
    <3>1. at[0] = "stamp" /\ tStart' = now
      BY <2>1 DEF StoreStart
    <3>2. remaining[0] = Iters /\ run[0] = 0
      BY <1>3, <3>1 DEF Tallied, Tally
    <3>3. Done(0) = 0
      BY <3>2, ItersAssumption DEF Done
    <3>4. QED
      BY <3>1, <3>3, EarlyReads DEF Timed
  <2>2. CASE ~StoreStart
    <3>1. /\ tStart' = tStart
          /\ \E s \in {"ready", "waiting", "stamp", "loop"} :
                at' = [at EXCEPT ![t] = s] /\ (t = 0 => s # "loop")
      BY <2>2 DEF Staged, Launch, Arrive, Leave
    <3>2. QED
      BY <1>3, <3>1 DEF Timed
  <2>3. QED
    BY <2>1, <2>2
<1>5. QED
  BY <1>1, <1>2, <1>4 DEF Timed

LEMMA LoopTimed ==
    ASSUME Safe, Tallied, Timed, NEW t \in Thread, Scan(t) \/ ScanDone(t) \/ Finish(t)
    PROVE  Timed'
<1>1. /\ now' = now /\ tStart' = tStart
      /\ at[t] \in {"loop", "scan"}
      /\ \E s \in {"loop", "scan", "exited"} : at' = [at EXCEPT ![t] = s]
  BY DEF Scan, ScanDone, Finish
<1>2. main' = main /\ main \notin {"report", "done"}
  BY ThreadAlone DEF ThreadStep
<1>3. now' = Cardinality(DoneReads')
  BY <1>1, ScanTally, DoneTally, FinishTally, ClockFrame DEF Timed
<1>4. at \in [Thread -> ThreadStates]
  BY DEF Safe, TypeOK, ThreadStates
<1>5. at'[0] \in {"loop", "scan", "exited"} => at[0] \in {"loop", "scan", "exited"}
  BY <1>1, <1>4 DEF ThreadStates
<1>6. QED
  BY <1>1, <1>2, <1>3, <1>5 DEF Timed

\* A read is one more pair.
LEMMA ReadTimed ==
    ASSUME Safe, Tallied, Timed, NEW t \in Thread, Read(t)
    PROVE  Timed'
<1> DEFINE p == <<t, Done(t) + 1>>
<1>1. /\ now' = now + 1 /\ tStart' = tStart /\ at' = at
  BY DEF Read
<1>2. main' = main /\ main \notin {"report", "done"}
  BY ThreadAlone DEF ThreadStep
<1>3. /\ Done(t) \in 0 .. Iters - 1 /\ Done(t)' = Done(t) + 1
      /\ \A u \in Thread \ {t} : Done(u)' = Done(u)
  BY ReadTally
<1>4. p \in Thread \X (1 .. Iters)
  BY <1>3, ItersAssumption
<1>5. DoneReads' = DoneReads \cup {p}
  <2> SUFFICES ASSUME NEW x \in Thread \X (1 .. Iters)
               PROVE  x[2] <= Done(x[1])' <=> x[2] <= Done(x[1]) \/ x = p
    BY <1>4 DEF DoneReads
  <2>1. x = <<x[1], x[2]>> /\ x[1] \in Thread /\ x[2] \in 1 .. Iters
    OBVIOUS
  <2>2. CASE x[1] = t
    <3>1. x = p <=> x[2] = Done(t) + 1
      BY <2>1, <2>2
    <3>2. Done(x[1])' = Done(t) + 1 /\ Done(x[1]) = Done(t)
      BY <1>3, <2>2
    <3>3. QED
      BY <1>3, <2>1, <3>1, <3>2, ItersAssumption
  <2>3. CASE x[1] # t
    <3>1. x # p
      BY <2>3
    <3>2. Done(x[1])' = Done(x[1])
      BY <1>3, <2>1, <2>3
    <3>3. QED
      BY <3>1, <3>2
  <2>4. QED
    BY <2>2, <2>3
<1>6. p \notin DoneReads
  BY <1>3, ItersAssumption DEF DoneReads
<1>7. IsFiniteSet(DoneReads)
  <2>1. DoneReads \subseteq Thread \X (1 .. Iters) /\ Thread \subseteq Thread
    BY DEF DoneReads
  <2>2. QED
    BY <2>1, PairsFinite, FS_Subset
<1> HIDE DEF p
<1>8. Cardinality(DoneReads') = Cardinality(DoneReads) + 1
  BY <1>5, <1>6, <1>7, FS_AddElement
<1>9. QED
  BY <1>1, <1>2, <1>8 DEF Timed

\* The parts have no line in common, so what main adds up is the union of the sinks.
LEMMA SinksAddUp ==
    ASSUME Safe, Tallied, AllJoined
    PROVE  {l \in Line : Cardinality({t \in Thread : l \in sinkOut[t]}) % 2 = 1}
             = UNION {sinkOut[t] : t \in Thread}
<1>1. \A t \in Thread : sinkOut[t] \subseteq Begin(t) .. End(t) - 1
  BY DEF AllJoined, Tallied, Tally, Safe, Scanning
<1>2. \A t \in Thread : sinkOut[t] \subseteq Line
  BY <1>1, PartInRegion
<1>3. ASSUME NEW l \in Line
      PROVE  Cardinality({t \in Thread : l \in sinkOut[t]}) % 2 = 1
               <=> \E t \in Thread : l \in sinkOut[t]
  <2>1. CASE \A t \in Thread : l \notin sinkOut[t]
    <3>1. {t \in Thread : l \in sinkOut[t]} = {}
      BY <2>1
    <3>2. Cardinality({}) = 0 /\ 0 % 2 # 1
      BY FS_EmptySet
    <3>3. QED
      BY <2>1, <3>1, <3>2
  <2>2. ASSUME NEW t \in Thread, l \in sinkOut[t]
        PROVE  Cardinality({u \in Thread : l \in sinkOut[u]}) % 2 = 1
    <3>1. \A u \in Thread : l \in sinkOut[u] => u = t
      BY <1>1, <2>2, PartsDisjoint
    <3>2. {u \in Thread : l \in sinkOut[u]} = {t}
      BY <2>2, <3>1
    <3>3. Cardinality({t}) = 1 /\ 1 % 2 = 1
      BY FS_Singleton
    <3>4. QED
      BY <3>2, <3>3
  <2>3. QED
    BY <2>1, <2>2
<1>4. QED
  BY <1>2, <1>3

LEMMA MainTimed ==
    ASSUME Safe, Tallied, Timed, LaunchFails \/ LaunchDone \/ Join \/ Report \/ UNCHANGED vars
    PROVE  Timed'
<1>1. /\ now' = now /\ tStart' = tStart /\ at' = at /\ sinkOut' = sinkOut
  BY DEF LaunchFails, LaunchDone, Join, Report, vars
<1>2. now' = Cardinality(DoneReads')
  BY <1>1, MainTally, ClockFrame DEF Timed
<1>3. main' \in {"report", "done"} => AllJoined' /\ tEnd' = now'
  BY <1>1 DEF Timed, LaunchFails, LaunchDone, Join, Report, vars, result, AllJoined
<1>4. main' = "done" => total' = UNION {sinkOut'[t] : t \in Thread}
  <2>1. CASE Report
    <3>1. AllJoined
      BY <2>1 DEF Report, Timed
    <3>2. QED
      BY <1>1, <2>1, <3>1, SinksAddUp DEF Report
  <2>2. CASE LaunchFails \/ LaunchDone \/ Join \/ UNCHANGED vars
    BY <1>1, <2>2 DEF LaunchFails, LaunchDone, Join, vars, result, Timed
  <2>3. QED
    BY <2>1, <2>2
<1>5. QED
  BY <1>1, <1>2, <1>3, <1>4 DEF Timed

------------------------------------------------------------------------------
(* What follows from the invariant.                                        *)

\* Every step is one of main's or of a thread's.
LEMMA StepCases ==
    ASSUME Safe, [Next]_vars
    PROVE  \/ LaunchFails \/ LaunchDone \/ Join \/ Report \/ UNCHANGED vars
           \/ \E t \in Thread : \/ Staged(t) \/ Read(t)
                                \/ Scan(t) \/ ScanDone(t) \/ Finish(t)
<1>1. CASE Launch
  <2>1. launched \in Thread
    BY <1>1, CoresAssumption DEF Launch, Safe, TypeOK, Thread
  <2>2. QED
    BY <1>1, <2>1 DEF Staged
<1>2. CASE ~Launch
  BY <1>2 DEF Next, MainStep, ThreadStep, Staged
<1>3. QED
  BY <1>1, <1>2

\* IInv is an invariant of the benchmark, for any number of threads and lines.
THEOREM StreamInvariant == Spec => []IInv
<1>1. Init => IInv
  BY StreamInit, TallyInit, TimedInit DEF IInv
<1>2. IInv /\ [Next]_vars => IInv'
  <2> SUFFICES ASSUME IInv, [Next]_vars PROVE IInv'
    OBVIOUS
  <2>1. Safe /\ Tallied /\ Timed
    BY DEF IInv
  <2>2. Safe'
    BY <2>1, LaunchStep, MainSteps, ArriveStep, LeaveStep, QuietSteps, ScanStep, ReadStep
       DEF Next, MainStep, ThreadStep
  <2>3. Tallied'
    BY <2>1, StepCases, StagedTally, MainTally, ScanTally, ReadTally, DoneTally, FinishTally
  <2>4. Timed'
    BY <2>1, StepCases, StagedTimed, MainTimed, LoopTimed, ReadTimed
  <2>5. QED
    BY <2>2, <2>3, <2>4 DEF IInv
<1>3. QED
  BY <1>1, <1>2, PTL DEF Spec

\* The state of the benchmark keeps its type.
THEOREM StreamTypes == Spec => []TypeOK
<1>1. IInv => TypeOK
  BY DEF IInv, Safe
<1>2. QED
  BY <1>1, StreamInvariant, PTL

\* When main reports, the measured interval ends after NCores * Iters reads, all there
\* are, and leaves out at most those of the threads other than 0.
THEOREM IntervalCoversReads == Spec => []EndsAfterLastRead
<1>1. ASSUME IInv, main \in {"report", "done"}
      PROVE  /\ tEnd = NCores * Iters /\ now = tEnd
             /\ tStart \in 0 .. (NCores - 1) * Iters
  <2>1. AllJoined /\ tEnd = now /\ now = Cardinality(DoneReads)
    BY <1>1 DEF IInv, Timed
  <2>2. \A t \in Thread : Done(t) = Iters
    <3> SUFFICES ASSUME NEW t \in Thread PROVE Done(t) = Iters
      OBVIOUS
    <3>1. remaining[t] = 0 /\ run[t] = 0
      BY <1>1, <2>1 DEF IInv, AllJoined, Tallied, Tally
    <3>2. QED
      BY <3>1, ItersAssumption DEF Done
  <2>3. DoneReads = Thread \X (1 .. Iters)
    BY <2>2, ItersAssumption DEF DoneReads
  <2>4. Thread \subseteq Thread
    OBVIOUS
  <2>5. Cardinality(DoneReads) = NCores * Iters
    BY <2>3, <2>4, PairsFinite, ThreadsFinite
  <2>6. 0 \in Thread
    BY CoresAssumption DEF Thread
  <2>7. tStart \in 0 .. (NCores - 1) * Iters
    BY <1>1, <2>1, <2>6 DEF IInv, Timed, AllJoined
  <2>8. QED
    BY <2>1, <2>5, <2>7
<1>2. IInv => EndsAfterLastRead
  BY <1>1 DEF EndsAfterLastRead
<1>3. QED
  BY <1>2, StreamInvariant, PTL

\* The checksum a run prints is a function of its arguments, whatever the schedule.
THEOREM ChecksumDetermined == Spec => []ChecksumIsFixed
<1>1. ASSUME IInv, main = "done"
      PROVE  total = UNION {OddReads(t, Iters) : t \in Thread}
  <2>1. AllJoined /\ total = UNION {sinkOut[t] : t \in Thread}
    BY <1>1 DEF IInv, Timed
  <2>2. \A t \in Thread : sinkOut[t] = OddReads(t, Iters)
    <3> SUFFICES ASSUME NEW t \in Thread PROVE sinkOut[t] = OddReads(t, Iters)
      OBVIOUS
    <3>1. /\ remaining[t] = 0 /\ run[t] = 0 /\ sinkOut[t] = sink[t]
          /\ sink[t] = OddReads(t, Done(t))
      BY <1>1, <2>1 DEF IInv, AllJoined, Tallied, Tally
    <3>2. Done(t) = Iters
      BY <3>1, ItersAssumption DEF Done
    <3>3. QED
      BY <3>1, <3>2
  <2>3. QED
    BY <2>1, <2>2
<1>2. IInv => ChecksumIsFixed
  BY <1>1 DEF ChecksumIsFixed
<1>3. QED
  BY <1>2, StreamInvariant, PTL

\* No load leaves the thread's own part of the region, and so none leaves the region.
THEOREM ReadsStayInPart == Spec => []OwnPart
<1>1. ASSUME IInv PROVE OwnPart
  <2> SUFFICES ASSUME NEW t \in Thread
               PROVE  /\ sink[t] \subseteq Begin(t) .. End(t) - 1
                      /\ at[t] = "scan" /\ run[t] > 0 => line[t] \in Begin(t) .. End(t) - 1
    BY DEF OwnPart
  <2>1. /\ run[t] \in 0 .. Iters /\ line[t] \in 0 .. NLines
        /\ Begin(t) \in Nat /\ End(t) \in Nat
    BY <1>1, PartBounds DEF IInv, Safe, TypeOK
  <2>2. QED
    BY <1>1, <2>1, ItersAssumption, LinesAssumption DEF IInv, Safe, Scanning
<1>2. QED
  BY <1>1, StreamInvariant, PTL

\* Nobody reads, and the start time is not taken, before all threads have been
\* created and have arrived at the barrier.
THEOREM BarrierHolds == Spec => []NobodyStartsEarly
<1>1. ASSUME IInv PROVE NobodyStartsEarly
  <2> SUFFICES ASSUME arrived = NCores PROVE launched = NCores
    BY <1>1 DEF IInv, Safe, BarrierFirst, NobodyStartsEarly
  <2>1. Arrived \subseteq Thread /\ IsFiniteSet(Thread) /\ Cardinality(Thread) = NCores
    BY ThreadsFinite DEF Arrived
  <2>2. Cardinality(Arrived) = Cardinality(Thread)
    BY <1>1, <2>1 DEF IInv, Safe, Counted
  <2>3. Arrived = Thread
    BY <2>1, <2>2, FS_Subset
  <2>4. NCores - 1 \in Thread
    BY CoresAssumption DEF Thread
  <2>5. NCores - 1 < launched
    BY <1>1, <2>3, <2>4 DEF IInv, Safe, Counted, Arrived
  <2>6. QED
    BY <1>1, <2>5, CoresAssumption DEF IInv, Safe, TypeOK
<1>2. QED
  BY <1>1, StreamInvariant, PTL

------------------------------------------------------------------------------
(* A run ends: what a thread or main has left to do grows less with its    *)
(* own steps, not more with the others', and somebody can always go on.    *)

\* How many steps thread t has left at most: two for each scan, of a line or more, and
\* one for each read, and those around the loop.
ThreadLeft(t) == CASE at[t] = "none"    -> 3 * Iters + 5
                   [] at[t] = "ready"   -> 3 * Iters + 4
                   [] at[t] = "waiting" -> 3 * Iters + 3
                   [] at[t] = "stamp"   -> 3 * Iters + 2
                   [] at[t] = "loop"    -> 3 * remaining[t] + 1
                   [] at[t] = "scan"    -> 3 * remaining[t] + run[t] + 2
                   [] at[t] = "exited"  -> 0

MainLeft == CASE main = "launch" -> (NCores - launched) + 3
              [] main = "join"   -> 2
              [] main = "report" -> 1
              [] main \in {"done", "aborted"} -> 0

ThreadLeftCases(t) ==
    /\ at[t] = "none" => ThreadLeft(t) = 3 * Iters + 5
    /\ at[t] = "ready" => ThreadLeft(t) = 3 * Iters + 4
    /\ at[t] = "waiting" => ThreadLeft(t) = 3 * Iters + 3
    /\ at[t] = "stamp" => ThreadLeft(t) = 3 * Iters + 2
    /\ at[t] = "loop" => ThreadLeft(t) = 3 * remaining[t] + 1
    /\ at[t] = "scan" => ThreadLeft(t) = 3 * remaining[t] + run[t] + 2
    /\ at[t] = "exited" => ThreadLeft(t) = 0

MainLeftCases ==
    /\ main = "launch" => MainLeft = (NCores - launched) + 3
    /\ main = "join" => MainLeft = 2
    /\ main = "report" => MainLeft = 1
    /\ main \in {"done", "aborted"} => MainLeft = 0

\* Bounds of both.
LeftBounds == /\ \A t \in Thread : ThreadLeft(t) \in 0 .. 3 * Iters + 5
              /\ MainLeft \in 0 .. NCores + 3

LeftTable == /\ \A t \in Thread : ThreadLeftCases(t)
             /\ MainLeftCases

\* The cases exclude each other.
LEMMA LeftEach == LeftTable
<1>1. ASSUME NEW t \in Thread PROVE ThreadLeftCases(t)
  BY Zenon DEF ThreadLeftCases, ThreadLeft
<1>2. MainLeftCases
  BY Zenon DEF MainLeftCases, MainLeft
<1> QED
  BY <1>1, <1>2 DEF LeftTable

\* What is left is bounded from the beginning.
LEMMA LeftBounded == IInv => LeftBounds
<1> SUFFICES ASSUME IInv PROVE LeftBounds
  OBVIOUS
<1>0. LeftTable
  BY LeftEach
<1> HIDE DEF ThreadLeft, MainLeft
<1>1. ASSUME NEW t \in Thread PROVE ThreadLeft(t) \in 0 .. 3 * Iters + 5
  <2>1. ThreadLeftCases(t) /\ remaining[t] \in Nat /\ run[t] \in Nat /\ Iters \in Nat
        /\ remaining[t] + run[t] <= Iters
        /\ at[t] \in ThreadStates
    BY <1>0, ItersAssumption DEF LeftTable, IInv, Safe, TypeOK, Tallied, Tally, ThreadStates
  <2> QED
    BY <2>1 DEF ThreadLeftCases, ThreadStates
<1>2. MainLeft \in 0 .. NCores + 3
  BY <1>0, CoresAssumption DEF LeftTable, MainLeftCases, IInv, Safe, TypeOK
<1> QED
  BY <1>1, <1>2 DEF LeftBounds

\* A step that moves thread t alone leaves the others as much to do.
LEMMA OthersLeft ==
    ASSUME TypeOK, NEW t \in Thread, NEW s, NEW u \in Thread \ {t},
           at' = [at EXCEPT ![t] = s],
           remaining'[u] = remaining[u], run'[u] = run[u]
    PROVE  ThreadLeft(u)' = ThreadLeft(u)
<1>1. at'[u] = at[u]
  BY DEF TypeOK
<1> QED
  BY <1>1, Zenon DEF ThreadLeft

\* stream_bw.cpp:45-201.  A thread has at most 3 * Iters + 5 steps to take, main at most
\* NCores + 3, and no step of one gives another more to do.
THEOREM ThreadsTakeBoundedSteps ==
    Spec => /\ []LeftBounds
            /\ [][/\ MainStep \/ LaunchFails =>
                        /\ MainLeft' < MainLeft
                        /\ \A t \in Thread : ThreadLeft(t)' <= ThreadLeft(t)
                  /\ \A t \in Thread : ThreadStep(t) =>
                        /\ ThreadLeft(t)' < ThreadLeft(t)
                        /\ MainLeft' = MainLeft
                        /\ \A u \in Thread \ {t} : ThreadLeft(u)' = ThreadLeft(u)]_vars
<1>1. IInv /\ LeftBounds /\ LeftBounds' /\ LeftTable /\ LeftTable' /\ [Next]_vars
        => [/\ MainStep \/ LaunchFails =>
                  /\ MainLeft' < MainLeft
                  /\ \A t \in Thread : ThreadLeft(t)' <= ThreadLeft(t)
            /\ \A t \in Thread : ThreadStep(t) =>
                  /\ ThreadLeft(t)' < ThreadLeft(t)
                  /\ MainLeft' = MainLeft
                  /\ \A u \in Thread \ {t} : ThreadLeft(u)' = ThreadLeft(u)]_vars
  <2> SUFFICES ASSUME IInv, LeftBounds, LeftBounds', LeftTable, LeftTable'
               PROVE  /\ MainStep \/ LaunchFails =>
                            /\ MainLeft' < MainLeft
                            /\ \A t \in Thread : ThreadLeft(t)' <= ThreadLeft(t)
                      /\ \A t \in Thread : ThreadStep(t) =>
                            /\ ThreadLeft(t)' < ThreadLeft(t)
                            /\ MainLeft' = MainLeft
                            /\ \A u \in Thread \ {t} : ThreadLeft(u)' = ThreadLeft(u)
    OBVIOUS
  <2>1. /\ TypeOK
        /\ \A t \in Thread : remaining[t] \in Nat /\ run[t] \in Nat
        /\ NCores \in Nat \ {0} /\ Iters \in Nat /\ launched \in 0 .. NCores
        /\ \A t \in Thread : ThreadLeft(t) \in Nat /\ ThreadLeft(t)' \in Nat
        /\ \A t \in Thread : remaining[t] + run[t] <= Iters
    BY CoresAssumption, ItersAssumption DEF IInv, Safe, TypeOK, LeftBounds, Tallied, Tally
  <2>2. ASSUME MainStep \/ LaunchFails PROVE MainLeft' < MainLeft
    BY <2>1, <2>2 DEF LeftTable, MainLeftCases, MainStep, Launch, LaunchFails, LaunchDone, Join, Report
  <2>3. ASSUME MainStep \/ LaunchFails, NEW t \in Thread PROVE ThreadLeft(t)' <= ThreadLeft(t)
    <3>1. CASE Launch
      <4>1. /\ at' = [at EXCEPT ![launched] = "ready"] /\ launched \in Thread
            /\ remaining' = remaining /\ run' = run
        BY <2>1, <3>1 DEF Launch, Thread, progress
      <4>2. CASE t = launched
        <5>1. at'[t] = "ready" /\ at[t] = "none"
          BY <2>1, <4>1, <4>2 DEF IInv, Safe, Counted, TypeOK
        <5>2. ThreadLeftCases(t) /\ ThreadLeftCases(t)'
          BY DEF LeftTable
        <5> HIDE DEF ThreadLeft
        <5> QED
          BY <2>1, <5>1, <5>2 DEF ThreadLeftCases
      <4>3. CASE t # launched
        <5>1. ThreadLeft(t)' = ThreadLeft(t)
          BY <2>1, <4>1, <4>3, OthersLeft
        <5> HIDE DEF ThreadLeft
        <5> QED
          BY <2>1, <5>1
      <4> QED
        BY <4>2, <4>3
    <3>2. CASE LaunchFails \/ LaunchDone \/ Join \/ Report
      <4>1. at' = at /\ remaining' = remaining /\ run' = run
        BY <3>2 DEF LaunchFails, LaunchDone, Join, Report, progress
      <4>2. ThreadLeft(t)' = ThreadLeft(t)
        BY <4>1, Zenon DEF ThreadLeft
      <4> HIDE DEF ThreadLeft
      <4> QED
        BY <2>1, <4>2
    <3> QED
      BY <2>3, <3>1, <3>2 DEF MainStep
  <2>4. ASSUME NEW t \in Thread, ThreadStep(t)
        PROVE  /\ ThreadLeft(t)' < ThreadLeft(t)
               /\ MainLeft' = MainLeft
               /\ \A u \in Thread \ {t} : ThreadLeft(u)' = ThreadLeft(u)
    <3>1. main' = main /\ launched' = launched
      BY <2>4 DEF ThreadStep, Arrive, Leave, StoreStart, Scan, Read, ScanDone, Finish
    <3>2. MainLeft' = MainLeft
      BY <3>1, Zenon DEF MainLeft
    <3>3. /\ \E s : at' = [at EXCEPT ![t] = s]
          /\ \A u \in Thread \ {t} : remaining'[u] = remaining[u] /\ run'[u] = run[u]
      <4>1. CASE Arrive(t) \/ Leave(t) \/ ScanDone(t) \/ Finish(t) \/ (t = 0 /\ StoreStart)
        BY <4>1 DEF Arrive, Leave, ScanDone, Finish, StoreStart, progress
      <4>2. CASE Scan(t)
        BY <2>1, <4>2 DEF Scan, StartScan, TypeOK
      <4>3. CASE Read(t)
        <5>1. at' = [at EXCEPT ![t] = at[t]] /\ remaining' = remaining
              /\ run' = [run EXCEPT ![t] = @ - 1]
          BY <2>1, <4>3 DEF Read, TypeOK
        <5> QED
          BY <2>1, <5>1 DEF TypeOK
      <4> QED
        BY <2>4, <4>1, <4>2, <4>3 DEF ThreadStep
    <3>4. ASSUME NEW u \in Thread \ {t} PROVE ThreadLeft(u)' = ThreadLeft(u)
      <4>1. PICK s : at' = [at EXCEPT ![t] = s]
        BY <3>3
      <4> QED
        BY <2>1, <3>3, <4>1, OthersLeft
    <3>5. ThreadLeft(t)' < ThreadLeft(t)
      <4>1. ThreadLeftCases(t) /\ ThreadLeftCases(t)'
        BY DEF LeftTable
      <4>2. /\ ThreadLeft(t) \in Nat /\ ThreadLeft(t)' \in Nat
            /\ remaining[t] \in Nat /\ run[t] \in Nat /\ Iters \in Nat
            /\ remaining[t] + run[t] <= Iters
        BY <2>1
      <4> HIDE DEF ThreadLeft
      <4>3. CASE Arrive(t) \/ Leave(t) \/ ScanDone(t) \/ Finish(t) \/ (t = 0 /\ StoreStart)
        <5>1. /\ \/ at[t] = "ready" /\ at'[t] = "waiting"
                 \/ at[t] = "waiting" /\ at'[t] \in {"stamp", "loop"}
                 \/ at[t] = "stamp" /\ at'[t] = "loop"
                 \/ at[t] = "scan" /\ at'[t] = "loop"
                 \/ at[t] = "loop" /\ at'[t] = "exited"
              /\ remaining'[t] = remaining[t]
          BY <2>1, <4>3 DEF Arrive, Leave, ScanDone, Finish, StoreStart, progress, TypeOK
        <5> QED
          BY <4>1, <4>2, <5>1 DEF ThreadLeftCases
      <4>4. CASE Scan(t)
        <5> DEFINE k == Smaller(Size(t), remaining[t])
        <5>1. k \in Nat /\ k >= 1 /\ k <= remaining[t]
          BY <4>2, <4>4, SizePositive DEF Scan, Smaller
        <5>2. /\ at[t] = "loop" /\ at'[t] = "scan"
              /\ remaining'[t] = remaining[t] - k /\ run'[t] = k
          BY <2>1, <4>4 DEF Scan, StartScan, TypeOK
        <5> HIDE DEF k
        <5> QED
          BY <4>1, <4>2, <5>1, <5>2 DEF ThreadLeftCases
      <4>5. CASE Read(t)
        <5>1. /\ at[t] = "scan" /\ at'[t] = "scan"
              /\ remaining'[t] = remaining[t] /\ run'[t] = run[t] - 1
          BY <2>1, <4>5 DEF Read, TypeOK
        <5> QED
          BY <4>1, <4>2, <5>1 DEF ThreadLeftCases
      <4> QED
        BY <2>4, <4>3, <4>4, <4>5 DEF ThreadStep
    <3> QED
      BY <3>2, <3>4, <3>5
  <2> QED
    BY <2>2, <2>3, <2>4
<1> QED
  BY <1>1, LeftEach, LeftBounded, StreamInvariant, PTL DEF Spec

\* Main joins only when it has created all threads, and thread 0 alone takes the time.
Created == /\ \A t \in Thread : t < launched => at[t] # "none"
           /\ main = "join" => launched = NCores
           /\ \A t \in Thread : at[t] = "stamp" => t = 0

\* This holds from the beginning.
LEMMA CreatedHolds == Spec => []Created
<1>1. Init => Created
  <2> SUFFICES ASSUME Init PROVE Created
    OBVIOUS
  <2>1. launched = 0 /\ main = "launch" /\ \A t \in Thread : at[t] = "none" /\ ~(t < 0)
    BY CoresAssumption DEF Init, Thread
  <2> QED
    BY <2>1 DEF Created
<1>2. IInv /\ Created /\ [Next]_vars => Created'
  <2> SUFFICES ASSUME IInv, Created, [Next]_vars PROVE Created'
    OBVIOUS
  <2>1. /\ at \in [Thread -> ThreadStates] /\ launched \in 0 .. NCores /\ NCores \in Nat \ {0}
    BY CoresAssumption DEF IInv, Safe, TypeOK, ThreadStates
  <2>2. CASE Launch
    <3>1. /\ at' = [at EXCEPT ![launched] = "ready"] /\ launched \in Thread
          /\ launched' = launched + 1 /\ main' = main /\ main = "launch"
      BY <2>1, <2>2 DEF Launch, Thread
    <3>2. \A t \in Thread : t < launched' => t = launched \/ t < launched
      BY <2>1, <3>1 DEF Thread
    <3> QED
      BY <2>1, <3>1, <3>2 DEF Created
  <2>3. CASE LaunchFails \/ LaunchDone \/ Join \/ Report
    BY <2>3 DEF LaunchFails, LaunchDone, Join, Report, Created
  <2>4. ASSUME NEW t \in Thread, ThreadStep(t) PROVE Created'
    <3>1. /\ main' = main /\ launched' = launched
          /\ \E s \in ThreadStates \ {"none"} :
                at' = [at EXCEPT ![t] = s] /\ (s = "stamp" => t = 0 \/ at[t] = "stamp")
      <4>1. CASE Read(t)
        <5>1. at' = [at EXCEPT ![t] = at[t]] /\ at[t] = "scan"
          BY <2>1, <4>1 DEF Read
        <5> QED
          BY <4>1, <5>1 DEF Read, ThreadStates
      <4> QED
        BY <2>4, <4>1 DEF ThreadStep, Arrive, Leave, StoreStart, Scan, ScanDone, Finish, ThreadStates
    <3> QED
      BY <2>1, <3>1 DEF Created
  <2>5. CASE UNCHANGED vars
    BY <2>5 DEF vars, Created
  <2> QED
    BY <2>2, <2>3, <2>4, <2>5 DEF Next, MainStep
<1> QED
  BY <1>1, <1>2, StreamInvariant, PTL DEF Spec

\* The guards of main's steps and of a thread's.
MainCanGoOn == \/ main = "launch" /\ (launched < NCores \/ launched = NCores)
               \/ main = "join" /\ AllJoined
               \/ main = "report"
ThreadCanGoOn(t) == Alive /\ \/ at[t] = "ready"
                             \/ at[t] = "waiting" /\ BarrierOpen
                             \/ t = 0 /\ at[t] = "stamp"
                             \/ at[t] = "loop" /\ (remaining[t] > 0 \/ remaining[t] = 0)
                             \/ at[t] = "scan" /\ (run[t] > 0 \/ run[t] = 0)

\* stream_bw.cpp:53-54.  The barrier cannot hang: as long as the process lives there is
\* somebody who does not wait for another.
THEOREM SomebodyGoesOn ==
    Spec => [](main \notin {"done", "aborted"} =>
                   MainCanGoOn \/ \E t \in Thread : ThreadCanGoOn(t))
<1>1. ASSUME IInv, Created, main \notin {"done", "aborted"}, ~MainCanGoOn,
             \A t \in Thread : ~ThreadCanGoOn(t)
      PROVE  FALSE
  <2>1. /\ at \in [Thread -> ThreadStates]
        /\ \A t \in Thread : remaining[t] \in Nat /\ run[t] \in Nat
        /\ launched \in 0 .. NCores /\ NCores \in Nat \ {0}
        /\ main \in {"launch", "join", "report", "done", "aborted"}
    <3>1. TypeOK
      BY <1>1 DEF IInv, Safe
    <3> QED
      BY <3>1, CoresAssumption, ItersAssumption DEF TypeOK, ThreadStates
  <2>2. main = "join" /\ ~AllJoined
    BY <1>1, <2>1 DEF MainCanGoOn
  <2>3. ASSUME NEW t \in Thread PROVE at[t] = "exited" \/ (at[t] = "waiting" /\ ~BarrierOpen)
    <3>1. at[t] # "none"
      BY <1>1, <2>1, <2>2 DEF Created, Thread
    <3>2. remaining[t] > 0 \/ remaining[t] = 0
      BY <2>1
    <3>3. run[t] > 0 \/ run[t] = 0
      BY <2>1
    <3> QED
      BY <1>1, <2>1, <2>2, <3>1, <3>2, <3>3 DEF ThreadCanGoOn, Alive, Created, ThreadStates
  <2>4. Arrived = Thread
    BY <2>3 DEF Arrived
  <2>5. BarrierOpen
    BY <1>1, <2>4, ThreadsFinite DEF IInv, Safe, Counted, BarrierOpen
  <2> QED
    BY <2>2, <2>3, <2>5 DEF AllJoined
<1>2. IInv /\ Created => (main \notin {"done", "aborted"} =>
                              MainCanGoOn \/ \E t \in Thread : ThreadCanGoOn(t))
  BY <1>1
<1> QED
  BY <1>2, CreatedHolds, StreamInvariant, PTL
=============================================================================
