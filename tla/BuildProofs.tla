----------------------------- MODULE BuildProofs -----------------------------
(***************************************************************************)
(* After a make that ended well everything is made of the sources saved    *)
(* before it began, and another make has nothing to do: for any target,    *)
(* any sources edited at any moment, and any number of saves and makes.    *)
(***************************************************************************)
EXTENDS Build, SequenceTheorems, TLAPS

(* The dependency graph.                                                   *)

\* The Makefile names everything that a recipe reads.
LEMMA EveryReadNamed == \A x \in Built : Prerequisites(x) = Reads(x)
<1> SUFFICES ASSUME NEW x \in Built PROVE Prerequisites(x) = Reads(x)
  OBVIOUS
<1>1. CASE x = "access_masks.h"
  BY <1>1 DEF Prerequisites, Generator, Reads, Headers
<1>2. CASE x = "decode_masks.h"
  BY <1>2 DEF Prerequisites, Generator, Reads, Headers
<1>3. CASE x = "randread_bw"
  BY <1>3 DEF Prerequisites, ProgramPrerequisites, Reads, Headers
<1>4. CASE x = "stream_bw"
  BY <1>4 DEF Prerequisites, ProgramPrerequisites, Reads, Headers
<1>5. CASE x = "latency_bw"
  BY <1>5 DEF Prerequisites, ProgramPrerequisites, Reads, Headers
<1>6. CASE x = "hugepage_addr"
  BY <1>6 DEF Prerequisites, ProgramPrerequisites, Reads, Headers
<1>7. QED
  BY <1>1, <1>2, <1>3, <1>4, <1>5, <1>6 DEF Built, Headers, Targets, Benchmarks

\* Headers are made of sources, programs of sources and headers, but not of config.py
\* itself, and randread_bw reads both headers.
LEMMA Graph ==
    /\ Source \cap Built = {} /\ File = Source \cup Built
    /\ Headers \subseteq Built /\ Wide \subseteq Built \ Headers
    /\ "randread_bw" \in Wide
    /\ Headers \subseteq Reads("randread_bw")
    /\ \A x \in Headers : Reads(x) \subseteq Source
    /\ \A x \in Built \ Headers : Reads(x) \subseteq Source \cup Headers /\ "config.py" \notin Reads(x)
<1>1. /\ Source \cap Built = {} /\ File = Source \cup Built
      /\ Headers \subseteq Built /\ Wide \subseteq Built \ Headers
      /\ "randread_bw" \in Wide
  BY DEF Source, Built, File, Headers, Targets, Benchmarks, Wide
<1>2. Headers \subseteq Reads("randread_bw")
  BY DEF Reads, Headers
<1>3. \A x \in Headers : Reads(x) \subseteq Source
  BY DEF Reads, Headers, Source
<1>4. ASSUME NEW x \in Built \ Headers
      PROVE  Reads(x) \subseteq Source \cup Headers /\ "config.py" \notin Reads(x)
  <2>1. CASE x = "randread_bw"
    BY <2>1 DEF Reads, Headers, Source
  <2>2. CASE x = "stream_bw"
    BY <2>2 DEF Reads, Headers, Source
  <2>3. CASE x = "latency_bw"
    BY <2>3 DEF Reads, Headers, Source
  <2>4. CASE x = "hugepage_addr"
    BY <2>4 DEF Reads, Headers, Source
  <2>5. QED
    BY <2>1, <2>2, <2>3, <2>4 DEF Built, Targets, Benchmarks
<1>5. QED
  BY <1>1, <1>2, <1>3, <1>4

\* The order begins with the two headers and has every file once.
LEMMA OrderFacts ==
    /\ Len(Order) = 6 /\ Order \in Seq(Built)
    /\ \A k \in 1 .. 6 : Order[k] \in Built /\ (Order[k] \in Headers <=> k <= 2)
    /\ \A x \in Built : \E k \in 1 .. 6 : Order[k] = x
    /\ \A k, l \in 1 .. 6 : Order[k] = Order[l] => k = l
<1>1. /\ Len(Order) = 6 /\ Order \in Seq(Built)
      /\ Order[1] = "access_masks.h" /\ Order[2] = "decode_masks.h" /\ Order[3] = "randread_bw"
      /\ Order[4] = "stream_bw" /\ Order[5] = "latency_bw" /\ Order[6] = "hugepage_addr"
  BY DEF Order, Built, Headers, Targets, Benchmarks
<1>2. 1 .. 6 = {1, 2, 3, 4, 5, 6}
  OBVIOUS
<1>3. \A k \in 1 .. 6 : Order[k] \in Built /\ (Order[k] \in Headers <=> k <= 2)
  BY <1>1, <1>2 DEF Built, Headers, Targets, Benchmarks
<1>4. \A x \in Built : \E k \in 1 .. 6 : Order[k] = x
  BY <1>1, <1>2 DEF Built, Headers, Targets, Benchmarks
<1>5. \A k, l \in 1 .. 6 : Order[k] = Order[l] => k = l
  BY <1>1, <1>2
<1>6. QED
  BY <1>1, <1>3, <1>4, <1>5

\* Numbers up to six, the length of the order.
LEMMA UpToSix ==
    /\ \A n \in Nat : n <= 6 => n \in 0 .. 6
    /\ \A n \in 1 .. 6 : 7 - n \in 1 .. 6 /\ 6 - n = (7 - n) - 1
    /\ \A n \in 1 .. 6 : n - 1 <= 6 /\ 6 - (n - 1) = 7 - n
OBVIOUS

\* What is left to look at.
LEMMA Left ==
    ASSUME TypeOK
    PROVE  /\ todo \in Seq(Built) /\ Len(todo) \in 0 .. 6
           /\ todo # <<>> => Len(todo) \in 1 .. 6
<1>1. todo \in Seq(Built) /\ Len(todo) <= Len(Order)
  BY DEF TypeOK
<1>2. Len(todo) \in 0 .. 6
  <2>1. Len(Order) = 6
    BY OrderFacts
  <2>2. Len(todo) \in Nat
    BY <1>1
  <2>3. Len(todo) <= 6
    BY <1>1, <2>1, Zenon
  <2>4. QED
    BY <2>2, <2>3, UpToSix, Zenon
<1>3. todo # <<>> => Len(todo) # 0
  BY <1>1, EmptySeq
<1>4. QED
  BY <1>1, <1>2, <1>3

\* A source's mistakes include having none.
LEMMA NoFlaw == \A f : "none" \in Flaws(f)
BY DEF Flaws

\* The file make looks at: a header comes before all programs.
LEMMA WhereCurrent ==
    ASSUME TypeOK, Ordered, todo # <<>>
    PROVE  /\ Current \in Built /\ Current \notin Looked
           /\ Current \in Headers => Looked \subseteq Headers
           /\ Current \notin Headers => Headers \subseteq Looked
<1>1. todo \in Seq(Built) /\ Len(todo) \in 1 .. 6 /\ todo[1] = Order[7 - Len(todo)]
  <2>1. todo \in Seq(Built) /\ Len(todo) \in 1 .. 6
    BY Left
  <2>2. 1 \in DOMAIN todo /\ 6 - Len(todo) + 1 = 7 - Len(todo)
    BY <2>1
  <2>3. todo[1] = Order[6 - Len(todo) + 1]
    BY <2>2, OrderFacts DEF Ordered
  <2>4. QED
    BY <2>1, <2>2, <2>3
<1>2. Current = todo[1]
  BY <1>1 DEF Current
<1> DEFINE c == 7 - Len(todo)
<1>3. c \in 1 .. 6 /\ Current = Order[c] /\ Looked = {Order[k] : k \in 1 .. c - 1}
  <2>1. Current = Order[c]
    BY <1>1, <1>2, Zenon
  <2>3. c \in 1 .. 6 /\ 6 - Len(todo) = c - 1
    BY <1>1, UpToSix, Zenon
  <2>2. Looked = {Order[k] : k \in 1 .. 6 - Len(todo)}
    BY OrderFacts, Zenon DEF Looked
  <2>4. QED
    BY <2>1, <2>2, <2>3
<1> HIDE DEF c
<1>4. Current \in Built /\ Current \notin Looked
  BY <1>3, OrderFacts
<1>5. Current \in Headers => Looked \subseteq Headers
  BY <1>3, OrderFacts
<1>6. ASSUME Current \notin Headers, NEW h \in Headers
      PROVE  h \in Looked
  <2>1. PICK k \in 1 .. 6 : Order[k] = h
    BY OrderFacts, Graph
  <2>2. k <= 2 /\ c > 2
    BY <1>3, <1>6, <2>1, OrderFacts
  <2>3. QED
    BY <1>3, <2>1, <2>2
<1>7. QED
  BY <1>4, <1>5, <1>6

\* When make goes on it has looked at one file more.
LEMMA GoOn ==
    ASSUME TypeOK, Ordered, todo # <<>>, todo' = Tail(todo)
    PROVE  /\ todo' \in Seq(Built) /\ Len(todo') <= Len(Order)
           /\ \A k \in DOMAIN todo' : todo'[k] = Order[Len(Order) - Len(todo') + k]
           /\ Looked' = Looked \cup {Current}
<1>1. todo \in Seq(Built) /\ Len(todo) \in 1 .. 6
  BY Left
<1>2. /\ todo' \in Seq(Built) /\ Len(todo') = Len(todo) - 1
      /\ \A k \in 1 .. Len(todo) - 1 : todo'[k] = todo[k + 1]
  BY <1>1
<1>3. \A k \in 1 .. Len(todo) : todo[k] = Order[6 - Len(todo) + k]
  <2>1. DOMAIN todo = 1 .. Len(todo)
    BY <1>1
  <2>2. QED
    BY <2>1, OrderFacts DEF Ordered
<1>4. ASSUME NEW k \in DOMAIN todo'
      PROVE  todo'[k] = Order[6 - Len(todo') + k]
  <2>1. k \in 1 .. Len(todo) - 1 /\ k + 1 \in 1 .. Len(todo)
    BY <1>1, <1>2
  <2>2. todo'[k] = Order[6 - Len(todo) + (k + 1)]
    BY <1>2, <1>3, <2>1
  <2>3. 6 - Len(todo) + (k + 1) = 6 - Len(todo') + k
    BY <1>1, <1>2, <2>1
  <2>4. QED
    BY <2>2, <2>3
<1>5. Current = Order[7 - Len(todo)]
  <2>1. 1 \in 1 .. Len(todo) /\ 6 - Len(todo) + 1 = 7 - Len(todo)
    BY <1>1
  <2>2. todo[1] = Order[6 - Len(todo) + 1]
    BY <1>3, <2>1
  <2>3. QED
    BY <1>1, <2>1, <2>2 DEF Current
<1>6. Looked' = Looked \cup {Current}
  <2> DEFINE c == 7 - Len(todo)
  <2>1. Current = Order[c]
    BY <1>5, Zenon
  <2>5. c \in 1 .. 6 /\ 6 - Len(todo) = c - 1 /\ 6 - Len(todo') = c
    BY <1>1, <1>2, UpToSix, Zenon
  <2>4. Looked = {Order[k] : k \in 1 .. c - 1} /\ Looked' = {Order[k] : k \in 1 .. c}
    <3>1. Looked = {Order[k] : k \in 1 .. 6 - Len(todo)}
      BY OrderFacts, Zenon DEF Looked
    <3>2. Looked' = {Order[k] : k \in 1 .. 6 - Len(todo')}
      BY OrderFacts, Zenon DEF Looked
    <3>3. QED
      BY <2>5, <3>1, <3>2
  <2> HIDE DEF c
  <2>2. \A k : k \in 1 .. c <=> (k \in 1 .. c - 1 \/ k = c)
    BY <2>5
  <2>3. QED
    BY <2>1, <2>2, <2>4
<1>7. Len(todo') <= Len(Order)
  <2>1. Len(todo') <= 6
    BY <1>1, <1>2, UpToSix, Zenon
  <2>2. Len(Order) = 6
    BY OrderFacts
  <2>3. QED
    BY <2>1, <2>2, Zenon
<1>8. \A k \in DOMAIN todo' : todo'[k] = Order[Len(Order) - Len(todo') + k]
  BY <1>4, OrderFacts
<1>9. QED
  BY <1>2, <1>6, <1>7, <1>8

\* With nothing left, it has looked at everything.
LEMMA LookedAtAll == todo = <<>> => Looked = Built
BY OrderFacts DEF Looked

\* It looks at built files only.
LEMMA LookedBuilt ==
    ASSUME TypeOK
    PROVE  Looked \subseteq Built
<1>1. Len(todo) \in Nat
  BY DEF TypeOK
<1>2. \A k \in 1 .. 6 - Len(todo) : k \in 1 .. 6
  BY <1>1
<1>3. QED
  BY <1>2, OrderFacts DEF Looked

------------------------------------------------------------------------------
(* The invariant.                                                          *)

LEMMA InitInv == Init => IInv
<1> SUFFICES ASSUME Init PROVE IInv
  OBVIOUS
<1>1. TypeOK
  <2>1. mtime \in [File -> 0 .. clock] /\ clock \in Nat
    BY DEF Init
  <2>2. \A f \in Source : flaw[f] \in Flaws(f) /\ (mtime[f] = 0 => f = "config.py")
    BY NoFlaw, Graph DEF Init
  <2>3. \A x \in Built : mtime[x] = 0 /\ from[x] = {} /\ MadeOf(x) = {}
    BY Graph DEF Init, MadeOf
  <2>4. todo \in Seq(Built) /\ Len(todo) <= Len(Order)
    BY OrderFacts DEF Init
  <2>5. \A x \in Wide : compiled[x] = 0
    BY DEF Init
  <2>6. /\ DOMAIN from = Built /\ partial = {} /\ make = "idle" /\ width = 0
        /\ sound \in BOOLEAN /\ raced \in BOOLEAN
    BY Zenon DEF Init
  <2>7. started \in 0 .. clock
    BY DEF Init
  <2>8. QED
    BY <2>1, <2>2, <2>3, <2>4, <2>5, <2>6, <2>7 DEF TypeOK
<1>2. Ordered /\ Fresh /\ Compiled /\ CutShort
  BY DEF Init, Ordered, Fresh, Compiled, CutShort, Busy
<1>3. Origins
  BY DEF Init, Origins
<1>4. QED
  BY <1>1, <1>2, <1>3 DEF IInv

\* A source is saved at any moment: it is newer than everything that was made of it.
LEMMA SaveStep ==
    ASSUME IInv, NEW f \in Source, NEW mistake \in Flaws(f),
           clock' = clock + 1,
           mtime' = [mtime EXCEPT ![f] = clock'],
           flaw' = [flaw EXCEPT ![f] = mistake],
           \A g \in Source : flaw'[g] \in Flaws(g),
           raced' = (raced \/ (make = "recipe" /\ f \in Reads(Current))),
           make' = IF Idle THEN "idle" ELSE make,
           UNCHANGED <<from, compiled, partial, todo, started, width, took, sound>>
    PROVE  IInv'
<1>1. /\ clock \in Nat /\ clock' \in Nat /\ started \in 0 .. clock
      /\ \A g \in File : mtime[g] \in 0 .. clock
      /\ \A g \in File : mtime'[g] = IF g = f THEN clock + 1 ELSE mtime[g]
      /\ \A x \in Built : mtime'[x] = mtime[x] /\ x \in File
      /\ f \in File /\ f \notin Built
  BY Graph DEF IInv, TypeOK
<1>2. (make' = "recipe" <=> make = "recipe") /\ (Busy' => Busy) /\ (make' = "ok" => FALSE)
  BY DEF Idle, Busy, IInv, TypeOK
<1>3. Current' = Current /\ BW_SIMD_WIDTH' = BW_SIMD_WIDTH /\ Looked' = Looked
  BY DEF Current, BW_SIMD_WIDTH, Looked
<1>4. TypeOK'
  <2>1. mtime' \in [File -> 0 .. clock']
    BY <1>1 DEF IInv, TypeOK
  <2>2. \A g \in Source : mtime'[g] = 0 => g = "config.py"
    BY <1>1, Graph DEF IInv, TypeOK
  <2>3. \A x \in Built : /\ from'[x] \subseteq Source \X (1 .. clock')
                         /\ MadeOf(x)' = IF mtime'[x] = 0 THEN {} ELSE Leaves(x)
    <3>1. ASSUME NEW x \in Built
          PROVE  /\ from'[x] \subseteq Source \X (1 .. clock')
                 /\ MadeOf(x)' = IF mtime'[x] = 0 THEN {} ELSE Leaves(x)
      <4>1. /\ from[x] \subseteq Source \X (1 .. clock)
            /\ MadeOf(x) = IF mtime[x] = 0 THEN {} ELSE Leaves(x)
        BY DEF IInv, TypeOK
      <4>2. MadeOf(x)' = MadeOf(x) /\ 1 .. clock \subseteq 1 .. clock'
        BY <1>1 DEF MadeOf
      <4>3. QED
        BY <1>1, <4>1, <4>2
    <3>2. QED
      BY <3>1
  <2>4. \A x \in Wide : compiled'[x] # 0 => mtime'[x] # 0 /\ Supported(compiled'[x])
    BY <1>1, Graph DEF IInv, TypeOK
  <2>5. partial' \subseteq {h \in Headers : mtime'[h] # 0}
    BY <1>1, Graph DEF IInv, TypeOK
  <2>6. make' \in {"idle", "scan", "recipe", "ok", "failed"} /\ DOMAIN from' = Built
    BY DEF IInv, TypeOK
  <2>7. make' = "recipe" => /\ todo' # <<>>
                            /\ took' \subseteq Source \X (1 .. clock')
                            /\ {s[1] : s \in took'} = Leaves(Current')
                            /\ sound' /\ Current' \in Wide => Supported(BW_SIMD_WIDTH')
    BY <1>1, <1>2, <1>3 DEF IInv, TypeOK
  <2>8. /\ todo' \in Seq(Built) /\ Len(todo') <= Len(Order) /\ started' \in 0 .. clock'
        /\ width' \in Widths \cup {0} /\ sound' \in BOOLEAN /\ raced' \in BOOLEAN
    BY <1>1 DEF IInv, TypeOK
  <2>9. QED
    BY <1>1, <2>1, <2>2, <2>3, <2>4, <2>5, <2>6, <2>7, <2>8 DEF TypeOK
<1>5. Ordered'
  BY <1>2 DEF IInv, Ordered
<1>6. Fresh'
  <2>1. ASSUME Busy', NEW x \in Looked
        PROVE  /\ mtime'[x] # 0
               /\ \A p \in Reads(x) : mtime'[p] > mtime'[x] => p \in Source /\ mtime'[p] > started
    <3>1. x \in Built /\ Reads(x) \subseteq File
      BY LookedBuilt, Graph DEF IInv
    <3>2. /\ mtime[x] # 0
          /\ \A p \in Reads(x) : mtime[p] > mtime[x] => p \in Source /\ mtime[p] > started
      BY <1>2, <2>1 DEF IInv, Fresh, Newer
    <3>3. ASSUME NEW p \in Reads(x), mtime'[p] > mtime'[x]
          PROVE  p \in Source /\ mtime'[p] > started
      <4>1. CASE p = f
        BY <1>1, <4>1
      <4>2. CASE p # f
        BY <1>1, <3>1, <3>2, <3>3, <4>2
      <4>3. QED
        BY <4>1, <4>2
    <3>4. QED
      BY <1>1, <3>1, <3>2, <3>3
  <2>2. QED
    BY <2>1, <1>3 DEF Fresh, Newer
<1>7. Origins'
  <2> SUFFICES ASSUME ~raced'
               PROVE  /\ \A x \in Built : \A s \in from'[x] :
                             Latest(s, x)' \/ Overtaken(s, x)' \/ ByHeader(s, x)' \/ Renewed(x)'
                      /\ make' = "recipe" =>
                             \A s \in took' : Latest(s, Current)' \/ ByHeader(s, Current)'
    BY DEF Origins
  <2>1. ASSUME NEW x \in Built, NEW s \in from'[x]
        PROVE  Latest(s, x)' \/ Overtaken(s, x)' \/ ByHeader(s, x)' \/ Renewed(x)'
    <3>1. Latest(s, x) \/ Overtaken(s, x) \/ ByHeader(s, x) \/ Renewed(x)
      BY <2>1 DEF IInv, Origins
    <3>2. s[1] \in Source
      BY <2>1 DEF IInv, TypeOK
    <3>3. CASE s[1] \in Reads(x) /\ s[1] = f
      BY <1>1, <3>3 DEF Overtaken, Newer
    <3>4. CASE s[1] # f
      <4>1. Latest(s, x) => Latest(s, x)'
        BY <1>1, <3>2, <3>4, Graph DEF Latest
      <4>2. Overtaken(s, x) => Overtaken(s, x)'
        BY <1>1, <3>2, <3>4, Graph DEF Overtaken, Newer
      <4>3. ByHeader(s, x) => ByHeader(s, x)'
        BY DEF ByHeader
      <4>4. Renewed(x) => Renewed(x)'
        BY <1>1, Graph DEF Renewed, Newer
      <4>5. QED
        BY <3>1, <4>1, <4>2, <4>3, <4>4
    <3>5. CASE s[1] \notin Reads(x)
      <4>1. ByHeader(s, x) => ByHeader(s, x)'
        BY DEF ByHeader
      <4>2. Renewed(x) => Renewed(x)'
        BY <1>1, Graph DEF Renewed, Newer
      <4>3. QED
        BY <3>1, <3>5, <4>1, <4>2 DEF Latest, Overtaken
    <3>6. QED
      BY <3>3, <3>4, <3>5
  <2>2. ASSUME make' = "recipe", NEW s \in took'
        PROVE  Latest(s, Current)' \/ ByHeader(s, Current)'
    <3>1. make = "recipe" /\ f \notin Reads(Current) /\ ~raced
      BY <1>2, <2>2
    <3>2. Latest(s, Current) \/ ByHeader(s, Current)
      BY <2>2, <3>1 DEF IInv, Origins
    <3>3. s[1] \in Source
      BY <2>2, <3>1 DEF IInv, TypeOK
    <3>4. Latest(s, Current) => Latest(s, Current)'
      BY <1>1, <1>3, <3>1, <3>3, Graph DEF Latest
    <3>5. ByHeader(s, Current) => ByHeader(s, Current)'
      BY <1>3 DEF ByHeader
    <3>6. QED
      BY <3>2, <3>4, <3>5
  <2>3. QED
    BY <2>1, <2>2
<1>8. Compiled'
  BY <1>1, <1>2, <1>3, Graph DEF IInv, Compiled
<1>9. CutShort'
  BY <1>1, <1>2, <1>3, Graph DEF IInv, CutShort, TypeOK
<1>10. QED
  BY <1>4, <1>5, <1>6, <1>7, <1>8, <1>9 DEF IInv

\* What a step that changes no file leaves as it is.
LEMMA QuietFrame ==
    ASSUME IInv, UNCHANGED <<files, raced>>
    PROVE  /\ clock' \in Nat /\ mtime' \in [File -> 0 .. clock']
           /\ \A f \in Source : flaw'[f] \in Flaws(f) /\ (mtime'[f] = 0 => f = "config.py")
           /\ \A x \in Built : /\ from'[x] \subseteq Source \X (1 .. clock')
                               /\ MadeOf(x)' = IF mtime'[x] = 0 THEN {} ELSE Leaves(x)
           /\ \A x \in Wide : compiled'[x] # 0 => mtime'[x] # 0 /\ Supported(compiled'[x])
           /\ partial' \subseteq {h \in Headers : mtime'[h] # 0}
           /\ raced' \in BOOLEAN /\ DOMAIN from' = Built
           /\ ~raced' => \A x \in Built : \A s \in from'[x] :
                             Latest(s, x)' \/ Overtaken(s, x)' \/ ByHeader(s, x)' \/ Renewed(x)'
           /\ \A h \in partial' : mtime'[h] > mtime'["randread_bw"]
<1>1. UNCHANGED <<mtime, flaw, from, compiled, partial, clock>>
  BY DEF files
<1>2. \A x : MadeOf(x)' = MadeOf(x)
  BY <1>1 DEF MadeOf
<1>3. \A s, x : /\ Latest(s, x)' <=> Latest(s, x)
                /\ Overtaken(s, x)' <=> Overtaken(s, x)
                /\ ByHeader(s, x)' <=> ByHeader(s, x)
                /\ Renewed(x)' <=> Renewed(x)
  BY <1>1 DEF Latest, Overtaken, ByHeader, Renewed, Newer
<1>4. raced \in BOOLEAN
  BY DEF IInv, TypeOK
<1>5. QED
  BY <1>1, <1>2, <1>3, <1>4 DEF IInv, TypeOK, Origins, CutShort

\* make starts: nothing has been looked at, and nothing is newer than its start.
LEMMA StartStep ==
    ASSUME IInv, StartMake
    PROVE  IInv'
<1>1. /\ UNCHANGED <<files, took, sound, raced>>
      /\ make' = "scan" /\ todo' = Order /\ started' = clock /\ width' \in Widths
  BY DEF StartMake
<1>2. UNCHANGED <<mtime, flaw, from, compiled, partial, clock>>
  BY <1>1 DEF files
<1>3. clock \in Nat /\ sound' \in BOOLEAN /\ \A x \in Wide : mtime[x] \in 0 .. clock
  BY <1>1, Graph DEF IInv, TypeOK
<1>4. TypeOK'
  <2>1. started' \in 0 .. clock'
    BY <1>1, <1>2, <1>3
  <2>2. todo' \in Seq(Built) /\ Len(todo') <= Len(Order)
    BY <1>1, OrderFacts
  <2>3. QED
    BY <1>1, <1>2, <1>3, <2>1, <2>2, QuietFrame DEF TypeOK
<1>5. Looked' = {}
  <2>1. 1 .. 6 - 6 = {}
    OBVIOUS
  <2>2. QED
    BY <1>1, <2>1, OrderFacts DEF Looked
<1>6. Ordered' /\ Fresh'
  <2>1. \A k \in 1 .. 6 : 6 - 6 + k = k
    OBVIOUS
  <2>2. DOMAIN Order = 1 .. 6
    BY OrderFacts
  <2>3. QED
    BY <1>1, <1>5, <2>1, <2>2, OrderFacts DEF Ordered, Fresh
<1>7. Origins' /\ CutShort'
  BY <1>1, QuietFrame DEF Origins, CutShort
<1>8. Compiled'
  BY <1>1, <1>2, <1>3 DEF Compiled
<1>9. QED
  BY <1>4, <1>6, <1>7, <1>8 DEF IInv

\* A file is up to date: only what was saved since make began may be newer.
LEMMA UpToDateStep ==
    ASSUME IInv, UpToDate
    PROVE  IInv'
<1>1. /\ UNCHANGED <<files, make, started, width, took, sound, raced>>
      /\ make = "scan" /\ todo # <<>> /\ todo' = Tail(todo)
      /\ ~SeenOutOfDate(Current)
  BY DEF UpToDate, Scanning, run
<1>2. UNCHANGED <<mtime, flaw, from, compiled, partial, clock>>
  BY <1>1 DEF files
<1>3. /\ todo' \in Seq(Built) /\ Len(todo') <= Len(Order)
      /\ \A k \in DOMAIN todo' : todo'[k] = Order[Len(Order) - Len(todo') + k]
      /\ Looked' = Looked \cup {Current} /\ Current \in Built
  BY <1>1, GoOn, WhereCurrent DEF IInv
<1>4. TypeOK'
  <2>1. started' \in 0 .. clock' /\ width' \in Widths \cup {0} /\ sound' \in BOOLEAN
    BY <1>1, <1>2 DEF IInv, TypeOK
  <2>2. QED
    BY <1>1, <1>3, <2>1, QuietFrame DEF TypeOK
<1>5. Ordered'
  BY <1>1, <1>3 DEF Ordered
<1>6. Fresh'
  <2>1. /\ mtime[Current] # 0
        /\ \A p \in Reads(Current) : Newer(p, Current) => p \in Source /\ mtime[p] > started
    <3>1. \A p \in Reads(Current) : p \in Source \cup Built /\ mtime[p] \in Nat
      BY <1>3, Graph DEF IInv, TypeOK
    <3>2. started \in Nat
      BY DEF IInv, TypeOK
    <3>3. Prerequisites(Current) = Reads(Current)
      BY <1>3, EveryReadNamed
    <3>4. QED
      BY <1>1, <3>1, <3>2, <3>3 DEF SeenOutOfDate
  <2>2. \A p, x : Newer(p, x)' <=> Newer(p, x)
    BY <1>2 DEF Newer
  <2>3. QED
    BY <1>1, <1>2, <1>3, <2>1, <2>2 DEF IInv, Fresh, Busy
<1>7. Origins' /\ CutShort'
  BY <1>1, QuietFrame DEF Origins, CutShort
<1>8. Compiled'
  BY <1>1, <1>2 DEF IInv, Compiled, Busy, BW_SIMD_WIDTH
<1>9. QED
  BY <1>4, <1>5, <1>6, <1>7, <1>8 DEF IInv

\* make stops or ends well, or nothing happens.
LEMMA HaltStep ==
    ASSUME IInv, NoConfig \/ RecipeFails \/ Finish \/ UNCHANGED vars
    PROVE  IInv'
<1>1. /\ UNCHANGED <<files, todo, started, width, took, sound, raced>>
      /\ \/ make' = "failed"
         \/ make = "scan" /\ todo = <<>> /\ make' = "ok"
         \/ make' = make
  BY DEF NoConfig, RecipeFails, Finish, run, vars
<1>2. UNCHANGED <<mtime, flaw, from, compiled, partial, clock>>
  BY <1>1 DEF files
<1>3. Looked' = Looked /\ Current' = Current /\ BW_SIMD_WIDTH' = BW_SIMD_WIDTH
  BY <1>1 DEF Looked, Current, BW_SIMD_WIDTH
<1>4. (make' = "recipe" => make = "recipe") /\ (Busy' => Busy)
  BY <1>1 DEF Busy
<1>5. TypeOK'
  <2>1. make' \in {"idle", "scan", "recipe", "ok", "failed"}
    BY <1>1 DEF IInv, TypeOK
  <2>2. make' = "recipe" => /\ todo' # <<>>
                            /\ took' \subseteq Source \X (1 .. clock')
                            /\ {s[1] : s \in took'} = Leaves(Current')
                            /\ sound' /\ Current' \in Wide => Supported(BW_SIMD_WIDTH')
    BY <1>1, <1>2, <1>3, <1>4 DEF IInv, TypeOK
  <2>3. /\ todo' \in Seq(Built) /\ Len(todo') <= Len(Order) /\ started' \in 0 .. clock'
        /\ width' \in Widths \cup {0} /\ sound' \in BOOLEAN
    BY <1>1, <1>2 DEF IInv, TypeOK
  <2>4. QED
    BY <1>1, <2>1, <2>2, <2>3, QuietFrame DEF TypeOK
<1>6. Ordered'
  BY <1>1 DEF IInv, Ordered
<1>7. Fresh'
  BY <1>1, <1>2, <1>3, <1>4 DEF IInv, Fresh, Newer
<1>8. Origins'
  <2>1. ASSUME ~raced', make' = "recipe", NEW s \in took'
        PROVE  Latest(s, Current)' \/ ByHeader(s, Current)'
    BY <1>1, <1>2, <1>3, <1>4, <2>1 DEF IInv, Origins, Latest, ByHeader
  <2>2. QED
    BY <1>1, <2>1, QuietFrame DEF Origins
<1>9. Compiled' /\ CutShort'
  BY <1>1, <1>2, <1>3, <1>4 DEF IInv, Compiled, CutShort
<1>10. QED
  BY <1>5, <1>6, <1>7, <1>8, <1>9 DEF IInv

\* make clean: nothing is built any more.
LEMMA CleanStep ==
    ASSUME IInv, Clean
    PROVE  IInv'
<1>1. /\ mtime' = [f \in File |-> IF f \in Built THEN 0 ELSE mtime[f]]
      /\ from' = [x \in Built |-> {}] /\ compiled' = [x \in Wide |-> 0] /\ partial' = {}
      /\ make' = "idle"
      /\ UNCHANGED <<flaw, clock, todo, started, width, took, sound, raced>>
  BY DEF Clean, run
<1>2. TypeOK'
  <2>1. mtime' \in [File -> 0 .. clock']
    BY <1>1 DEF IInv, TypeOK
  <2>2. \A f \in Source : flaw'[f] \in Flaws(f) /\ (mtime'[f] = 0 => f = "config.py")
    BY <1>1, Graph DEF IInv, TypeOK
  <2>3. \A x \in Built : mtime'[x] = 0 /\ from'[x] = {} /\ MadeOf(x)' = {}
    BY <1>1, Graph DEF MadeOf
  <2>4. (\A x \in Wide : compiled'[x] = 0) /\ DOMAIN from' = Built
    BY <1>1
  <2>5. /\ todo' \in Seq(Built) /\ Len(todo') <= Len(Order) /\ started' \in 0 .. clock'
        /\ width' \in Widths \cup {0} /\ sound' \in BOOLEAN /\ raced' \in BOOLEAN /\ clock' \in Nat
    BY <1>1 DEF IInv, TypeOK
  <2>6. QED
    BY <1>1, <2>1, <2>2, <2>3, <2>4, <2>5 DEF TypeOK
<1>3. Ordered' /\ Fresh' /\ Compiled' /\ CutShort'
  BY <1>1 DEF IInv, Ordered, Fresh, Compiled, CutShort, Busy
<1>4. Origins'
  BY <1>1 DEF Origins
<1>5. QED
  BY <1>2, <1>3, <1>4 DEF IInv

\* A recipe begins: it reads sources as they are, and headers that are all there.
LEMMA BeginStep ==
    ASSUME IInv, Begin
    PROVE  IInv'
<1>1. /\ UNCHANGED <<files, todo, started, width, raced>>
      /\ make = "scan" /\ todo # <<>> /\ HasConfig
      /\ make' = "recipe"
      /\ took' = UNION {Contents(f) : f \in Reads(Current)}
      /\ sound' = (Sound(Current) /\ (Current \in Wide => Supported(BW_SIMD_WIDTH)))
  BY DEF Begin, Scanning
<1>2. UNCHANGED <<mtime, flaw, from, compiled, partial, clock>>
  BY <1>1 DEF files
<1>3. Looked' = Looked /\ Current' = Current /\ BW_SIMD_WIDTH' = BW_SIMD_WIDTH
  BY <1>1 DEF Looked, Current, BW_SIMD_WIDTH
<1>4. Current \in Built /\ (Current \notin Headers => Headers \subseteq Looked)
  BY <1>1, WhereCurrent DEF IInv
<1>5. Reads(Current) \subseteq Source \cup Headers /\ (Current \in Headers => Reads(Current) \subseteq Source)
  BY <1>4, Graph
<1>6. ASSUME NEW f \in Reads(Current) \cap Source
      PROVE  Contents(f) = {<<f, mtime[f]>>} /\ mtime[f] \in 1 .. clock
  <2>1. mtime[f] \in 0 .. clock /\ clock \in Nat /\ f \notin Built
    BY Graph DEF IInv, TypeOK
  <2>2. mtime[f] # 0
    <3>1. CASE f = "config.py"
      BY <1>1, <1>4, <1>6, <3>1, Graph DEF HasConfig
    <3>2. CASE f # "config.py"
      BY <1>6, <3>2 DEF IInv, TypeOK
    <3>3. QED
      BY <3>1, <3>2
  <2>3. QED
    BY <2>1, <2>2 DEF Contents
<1>7. ASSUME NEW h \in Reads(Current) \cap Headers
      PROVE  Contents(h) = from[h] /\ MadeOf(h) = Reads(h) /\ from[h] \subseteq Source \X (1 .. clock)
  <2>1. h \in Built /\ Reads(h) \subseteq Source
    BY Graph
  <2>2. mtime[h] # 0
    BY <1>1, <1>4, <1>5, <1>7, Graph DEF IInv, Fresh, Busy
  <2>3. MadeOf(h) = Leaves(h) /\ from[h] \subseteq Source \X (1 .. clock)
    BY <2>1, <2>2 DEF IInv, TypeOK
  <2>4. Leaves(h) = Reads(h)
    <3>1. Reads(h) \cap Source = Reads(h) /\ Reads(h) \cap Headers = {}
      BY <2>1, Graph
    <3>2. QED
      BY <3>1 DEF Leaves
  <2>5. QED
    BY <2>1, <2>3, <2>4 DEF Contents
<1>8. TypeOK'
  <2>1. took' \subseteq Source \X (1 .. clock')
    <3>1. ASSUME NEW f \in Reads(Current)
          PROVE  Contents(f) \subseteq Source \X (1 .. clock)
      BY <1>5, <1>6, <1>7
    <3>2. QED
      BY <1>1, <1>2, <3>1
  <2>2. {s[1] : s \in took'} = Leaves(Current')
    <3>1. ASSUME NEW g, g \in {s[1] : s \in took'}
          PROVE  g \in Leaves(Current)
      <4>1. PICK s \in took' : g = s[1]
        BY <3>1
      <4>2. PICK f \in Reads(Current) : s \in Contents(f)
        BY <1>1, <4>1
      <4>3. CASE f \in Source
        BY <1>6, <4>1, <4>2, <4>3 DEF Leaves
      <4>4. CASE f \in Headers
        <5>1. g \in MadeOf(f)
          BY <1>7, <4>1, <4>2, <4>4 DEF MadeOf
        <5>2. QED
          BY <1>7, <4>2, <4>4, <5>1 DEF Leaves
      <4>5. QED
        BY <1>5, <4>2, <4>3, <4>4
    <3>2. ASSUME NEW g \in Leaves(Current)
          PROVE  \E s \in took' : g = s[1]
      <4>1. CASE g \in Reads(Current) \cap Source
        <5>1. <<g, mtime[g]>> \in took'
          BY <1>1, <1>6, <4>1
        <5>2. QED
          BY <5>1
      <4>2. ASSUME NEW h \in Reads(Current) \cap Headers, g \in Reads(h)
            PROVE  \E s \in took' : g = s[1]
        <5>1. PICK s \in from[h] : g = s[1]
          BY <1>7, <4>2 DEF MadeOf
        <5>2. s \in took'
          BY <1>1, <1>7, <5>1
        <5>3. QED
          BY <5>1, <5>2
      <4>3. QED
        BY <3>2, <4>1, <4>2 DEF Leaves
    <3>3. QED
      BY <1>3, <3>1, <3>2
  <2>3. sound' \in BOOLEAN
    BY <1>1
  <2>4. sound' /\ Current' \in Wide => Supported(BW_SIMD_WIDTH')
    BY <1>1, <1>3
  <2>5. /\ todo' \in Seq(Built) /\ Len(todo') <= Len(Order) /\ started' \in 0 .. clock'
        /\ width' \in Widths \cup {0}
    BY <1>1, <1>2 DEF IInv, TypeOK
  <2>6. QED
    BY <1>1, <2>1, <2>2, <2>3, <2>4, <2>5, QuietFrame DEF TypeOK
<1>9. Ordered' /\ Fresh' /\ Compiled'
  BY <1>1, <1>2, <1>3 DEF IInv, Ordered, Fresh, Newer, Compiled, Busy
<1>10. Origins'
  <2>1. ASSUME NEW s \in took'
        PROVE  Latest(s, Current)' \/ ByHeader(s, Current)'
    <3>1. PICK f \in Reads(Current) : s \in Contents(f)
      BY <1>1, <2>1
    <3>2. CASE f \in Source
      BY <1>2, <1>3, <1>6, <3>1, <3>2 DEF Latest
    <3>3. CASE f \in Headers
      BY <1>2, <1>3, <1>7, <3>1, <3>3 DEF ByHeader
    <3>4. QED
      BY <1>5, <3>1, <3>2, <3>3
  <2>2. QED
    BY <1>1, <2>1, QuietFrame DEF Origins
<1>11. CutShort'
  BY <1>1, <1>2, <1>3 DEF IInv, CutShort, Sound
<1>12. QED
  BY <1>8, <1>9, <1>10, <1>11 DEF IInv

\* A recipe writes its output, all of it or not: it is newer than every other file.
LEMMA OutputStep ==
    ASSUME IInv, Write \/ WriteFails
    PROVE  IInv'
<1> DEFINE x == Current
<1>1. /\ make = "recipe" /\ sound
      /\ clock' = clock + 1
      /\ mtime' = [mtime EXCEPT ![x] = clock']
      /\ from' = [from EXCEPT ![x] = took]
      /\ compiled' = [y \in Wide |-> IF y = x THEN BW_SIMD_WIDTH ELSE compiled[y]]
      /\ UNCHANGED <<flaw, started, width, took, sound, raced>>
      /\ \/ Write /\ partial' = partial \ {x} /\ todo' = Tail(todo) /\ make' = "scan"
         \/ WriteFails /\ x \in Headers /\ partial' = partial \cup {x} /\ make' = "failed" /\ todo' = todo
  BY DEF Write, WriteFails, Output, run
<1>2. todo # <<>> /\ took \subseteq Source \X (1 .. clock) /\ {s[1] : s \in took} = Leaves(x)
  BY <1>1 DEF IInv, TypeOK
<1>3. /\ x \in Built /\ x \notin Looked
      /\ x \in Headers => Looked \subseteq Headers
  BY <1>2, WhereCurrent DEF IInv
<1> HIDE DEF x
<1>4. /\ clock \in Nat /\ clock' \in Nat
      /\ \A f \in File : mtime[f] \in 0 .. clock
      /\ \A f \in File : mtime'[f] = IF f = x THEN clock + 1 ELSE mtime[f]
      /\ x \in File /\ \A f \in Source : f \in File /\ f # x
      /\ \A y \in Built : y \in File
  BY <1>1, <1>3, Graph DEF IInv, TypeOK
<1>5. \A y \in Built : from'[y] = IF y = x THEN took ELSE from[y]
  BY <1>1, <1>3 DEF IInv, TypeOK
<1>6. TypeOK'
  <2>1. mtime' \in [File -> 0 .. clock']
    BY <1>1, <1>4 DEF IInv, TypeOK
  <2>2. \A f \in Source : flaw'[f] \in Flaws(f) /\ (mtime'[f] = 0 => f = "config.py")
    BY <1>1, <1>4 DEF IInv, TypeOK
  <2>3. ASSUME NEW y \in Built
        PROVE  /\ from'[y] \subseteq Source \X (1 .. clock')
               /\ MadeOf(y)' = IF mtime'[y] = 0 THEN {} ELSE Leaves(y)
    <3>1. 1 .. clock \subseteq 1 .. clock'
      BY <1>1, <1>4
    <3>2. CASE y = x
      <4>1. MadeOf(y)' = Leaves(y)
        BY <1>2, <1>5, <3>2 DEF MadeOf
      <4>2. QED
        BY <1>2, <1>4, <1>5, <3>1, <3>2, <4>1
    <3>3. CASE y # x
      <4>1. from'[y] = from[y] /\ mtime'[y] = mtime[y]
        BY <1>4, <1>5, <3>3
      <4>2. MadeOf(y)' = MadeOf(y)
        BY <4>1 DEF MadeOf
      <4>3. QED
        BY <3>1, <4>1, <4>2 DEF IInv, TypeOK
    <3>4. QED
      BY <3>2, <3>3
  <2>4. ASSUME NEW y \in Wide, compiled'[y] # 0
        PROVE  mtime'[y] # 0 /\ Supported(compiled'[y])
    <3>1. CASE y = x
      BY <1>1, <1>4, <2>4, <3>1 DEF IInv, TypeOK, x
    <3>2. CASE y # x
      BY <1>1, <1>4, <2>4, <3>2, Graph DEF IInv, TypeOK
    <3>3. QED
      BY <3>1, <3>2
  <2>5. partial' \subseteq {h \in Headers : mtime'[h] # 0}
    BY <1>1, <1>4, Graph DEF IInv, TypeOK
  <2>6. todo' \in Seq(Built) /\ Len(todo') <= Len(Order)
    BY <1>1, <1>2, GoOn DEF IInv, TypeOK
  <2>7. /\ started' \in 0 .. clock' /\ width' \in Widths \cup {0}
        /\ sound' \in BOOLEAN /\ raced' \in BOOLEAN
    BY <1>1, <1>4 DEF IInv, TypeOK
  <2>8. /\ make' \in {"idle", "scan", "recipe", "ok", "failed"} /\ make' # "recipe"
        /\ DOMAIN from' = Built
    BY <1>1 DEF IInv, TypeOK
  <2>9. QED
    BY <1>4, <2>1, <2>2, <2>3, <2>4, <2>5, <2>6, <2>7, <2>8 DEF TypeOK
<1>7. Ordered'
  BY <1>1, <1>2, GoOn DEF IInv, Ordered
<1>8. Fresh' /\ Compiled'
  <2>1. CASE Write
    <3>1. /\ make' = "scan" /\ todo' = Tail(todo) /\ Looked' = Looked \cup {x}
          /\ Looked \subseteq Built
      BY <1>1, <1>2, <2>1, GoOn, LookedBuilt DEF IInv, x, WriteFails, Write
    <3>2. ASSUME NEW y \in Looked'
          PROVE  /\ mtime'[y] # 0
                 /\ \A p \in Reads(y) : mtime'[p] > mtime'[y] => p \in Source /\ mtime'[p] > started'
      <4>1. y \in Built /\ Reads(y) \subseteq File
        BY <1>3, <3>1, Graph
      <4>2. CASE y = x
        BY <1>1, <1>4, <4>1, <4>2
      <4>3. CASE y # x
        <5>1. /\ mtime[y] # 0
              /\ \A p \in Reads(y) : mtime[p] > mtime[y] => p \in Source /\ mtime[p] > started
          BY <1>1, <3>1, <3>2, <4>3 DEF IInv, Fresh, Busy, Newer
        <5>2. x \notin Reads(y)
          BY <1>3, <3>1, <3>2, <4>1, <4>3, Graph
        <5>3. QED
          BY <1>1, <1>4, <4>1, <4>3, <5>1, <5>2
      <4>4. QED
        BY <4>2, <4>3
    <3>3. Fresh'
      BY <3>2 DEF Fresh, Newer
    <3>4. ASSUME NEW y \in Wide, mtime'[y] > started
          PROVE  compiled'[y] = BW_SIMD_WIDTH'
      <4>1. BW_SIMD_WIDTH' = BW_SIMD_WIDTH
        BY <1>1 DEF BW_SIMD_WIDTH
      <4>2. CASE y = x
        BY <1>1, <3>4, <4>1, <4>2
      <4>3. CASE y # x
        BY <1>1, <1>4, <3>4, <4>1, <4>3, Graph DEF IInv, Compiled, Busy
      <4>4. QED
        BY <4>2, <4>3
    <3>5. Compiled'
      BY <1>1, <3>4 DEF Compiled
    <3>6. QED
      BY <3>3, <3>5
  <2>2. CASE make' = "failed"
    BY <2>2 DEF Fresh, Compiled, Busy
  <2>3. QED
    BY <1>1, <2>1, <2>2
<1>9. Origins'
  <2>1. ASSUME ~raced', NEW y \in Built, NEW s \in from'[y]
        PROVE  Latest(s, y)' \/ Overtaken(s, y)' \/ ByHeader(s, y)' \/ Renewed(y)'
    <3>1. CASE y = x
      <4>1. s \in took /\ (Latest(s, x) \/ ByHeader(s, x)) /\ s[1] \in Source
        BY <1>1, <1>2, <1>5, <2>1, <3>1 DEF IInv, Origins, x
      <4>2. Latest(s, x) => Latest(s, y)'
        BY <1>4, <3>1, <4>1 DEF Latest
      <4>3. ByHeader(s, x) => ByHeader(s, y)'
        <5>1. \A h \in Reads(x) \cap Headers : h # x /\ h \in Built
          BY <1>3, Graph
        <5>2. QED
          BY <1>5, <3>1, <5>1 DEF ByHeader
      <4>4. QED
        BY <4>1, <4>2, <4>3
    <3>2. CASE y # x
      <4>1. /\ s \in from[y] /\ s[1] \in Source
            /\ Latest(s, y) \/ Overtaken(s, y) \/ ByHeader(s, y) \/ Renewed(y)
        BY <1>1, <1>5, <2>1, <3>2 DEF IInv, TypeOK, Origins
      <4>2. Latest(s, y) => Latest(s, y)'
        BY <1>4, <4>1 DEF Latest
      <4>3. Overtaken(s, y) => Overtaken(s, y)'
        BY <1>4, <3>2, <4>1 DEF Overtaken, Newer
      <4>4. ASSUME NEW h \in Reads(y) \cap Headers, h = x
            PROVE  Renewed(y)'
        BY <1>1, <1>4, <3>2, <4>4, Graph DEF Renewed, Newer
      <4>5. ASSUME NEW h \in Reads(y) \cap Headers, h # x, s \in from[h]
            PROVE  ByHeader(s, y)'
        BY <1>5, <4>5, Graph DEF ByHeader
      <4>6. ASSUME NEW h \in Reads(y) \cap Headers, h # x, Newer(h, y)
            PROVE  Renewed(y)'
        BY <1>4, <3>2, <4>6, Graph DEF Renewed, Newer
      <4>7. QED
        BY <4>1, <4>2, <4>3, <4>4, <4>5, <4>6 DEF ByHeader, Renewed
    <3>3. QED
      BY <3>1, <3>2
  <2>2. QED
    BY <1>1, <2>1 DEF Origins
<1>10. CutShort'
  <2>1. Headers \subseteq File /\ partial \subseteq Headers /\ "randread_bw" \in File \ Headers
    BY Graph DEF IInv, TypeOK
  <2>2. x = "randread_bw" => partial = {}
    BY <1>1, <2>1, Graph DEF IInv, CutShort, x
  <2>3. ASSUME NEW h \in partial'
        PROVE  mtime'[h] > mtime'["randread_bw"]
    <3>1. h = x \/ h \in partial
      BY <1>1
    <3>2. CASE h = x
      <4>1. x # "randread_bw"
        BY <1>1, <2>1, <2>3, <3>2
      <4>2. QED
        BY <1>1, <1>4, <2>1, <3>2, <4>1
    <3>3. CASE h # x /\ h \in partial
      <4>1. x # "randread_bw" /\ mtime[h] > mtime["randread_bw"]
        BY <2>2, <3>3 DEF IInv, CutShort
      <4>2. QED
        BY <1>4, <2>1, <3>3, <4>1
    <3>4. QED
      BY <3>1, <3>2, <3>3
  <2>4. QED
    BY <1>1, <2>3 DEF CutShort
<1>11. QED
  BY <1>6, <1>7, <1>8, <1>9, <1>10 DEF IInv

\* Makefile:25-69.  In every reachable state what make has looked at is in order, what a
\* file was made of is the latest there was, and no program hides a header cut short.
THEOREM BuildInvariant == Spec => []IInv
<1>1. IInv /\ [Next]_vars => IInv'
  <2> SUFFICES ASSUME IInv, [Next]_vars PROVE IInv'
    OBVIOUS
  <2>1. CASE Edit
    <3>1. PICK f \in Edited :
              /\ \E mistake \in Flaws(f) : Save(f, mistake)
              /\ raced' = (raced \/ (make = "recipe" /\ f \in Reads(Current)))
      BY <2>1 DEF Edit
    <3>2. f \in Source
      BY EditedAssumption
    <3>3. PICK mistake \in Flaws(f) : Save(f, mistake)
      BY <3>1
    <3>4. /\ make' = IF Idle THEN "idle" ELSE make
          /\ UNCHANGED <<from, compiled, partial, todo, started, width, took, sound>>
      BY <2>1 DEF Edit
    <3>5. \A g \in Source : flaw'[g] \in Flaws(g)
      BY <3>3 DEF Save, IInv, TypeOK
    <3>6. QED
      BY <3>1, <3>2, <3>3, <3>4, <3>5, SaveStep DEF Save
  <2>2. CASE MakeConfig
    <3>1. /\ Save("config.py", "none") /\ Idle /\ make' = "idle"
          /\ UNCHANGED <<from, compiled, partial, todo, started, width, took, sound, raced>>
      BY <2>2 DEF MakeConfig, run
    <3>2. "config.py" \in Source /\ "none" \in Flaws("config.py")
      BY NoFlaw DEF Source
    <3>3. raced' = (raced \/ (make = "recipe" /\ "config.py" \in Reads(Current)))
      BY <3>1 DEF Idle, IInv, TypeOK
    <3>4. \A g \in Source : flaw'[g] \in Flaws(g)
      BY <3>1, <3>2 DEF Save, IInv, TypeOK
    <3>5. QED
      BY <3>1, <3>2, <3>3, <3>4, SaveStep DEF Save
  <2>3. CASE UNCHANGED vars
    BY <2>3, HaltStep
  <2>4. CASE Clean \/ StartMake \/ UpToDate \/ NoConfig \/ Begin
    BY <2>4, CleanStep, StartStep, UpToDateStep, HaltStep, BeginStep
  <2>5. CASE Write \/ WriteFails \/ RecipeFails \/ Finish
    BY <2>5, OutputStep, HaltStep
  <2>6. QED
    BY <2>1, <2>2, <2>3, <2>4, <2>5 DEF Next
<1>2. QED
  BY <1>1, InitInv, PTL DEF Spec

\* After a make that ended well nothing has a newer prerequisite, but for saves since.
LEMMA AllFresh ==
    ASSUME IInv, make = "ok", NEW x \in Built
    PROVE  /\ mtime[x] # 0
           /\ \A p \in Reads(x) : Newer(p, x) => p \in Source /\ mtime[p] > started
<1>1. Looked = Built
  BY LookedAtAll DEF IInv, Ordered
<1>2. QED
  BY <1>1 DEF IInv, Fresh, Busy

\* Makefile:44-66.  For any number of saves, at any moment of any number of makes: what
\* a make that ended well leaves is made of the sources saved before it began.
THEOREM MadeOfSources == Spec => []FollowsSources
<1>1. ASSUME IInv, make = "ok", ~raced, NEW x \in Built, NEW s \in Source,
             mtime[s] <= started, NEW r \in 0 .. clock, <<s, r>> \in from[x]
      PROVE  r = mtime[s]
  <2> DEFINE e == <<s, r>>
  <2>1. e[1] = s /\ e[2] = r /\ e \in from[x]
    BY <1>1
  <2> HIDE DEF e
  <2>2. mtime[s] \in Nat /\ started \in Nat /\ ~(mtime[s] > started)
    BY <1>1, Graph DEF IInv, TypeOK
  <2>3. ~Overtaken(e, x) /\ ~Renewed(x)
    <3>1. \A p \in Reads(x) : Newer(p, x) => p \in Source /\ mtime[p] > started
      BY <1>1, AllFresh
    <3>2. Headers \cap Source = {}
      BY Graph
    <3>3. QED
      BY <2>1, <2>2, <3>1, <3>2 DEF Overtaken, Renewed
  <2>4. CASE Latest(e, x)
    BY <2>1, <2>4 DEF Latest
  <2>5. ASSUME NEW h \in Reads(x) \cap Headers, e \in from[h]
        PROVE  r = mtime[s]
    <3>1. h \in Built /\ Reads(h) \cap Headers = {}
      BY Graph
    <3>2. Latest(e, h) \/ Overtaken(e, h)
      BY <1>1, <2>5, <3>1 DEF IInv, Origins, ByHeader, Renewed
    <3>3. ~Overtaken(e, h)
      BY <1>1, <2>1, <2>2, <3>1, AllFresh DEF Overtaken
    <3>4. QED
      BY <2>1, <3>2, <3>3 DEF Latest
  <2>6. QED
    BY <1>1, <2>1, <2>3, <2>4, <2>5 DEF IInv, Origins, ByHeader
<1>2. ASSUME IInv, make = "ok" PROVE partial = {}
  <2>1. ASSUME NEW h \in partial PROVE FALSE
    <3>1. h \in Headers /\ Newer(h, "randread_bw")
      BY <1>2, <2>1 DEF IInv, TypeOK, CutShort, Newer
    <3>2. "randread_bw" \in Built /\ h \in Reads("randread_bw") /\ h \notin Source
      BY <3>1, Graph
    <3>3. QED
      BY <1>2, <3>1, <3>2, AllFresh
  <2>2. QED
    BY <2>1
<1>3. ASSUME IInv, make = "ok", NEW x \in Wide
      PROVE  compiled[x] = BW_SIMD_WIDTH \/ mtime[x] <= started
  <2>1. mtime[x] \in Nat /\ started \in Nat
    <3>1. x \in File
      BY Graph
    <3>2. mtime \in [File -> 0 .. clock] /\ started \in 0 .. clock
      BY <1>3 DEF IInv, TypeOK
    <3>3. QED
      BY <3>1, <3>2
  <2>2. QED
    BY <1>3, <2>1 DEF IInv, Compiled, Busy
<1>4. IInv => FollowsSources
  BY <1>1, <1>2, <1>3 DEF FollowsSources
<1>5. QED
  BY <1>4, BuildInvariant, PTL

\* Makefile:25-66.  Everything is looked at after what it is made of: after a make that
\* ended well another one has nothing to do, unless a source was saved meanwhile.
THEOREM MakeSettles == Spec => []Settled
<1>1. ASSUME IInv, make = "ok", NEW x \in Built, OutOfDate(x)
      PROVE  \E s \in Source : mtime[s] > started
  <2>1. PICK p \in Reads(x) : Newer(p, x)
    BY <1>1, AllFresh, EveryReadNamed DEF OutOfDate
  <2>2. QED
    BY <1>1, <2>1, AllFresh
<1>2. IInv => Settled
  BY <1>1 DEF Settled
<1>3. QED
  BY <1>2, BuildInvariant, PTL
=============================================================================
