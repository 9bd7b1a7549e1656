--------------------------------- MODULE Build ---------------------------------
(***************************************************************************)
(* chbal/Makefile and the two generators.  The masks compiled into the     *)
(* benchmarks come from config.py and address_mapping.py by way of two     *)
(* generated headers; make decides by modification times what to renew.    *)
(* Files are edited at any time, also while a recipe runs.                 *)
(*                                                                         *)
(* The option WIDTH= is a preprocessor definition on the command line; no  *)
(* file records it.  EXTRA_CXXFLAGS is part of what the target supports.   *)
(*                                                                         *)
(* make, the compiler and the file times are external.  A time is also the *)
(* revision of the file that has it: every change has a time of its own.   *)
(***************************************************************************)
EXTENDS Integers, Sequences

CONSTANTS
    IsaFlags,  \* the instruction sets of the build target, of {"avx512f", "avx2"}
    Widths,    \* the values of WIDTH= make is run with, 0 when it is not given
    Edited,    \* the sources that are edited (the others stay as checked out)
    MaxSaves,  \* bound: saves in one behaviour
    MaxMakes   \* bound: runs of make in one behaviour

VARIABLES
    mtime,    \* modification time of every file, 0 when there is none
    flaw,     \* what is wrong with a source
    from,     \* what a built file was made of: pairs of a source and its revision
    compiled, \* the load width each program was compiled with, 0 for none
    partial,  \* headers whose generator failed in the middle of writing
    clock,    \* the last time given to a file
    make,     \* "idle", "scan", "recipe", or how the last make ended: "ok", "failed"
    todo,     \* the files make has not looked at yet
    started,  \* when this make started
    width,    \* its WIDTH=
    took,     \* what the running recipe has read
    sound,    \* what it has read has no mistake
    raced,    \* a source was edited under a recipe that had read it (history)
    saves, makes  \* how many there were

files == <<mtime, flaw, from, compiled, partial, clock>>
run == <<width, took, sound, raced>>
vars == <<files, make, todo, started, run, saves, makes>>

Headers == {"access_masks.h", "decode_masks.h"}
Benchmarks == {"randread_bw", "stream_bw", "latency_bw"}
Targets == Benchmarks \cup {"hugepage_addr"}
Built == Headers \cup Targets
Wide == {"randread_bw", "stream_bw"}  \* the programs that include bw_width.h
Source == {"config.py", "address_mapping.py", "gen_access_masks.py", "gen_decode_masks.py",
           "randread_bw.cpp", "stream_bw.cpp", "latency_bw.cpp", "hugepage_addr.cpp",
           "bw_width.h", "hugepage_alloc.h"}
ASSUME EditedAssumption == Edited \subseteq Source
ASSUME WidthAssumption == Widths \subseteq Nat
ASSUME BoundAssumption == MaxSaves \in Nat /\ MaxMakes \in Nat
File == Source \cup Built

\* What a recipe reads: the imports of the generators, the #includes of the programs.
Reads(x) ==
    CASE x = "access_masks.h" -> {"gen_access_masks.py", "address_mapping.py", "config.py"}
      [] x = "decode_masks.h" -> {"gen_decode_masks.py", "address_mapping.py", "config.py"}
      [] x = "randread_bw" -> {"randread_bw.cpp", "bw_width.h", "hugepage_alloc.h"} \cup Headers
      [] x = "stream_bw" -> {"stream_bw.cpp", "bw_width.h", "hugepage_alloc.h", "decode_masks.h"}
      [] x = "latency_bw" -> {"latency_bw.cpp", "hugepage_alloc.h", "decode_masks.h"}
      [] x = "hugepage_addr" -> {"hugepage_addr.cpp"}

\* What the Makefile says it depends on.
Generator(h) == IF h = "access_masks.h" THEN "gen_access_masks.py" ELSE "gen_decode_masks.py"
ProgramPrerequisites(x) ==
    CASE x = "randread_bw" -> {"randread_bw.cpp", "bw_width.h", "hugepage_alloc.h"} \cup Headers
      [] x = "stream_bw" -> {"stream_bw.cpp", "bw_width.h", "decode_masks.h", "hugepage_alloc.h"}
      [] x = "latency_bw" -> {"latency_bw.cpp", "decode_masks.h", "hugepage_alloc.h"}
      [] x = "hugepage_addr" -> {"hugepage_addr.cpp"}
Prerequisites_NoConfig(x) ==
    IF x \in Headers THEN {Generator(x), "address_mapping.py"} ELSE ProgramPrerequisites(x)
Prerequisites(x) ==
    IF x \in Headers THEN {Generator(x), "address_mapping.py", "config.py"}
                     ELSE ProgramPrerequisites(x)

\* all: a target's headers are looked at before the target.
Order_HeaderLate == <<"access_masks.h", "randread_bw", "decode_masks.h", "stream_bw",
                      "latency_bw", "hugepage_addr">>
Order == <<"access_masks.h", "decode_masks.h", "randread_bw", "stream_bw",
           "latency_bw", "hugepage_addr">>

\* config.py may name a map that is not registered or a hole that ends before it starts,
\* address_mapping.py register a mapping whose masks fail their self-check.
Flaws(f) == CASE f = "config.py" -> {"none", "map", "hole"}
              [] f = "address_mapping.py" -> {"none", "masks"}
              [] OTHER -> {"none", "syntax"}

\* What each generator refuses before it opens its output; the compiler, what will not parse.
Refuses(x) == CASE x = "access_masks.h" -> {"map", "masks", "syntax"}
                [] x = "decode_masks.h" -> {"map", "hole", "syntax"}
                [] OTHER -> {"syntax"}

\* BW_SIMD_WIDTH: what the command line says, or the widest load there is.
BW_SIMD_WIDTH == IF width # 0 THEN width
                 ELSE IF "avx512f" \in IsaFlags THEN 512
                 ELSE IF "avx2" \in IsaFlags THEN 256 ELSE 64

\* The #error directives: a width without its instruction set, or no width at all.
Supported(w) == \/ w = 512 /\ "avx512f" \in IsaFlags
                \/ w = 256 /\ "avx2" \in IsaFlags
                \/ w = 64

------------------------------------------------------------------------------
\* A fresh checkout: no config.py, and nothing built.
Init == /\ mtime = [f \in File |-> IF f \in Source \ {"config.py"} THEN 1 ELSE 0]
        /\ flaw = [f \in Source |-> "none"]
        /\ from = [x \in Built |-> {}]
        /\ compiled = [x \in Wide |-> 0]
        /\ partial = {}
        /\ clock = 1
        /\ make = "idle"
        /\ todo = <<>>
        /\ started = 0
        /\ width = 0
        /\ took = {} /\ sound = TRUE /\ raced = FALSE
        /\ saves = 0 /\ makes = 0

Idle == make \in {"idle", "ok", "failed"}
Current == Head(todo)

\* A source is saved, with or without a mistake.
Save(f, mistake) == /\ saves < MaxSaves /\ saves' = saves + 1
                    /\ clock' = clock + 1
                    /\ mtime' = [mtime EXCEPT ![f] = clock']
                    /\ flaw' = [flaw EXCEPT ![f] = mistake]

Edit == /\ \E f \in Edited : /\ mtime[f] # 0
                             /\ \E mistake \in Flaws(f) : Save(f, mistake)
                             /\ raced' = (raced \/ (make = "recipe" /\ f \in Reads(Current)))
        /\ make' = IF Idle THEN "idle" ELSE make
        /\ UNCHANGED <<from, compiled, partial, todo, started, width, took, sound, makes>>

\* make config: config.py is overwritten with the template.
MakeConfig == /\ Idle
              /\ Save("config.py", "none")
              /\ make' = "idle"
              /\ UNCHANGED <<from, compiled, partial, todo, started, run, makes>>

Clean == /\ Idle
         /\ mtime' = [f \in File |-> IF f \in Built THEN 0 ELSE mtime[f]]
         /\ from' = [x \in Built |-> {}]
         /\ compiled' = [x \in Wide |-> 0]
         /\ partial' = {}
         /\ make' = "idle"
         /\ UNCHANGED <<flaw, clock, todo, started, run, saves, makes>>

StartMake == /\ Idle
             /\ makes < MaxMakes /\ makes' = makes + 1
             /\ make' = "scan"
             /\ todo' = Order
             /\ started' = clock
             /\ width' \in Widths
             /\ UNCHANGED <<files, took, sound, raced, saves>>

\* make asks for a file's time once: it may miss a save made after it started.
Newer(p, x) == mtime[p] > mtime[x]
OutOfDate(x) == mtime[x] = 0 \/ \E p \in Prerequisites(x) : Newer(p, x)
SeenOutOfDate(x) == mtime[x] = 0 \/ \E p \in Prerequisites(x) :
                        Newer(p, x) /\ (p \in Built \/ mtime[p] <= started)

Scanning == make = "scan" /\ todo # <<>>
HasConfig == Current \in Headers => mtime["config.py"] # 0

UpToDate == /\ Scanning /\ HasConfig
            /\ ~SeenOutOfDate(Current)
            /\ todo' = Tail(todo)
            /\ UNCHANGED <<files, make, started, run, saves, makes>>

\* The rule for a missing config.py only says what to do.
NoConfig_GoesOn == /\ Scanning /\ ~HasConfig
                   /\ todo' = Tail(todo)
                   /\ UNCHANGED <<files, make, started, run, saves, makes>>
NoConfig == /\ Scanning /\ ~HasConfig
            /\ make' = "failed"
            /\ UNCHANGED <<files, todo, started, run, saves, makes>>

\* The sources, with their revisions, that a file comes from.
Contents(f) == IF f \in Built THEN from[f] ELSE {<<f, mtime[f]>>}

\* Whether the recipe gets through what it reads now: a source with a mistake it minds,
\* or a header that was cut short, makes it fail.
Sound(x) == /\ \A s \in Reads(x) \cap Source : flaw[s] \notin Refuses(x)
            /\ Reads(x) \cap partial = {}

Begin == /\ Scanning /\ HasConfig
         /\ OutOfDate(Current)
         /\ make' = "recipe"
         /\ took' = UNION {Contents(f) : f \in Reads(Current)}
         /\ sound' = (Sound(Current) /\ (Current \in Wide => Supported(BW_SIMD_WIDTH)))
         /\ UNCHANGED <<files, todo, started, width, raced, saves, makes>>

\* The output has a new time, whether or not all of it was written.
Output == /\ make = "recipe" /\ sound
          /\ clock' = clock + 1
          /\ mtime' = [mtime EXCEPT ![Current] = clock']
          /\ from' = [from EXCEPT ![Current] = took]
          /\ compiled' = [x \in Wide |-> IF x = Current THEN BW_SIMD_WIDTH ELSE compiled[x]]
          /\ UNCHANGED <<flaw, started, run, saves, makes>>

Write == /\ Output
         /\ partial' = partial \ {Current}
         /\ todo' = Tail(todo)
         /\ make' = "scan"

\* A generator fails while it writes: the header is cut short, and new.
WriteFails == /\ Output
              /\ Current \in Headers
              /\ partial' = partial \cup {Current}
              /\ make' = "failed"
              /\ UNCHANGED todo

\* The recipe fails before it opens its output, which stays as it was.
RecipeFails == /\ make = "recipe"
               /\ make' = "failed"
               /\ UNCHANGED <<files, todo, started, run, saves, makes>>

Finish == /\ make = "scan"
          /\ todo = <<>>
          /\ make' = "ok"
          /\ UNCHANGED <<files, todo, started, run, saves, makes>>

Next == \/ Edit \/ MakeConfig \/ Clean \/ StartMake \/ UpToDate \/ NoConfig
        \/ Begin \/ Write \/ WriteFails \/ RecipeFails \/ Finish

Spec == Init /\ [][Next]_vars

------------------------------------------------------------------------------
\* A built file was made of one revision of each source there is to it.
MadeOf(x) == {s[1] : s \in from[x]}
Leaves(x) == (Reads(x) \cap Source) \cup UNION {Reads(h) : h \in Reads(x) \cap Headers}

TypeOK == /\ clock \in Nat
          /\ mtime \in [File -> 0 .. clock]
          /\ \A f \in Source : flaw[f] \in Flaws(f) /\ (mtime[f] = 0 => f = "config.py")
          /\ DOMAIN from = Built
          /\ \A x \in Built : /\ from[x] \subseteq Source \X (1 .. clock)
                              /\ MadeOf(x) = IF mtime[x] = 0 THEN {} ELSE Leaves(x)
          /\ \A x \in Wide : compiled[x] # 0 => mtime[x] # 0 /\ Supported(compiled[x])
          /\ partial \subseteq {h \in Headers : mtime[h] # 0}
          /\ make \in {"idle", "scan", "recipe", "ok", "failed"}
          /\ todo \in Seq(Built) /\ Len(todo) <= Len(Order)
          /\ make = "recipe" => /\ todo # <<>>
                                /\ took \subseteq Source \X (1 .. clock)
                                /\ {s[1] : s \in took} = Leaves(Current)
                                /\ sound /\ Current \in Wide => Supported(BW_SIMD_WIDTH)
          /\ started \in 0 .. clock
          /\ width \in Widths \cup {0}
          /\ sound \in BOOLEAN /\ raced \in BOOLEAN

\* gen_decode_masks.py: the headers are renewed "whenever config.py or address_mapping.py
\* change".  After a make that ended well every program is made of the latest revision of
\* all it is made of, as far as these were saved before that make began and none was
\* saved while a recipe that had read it was running.  A header that was cut short is
\* newer than its sources and is taken for current, but never by a make that ends well:
\* each header has a program that is older and will not compile.  The programs that this
\* make compiled have the load width of its WIDTH=; one that was up to date keeps the
\* width of an earlier make, since no file depends on the option.
FollowsSources ==
    /\ (make = "ok" /\ ~raced) =>
        \A x \in Built : \A s \in Source : mtime[s] <= started =>
            \A r \in 0 .. clock : <<s, r>> \in from[x] => r = mtime[s]
    /\ make = "ok" => partial = {}
    /\ make = "ok" => \A x \in Wide : compiled[x] = BW_SIMD_WIDTH \/ mtime[x] <= started

\* After a make that ended well, another one has nothing to do, unless a source was
\* saved meanwhile: everything is looked at after what it is made of.
Settled == make = "ok" => \A x \in Built :
    OutOfDate(x) => \E s \in Source : mtime[s] > started

------------------------------------------------------------------------------
(* Why it is so.                                                           *)

Busy == make \in {"scan", "recipe", "ok"}
Looked == {Order[k] : k \in 1 .. Len(Order) - Len(todo)}

\* What is left to look at is the end of the order.
Ordered == /\ \A k \in DOMAIN todo : todo[k] = Order[Len(Order) - Len(todo) + k]
           /\ make = "ok" => todo = <<>>

\* What make has looked at is there, and only sources saved since it began are newer.
Fresh == Busy => \A x \in Looked :
    /\ mtime[x] # 0
    /\ \A p \in Reads(x) : Newer(p, x) => p \in Source /\ mtime[p] > started

\* Unless a save raced with a recipe, what a file was made of is the latest revision of
\* a source, one that a save has overtaken since, or came by way of a header that has
\* it still or has been renewed since.
Latest(s, x) == s[1] \in Reads(x) /\ s[2] = mtime[s[1]]
ByHeader(s, x) == \E h \in Reads(x) \cap Headers : s \in from[h]
Renewed(x) == \E h \in Reads(x) \cap Headers : Newer(h, x)
Overtaken(s, x) == s[1] \in Reads(x) /\ Newer(s[1], x)
Origins == ~raced =>
    /\ \A x \in Built : \A s \in from[x] :
           Latest(s, x) \/ Overtaken(s, x) \/ ByHeader(s, x) \/ Renewed(x)
    /\ make = "recipe" => \A s \in took : Latest(s, Current) \/ ByHeader(s, Current)

\* A program written since make began has the width that was asked for.
Compiled == Busy => \A x \in Wide : mtime[x] > started => compiled[x] = BW_SIMD_WIDTH

\* A header that was cut short is newer than the program that reads both, and no recipe
\* gets through that reads one.
CutShort == /\ \A h \in partial : mtime[h] > mtime["randread_bw"]
            /\ (make = "recipe" /\ sound) => Reads(Current) \cap partial = {}

IInv == TypeOK /\ Ordered /\ Fresh /\ Origins /\ Compiled /\ CutShort
=============================================================================
