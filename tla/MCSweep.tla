------------------------------- MODULE MCSweep -------------------------------
(* A node of three CPUs, two widths, and configurations that are wrong in     *)
(* every way the programs look for, at most three jobs at a time.             *)
EXTENDS Plot

Node == <<<<4, 4>>, <<0, 1>>>>
Lpa == <<1, 2>>
SmallWidths == {1, 2}
ColSteps == [flat |-> [low |-> 2, high |-> 0], tall |-> [low |-> 0, high |-> 1]]
Speeds == {0, 1, 2}

Good == [copy |-> "temp", prog |-> "matrix", arg |-> "", skip |-> {}, built |-> {"stream", "rand"},
         cpulist |-> Node, sudo |-> TRUE, shell |-> "", baked |-> "flat",
         access |-> 1, lines |-> 2, map |-> "flat", pages |-> 2, balance |-> 1, print |-> 0,
         start |-> 1, max |-> None, step |-> 2, peak |-> 2]
\* One CPU for up to four jobs, two numbers of cores for up to two of them.
Skips == {s \in SUBSET {"stream", "consecutive", "samerow", "spread"} : Cardinality(s) >= 2}
TempMatrix == {[Good EXCEPT !.skip = s, !.max = IF Cardinality(s) = 2 THEN 1 ELSE None] : s \in Skips}
Others == {[Good EXCEPT !.copy = c, !.skip = s, !.max = 1] :
             c \in {"top", "chbal"}, s \in {{"consecutive"}, {"samerow"}, {"consecutive", "samerow"}}}
          \cup {[Good EXCEPT !.copy = c, !.skip = {"consecutive"}, !.map = "tall"] : c \in {"top", "chbal"}}
Matrices == TempMatrix \cup Others

\* Each of these has one job, on all plans.
OneJob == {c \in Matrices : c.skip \in {{"stream", "consecutive", "samerow"}, {"consecutive", "samerow"}}}
Plans == {[c EXCEPT !.start = s, !.max = m, !.step = d] :
             c \in {d \in OneJob : d.skip = {"stream", "consecutive", "samerow"}},
             s \in 0 .. 2, m \in {None, 0, 2, 5}, d \in 0 .. 2}
Nodes == {[c EXCEPT !.cpulist = l, !.max = None] : c \in OneJob, l \in {<<>>, NoFile, <<<<1, 2>>>>}}

\* The mapping is another one than the binary's default, or none; sudo or the shell's own.
Environments == {[c EXCEPT !.map = m, !.sudo = s, !.shell = e, !.max = 1] :
                   c \in OneJob \cup Others, m \in {"tall", "none"}, s \in BOOLEAN, e \in {"", "flat"}}
Wrong == {[c EXCEPT !.pages = 3, !.max = 1] : c \in Matrices}
             \cup {[c EXCEPT !.built = {"rand"}, !.max = 1] : c \in Matrices}
             \cup {[c EXCEPT !.peak = 0] : c \in OneJob}
Single == {[Good EXCEPT !.copy = c, !.prog = "bw", !.arg = md, !.access = a, !.lines = l, !.map = mp] :
             c \in {"top", "chbal", "temp"}, md \in {"stream", ""}, a \in 0 .. 2, l \in 1 .. 2,
             mp \in {"flat", "tall"}}
          \cup {[Good EXCEPT !.copy = c, !.prog = "bw", !.arg = md, !.access = a, !.lines = l, !.map = mp] :
             c \in {"top", "chbal", "temp"}, md \in {"rand", "other"}, a \in {1, 3}, l \in {1, 3},
             mp \in {"none"}}
SmallConfigs == Matrices \cup Plans \cup Nodes \cup Environments \cup Wrong \cup Single
=============================================================================
