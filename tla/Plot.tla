--------------------------------- MODULE Plot ---------------------------------
(***************************************************************************)
(* Run.sh: sweep_matrix.py, and if it ends well plot_sweep.py, which draws *)
(* figures from the CSV file of all rows: the utilisation by cores, and    *)
(* the best one of each width.  chbal/ draws three figures, the top        *)
(* directory four; Temp/ has neither program.                              *)
(*                                                                         *)
(* A figure is its curves, sets of points; colours, scales and the line of *)
(* the refresh cap are left out.  pandas and matplotlib are external.      *)
(***************************************************************************)
EXTENDS Sweep, FiniteSetsExt

VARIABLES
    plot,    \* "idle", "draw", "done" or "died"
    figures  \* the figures of this run: name -> curves, Older for one not drawn yet

plotVars == <<plot, figures>>
allVars == <<vars, plotVars>>

TopFigures == <<"cores", "lpa", "lpa_consecutive", "lpa_samerow">>
ChbalFigures == <<"cores", "lpa", "lpa_consecutive">>
FigureNames == IF config.copy = "top" THEN TopFigures ELSE ChbalFigures
Older == [by |-> "an earlier run"]

------------------------------------------------------------------------------
(* The figures.                                                            *)

Rand(rows, access) == {r \in Range(rows) : r.pattern = "rand" /\ r.access = access}
Stream(rows) == {r \in Range(rows) : r.pattern = "stream"}
Points(S) == {<<r.cores, r.pct>> : r \in S}

\* plot_cores: the rows of stream, and of single lines at random.
CoresFigure_AllWidths(rows) == [by |-> "cores", stream |-> Points(Stream(rows)),
                                random |-> Points(Rand(rows, 0))]
CoresFigure(rows) == [by |-> "cores", stream |-> Points(Stream(rows)),
                      random |-> Points({r \in Rand(rows, 0) : r.lines = 1})]

\* groupby("lines_per_access").max(): the best utilisation of each width.
BestByWidth_MostCores(S) ==
    {<<r.lines, r.pct>> : r \in {r \in S : \A q \in S : q.lines = r.lines => q.cores <= r.cores}}
BestByWidth(S) == {<<r.lines, Max({q.pct : q \in {q \in S : q.lines = r.lines}})>> : r \in S}

StreamMax(rows) == IF Stream(rows) = {} THEN None ELSE Max({r.pct : r \in Stream(rows)})

\* plot_lpa, with or without each of its two curves.
LpaFigure(rows, consecutive, samerow) ==
    [by |-> "width", stream |-> StreamMax(rows),
     consecutive |-> IF consecutive THEN BestByWidth(Rand(rows, 0)) ELSE {},
     samerow |-> IF samerow THEN BestByWidth(Rand(rows, 1)) ELSE {}]

Figure(name, rows) ==
    IF name = "cores" THEN CoresFigure(rows)
    ELSE LpaFigure(rows, name # "lpa_samerow", name # "lpa_consecutive")

------------------------------------------------------------------------------
PlotInit == plot = "idle" /\ figures = [f \in Range(FigureNames) |-> Older]

\* Run.sh goes on when sweep_matrix.py exits with 0.
Load == /\ plot = "idle"
        /\ pc = "done" /\ Matrix /\ ~Temp
        /\ full_csv.new
        /\ plot' = "draw"
        /\ UNCHANGED <<vars, figures>>

Drawn == {f \in DOMAIN figures : figures[f] # Older}
NextFigure == FigureNames[Cardinality(Drawn) + 1]

Draw == /\ plot = "draw"
        /\ figures' = [figures EXCEPT ![NextFigure] = Figure(NextFigure, full_csv.rows)]
        /\ plot' = IF DOMAIN figures = Drawn \cup {NextFigure} THEN "done" ELSE "draw"
        /\ UNCHANGED vars

\* A file cannot be written, or a library gives up.
DrawFails == /\ plot = "draw"
             /\ plot' = "died"
             /\ UNCHANGED <<vars, figures>>

RunInit == Init /\ PlotInit
RunNext == \/ Next /\ UNCHANGED plotVars
           \/ Load \/ Draw \/ DrawFails

RunSpec == RunInit /\ [][RunNext]_allVars

------------------------------------------------------------------------------
\* What the summary file says of an access mode.
Summary(access) == {<<r.lines, r.pct>> : r \in Rand(summary_csv.rows, access)}

\* The runs that gave a bandwidth and whose benchmark did the job, by what it read of its
\* arguments.
Runs(job) == {n \in DOMAIN measured :
                 LET cmd == measured[n].cmd
                     read == Reading(config, cmd)
                 IN  Job(cmd.binary, read.access, read.lines) = job}

\* A curve over cores has a point for each run of its job, and the summary's best on top.
CurveShows(curve, job) ==
    /\ Cardinality(curve) = Cardinality(Runs(job))
    /\ \A s \in Range(summary_csv.rows) : Label(s) = job => s.pct = Max({p[2] : p \in curve})

\* plot_sweep.py and sweep_matrix.py choose the best run apart, one by the rounded
\* percentage, the other by the bandwidth: the curves of the figures by width are the
\* percentages of the summary file, point for point, and no figure is drawn after a
\* sweep that failed.  Both curves of the figure by cores, that of stream and that of
\* single lines at random, have a point for every run of their job that gave a bandwidth,
\* and their best point is the summary's too.
FiguresShowSummary ==
    \A f \in Drawn :
        /\ pc = "done" /\ summary_csv.new
        /\ f = "cores" => /\ CurveShows(figures[f].stream, Job("stream", None, None))
                          /\ CurveShows(figures[f].random, Job("rand", 0, 1))
        /\ f \in {"lpa", "lpa_consecutive"} => figures[f].consecutive = Summary(0)
        /\ f \in {"lpa", "lpa_samerow"} => figures[f].samerow = Summary(1)
        /\ f # "cores" => {figures[f].stream} \ {None} = {s.pct : s \in Stream(summary_csv.rows)}

------------------------------------------------------------------------------
(* The inductive invariant behind FiguresShowSummary.                      *)

\* Figures are drawn of the rows of a sweep that ended well, which nothing changes any more.
Drawing == /\ plot \in {"idle", "draw", "done", "died"} /\ DOMAIN figures = Range(FigureNames)
           /\ plot = "idle" => Drawn = {}
           /\ plot # "idle" => pc = "done" /\ Matrix /\ ~Temp
           /\ \A f \in Drawn : figures[f] = Figure(f, full_csv.rows)

RunInv == IInv /\ Drawing
=============================================================================
