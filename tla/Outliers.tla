------------------------------ MODULE Outliers ------------------------------
(***************************************************************************)
(* gufi_find_outliers: walks an index whose directories hold tree          *)
(* summaries, follows the subdirectories whose value of a column is more   *)
(* than three standard deviations away from their siblings', and reports   *)
(* the directories where no further outlier is found below.  Every pair of *)
(* a starting path and a column is a work item of its own, the items run   *)
(* on the threads of the pool in any order, and each thread keeps its      *)
(* results in a database of its own that main collects at the end.         *)
(*                                                                         *)
(* Values are integers, so that the comparison with the limits is exact:   *)
(* mean and standard deviation are kept as the sums they are computed      *)
(* from.  The pool is the one QPTPool specifies: items are taken in any    *)
(* order, each exactly once.                                               *)
(***************************************************************************)
EXTENDS Integers, Sequences, FiniteSets, Bags, FiniteSetsExt, SequencesExt, BagsExt

CONSTANTS
    Threads,        \* threads of the pool, numbered from 1
    Indexes         \* the indexes and command lines that are tried

(***************************************************************************)
(* An index has: dir, the entries of each directory in the order readdir   *)
(* gives them; kind, what an entry is ("dir", "link" to a directory,       *)
(* "file", or "named" for a directory whose name ends in .db); db, what    *)
(* the db.db of a directory answers ("rows", "empty", "error", or "none"   *)
(* when it cannot be opened); t and s, the values of a directory in its    *)
(* tree summary and in its summary, by column.  A command line has args,   *)
(* its arguments, and fault, what fails before the walk starts.  Every     *)
(* directory can be read.                                                  *)
(***************************************************************************)
VARIABLES
    ix,             \* the index and the command line
    opc,            \* where main is
    pair,           \* the next pair of arguments
    owork,          \* bag of the work items that wait in the pool
    othr,           \* what each thread does
    dbs,            \* bag of rows in each thread's database
    opened,         \* pa.opendbs: databases opened by each thread
    results,        \* bag of rows written or printed by write_results
    rows            \* number of rows main reports

ovars == <<ix, opc, pair, owork, othr, dbs, opened, results, rows>>

Idle == [step |-> "idle"]

(***************************************************************************)
(* The columns.  One column stands for each kind of handler, two for the   *)
(* minima and maxima; any other name has no handler.                       *)
(***************************************************************************)
setup_column_functions ==
    [totsubdirs |-> "T_ONLY", minsize |-> "MINMAX", maxsize |-> "MINMAX",
     totsize |-> "TOT", totmtime |-> "TIME"]

Groups ==
    [T_ONLYS |-> <<"totsubdirs">>, MINS |-> <<"minsize">>, MAXS |-> <<"maxsize">>,
     MINMAXS |-> <<"minsize", "maxsize">>, TOTS |-> <<"totsize">>, TIMES |-> <<"totmtime">>,
     ALL |-> <<"totsubdirs", "minsize", "maxsize", "totsize", "totmtime">>]

handle_group(name) == IF name \in DOMAIN Groups THEN Groups[name] ELSE <<name>>

(***************************************************************************)
(* Statistics of a value among its siblings: the mean is sum / n, and      *)
(* the variance is var / n^2.                                              *)
(***************************************************************************)
NoStats == [value |-> 0, n |-> 0, sum |-> 0, var |-> 0]

SumOf(vs) == FoldLeft(LAMBDA a, v: a + v, 0, vs)
Squares(vs) == [i \in DOMAIN vs |-> vs[i] * vs[i]]
Offsets(vs) == LET max == Max(Range(vs)) IN [i \in DOMAIN vs |-> max - vs[i]]

stdev_from_parts(vs) == Len(vs) * SumOf(Squares(vs)) - SumOf(vs) * SumOf(vs)

\* Time columns are large numbers: their deviation is computed from the
\* distances to the latest one, their mean from the values themselves.
compute_mean_stdev(kind, vs) ==
    [n |-> Len(vs), sum |-> SumOf(vs),
     var |-> stdev_from_parts(IF kind = "TIME" THEN Offsets(vs) ELSE vs)]

NoDeviation(n) == [n |-> n, sum |-> 0, var |-> 0]

\* value < mean - 3 * stdev or mean + 3 * stdev < value
BeyondLimits(v, st) ==
    LET distance == st.n * v - st.sum
    IN  distance * distance > 9 * st.var

(***************************************************************************)
(* What a handler's query yields for directory d: both values, or zero     *)
(* when the tree summary does not match, or when the column exists in the  *)
(* tree summary only.                                                      *)
(***************************************************************************)
DirData_create(d) == [path |-> d, t |-> NoStats, s |-> NoStats]

QueryColumn(d, col) ==
    IF ix.db[d] = "empty" THEN DirData_create(d)
    ELSE [DirData_create(d) EXCEPT
            !.t.value = ix.t[d][col],
            !.s.value = IF setup_column_functions[col] = "T_ONLY" THEN 0 ELSE ix.s[d][col]]

OutlierWork_create(dd, level, col, is_outlier) ==
    [path |-> dd.path, level |-> level, col |-> col,
     is_outlier |-> is_outlier, t |-> dd.t, s |-> dd.s]

Items(ws) == FoldLeft(LAMBDA b, x: b (+) SetToBag({x}), EmptyBag, ws)
Row(ow, why) == SetToBag({[path |-> ow.path, level |-> ow.level, why |-> why,
                           col |-> ow.col, t |-> ow.t, s |-> ow.s]})

OInit ==
    /\ ix \in Indexes
    /\ opc = "dbs"
    /\ pair = 1
    /\ owork = EmptyBag
    /\ othr = [h \in Threads |-> Idle]
    /\ dbs = [h \in Threads |-> EmptyBag]
    /\ opened = [h \in Threads |-> 0]
    /\ results = EmptyBag
    /\ rows = 0

\* The arguments come in pairs, every thread's database can be created and
\* the pool starts, or main gives up.
Prepare ==
    /\ opc = "dbs"
    /\ opc' = IF ix.fault \in {"dbs", "start"} \/ Len(ix.args) % 2 = 1 THEN "failed" ELSE "pairs"
    /\ UNCHANGED <<ix, pair, owork, othr, dbs, opened, results, rows>>

\* The paths that stat finds to be directories, and the columns of a group
\* that have a handler, become work.
Wanted(path, name) ==
    SelectSeq(handle_group(name),
              LAMBDA c: path \in DOMAIN ix.dir /\ c \in DOMAIN setup_column_functions)

Pair ==
    /\ opc = "pairs"
    /\ 2 * pair <= Len(ix.args)
    /\ LET path == ix.args[2 * pair - 1]
           cols == Wanted(path, ix.args[2 * pair])
       IN  owork' = owork (+)
             Items([k \in DOMAIN cols |-> OutlierWork_create(DirData_create(path), 0, cols[k], FALSE)])
    /\ pair' = pair + 1
    /\ UNCHANGED <<ix, opc, othr, dbs, opened, results, rows>>

\* QPTPool_stop returns when nothing waits and no thread works.
Stop ==
    /\ opc = "pairs"
    /\ 2 * pair > Len(ix.args)
    /\ owork = EmptyBag
    /\ \A h \in Threads: othr[h] = Idle
    /\ opc' = "write"
    /\ pair' = 1
    /\ UNCHANGED <<ix, owork, othr, dbs, opened, results, rows>>

(***************************************************************************)
(* Files, and anything whose name ends in .db, are no subdirectories; a    *)
(* link is followed.                                                       *)
(***************************************************************************)
is_subdir(e) == ix.kind[e] \in {"dir", "link"}
Subdirs(p) == SelectSeq(ix.dir[p], is_subdir)

(***************************************************************************)
(* The first half of processdir, get_subdirs: a subdirectory without a     *)
(* database is walked whatever its siblings are, one whose query fails is  *)
(* dropped, and the others are listed with their values.                   *)
(***************************************************************************)
Listed(ow) ==
    LET good == SelectSeq(Subdirs(ow.path), LAMBDA d: ix.db[d] \in {"rows", "empty"})
    IN  [k \in DOMAIN good |-> QueryColumn(good[k], ow.col)]

Unknown(ow) ==
    LET none == SelectSeq(Subdirs(ow.path), LAMBDA d: ix.db[d] = "none")
    IN  [k \in DOMAIN none |->
            OutlierWork_create(DirData_create(none[k]), ow.level + 1, ow.col, FALSE)]

get_subdirs(h) ==
    /\ othr[h] = Idle
    /\ \E ow \in DOMAIN owork:
        /\ owork' = (owork (-) SetToBag({ow})) (+) Items(Unknown(ow))
        /\ othr' = [othr EXCEPT ![h] = [step |-> "listed", ow |-> ow, subdirs |-> Listed(ow)]]
        /\ opened' = [opened EXCEPT ![h] = @ + Len(Subdirs(ow.path))]
    /\ UNCHANGED <<ix, opc, pair, dbs, results, rows>>

(***************************************************************************)
(* The second half: the statistics of the subdirectories, the choice of    *)
(* the ones to walk, and the report of a directory that is an outlier      *)
(* while none of its subdirectories is.                                    *)
(***************************************************************************)
WithStats(dds, col) ==
    LET kind == setup_column_functions[col]
        t == compute_mean_stdev(kind, [k \in DOMAIN dds |-> dds[k].t.value])
        s == IF kind = "T_ONLY" THEN NoDeviation(Len(dds))
             ELSE compute_mean_stdev(kind, [k \in DOMAIN dds |-> dds[k].s.value])
    IN  [k \in DOMAIN dds |->
            [dds[k] EXCEPT !.t = [value |-> @.value] @@ t, !.s = [value |-> @.value] @@ s]]

FindOutliers(dds) ==
    IF Len(dds) < 2 THEN <<>>
    ELSE SelectSeq(dds, LAMBDA dd: BeyondLimits(dd.t.value, dd.t))

\* Mutant: an outlier is reported although there are outliers below it.
DescendsLess(ow, outliers) == ~ow.is_outlier

\* a directory is only walked further when it is no outlier or has some below
Descends(ow, outliers) == ~ow.is_outlier \/ outliers /= <<>>

Reason(dds) == IF dds = <<>> THEN "no-subdirs" ELSE "subdirs-not-outliers"

processdir(h) ==
    /\ othr[h].step = "listed"
    /\ LET ow == othr[h].ow
           dds == IF Len(othr[h].subdirs) < 2 THEN othr[h].subdirs
                  ELSE WithStats(othr[h].subdirs, ow.col)
           outliers == FindOutliers(dds)
           work == IF outliers = <<>> THEN dds ELSE outliers
       IN  IF Descends(ow, outliers)
           THEN /\ owork' = owork (+)
                     Items([k \in DOMAIN work |->
                        OutlierWork_create(work[k], ow.level + 1, ow.col, outliers /= <<>>)])
                /\ UNCHANGED dbs
           ELSE /\ dbs' = [dbs EXCEPT ![h] = @ (+) Row(ow, Reason(dds))]
                /\ UNCHANGED owork
    /\ othr' = [othr EXCEPT ![h] = Idle]
    /\ UNCHANGED <<ix, opc, pair, opened, results, rows>>

\* The rows of one thread after the other are printed, or inserted into the
\* table of the output database, which is created anew.
write_results ==
    /\ opc = "write"
    /\ IF pair \in Threads
       THEN /\ results' = results (+) dbs[pair]
            /\ pair' = pair + 1
            /\ UNCHANGED <<opc, rows>>
       ELSE /\ opc' = "done"
            /\ rows' = BagCardinality(results)
            /\ UNCHANGED <<pair, results>>
    /\ UNCHANGED <<ix, owork, othr, dbs, opened>>

ONext ==
    \/ Prepare \/ Pair \/ Stop \/ write_results
    \/ \E h \in Threads: get_subdirs(h) \/ processdir(h)

-----------------------------------------------------------------------------
(***************************************************************************)
(* What has to be reported, said of the tree rather than of the walk.      *)
(***************************************************************************)
Parents(d) == {p \in DOMAIN ix.dir: d \in Range(Subdirs(p))}
Above[d \in DOMAIN ix.dir] == Parents(d) \cup UNION {Above[p]: p \in Parents(d)}
Known(p) == {d \in Range(Subdirs(p)): ix.db[d] \in {"rows", "empty"}}
ValueOf(d, col) == IF ix.db[d] = "empty" THEN 0 ELSE ix.t[d][col]

\* n, and n times the mean of the known siblings, and n^2 times the squared
\* distance of d from it
TotalOf(p, col) == MapThenSumSet(LAMBDA x: ValueOf(x, col), Known(p))
Distance2(p, d, col) ==
    LET away == Cardinality(Known(p)) * ValueOf(d, col) - TotalOf(p, col) IN away * away
Spread(p, col) == MapThenSumSet(LAMBDA x: Distance2(p, x, col), Known(p))

\* d is more than three standard deviations away from its siblings' mean
FarOut(p, d, col) ==
    /\ d \in Known(p)
    /\ Cardinality(Known(p)) * Distance2(p, d, col) > 9 * Spread(p, col)
Deviants(p, col) == {d \in Known(p): FarOut(p, d, col)}

\* Below p, seen from the starting directory r, d is worth a look: nothing
\* is known of it, or it deviates, or nothing does and p is no end.
Interesting(r, p, d, col) ==
    \/ ix.db[d] = "none"
    \/ FarOut(p, d, col)
    \/ /\ d \in Known(p)
       /\ Deviants(p, col) = {}
       /\ p = r \/ ~\E q \in Parents(p): FarOut(q, p, col)

Reported(r, d, col) ==
    /\ d /= r /\ r \in Above[d]
    /\ \A e \in {d} \cup Above[d]:
          (r \in Above[e]) => \E p \in Parents(e): Interesting(r, p, e, col)
    /\ \E p \in Parents(d): FarOut(p, d, col)
    /\ Deviants(d, col) = {}

Report(r, d, col) ==
    LET p == CHOOSE q \in Parents(d): TRUE
        n == Cardinality(Known(p))
    IN  [path |-> d, col |-> col,
         level |-> Cardinality(Above[d]) - Cardinality(Above[r]),
         why |-> IF Known(d) = {} THEN "no-subdirs" ELSE "subdirs-not-outliers",
         t |-> [value |-> ValueOf(d, col), n |-> n, sum |-> TotalOf(p, col),
                var |-> Spread(p, col) \div n]]

ReportsOf(r, col) == {Report(r, d, col): d \in {e \in DOMAIN ix.dir: Reported(r, e, col)}}
AllReports ==
    LET ofPair(k) == LET r == ix.args[2 * k - 1]
                         cols == Range(Wanted(r, ix.args[2 * k]))
                     IN  SetToBag(UNION {ReportsOf(r, c): c \in cols})
    IN  FoldLeft(LAMBDA b, k: b (+) ofPair(k), EmptyBag, [k \in 1..(Len(ix.args) \div 2) |-> k])

Shown(b) ==
    LET of(x) == [path |-> x.path, col |-> x.col, level |-> x.level, why |-> x.why, t |-> x.t]
    IN  [y \in {of(x): x \in DOMAIN b} |->
            MapThenSumSet(LAMBDA x: b[x], {x \in DOMAIN b: of(x) = y})]

\* Whatever the threads do in which order, the rows main writes are the
\* directories where a chain of outliers ends, each once for every pair of
\* a starting path and a column that leads to it, with the statistics it
\* was judged by; and the number main prints is the number of rows.
OutliersExact ==
    opc = "done" => /\ Shown(results) = AllReports
                    /\ rows = BagCardinality(AllReports)

=============================================================================
