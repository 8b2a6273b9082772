------------------------------- MODULE Rollup -------------------------------
(***************************************************************************)
(* The programs that change a finished index in place, run one after the   *)
(* other: gufi_rollup, gufi_unrollup, gufi_treesummary_all and             *)
(* gufi_treesummary.  A run may fail at a directory or die in the middle;  *)
(* journals are off and every SQL statement commits by itself, so that     *)
(* what was written stays.                                                 *)
(*                                                                         *)
(* Two of them walk with BottomUp: a directory ascends once, after all of  *)
(* its subdirectories have.  The others are walks of the thread pool.  A   *)
(* database is only touched by its own directory and, after that one has   *)
(* ascended, by its parent, so that directories working at the same time   *)
(* do not meet and one action per directory, or per copied subdirectory,   *)
(* is fine enough.  What a directory reads on the way down is read before  *)
(* anything is written to it, and so is taken when the run starts.         *)
(***************************************************************************)
EXTENDS IndexDb

CONSTANTS
    Options,        \* the command lines that may be used
    MaxRuns,        \* bound: how many programs are run
    MaxFaults,      \* bound: how many failures and crashes there are
    Threads,        \* the threads of gufi_treesummary
    NoJob,          \* no program is running
    NoDir

ASSUME OptionsAssumption ==
    /\ MaxRuns \in Nat /\ MaxFaults \in Nat /\ NoDir \notin Dirs /\ NoJob \notin Options
    /\ Options \subseteq [tool : {"rollup", "unrollup", "treesummary", "treesummary_all"},
                          limit : Nat,              \* entries_limit, 0 for none
                          delete_below : Nat,       \* a level, deeper than the tree for none
                          min_level : Nat,
                          dont_reprocess : BOOLEAN, dry_run : BOOLEAN]

VARIABLES
    db,             \* the database of each directory
    job,            \* the options of the program that is running
    pc,             \* where each directory is in a bottom-up walk
    left,           \* the subdirectories a directory has yet to copy
    rolledup,       \* dir->rolledup, in memory
    remaining,      \* the statistic, over all threads
    queue,          \* the directories in the queue of a pool walk, with what they inherit
    sums,           \* the per-thread sums of gufi_treesummary
    faults,         \* how many failures there have been
    torn,           \* history: the directories whose copies are incomplete or left over
    log             \* history: the runs so far

vars == <<db, job, pc, left, rolledup, remaining, queue, sums, faults, torn, log>>
walk == <<pc, left, rolledup, remaining>>
pool == <<queue, sums>>

TypeOK ==
    /\ DOMAIN db = Dirs /\ \A d \in Dirs : IsDb(db[d])
    /\ job \in Options \cup {NoJob}
    /\ pc \in [Dirs -> {"out", "todo", "copy", "done", "hung"}]
    /\ left \in [Dirs -> Seq(Dirs)] /\ rolledup \in [Dirs -> BOOLEAN]
    /\ remaining \in Nat /\ faults \in 0..MaxFaults
    /\ queue \subseteq Dirs \X BOOLEAN /\ sums \in [Threads -> Sums]
    /\ torn \subseteq Dirs

Init ==
    /\ \E p \in Perms : db = [d \in Dirs |-> NewDb(p[d])]
    /\ job = NoJob
    /\ pc = [d \in Dirs |-> "out"] /\ left = [d \in Dirs |-> <<>>]
    /\ rolledup = [d \in Dirs |-> FALSE] /\ remaining = 0
    /\ queue = {} /\ sums = [t \in Threads |-> Zero]
    /\ faults = 0 /\ torn = {} /\ log = <<>>

-----------------------------------------------------------------------------
(* Starting and ending a run                                               *)

BottomUpTools == {"rollup", "treesummary_all"}

\* The descend functions, used with --dont-reprocess, stop at what was
\* processed before.
RollupDescendStops(d) == GetIsrolledup(db[d])
TreesummaryDescendStops(d) == db[d].ts.exists
StopsAt(o, d) ==
    /\ o.dont_reprocess
    /\ IF o.tool = "rollup" THEN RollupDescendStops(d) ELSE TreesummaryDescendStops(d)

\* The pool walks start at the root, which inherits nothing.
PoolRoots(o) == IF o.tool \in BottomUpTools THEN {} ELSE {<<Root, FALSE>>}

Walked(o) == {d \in Dirs : \A e \in Above(d) : ~StopsAt(o, e)}

\* hung is a directory whose descend function fails (rollup_descend cannot
\* open the database): its ancestors never ascend.
Start(o, hung) ==
    /\ job = NoJob /\ Len(log) < MaxRuns
    /\ hung # NoDir => /\ faults < MaxFaults /\ hung \in Walked(o)
                       /\ o.tool = "rollup" /\ o.dont_reprocess
    /\ job' = o
    /\ pc' = [d \in Dirs |->
                IF o.tool \notin BottomUpTools \/ d \notin Walked(o)
                   \/ (hung # NoDir /\ d \in Below[hung]) THEN "out"
                ELSE IF hung # NoDir /\ d \in {hung} \cup Above(hung) THEN "hung"
                ELSE "todo"]
    /\ rolledup' = [d \in Dirs |-> o.tool = "rollup" /\ d \in Walked(o) /\ StopsAt(o, d)]
    /\ left' = [d \in Dirs |-> <<>>] /\ remaining' = 0
    /\ queue' = PoolRoots(o)
    /\ sums' = [t \in Threads |-> Zero]
    /\ faults' = IF hung = NoDir THEN faults ELSE faults + 1
    /\ log' = Append(log, [job |-> o, remaining |-> 0, ended |-> FALSE,
                           clean |-> hung = NoDir,
                           fresh |-> \A d \in Dirs : ~db[d].isroll,
                           torn |-> \E d \in torn : db[d].isroll])
    /\ UNCHANGED <<db, torn>>

Fault ==
    /\ faults < MaxFaults /\ faults' = faults + 1
    /\ log' = [log EXCEPT ![Len(log)].clean = FALSE]
NoFault == UNCHANGED <<faults, log>>

\* The memory of a process that has ended.
Gone ==
    /\ pc' = [d \in Dirs |-> "out"] /\ left' = [d \in Dirs |-> <<>>]
    /\ rolledup' = [d \in Dirs |-> FALSE] /\ remaining' = 0
    /\ queue' = {} /\ sums' = [t \in Threads |-> Zero]

\* A bottom-up walk is over when nobody can ascend any more; print_stats
\* adds up the threads' statistics.
End ==
    /\ job # NoJob /\ job.tool # "treesummary"
    /\ queue = {} /\ \A d \in Dirs : pc[d] \notin {"todo", "copy"}
    /\ job' = NoJob /\ Gone
    /\ log' = [log EXCEPT ![Len(log)].ended = TRUE, ![Len(log)].remaining = remaining]
    /\ UNCHANGED <<db, faults, torn>>

\* The process dies.
Crash ==
    /\ job # NoJob /\ Fault
    /\ job' = NoJob /\ Gone
    /\ torn' = torn \cup {d \in Dirs : pc[d] = "copy"}
    /\ UNCHANGED db

-----------------------------------------------------------------------------
(* gufi_rollup: rollup_ascend                                              *)

CanAscend(d) == pc[d] = "todo" /\ \A c \in Kids(d) : pc[c] \in {"done", "out"}
Running(tool) == job # NoJob /\ job.tool = tool

Total(s) == SumFunction([i \in DOMAIN s |-> Files[s[i]]])

\* get_nondirs adds up all rows of summary, the copied ones too.
GetNondirs(d) == Total(<<d>> \o db[d].roll)

CanRollupAnyChild(d) ==
    Kids(d) = {} \/ \A c \in Kids(d) : CheckPairPermissions(GetPermissions(d, db), db[c].perm)
\* can_rollup
CanRollup(d) ==
    \/ Kids(d) = {}
    \/ \A c \in Kids(d) :
          rolledup[c] /\ CheckPairPermissions(GetPermissions(d, db), db[c].perm)

\* The entries of the subdirectories, counted by PERM_SQL in their pentries.
Entries(c) == Total(<<c>> \o db[c].pent)
TotalChildEntries(d) == SumFunction([i \in DOMAIN Subdirs[d] |-> Entries(Subdirs[d][i])])

\* should_rollup
ShouldRollup(d) ==
    /\ Level(d) >= job.min_level
    /\ job.limit = 0 \/ GetNondirs(d) <= job.limit
    /\ CanRollup(d)
    /\ job.limit = 0 \/ GetNondirs(d) + TotalChildEntries(d) <= job.limit

Opened(d) == IF job.dry_run THEN db[d] ELSE CreateTreesummaryTables(db[d])
Done(d) == pc' = [pc EXCEPT ![d] = "done"]

\* The database cannot be opened: it was not processed.
AscendUnopenable(d) ==
    /\ Running("rollup") /\ CanAscend(d) /\ Fault /\ Done(d)
    /\ remaining' = remaining + 1
    /\ UNCHANGED <<db, job, left, rolledup, pool, torn>>

\* --dont-reprocess and already rolled up; the treesummary table is a new one.
AscendSkip(d) ==
    /\ Running("rollup") /\ CanAscend(d) /\ NoFault /\ Done(d)
    /\ job.dont_reprocess /\ rolledup[d]
    /\ db' = [db EXCEPT ![d] = Opened(d)]
    /\ UNCHANGED <<job, left, rolledup, remaining, pool, torn>>

MustDecide(d) ==
    Running("rollup") /\ CanAscend(d) /\ (~job.dont_reprocess \/ ~rolledup[d])

\* can_rollup cannot read the database of a subdirectory: the score is -1,
\* and neither roll-up nor tree summary is made.
AscendFails(d) ==
    /\ MustDecide(d) /\ Fault /\ Done(d)
    /\ Level(d) >= job.min_level /\ Kids(d) # {} /\ \A c \in Kids(d) : rolledup[c]
    /\ job.limit = 0 \/ GetNondirs(d) <= job.limit
    /\ db' = [db EXCEPT ![d] = Opened(d)]
    /\ UNCHANGED <<job, left, rolledup, remaining, pool, torn>>

\* The directory does not roll up: it and its rolled up subdirectories remain.
RemainingHere(d) == 1 + Cardinality({c \in Kids(d) : rolledup[c]})
AscendRefuse(d) ==
    /\ MustDecide(d) /\ NoFault /\ Done(d) /\ ~ShouldRollup(d)
    /\ remaining' = remaining + RemainingHere(d)
    /\ db' = IF job.dry_run THEN db
             ELSE [db EXCEPT ![d] = CollectChildren(d, [db EXCEPT ![d] = Opened(d)], {})]
    /\ UNCHANGED <<job, left, rolledup, pool, torn>>

\* The root always remains.
RemainingRoot(d) == remaining' = IF d = Root THEN remaining + 1 ELSE remaining

AscendDry(d) ==
    /\ MustDecide(d) /\ NoFault /\ Done(d) /\ ShouldRollup(d) /\ job.dry_run
    /\ rolledup' = [rolledup EXCEPT ![d] = TRUE] /\ RemainingRoot(d)
    /\ UNCHANGED <<db, job, left, pool, torn>>

\* do_rollup begins: rollup_init marks the directory before anything is copied.
AscendInit(d) ==
    /\ MustDecide(d) /\ NoFault /\ ShouldRollup(d) /\ ~job.dry_run
    /\ db' = [db EXCEPT ![d] = RollupInit(Opened(d))]
    /\ pc' = [pc EXCEPT ![d] = "copy"] /\ left' = [left EXCEPT ![d] = Subdirs[d]]
    /\ torn' = torn \ {d}
    /\ UNCHANGED <<job, rolledup, remaining, pool>>

NotRolledUp(d) == rolledup' = [rolledup EXCEPT ![d] = FALSE] /\ Done(d)

\* rollup_init fails at the extended attributes: the old rows are gone, the
\* last statement is not reached.
InitFails(d) ==
    /\ MustDecide(d) /\ Fault /\ ShouldRollup(d) /\ ~job.dry_run /\ NotRolledUp(d)
    /\ db' = [db EXCEPT ![d] = DeleteRollup(Opened(d))]
    /\ torn' = IF db[d].isroll THEN torn \cup {d} ELSE torn \ {d}
    /\ RemainingRoot(d)
    /\ UNCHANGED <<job, left, pool>>

Deletes(d) == Level(d) >= job.delete_below

\* One turn of do_rollup's loop; deleting the subdirectory's copies may fail
\* after any of its statements, which is ignored.
CopyChild(d, n) ==
    /\ pc[d] = "copy" /\ left[d] # <<>>
    /\ IF n = Statements THEN NoFault ELSE Deletes(d) /\ Fault
    /\ LET sub == Head(left[d]) IN
       /\ db' = [db EXCEPT ![d] = RollupChildProcess(@, sub, db[sub], Statements),
                           ![sub] = IF Deletes(d) THEN DeleteSubdirRollup(@, n) ELSE @]
       /\ torn' = (IF Deletes(d) /\ n = Statements THEN torn \ {sub} ELSE torn)
                       \cup (IF sub \in torn THEN {d} ELSE {})
                       \cup (IF n \in {1, 2} THEN {sub} ELSE {})
    /\ left' = [left EXCEPT ![d] = Tail(@)]
    /\ UNCHANGED <<job, pc, rolledup, remaining, pool>>

\* Attaching or copying a subdirectory fails: the loop ends, the directory
\* stays marked.
CopyFails(d, n) ==
    /\ pc[d] = "copy" /\ left[d] # <<>> /\ Fault /\ NotRolledUp(d)
    /\ LET sub == Head(left[d]) IN
       db' = [db EXCEPT ![d] = RollupChildProcess(@, sub, db[sub], n)]
    /\ left' = [left EXCEPT ![d] = <<>>] /\ torn' = torn \cup {d}
    /\ RemainingRoot(d)
    /\ UNCHANGED <<job, pool>>

FinishRollup(d) ==
    /\ pc[d] = "copy" /\ left[d] = <<>> /\ Done(d)
    /\ db' = [db EXCEPT ![d] = CollectRolledUp(d, @)]
    /\ rolledup' = [rolledup EXCEPT ![d] = TRUE] /\ RemainingRoot(d)
    /\ UNCHANGED <<job, left, pool, faults, torn, log>>

-----------------------------------------------------------------------------
(* gufi_treesummary_all: treesummary_ascend                                *)

TreesummaryAscend(d) ==
    /\ Running("treesummary_all") /\ CanAscend(d) /\ NoFault /\ Done(d)
    /\ LET x == [db[d] EXCEPT !.ts.exists = TRUE]
           with == [db EXCEPT ![d] = x]
           up == GetIsrolledup(x)
       IN  db' = [db EXCEPT ![d] =
                    [IF up THEN CollectRolledUp(d, x) ELSE CollectChildren(d, with, {})
                        EXCEPT !.can = up \/ CanrollupChildren(d, with, {})]]
    /\ UNCHANGED <<job, left, rolledup, remaining, pool, torn>>

TreesummaryAscendFails(d) ==
    /\ Running("treesummary_all") /\ CanAscend(d) /\ Fault /\ Done(d)
    /\ UNCHANGED <<db, job, left, rolledup, remaining, pool, torn>>

-----------------------------------------------------------------------------
(* gufi_unrollup: processdir                                               *)

InheritNothing(d, up) == {<<c, FALSE>> : c \in Kids(d)}
Inherit(d, up) == {<<c, up>> : c \in Kids(d)}

UnrollupDir(d, inherited) ==
    /\ Running("unrollup") /\ <<d, inherited>> \in queue /\ NoFault
    /\ LET deep == Level(d) >= job.min_level
           up == inherited \/ (deep /\ GetIsrolledup(db[d]))
       IN  /\ queue' = (queue \ {<<d, inherited>>}) \cup Inherit(d, up)
           /\ db' = IF deep /\ up THEN [db EXCEPT ![d] = RollupCleanup(@)] ELSE db
           /\ torn' = IF deep /\ up THEN torn \ {d} ELSE torn
    /\ UNCHANGED <<job, walk, sums>>

\* The database cannot be opened; the walk goes on.
UnrollupFails(d, inherited) ==
    /\ Running("unrollup") /\ <<d, inherited>> \in queue /\ Fault
    /\ Level(d) >= job.min_level
    /\ queue' = (queue \ {<<d, inherited>>}) \cup Inherit(d, inherited)
    /\ UNCHANGED <<db, job, walk, sums, torn>>

-----------------------------------------------------------------------------
(* gufi_treesummary: processdir and compute_treesummary                    *)

TreesummaryDir(d, t) ==
    /\ Running("treesummary") /\ <<d, FALSE>> \in queue /\ NoFault
    /\ LET up == GetIsrolledup(db[d])
           descends == ~up /\ (~db[d].ts.exists \/ d = Root)
           own == Querytsdb(d, db[d], ~up /\ ~descends, Zero)
           sum == IF up THEN [own EXCEPT !.sub = Len(db[d].roll)] ELSE own
       IN  /\ queue' = (queue \ {<<d, FALSE>>}) \cup (IF descends THEN Inherit(d, FALSE) ELSE {})
           /\ sums' = [sums EXCEPT ![t] = Tsumit(sum, @)]
    /\ UNCHANGED <<db, job, walk, torn>>

\* A directory that cannot be opened is left out.
TreesummaryDirFails(d) ==
    /\ Running("treesummary") /\ <<d, FALSE>> \in queue /\ Fault
    /\ queue' = queue \ {<<d, FALSE>>}
    /\ UNCHANGED <<db, job, walk, sums, torn>>

ComputeTreesummary ==
    /\ Running("treesummary") /\ queue = {}
    /\ LET all == FoldSet(LAMBDA t, s : MinusOne(Tsumit(sums[t], s)), Zero, Threads)
           sum == IF all.sub # 0 THEN MinusOne(all) ELSE all
       IN  db' = IF job.dry_run THEN db
                 ELSE [db EXCEPT ![Root] = Inserttreesumdb(Root, CreateTreesummaryTables(@), sum)]
    /\ job' = NoJob /\ Gone
    /\ log' = [log EXCEPT ![Len(log)].ended = TRUE]
    /\ UNCHANGED <<faults, torn>>

-----------------------------------------------------------------------------

Next ==
    \/ \E o \in Options, h \in Dirs \cup {NoDir} : Start(o, h)
    \/ \E d \in Dirs : \/ AscendUnopenable(d) \/ AscendSkip(d) \/ AscendFails(d)
                       \/ AscendRefuse(d) \/ AscendDry(d) \/ AscendInit(d) \/ InitFails(d)
                       \/ FinishRollup(d) \/ TreesummaryAscend(d) \/ TreesummaryAscendFails(d)
                       \/ \E n \in 0..Statements : CopyChild(d, n)
                       \/ \E n \in 0..(Statements - 1) : CopyFails(d, n)
                       \/ \E t \in Threads : TreesummaryDir(d, t)
                       \/ TreesummaryDirFails(d)
                       \/ \E i \in BOOLEAN : UnrollupDir(d, i) \/ UnrollupFails(d, i)
    \/ ComputeTreesummary \/ End \/ Crash

Spec == Init /\ [][Next]_vars

-----------------------------------------------------------------------------
(* Properties                                                              *)

Idle == job = NoJob
Latest == log[Len(log)]
\* The run of the given program that was made last has ended without a fault.
Succeeded(tool) ==
    Idle /\ log # <<>> /\ Latest.ended /\ Latest.clean /\ Latest.job.tool = tool

\* "Remaining Dirs" is the number of directories a query visits after the
\* roll-up of an index that was not rolled up before, and without a limit a
\* dry run predicts it.
RemainingExact ==
    Succeeded("rollup") /\ Latest.fresh /\ ~Latest.job.dry_run =>
        /\ Latest.remaining = Cardinality(Visited(db))
        /\ \A i \in DOMAIN log :
              /\ log[i].job = [Latest.job EXCEPT !.dry_run = TRUE]
              /\ log[i].job.limit = 0 /\ log[i].fresh /\ log[i].ended /\ log[i].clean
              => log[i].remaining = Latest.remaining

\* A run of gufi_unrollup has failed at a directory or died.
Interrupted == \E i \in DOMAIN log : log[i].job.tool = "unrollup" /\ ~log[i].clean

\* Between two runs a query over the index, which stops at rolled-up
\* directories (src/src/gufi_query/process_queries.c:294), finds the summary
\* and the entries of every directory exactly once, whatever was rolled up,
\* rolled up again with other options, reversed or deleted; they can only be
\* missing below a directory whose roll-up failed or was interrupted, because
\* rollup_init marks it before anything is copied, and the entries can only
\* be seen twice below one in which gufi_unrollup, interrupted, left them.
RowsComplete ==
    Idle => \A e \in Dirs :
        LET over == Above(e) \cap Visited(db) \cap torn
            lost == \E d \in over : GetIsrolledup(db[d])
            kept == Interrupted /\ \E d \in over : ~GetIsrolledup(db[d])
            fine(n) == n = 1 \/ (n = 0 /\ lost)
        IN  /\ fine(SummariesSeen(db, e))
            /\ fine(EntriesSeen(db, e)) \/ (EntriesSeen(db, e) > 1 /\ kept)

\* A query finds everything once, and visits as many directories as
\* gufi_rollup has announced.
QueryComplete == RowsComplete /\ RemainingExact

\* gufi_unrollup leaves the index as it was before it was rolled up, also
\* after failed and interrupted runs of gufi_rollup and of itself
\* (src/src/gufi_unrollup.c:207).
UnrollupRestores ==
    Succeeded("unrollup") /\ Latest.job.min_level = 0 =>
        \A d \in Dirs : /\ db[d].roll = <<>> /\ ~db[d].isroll
                        /\ db[d].pent = <<>> \/ (Interrupted /\ d \in torn)

\* A directory is only marked as rolled up when every directory below it may
\* be rolled up into its parent (check_pair_permissions), whichever runs with
\* whichever options got it there; and a roll-up with a limit, of an index
\* that was not rolled up before, puts no more entries than that into one
\* database (src/docs/latex/sections/rollup.tex:122).
RolledUpLegally ==
    /\ \A d \in Dirs : db[d].isroll =>
           \A e \in {d} \cup Below[d] : \A c \in Kids(e) :
               CheckPairPermissions(db[e].perm, db[c].perm)
    /\ Succeeded("rollup") /\ Latest.fresh /\ Latest.job.limit > 0 =>
           \A d \in Dirs : db[d].isroll => Total(<<d>> \o db[d].pent) <= Latest.job.limit

\* The tree summaries count every directory and every file below once: after
\* gufi_rollup of an index that was not rolled up before; after
\* gufi_treesummary_all of any index with nothing torn; and, for the root,
\* after gufi_treesummary, which trusts the tables it finds, when no run before
\* failed or skipped directories and no index was rolled up a second time: a
\* directory that is refused then keeps its copied rows, and they are counted
\* beside its subdirectories.
TreeSummaryExact ==
    LET exact(d) == d \in DOMAIN db[d].ts.rows /\ db[d].ts.rows[d] = Exact(d)
        again(i) == log[i].job.tool = "rollup" /\ ~log[i].fresh /\ ~log[i].job.dry_run
        trusted == \A i \in DOMAIN log :
                       log[i].clean /\ ~log[i].job.dont_reprocess /\ ~again(i)
    IN  /\ (\/ Succeeded("rollup") /\ Latest.fresh /\ ~Latest.job.dry_run
            \/ Succeeded("treesummary_all") /\ ~Latest.torn /\ ~Latest.job.dont_reprocess)
           => \A d \in Dirs : exact(d)
        /\ (Succeeded("treesummary") /\ ~Latest.job.dry_run /\ trusted) => exact(Root)

=============================================================================
