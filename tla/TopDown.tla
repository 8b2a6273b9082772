------------------------------ MODULE TopDown -------------------------------
(***************************************************************************)
(* gufi_rollup_topdown: directories are rolled up directly into the top of *)
(* the largest subtree that may roll up (src/src/gufi_rollup_topdown.c).   *)
(* A first walk finds the tops, as gufi_treesummary_all has marked them,   *)
(* and lists the directories below each of them.  Then main() hands the    *)
(* subtrees to the thread pool: every thread copies into a staging         *)
(* database of its own, the first one being that of the top, and whoever   *)
(* finishes the last copy merges them.                                     *)
(*                                                                         *)
(* The first walk is what WorkPool promises.  In the second part it        *)
(* matters which thread runs what: main() deals work round robin and       *)
(* stealing is off.                                                        *)
(***************************************************************************)
EXTENDS IndexDb

CONSTANTS
    N,              \* maxthreads
    Options,        \* limits and minimum levels the program may be called with
    External,       \* the directories with extended attributes in external databases
    MaxRuns, MaxFaults,
    NoDir

ASSUME TopDownAssumption ==
    /\ N \in Nat \ {0} /\ MaxRuns \in Nat /\ MaxFaults \in Nat
    /\ External \subseteq Dirs /\ NoDir \notin Dirs
    /\ Options \subseteq [limit : Nat, min_level : Nat, dry_run : BOOLEAN]

Threads == 0..(N - 1)

VARIABLES
    db,
    ext,            \* whose external_dbs_rollup lists extended attributes
    phase,          \* what main() does: "idle", "find", "copy", "stop"
    waiting,        \* main() waits for pa.cond
    opt,            \* the options of this run
    todo,           \* the tasks of the first walk
    tops,           \* per thread, the tops it found
    lists,          \* per top and thread, the directories below
    next,           \* next_queue of main()
    queue,          \* per thread, the copies it will make
    busy,           \* per thread, the copy it is making
    active,         \* pa.active_dbs
    stage,          \* per top, the staging databases but the first one
    left,           \* per top, *remaining
    stats,          \* not_rolledup and top, over all threads
    runs, faults,
    lost            \* history: the tops below which a copy failed, or a copy was of a
                    \* directory that is rolled up itself

vars == <<db, ext, phase, waiting, opt, todo, tops, lists, next, queue, busy, active,
          stage, left, stats, runs, faults, lost>>

NoOpt == [limit |-> 0, min_level |-> 0, dry_run |-> FALSE]
Free == [what |-> "free", top |-> NoDir, dir |-> NoDir, slot |-> 0]
EmptyStage == [roll |-> <<>>, pent |-> <<>>, ext |-> FALSE]
Copies == [top : Dirs, dir : Dirs, slot : Threads]

TypeOK ==
    /\ \A d \in Dirs : IsDb(db[d]) /\ left[d] \in Nat
    /\ ext \subseteq Dirs /\ phase \in {"idle", "find", "copy", "stop"} /\ waiting \in BOOLEAN
    /\ \A x \in todo : x \in Dirs \X (Dirs \cup {NoDir})
    /\ \A t \in Threads : /\ tops[t] \in Seq(Dirs) /\ queue[t] \in Seq(Copies)
                          /\ busy[t].what \in {"free", "write", "count", "merge"}
    /\ next \in Threads /\ active \in Nat
    /\ stats \in [not : Nat, top : Nat]
    /\ runs \in 0..MaxRuns /\ faults \in 0..MaxFaults /\ lost \subseteq Dirs

\* What gufi_treesummary_all leaves: canrollup and exact tree summaries.
Can(p) == LET can[d \in Dirs] == \A c \in Kids(d) : can[c] /\ CheckPairPermissions(p[d], p[c])
          IN  can
Marked(p, d) == [NewDb(p[d]) EXCEPT !.can = Can(p)[d],
                                    !.ts = [exists |-> TRUE, rows |-> d :> Exact(d)]]

Init ==
    /\ \E p \in Perms : db = [d \in Dirs |-> Marked(p, d)]
    /\ ext = {} /\ phase = "idle" /\ waiting = FALSE /\ opt = NoOpt /\ todo = {}
    /\ tops = [t \in Threads |-> <<>>]
    /\ lists = [d \in Dirs |-> [t \in Threads |-> <<>>]]
    /\ next = 0 /\ active = 0
    /\ queue = [t \in Threads |-> <<>>] /\ busy = [t \in Threads |-> Free]
    /\ stage = [d \in Dirs |-> <<>>] /\ left = [d \in Dirs |-> 0]
    /\ stats = [not |-> 0, top |-> 0]
    /\ runs = 0 /\ faults = 0 /\ lost = {}

copying == <<next, queue, busy, active, stage, left, waiting>>

Fault == faults < MaxFaults /\ faults' = faults + 1

-----------------------------------------------------------------------------
(* Finding the tops: find_top, prepare_rollup_copy and parallel_walk       *)

Find(d) == <<d, NoDir>>
Walk(top, d) == <<d, top>>

Start(o) ==
    /\ phase = "idle" /\ runs < MaxRuns
    /\ phase' = "find" /\ runs' = runs + 1 /\ opt' = o
    /\ todo' = {Find(Root)} /\ stats' = [not |-> 0, top |-> 0]
    /\ UNCHANGED <<db, ext, tops, lists, copying, faults, lost>>

\* check_entries_count, before and after
TooMany(d) == opt.limit # 0 /\ (Files[d] > opt.limit \/ db[d].ts.rows[d].files > opt.limit)

IsTop(d) == Level(d) >= opt.min_level /\ ~TooMany(d) /\ db[d].can

\* Not a top, or one whose database does not open: the walk goes down.
FindTopDescends(d) ==
    /\ Find(d) \in todo
    /\ \/ ~IsTop(d) /\ UNCHANGED faults
       \/ IsTop(d) /\ Fault
    /\ todo' = (todo \ {Find(d)}) \cup {Find(c) : c \in Kids(d)}
    /\ stats' = [stats EXCEPT !.not = @ + 1]
    /\ UNCHANGED <<db, ext, phase, opt, tops, lists, copying, runs, lost>>

\* The walk of the subtree of a top.
Prepare(d) == IF opt.dry_run THEN {} ELSE {Walk(d, d)}

\* A top: prepare_rollup_copy keeps it and begins to walk the subtree.
FindTop(d, t) ==
    /\ Find(d) \in todo /\ IsTop(d)
    /\ stats' = [stats EXCEPT !.top = @ + 1]
    /\ todo' = (todo \ {Find(d)}) \cup Prepare(d)
    /\ tops' = IF opt.dry_run THEN tops ELSE [tops EXCEPT ![t] = Append(@, d)]
    /\ lost' = IF opt.dry_run THEN lost ELSE lost \ {d}
    /\ UNCHANGED <<db, ext, phase, opt, lists, copying, runs, faults>>

\* The directory cannot be opened or its database not be read.
FindTopFails(d) ==
    /\ Find(d) \in todo /\ Fault
    /\ todo' = todo \ {Find(d)} /\ stats' = [stats EXCEPT !.not = @ + 1]
    /\ UNCHANGED <<db, ext, phase, opt, tops, lists, copying, runs, lost>>

\* parallel_walk and ls_dirs: the subdirectories go into the list of this
\* thread, and are walked.
ParallelWalk(d, top, t) ==
    /\ Walk(top, d) \in todo
    /\ todo' = (todo \ {Walk(top, d)}) \cup {Walk(top, c) : c \in Kids(d)}
    /\ lists' = [lists EXCEPT ![top][t] = @ \o Subdirs[d]]
    /\ UNCHANGED <<db, ext, phase, opt, tops, copying, stats, runs, faults, lost>>

\* ls_dirs cannot open the directory.
ParallelWalkFails(d, top) ==
    /\ Walk(top, d) \in todo /\ Fault
    /\ todo' = todo \ {Walk(top, d)} /\ stats' = [stats EXCEPT !.not = @ + 1]
    /\ lost' = lost \cup {top}
    /\ UNCHANGED <<db, ext, phase, opt, tops, lists, copying, runs>>

\* QPTPool_wait returns.
FoundAll ==
    /\ phase = "find" /\ todo = {} /\ phase' = "copy"
    /\ UNCHANGED <<db, ext, opt, todo, tops, lists, copying, stats, runs, faults, lost>>

-----------------------------------------------------------------------------
(* main() and enqueue_rollup_copy                                          *)

\* main() takes the tops out of the lists of the threads, list by list.
TopsLeft == \E t \in Threads : tops[t] # <<>>
FirstList == CHOOSE t \in Threads : /\ tops[t] # <<>>
                                    /\ \A u \in 0..(t - 1) : tops[u] = <<>>
NextTop == Head(tops[FirstList])
Popped == [tops EXCEPT ![FirstList] = Tail(@)]

MustWait == active >= N
MainWaits ==
    /\ phase = "copy" /\ ~waiting /\ TopsLeft /\ MustWait /\ waiting' = TRUE
    /\ UNCHANGED <<db, ext, phase, opt, todo, tops, lists, next, queue, busy, active, stage,
                   left, stats, runs, faults, lost>>

Below1(top) == FlattenSeq([i \in 1..N |-> lists[top][i - 1]])

\* rollup_init is given the name of the database instead of that of the
\* directory, so that it fails when there are external databases to clean.
InitSucceeds(top) == top \notin ext

ThreadsUsedOneLess(count) == IF count < N THEN count ELSE IF N = 1 THEN 1 ELSE N - 1
\* No more staging databases than directories.
ThreadsUsed(count) == IF count < N THEN count ELSE N

\* next_queue after n more items
QueueAfter(n) == (next + n) % N

\* Of n items dealt round robin from next_queue on, thread t gets every N-th
\* one: Dealt(t, 1), Dealt(t, 2), and so on, Share(t, n) of them.
Dealt(t, k) == ((t + N - next) % N) + 1 + (k - 1) * N
Share(t, n) == (n + N - Dealt(t, 1)) \div N

Ready == phase = "copy" /\ ~waiting /\ TopsLeft /\ ~MustWait

EnqueueRollupCopy ==
    /\ Ready
    /\ LET top == NextTop
           dirs == Below1(top)
           used == ThreadsUsed(Len(dirs))
           copy(i) == [top |-> top, dir |-> dirs[i], slot |-> (i - 1) % used]
       IN  /\ InitSucceeds(top)
           /\ db' = [db EXCEPT ![top] = RollupInit(@)]
           /\ stage' = [stage EXCEPT ![top] = [i \in 1..(used - 1) |-> EmptyStage]]
           /\ left' = [left EXCEPT ![top] = Len(dirs)]
           /\ active' = active + used
           /\ queue' = [t \in Threads |->
                            queue[t] \o [k \in 1..Share(t, Len(dirs)) |-> copy(Dealt(t, k))]]
           /\ next' = QueueAfter(Len(dirs))
           /\ lists' = [lists EXCEPT ![top] = [t \in Threads |-> <<>>]]
           /\ lost' = IF \E d \in ToSet(dirs) : db[d].roll # <<>>
                      THEN lost \cup {top} ELSE lost
    /\ tops' = Popped
    /\ UNCHANGED <<ext, phase, waiting, opt, todo, busy, stats, runs, faults>>

\* The database of the top cannot be opened, or rollup_init fails after it
\* has deleted the old rows.
EnqueueFails ==
    /\ Ready
    /\ LET top == NextTop IN
       /\ \/ Fault /\ UNCHANGED db
          \/ /\ ~InitSucceeds(top) /\ UNCHANGED faults
             /\ db' = [db EXCEPT ![top] = DeleteRollup(@)]
       /\ lists' = [lists EXCEPT ![top] = [t \in Threads |-> <<>>]]
       /\ lost' = lost \cup {top}
    /\ tops' = Popped
    /\ UNCHANGED <<ext, phase, waiting, opt, todo, next, queue, busy, active, stage, left,
                   stats, runs>>

Stop ==
    /\ phase = "copy" /\ ~TopsLeft /\ phase' = "stop"
    /\ UNCHANGED <<db, ext, waiting, opt, todo, tops, lists, next, queue, busy, active, stage,
                   left, stats, runs, faults, lost>>

\* QPTPool_stop returns; compute_stats prints.
End ==
    /\ phase = "stop" /\ phase' = "idle"
    /\ \A t \in Threads : queue[t] = <<>> /\ busy[t] = Free
    /\ UNCHANGED <<db, ext, waiting, opt, todo, tops, lists, next, queue, busy, active, stage,
                   left, stats, runs, faults, lost>>

-----------------------------------------------------------------------------
(* The threads: copy_to_top and rollup_merge                               *)

PopCopy(t) ==
    /\ busy[t] = Free /\ queue[t] # <<>>
    /\ LET item == Head(queue[t]) IN
       busy' = [busy EXCEPT ![t] = [what |-> "write", top |-> item.top, dir |-> item.dir,
                                    slot |-> item.slot]]
    /\ queue' = [queue EXCEPT ![t] = Tail(@)]
    /\ UNCHANGED <<db, ext, phase, waiting, opt, todo, tops, lists, next, active, stage, left,
                   stats, runs, faults, lost>>

\* What the view external_dbs of a directory finds.
HasExternal(d) == d \in External \cup ext

\* rollup_child_attach and rollup_child_process, all statements of it.
CopyToTop(t) ==
    /\ busy[t].what = "write"
    /\ LET item == busy[t]
           y == db[item.dir]
       IN  /\ IF item.slot = 0
              THEN /\ db' = [db EXCEPT ![item.top] = RollupChildProcess(@, item.dir, y, Statements)]
                   /\ UNCHANGED stage
              ELSE /\ stage' = [stage EXCEPT ![item.top][item.slot] =
                                    [roll |-> @.roll \o (<<item.dir>> \o y.roll),
                                     pent |-> @.pent \o (<<item.dir>> \o y.pent),
                                     ext  |-> @.ext \/ HasExternal(item.dir)]]
                   /\ UNCHANGED db
           /\ ext' = IF item.slot = 0 /\ HasExternal(item.dir) THEN ext \cup {item.top} ELSE ext
    /\ busy' = [busy EXCEPT ![t].what = "count"]
    /\ UNCHANGED <<phase, waiting, opt, todo, tops, lists, next, queue, active, left, stats,
                   runs, faults, lost>>

\* The directory cannot be attached, or there is no staging database.
CopyFails(t) ==
    /\ busy[t].what = "write" /\ Fault
    /\ busy' = [busy EXCEPT ![t].what = "count"]
    /\ lost' = lost \cup {busy[t].top}
    /\ UNCHANGED <<db, ext, phase, waiting, opt, todo, tops, lists, next, queue, active, stage,
                   left, stats, runs>>

IsLastButOne(n) == n = 1
\* The last one merges.
IsLast(n) == n = 0
CountCopy(t) ==
    /\ busy[t].what = "count"
    /\ LET n == left[busy[t].top] - 1 IN
       /\ left' = [left EXCEPT ![busy[t].top] = n]
       /\ busy' = [busy EXCEPT ![t] = IF IsLast(n) THEN [@ EXCEPT !.what = "merge"] ELSE Free]
    /\ UNCHANGED <<db, ext, phase, waiting, opt, todo, tops, lists, next, queue, active, stage,
                   stats, runs, faults, lost>>

SignalNobody == waiting' = waiting
\* pthread_cond_broadcast
Signal == waiting' = FALSE
RollupMerge(t) ==
    /\ busy[t].what = "merge"
    /\ LET top == busy[t].top
           all(f(_)) == FlattenSeq([i \in DOMAIN stage[top] |-> f(stage[top][i])])
       IN  /\ db' = [db EXCEPT ![top].roll = @ \o all(LAMBDA s : s.roll),
                               ![top].pent = @ \o all(LAMBDA s : s.pent)]
           /\ active' = active - (Len(stage[top]) + 1)
           /\ ext' = IF \E i \in DOMAIN stage[top] : stage[top][i].ext
                     THEN ext \cup {top} ELSE ext
           /\ stage' = [stage EXCEPT ![top] = <<>>]
    /\ Signal
    /\ busy' = [busy EXCEPT ![t] = Free]
    /\ UNCHANGED <<phase, opt, todo, tops, lists, next, queue, left, stats, runs, faults,
                   lost>>

-----------------------------------------------------------------------------

FindStep(t) ==
    /\ phase = "find"
    /\ \E d \in Dirs : \/ FindTopDescends(d) \/ FindTop(d, t) \/ FindTopFails(d)
                       \/ \E top \in Dirs : ParallelWalk(d, top, t) \/ ParallelWalkFails(d, top)

CopyStep(t) == PopCopy(t) \/ CopyToTop(t) \/ CopyFails(t) \/ CountCopy(t) \/ RollupMerge(t)

MainStep == FoundAll \/ MainWaits \/ EnqueueRollupCopy \/ EnqueueFails \/ Stop \/ End

Next ==
    \/ \E o \in Options : Start(o)
    \/ MainStep
    \/ \E t \in Threads : FindStep(t) \/ CopyStep(t)

\* main() goes on unless it waits, and every thread of the pool goes on.
Spec == /\ Init /\ [][Next]_vars
        /\ WF_vars(MainStep)
        /\ \A t \in Threads : WF_vars(FindStep(t)) /\ WF_vars(CopyStep(t))

-----------------------------------------------------------------------------
(* Properties                                                              *)

\* The comment at copy_to_top: threads never race.  No two threads write to
\* the same staging database of the same top, and nobody writes to any of
\* them while they are merged.
OneWriterPerDb ==
    \A t, u \in Threads :
        t # u /\ busy[t].what = "write" /\ busy[u].top = busy[t].top =>
            /\ busy[u].what # "merge"
            /\ ~(busy[u].what = "write" /\ busy[u].slot = busy[t].slot)

\* What compute_stats prints as "Total remaining directories to traverse"
\* after a first run without failures is what a query has to traverse.
RemainingExact ==
    phase = "idle" /\ runs = 1 /\ faults = 0 /\ ~opt.dry_run =>
        stats.not + stats.top = Cardinality(Visited(db))

\* Between two runs of the program, a rolled-up directory has the rows of
\* every directory below it exactly once, whatever thread copied them, but
\* where a copy failed or was made from a rolled-up directory; and a query has
\* to traverse as many directories as the program has announced.
RolledUpComplete ==
    /\ phase = "idle" =>
           \A d \in Visited(db) \ lost :
               GetIsrolledup(db[d]) =>
                   \A rows \in {db[d].roll, db[d].pent} :
                       IsInjective(rows) /\ ToSet(rows) = Below[d]
    /\ RemainingExact

\* main() never waits forever for a staging database to become free, and the
\* program ends.
Finishes == (phase # "idle") ~> (phase = "idle")

=============================================================================
