------------------------------ MODULE BottomUp ------------------------------
(***************************************************************************)
(* The parallel bottom-up walk of a directory tree (src/src/BottomUp.c)    *)
(* that gufi_rollup, gufi_treesummary_all and parallel_rmr are built on.   *)
(* A directory is descended into, its subdirectories are enqueued, and the *)
(* last of them to finish makes the directory ascend.  The directories     *)
(* share memory: a struct BottomUp belongs to the list of its parent, is   *)
(* freed when its parent ascends, and is used by whichever thread has a    *)
(* task for it.                                                            *)
(*                                                                         *)
(* The thread pool is what WorkPool promises: a task that was enqueued is  *)
(* run once, by any thread, at any time.                                   *)
(***************************************************************************)
EXTENDS Integers, FiniteSets

CONSTANTS
    Threads,
    Dirs,           \* the directories of the tree
    Roots,          \* the ones parallel_bottomup is called with
    RootLevel,      \* 0, or MinLevel when they come from a list of paths
    Subdirs,        \* the subdirectories of a directory
    MinLevel,
    MaxLevel,
    MayNotOpen,     \* opendir may fail here
    MayNotStat,     \* fstatat of some entry may fail here
    MayNotDescend,  \* the descend function may fail here
    MayStop,        \* the descend function may set *keep_going to 0 here
    Nobody,         \* nobody's parent, no holder of a mutex
    Destroyed       \* a mutex after pthread_mutex_destroy

ASSUME TreeAssumption ==
    /\ Roots \subseteq Dirs
    /\ Subdirs \in [Dirs -> SUBSET Dirs]
    /\ IsFiniteSet(Dirs)
    /\ \A d \in Dirs : Subdirs[d] \cap Roots = {}
    /\ \A d, e \in Dirs : d # e => Subdirs[d] \cap Subdirs[e] = {}
    /\ \A d \in Dirs : d \notin Subdirs[d]
ASSUME LevelAssumption ==
    MinLevel \in Nat /\ MaxLevel \in Nat /\ RootLevel \in {0, MinLevel}
ASSUME NamesAssumption ==
    /\ IsFiniteSet(Threads)
    /\ Nobody \notin Dirs \cup Threads
    /\ Destroyed \notin Threads \cup {Nobody}

Parent(d) == IF \E e \in Dirs : d \in Subdirs[e]
             THEN CHOOSE e \in Dirs : d \in Subdirs[e]
             ELSE Nobody
Level[d \in Dirs] == IF Parent(d) = Nobody THEN RootLevel ELSE Level[Parent(d)] + 1

\* What is below d: the smallest set that has the subdirectories of d and of
\* all its members.
Closed(S) == \A d \in S : Subdirs[d] \subseteq S
Below == [d \in Dirs |->
            {x \in Dirs : \A S \in SUBSET Dirs : Subdirs[d] \subseteq S /\ Closed(S) => x \in S}]

VARIABLES
    pool,           \* the tasks in the thread pool
    pc, bu,         \* where a thread is and the directory it is working on
    left,           \* the subdirectories it has yet to enqueue
    remaining,      \* bu->refs.remaining
    mutex,          \* bu->refs.mutex
    alloc,          \* the struct BottomUp that have been allocated
    frees,          \* how often a struct BottomUp has been freed
    ascended,       \* how often the ascend function has been called
    hung            \* history: the directories that failed without telling their parent

vars == <<pool, pc, bu, left, remaining, mutex, alloc, frees, ascended, hung>>

\* by tells the tasks apart that several subdirectories enqueue for a parent
Task(fn, d, by) == [fn |-> fn, dir |-> d, by |-> by]

\* parallel_bottomup and parallel_bottomup_enqueue
Init ==
    /\ pool = {Task("descend", r, r) : r \in Roots}
    /\ pc = [t \in Threads |-> "idle"]
    /\ bu = [t \in Threads |-> Nobody]
    /\ left = [t \in Threads |-> {}]
    /\ remaining = [d \in Dirs |-> 0]
    /\ mutex = [d \in Dirs |-> Nobody]
    /\ alloc = Roots
    /\ frees = [d \in Dirs |-> 0]
    /\ ascended = [d \in Dirs |-> 0]
    /\ hung = {}

Goto(t, l) == pc' = [pc EXCEPT ![t] = l]
Done(t) == Goto(t, "idle") /\ bu' = [bu EXCEPT ![t] = Nobody]

\* bottomup_destroy of every member of D
FreeAll(D) == frees' = [d \in Dirs |-> IF d \in D THEN frees[d] + 1 ELSE frees[d]]

InRange(d) == MinLevel <= Level[d] /\ Level[d] <= MaxLevel

-----------------------------------------------------------------------------
Take(t) ==
    /\ pc[t] = "idle"
    /\ \E task \in pool :
          /\ pool' = pool \ {task}
          /\ bu' = [bu EXCEPT ![t] = task.dir]
          /\ Goto(t, IF task.fn = "descend" THEN "open" ELSE "decrement")
    /\ UNCHANGED <<left, remaining, mutex, alloc, frees, ascended, hung>>

\* mutant: nobody learns that the directory is done
TellNobody(d) == UNCHANGED <<pool, frees>>

\* a directory is done: its parent is told, or the root is freed
TellParent(d) ==
    IF Parent(d) # Nobody
    THEN /\ pool' = pool \cup {Task("ascend", Parent(d), d)}
         /\ UNCHANGED frees
    ELSE /\ FreeAll({d})
         /\ UNCHANGED pool

(* descend_to_bottom *)

\* opendir fails
OpenFails(t) ==
    LET d == bu[t]
    IN  /\ pc[t] = "open"
        /\ d \in MayNotOpen
        /\ TellParent(d)
        /\ Done(t)
        /\ UNCHANGED <<left, remaining, mutex, alloc, ascended, hung>>

\* an entry cannot be examined: the function returns, and that is all
StatFails(t) ==
    LET d == bu[t]
    IN  /\ pc[t] = "open"
        /\ d \in MayNotStat
        /\ \E S \in SUBSET Subdirs[d] : alloc' = alloc \cup S
        /\ hung' = hung \cup {d}
        /\ Done(t)
        /\ UNCHANGED <<pool, left, remaining, mutex, frees, ascended>>

\* the subdirectories are tracked, not enqueued yet
Scan(t) ==
    /\ pc[t] = "open"
    /\ alloc' = alloc \cup Subdirs[bu[t]]
    /\ Goto(t, "descend")
    /\ UNCHANGED <<pool, bu, left, remaining, mutex, frees, ascended, hung>>

\* the user's descend function fails
DescendFails(t) ==
    LET d == bu[t]
    IN  /\ pc[t] = "descend"
        /\ InRange(d)
        /\ d \in MayNotDescend
        /\ FreeAll(Subdirs[d] \cup {d})
        /\ hung' = hung \cup {d}
        /\ Done(t)
        /\ UNCHANGED <<pool, left, remaining, mutex, alloc, ascended>>

\* there are subdirectories to be processed first
GoDown(t) ==
    LET d == bu[t]
    IN  /\ pc[t] = "descend"
        /\ Level[d] + 1 <= MaxLevel
        /\ Subdirs[d] # {}
        /\ remaining' = [remaining EXCEPT ![d] = Cardinality(Subdirs[d])]
        /\ Goto(t, "lock")
        /\ UNCHANGED <<pool, bu, left, mutex, alloc, frees, ascended, hung>>

\* there are none, or they are not to be visited
StartUp(t) ==
    LET d == bu[t]
    IN  /\ pc[t] = "descend"
        /\ \/ Level[d] + 1 > MaxLevel
           \/ Subdirs[d] = {}
           \/ InRange(d) /\ d \in MayStop
        /\ remaining' = [remaining EXCEPT ![d] = 0]
        /\ pool' = pool \cup {Task("ascend", d, d)}
        /\ Done(t)
        /\ UNCHANGED <<left, mutex, alloc, frees, ascended, hung>>

\* mutant: the subdirectories are enqueued without the mutex
LockRefsNot(t) ==
    /\ pc[t] = "lock"
    /\ left' = [left EXCEPT ![t] = Subdirs[bu[t]]]
    /\ Goto(t, "children")
    /\ UNCHANGED <<pool, bu, remaining, mutex, alloc, frees, ascended, hung>>

LockRefs(t) ==
    /\ pc[t] = "lock"
    /\ mutex[bu[t]] = Nobody
    /\ mutex' = [mutex EXCEPT ![bu[t]] = t]
    /\ left' = [left EXCEPT ![t] = Subdirs[bu[t]]]
    /\ Goto(t, "children")
    /\ UNCHANGED <<pool, bu, remaining, alloc, frees, ascended, hung>>

EnqueueChild(t) ==
    /\ pc[t] = "children"
    /\ \E c \in left[t] :
          /\ pool' = pool \cup {Task("descend", c, c)}
          /\ left' = [left EXCEPT ![t] = @ \ {c}]
    /\ UNCHANGED <<pc, bu, remaining, mutex, alloc, frees, ascended, hung>>

UnlockRefs(t) ==
    /\ pc[t] = "children"
    /\ left[t] = {}
    /\ mutex' = [mutex EXCEPT ![bu[t]] = Nobody]
    /\ Done(t)
    /\ UNCHANGED <<pool, left, remaining, alloc, frees, ascended, hung>>

(* ascend_to_top *)

\* mutant: the first subdirectory to come back does not count
LastOfOne(d) == remaining[d] <= 2

Last(d) == remaining[d] <= 1

MinusOne(n) == IF n = 0 THEN 0 ELSE n - 1

\* under bu->refs.mutex; only the last subdirectory goes on
Decrement(t) ==
    LET d == bu[t]
    IN  /\ pc[t] = "decrement"
        /\ mutex[d] = Nobody
        /\ remaining' = [remaining EXCEPT ![d] = MinusOne(@)]
        /\ IF Last(d)
           THEN Goto(t, "ascend") /\ UNCHANGED bu
           ELSE Done(t)
        /\ UNCHANGED <<pool, left, mutex, alloc, frees, ascended, hung>>

\* the user's ascend function, whose return value only the statistics see
Ascend(t) ==
    /\ pc[t] = "ascend"
    /\ ascended' = [ascended EXCEPT ![bu[t]] = IF InRange(bu[t]) THEN @ + 1 ELSE @]
    /\ Goto(t, "cleanup")
    /\ UNCHANGED <<pool, bu, left, remaining, mutex, alloc, frees, hung>>

\* mutant: what was never visited is not freed
FreedVisited(d) == IF Level[d] + 1 > MaxLevel THEN {} ELSE Subdirs[d]

Freed(d) == Subdirs[d]

\* the subdirectories are freed, then the mutex goes
Cleanup(t) ==
    /\ pc[t] = "cleanup"
    /\ FreeAll(Freed(bu[t]))
    /\ mutex' = [mutex EXCEPT ![bu[t]] = Destroyed]
    /\ Goto(t, "up")
    /\ UNCHANGED <<pool, bu, left, remaining, alloc, ascended, hung>>

GoUp(t) ==
    /\ pc[t] = "up"
    /\ TellParent(bu[t])
    /\ Done(t)
    /\ UNCHANGED <<left, remaining, mutex, alloc, ascended, hung>>

Finished == pool = {} /\ \A t \in Threads : pc[t] = "idle"

\* parallel_bottomup_fini: the pool is stopped when all tasks have been run
Fini == Finished /\ UNCHANGED vars

Steps(t) ==
    \/ Take(t)
    \/ OpenFails(t) \/ StatFails(t) \/ Scan(t)
    \/ DescendFails(t) \/ GoDown(t) \/ StartUp(t)
    \/ LockRefs(t) \/ EnqueueChild(t) \/ UnlockRefs(t)
    \/ Decrement(t) \/ Ascend(t) \/ Cleanup(t) \/ GoUp(t)

Next == (\E t \in Threads : Steps(t)) \/ Fini

(* The pool runs every task, so every thread that can take a step does.     *)
Spec == Init /\ [][Next]_vars /\ \A t \in Threads : WF_vars(Steps(t))

-----------------------------------------------------------------------------
\* What the variables hold.
TypeOK ==
    /\ pool \subseteq [fn : {"descend", "ascend"}, dir : Dirs, by : Dirs]
    /\ pc \in [Threads -> {"idle", "open", "descend", "lock", "children",
                           "decrement", "ascend", "cleanup", "up"}]
    /\ bu \in [Threads -> Dirs \cup {Nobody}]
    /\ \A t \in Threads : (bu[t] = Nobody) <=> (pc[t] = "idle")
    /\ left \in [Threads -> SUBSET Dirs]
    /\ remaining \in [Dirs -> Nat]
    /\ mutex \in [Dirs -> Threads \cup {Nobody, Destroyed}]
    /\ alloc \subseteq Dirs
    /\ frees \in [Dirs -> Nat]
    /\ ascended \in [Dirs -> Nat]
    /\ hung \subseteq Dirs

\* The directories some thread, or some task in the pool, will still read.
Used == {task.dir : task \in pool} \cup {bu[t] : t \in {u \in Threads : pc[u] # "idle"}}
        \cup UNION {left[t] : t \in Threads}

\* No struct BottomUp is used after bottomup_destroy, before its allocation
\* or freed twice: the subdirectories are freed by their parent's ascent, in
\* another thread than the one that processed them.  Nor is refs.mutex
\* locked, or held, once ascend_to_top has destroyed it.
NoUseAfterFree ==
    /\ \A d \in Used : d \in alloc /\ frees[d] = 0
    /\ \A d \in Dirs : frees[d] <= 1
    /\ \A t \in Threads : pc[t] \in {"lock", "children", "decrement"} =>
          mutex[bu[t]] # Destroyed

\* "Returning from the bottom does not happen until all subdirectories in
\* the current subtree have been processed" (BottomUp.h): while a directory
\* ascends, nothing below it is queued or being worked on, and it ascends at
\* most once.
SubtreeIsDone ==
    /\ \A t \in Threads : pc[t] \in {"ascend", "cleanup", "up"} =>
          Below[bu[t]] \cap Used = {}
    /\ \A d \in Dirs : ascended[d] <= 1

\* A directory that has been visited ascends in the end, unless a directory
\* below it has failed on the way down: a failing opendir, a descend function that does not want to go on and the level
\* bounds keep no directory from ascending, and one that failed keeps its
\* ancestors from it but nobody else.
AscendsUnlessHung ==
    \A d \in Dirs :
        (\E t \in Threads : bu[t] = d /\ pc[t] \in {"lock", "children"})
            ~> (IF Below[d] \cap hung # {} THEN ascended[d] = 0
                ELSE InRange(d) => ascended[d] = 1)

\* The walk ends, with everything that was allocated freed unless a directory
\* has failed on the way down.
NothingLeaks ==
    <>[](Finished /\ (hung = {} => \A d \in alloc : frees[d] = 1))
=============================================================================
