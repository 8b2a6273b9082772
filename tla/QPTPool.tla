------------------------------ MODULE QPTPool -------------------------------
(***************************************************************************)
(* The QueuePerThreadPool of GUFI (src/src/QueuePerThreadPool.c and        *)
(* swap.c): one waiting queue, one claimed queue and one swap file per     *)
(* worker thread, round-robin enqueueing, work stealing, swapping to a     *)
(* file system, and stopping on the first error.                           *)
(*                                                                         *)
(* One step is one critical section, or the part of a longer one between   *)
(* two lock operations.  data[i].mutex and pool->mutex are explicit.       *)
(* data[i].claimed_mutex is a leaf lock (nothing is locked under it), so   *)
(* each of its sections is one step; a section that is one step may still  *)
(* be in progress, which is when another thread's trylock fails.           *)
(***************************************************************************)
EXTENDS Integers, Sequences, Functions

CONSTANTS
    NThreads,       \* pool->nthreads
    Items,          \* the work items of the client
    Roots,          \* the items main() may enqueue
    HereItems,      \* the items main() may enqueue with QPTPool_enqueue_here
    HereId,         \* the thread it asks to process them
    Spawns,         \* the items the user function enqueues, per item
    Swappable,      \* the items enqueued with QPTPool_enqueue_swappable
    MayFail,        \* the items whose user function may return non-zero
    Props,          \* the properties the pool can be initialized with
    Settings,       \* the values the QPTPool_set_* functions are called with
    StartMayFail,   \* pthread_create may fail
    SwapMayFail,    \* opening or writing a swap file may fail
    Spurious,       \* pthread_cond_wait may return without a broadcast
    LteCounts,      \* the counts QPTPool_wait_mem_lte is called with
    MaxStarts,      \* bound on the calls of QPTPool_start
    CountBound,     \* the per-thread statistics saturate at this value
    Main,           \* the thread that owns the pool
    Free,           \* a mutex nobody holds
    Token,          \* the work item QPTPool_wait_swapped_once
    NoItem          \* NULL

Workers == 0 .. NThreads - 1
Procs   == Workers \cup {Main}
Work    == Items \cup {Token}
Settable == {"next", "queue_limit", "swap_prefix", "steal", "stop_on_error"}
PropType == [next : {"round_robin", "any"}, queue_limit : Nat,
             num : Nat, denom : Nat, stop_on_error : BOOLEAN]

ASSUME ThreadsAssumption ==
    /\ NThreads \in Nat \ {0}
    /\ Main \notin Workers
    /\ Free \notin Workers \cup {Main}
ASSUME ItemsAssumption ==
    /\ Token \notin Items
    /\ NoItem \notin Items \cup {Token}
    /\ Roots \subseteq Items
    /\ HereItems \subseteq Items \ Roots
    /\ HereId \in [HereItems -> Workers]
    /\ Swappable \subseteq Items
    /\ MayFail \subseteq Items
    /\ Spawns \in [Items -> Seq(Items)]
\* Every call of an enqueue function is given a work item of its own: an item
\* is enqueued by main() or by one user function, and there once.
ASSUME OwnItemAssumption ==
    /\ \A i, j \in Items : \A k \in DOMAIN Spawns[i] : \A l \in DOMAIN Spawns[j] :
           Spawns[i][k] = Spawns[j][l] => i = j /\ k = l
    /\ \A i \in Items : \A k \in DOMAIN Spawns[i] : Spawns[i][k] \notin Roots \cup HereItems
ASSUME PropsAssumption ==
    /\ Props \subseteq PropType
    /\ \A p \in Props : p.num > 0 => p.denom > 0
    /\ Settings \subseteq Settable \X PropType
    /\ \A s \in Settings : s[2].num > 0 => s[2].denom > 0
ASSUME BoundsAssumption ==
    /\ MaxStarts \in Nat
    /\ LteCounts \subseteq Nat
    /\ CountBound \in Nat
    /\ {StartMayFail, SwapMayFail, Spurious} \subseteq BOOLEAN

VARIABLES
    pc,             \* where every thread is
    tmutex,         \* holder of data[i].mutex
    pmutex,         \* holder of pool->mutex
    waiting,        \* data[i].waiting
    claimed,        \* data[i].claimed
    next_queue,     \* data[i].next_queue
    steal_from,     \* data[i].steal_from
    swap_write,     \* the items in data[i].swap.write
    swap_open,      \* data[i].swap.write.fd is open
    swap_read,      \* the items of data[i].swap.read still to be read
    props,          \* the settable members of the pool
    state,          \* pool->state
    incomplete,     \* pool->incomplete
    swapped,        \* pool->swapped
    errored,        \* pool->errored
    qi,             \* process_work: the item being processed
    todo,           \* what its user function has yet to enqueue
    new_work,       \* QPTPool_enqueue*: the argument
    target,         \* QPTPool_enqueue*: the thread pushed to
    queue,          \* QPTPool_enqueue_here: its argument, or "auto"
    idx,            \* loop index
    work_count,     \* process_work: items processed so far
    count,          \* wait_swapped_once: items read so far
    call,           \* what main() is in: "user", "wait_mem", "wait", "stop"
    started,        \* QPTPool_stop_threads: the threads to join
    starts,         \* calls of QPTPool_start so far
    lte,            \* QPTPool_wait_mem_lte: its argument count
    threads_started,
    threads_successful,
    \* history variables: no guard of the code reads them
    accepted,       \* the items an enqueue has accepted
    runs,           \* how often the user function was called, per item
    swap_lost       \* swapped items were lost to a failing swap file

lockVars  == <<tmutex, pmutex>>
queueVars == <<waiting, claimed>>
turnVars  == <<next_queue, steal_from>>
swapVars  == <<swap_write, swap_open, swap_read>>
poolVars  == <<props, state, incomplete, swapped, errored>>
itemVars  == <<qi, todo, work_count, count>>
enqVars   == <<new_work, target, queue>>
mainVars  == <<call, started, starts, lte>>
statVars  == <<threads_started, threads_successful>>
histVars  == <<accepted, runs, swap_lost>>
vars == <<pc, lockVars, queueVars, turnVars, swapVars, poolVars, itemVars,
          enqVars, idx, mainVars, statVars, histVars>>

WorkerPC == {"idle", "lock", "pool", "steal_waiting", "steal_claimed",
             "wait", "asleep", "woken", "relock", "claim", "pop", "run",
             "error", "account", "exit", "gone", "swap_prep", "swap_read"}
EnqueuePC == {"enqueue", "here", "target", "place", "wake"}
MainPC == {"user", "wait_mem", "wait_mem_asleep", "wait_swapped",
           "set_stopping", "stop_wake", "join", "destroyed"}

Own(p) == IF p = Main THEN 0 ELSE p         \* main() uses ctx[0]
StoppedOnError == props.stop_on_error /\ errored
Cap(n) == IF n > CountBound THEN CountBound ELSE n

-----------------------------------------------------------------------------
(* QPTPool_init_with_props.                                                 *)

Init ==
    /\ pc = [p \in Procs |-> IF p = Main THEN "user" ELSE "idle"]
    /\ tmutex = [w \in Workers |-> Free]
    /\ pmutex = Free
    /\ waiting = [w \in Workers |-> <<>>]
    /\ claimed = [w \in Workers |-> <<>>]
    /\ next_queue = [w \in Workers |-> w]
    /\ steal_from = [w \in Workers |-> w]
    /\ props \in Props
    /\ swap_write = [w \in Workers |-> <<>>]
    /\ swap_open = [w \in Workers |-> props.queue_limit > 0]
    /\ swap_read = [w \in Workers |-> <<>>]
    /\ state = "INITIALIZED"
    /\ incomplete = 0
    /\ swapped = 0
    /\ errored = FALSE
    /\ qi = [w \in Workers |-> NoItem]
    /\ todo = [w \in Workers |-> <<>>]
    /\ new_work = [p \in Procs |-> NoItem]
    /\ target = [p \in Procs |-> 0]
    /\ queue = [p \in Procs |-> "auto"]
    /\ idx = [p \in Procs |-> 0]
    /\ work_count = [w \in Workers |-> 0]
    /\ count = [w \in Workers |-> 0]
    /\ call = "user"
    /\ started = 0
    /\ starts = 0
    /\ lte = 0
    /\ threads_started = [w \in Workers |-> 0]
    /\ threads_successful = [w \in Workers |-> 0]
    /\ accepted = {}
    /\ runs = [i \in Items |-> 0]
    /\ swap_lost = FALSE

-----------------------------------------------------------------------------
(* Condition variables.  A thread blocked in pthread_cond_wait is asleep    *)
(* until a broadcast makes it one that competes for the mutex again.        *)

Goto(p, l) == pc' = [pc EXCEPT ![p] = l]

\* mutant: the broadcast is forgotten
SilentWoken(w) == pc

\* pc after pthread_cond_broadcast(&data[w].cv)
Woken(w) == [pc EXCEPT ![w] = IF @ = "asleep" THEN "woken" ELSE @]

\* mutant: the broadcast is forgotten
SilentMainWoken == pc

\* pc after pthread_cond_broadcast(&pool->cv)
MainWoken == [pc EXCEPT ![Main] = IF @ = "wait_mem_asleep" THEN "wait_mem" ELSE @]

-----------------------------------------------------------------------------
(* QPTPool_enqueue, QPTPool_enqueue_swappable and QPTPool_enqueue_here, by  *)
(* main() or by a user function running in a worker.                        *)

\* QPTPool_wait enqueues one Token per thread
MoreTokens(p) == p = Main /\ new_work[p] = Token /\ target[p] + 1 < NThreads

\* the work in hand was read from a swap file by QPTPool_wait_swapped_once
Rereading(p) == p \in Workers /\ qi[p] = Token

\* an enqueue returns to its caller; awake is pc after the broadcast, if any
Return(p, awake) ==
    /\ pc' = [awake EXCEPT ![p] =
                 IF MoreTokens(p) THEN "here"
                 ELSE IF p = Main THEN (IF call = "user" THEN "user" ELSE "wait_mem")
                 ELSE IF Rereading(p) THEN "swap_read"
                 ELSE "run"]
    /\ new_work' = [new_work EXCEPT ![p] = IF MoreTokens(p) THEN @ ELSE NoItem]
    /\ target' = [target EXCEPT ![p] = IF MoreTokens(p) THEN @ + 1 ELSE 0]
    /\ queue' = [queue EXCEPT ![p] = IF MoreTokens(p) THEN @ ELSE "auto"]

\* mutant: the round robin does not wrap around
NextQueueNoWrap(prev) == {prev + 1}

\* QPTPool_round_robin, or a user's function: any thread
NextQueue(prev) ==
    IF props.next = "round_robin"
    THEN {IF prev + 1 = NThreads THEN 0 ELSE prev + 1}
    ELSE Workers

\* the section under the mutex of the caller's own thread
Enqueue(p) ==
    /\ pc[p] = "enqueue"
    /\ tmutex[Own(p)] = Free
    /\ IF StoppedOnError
       THEN /\ Return(p, pc)
            /\ UNCHANGED next_queue
       ELSE /\ target' = [target EXCEPT ![p] = next_queue[Own(p)]]
            /\ \E n \in NextQueue(next_queue[Own(p)]) :
                  next_queue' = [next_queue EXCEPT ![Own(p)] = n]
            /\ Goto(p, "target")
            /\ UNCHANGED <<new_work, queue>>
    /\ UNCHANGED <<lockVars, queueVars, steal_from, swapVars, poolVars, itemVars,
                   idx, mainVars, statVars, histVars>>

\* pthread_mutex_lock(&next->mutex)
LockTarget(p) ==
    /\ pc[p] = "target"
    /\ tmutex[target[p]] = Free
    /\ tmutex' = [tmutex EXCEPT ![target[p]] = p]
    /\ Goto(p, "place")
    /\ UNCHANGED <<pmutex, queueVars, turnVars, swapVars, poolVars, itemVars, enqVars,
                   idx, mainVars, statVars, histVars>>

\* QPTPool_enqueue_here checks for errors under the mutex of the target
LockHere(p) ==
    /\ pc[p] = "here"
    /\ tmutex[target[p]] = Free
    /\ IF StoppedOnError
       THEN /\ Return(p, pc)
            /\ UNCHANGED tmutex
       ELSE /\ tmutex' = [tmutex EXCEPT ![target[p]] = p]
            /\ Goto(p, "place")
            /\ UNCHANGED enqVars
    /\ UNCHANGED <<pmutex, queueVars, turnVars, swapVars, poolVars, itemVars,
                   idx, mainVars, statVars, histVars>>

GoesToSwap(p) ==
    LET i == new_work[p]
    IN  CASE queue[p] = "WAIT" -> FALSE
          [] queue[p] = "SWAP" -> TRUE
          [] queue[p] = "auto" -> /\ i \in Swappable
                                  /\ props.queue_limit > 0
                                  /\ Len(waiting[target[p]]) >= props.queue_limit

Accepted(i) == accepted' = IF i = Token THEN accepted ELSE accepted \cup {i}

\* sll_push_back, and pool->incomplete++ under pool->mutex
PlaceInMemory(p) ==
    /\ pc[p] = "place"
    /\ ~GoesToSwap(p)
    /\ pmutex = Free
    /\ waiting' = [waiting EXCEPT ![target[p]] = Append(@, new_work[p])]
    /\ incomplete' = incomplete + 1
    /\ Accepted(new_work[p])
    /\ Goto(p, "wake")
    /\ UNCHANGED <<lockVars, claimed, turnVars, swapVars, props, state, swapped, errored,
                   itemVars, enqVars, idx, mainVars, statVars, runs, swap_lost>>

\* write_swap, and pool->swapped++ under pool->mutex
PlaceInSwap(p) ==
    /\ pc[p] = "place"
    /\ GoesToSwap(p)
    /\ swap_open[target[p]]
    /\ pmutex = Free
    /\ swap_write' = [swap_write EXCEPT ![target[p]] = Append(@, new_work[p])]
    /\ swapped' = swapped + 1
    /\ Accepted(new_work[p])
    /\ Goto(p, "wake")
    /\ UNCHANGED <<lockVars, queueVars, turnVars, swap_open, swap_read, props, state,
                   incomplete, errored, itemVars, enqVars, idx, mainVars, statVars,
                   runs, swap_lost>>

\* write_swap fails, and leaves the file as it was
PlaceFails(p) ==
    /\ pc[p] = "place"
    /\ GoesToSwap(p)
    /\ SwapMayFail \/ ~swap_open[target[p]]
    /\ swap_lost' = (swap_lost \/ Rereading(p))
    /\ Goto(p, "wake")
    /\ UNCHANGED <<lockVars, queueVars, turnVars, swapVars, poolVars, itemVars, enqVars,
                   idx, mainVars, statVars, accepted, runs>>

\* pthread_cond_broadcast(&next->cv), pthread_mutex_unlock(&next->mutex)
WakeTarget(p) ==
    /\ pc[p] = "wake"
    /\ tmutex' = [tmutex EXCEPT ![target[p]] = Free]
    /\ Return(p, Woken(target[p]))
    /\ UNCHANGED <<pmutex, queueVars, turnVars, swapVars, poolVars, itemVars,
                   idx, mainVars, statVars, histVars>>

-----------------------------------------------------------------------------
(* worker_function: the top of the loop and maybe_steal_work.               *)

LockThread(w) ==
    /\ pc[w] = "lock"
    /\ tmutex[w] = Free
    /\ tmutex' = [tmutex EXCEPT ![w] = w]
    /\ Goto(w, "pool")
    /\ UNCHANGED <<pmutex, queueVars, turnVars, swapVars, poolVars, itemVars, enqVars,
                   idx, mainVars, statVars, histVars>>

MaySteal(w) ==
    /\ props.num > 0
    /\ NThreads > 1
    /\ waiting[w] = <<>>
    /\ incomplete # 0

LockPool(w) ==
    /\ pc[w] = "pool"
    /\ pmutex = Free
    /\ pmutex' = w
    /\ idx' = [idx EXCEPT ![w] = 0]
    /\ Goto(w, IF MaySteal(w) THEN "steal_waiting" ELSE "wait")
    /\ UNCHANGED <<tmutex, queueVars, turnVars, swapVars, poolVars, itemVars, enqVars,
                   mainVars, statVars, histVars>>

Neighbor(w) == (steal_from[w] + idx[w]) % NThreads

\* a trylock of data[v].mutex fails: it is held, or a section that is one
\* step of this specification is in progress
ThreadMutexBusy(v) ==
    \/ tmutex[v] # Free
    \/ \E p \in Procs :
          \/ pc[p] = "enqueue" /\ Own(p) = v
          \/ pc[p] = "here" /\ target[p] = v
          \/ pc[p] = "swap_prep" /\ p = v
          \/ pc[p] \in {"exit", "stop_wake"} /\ idx[p] = v

\* pool->mutex is held, so only the owner can hold data[v].claimed_mutex
ClaimedMutexBusy(v) == pc[v] \in {"claim", "pop"}

\* sll_move_append_first: how many of size items a thief takes
Take(size) ==
    LET n == (size * props.num) \div props.denom
    IN  IF n >= size THEN size ELSE IF n > 1 THEN n ELSE 1

First(q) == SubSeq(q, 1, Take(Len(q)))

\* mutant: the stolen items stay behind
RestAll(q) == q

Rest(q)  == SubSeq(q, Take(Len(q)) + 1, Len(q))

AdvanceStealFrom(w) == steal_from' = [steal_from EXCEPT ![w] = (@ + 1) % NThreads]

\* nothing to take from this neighbour: go on to the next, to the claimed
\* queues, or to wait_for_work
StealNothing(w) ==
    LET v == Neighbor(w)
        last == idx[w] + 1 = NThreads
    IN  /\ pc[w] \in {"steal_waiting", "steal_claimed"}
        /\ \/ v = w
           \/ /\ pc[w] = "steal_waiting"
              /\ ThreadMutexBusy(v) \/ waiting[v] = <<>>
           \/ /\ pc[w] = "steal_claimed"
              /\ ClaimedMutexBusy(v) \/ claimed[v] = <<>>
        /\ idx' = [idx EXCEPT ![w] = IF last THEN 0 ELSE @ + 1]
        /\ Goto(w, CASE ~last -> pc[w]
                     [] last /\ pc[w] = "steal_waiting" -> "steal_claimed"
                     [] last /\ pc[w] = "steal_claimed" -> "wait")
        /\ IF last /\ pc[w] = "steal_claimed"
           THEN AdvanceStealFrom(w)
           ELSE UNCHANGED steal_from
        /\ UNCHANGED <<lockVars, queueVars, next_queue, swapVars, poolVars, itemVars,
                       enqVars, mainVars, statVars, histVars>>

StealWaiting(w) ==
    LET v == Neighbor(w)
    IN  /\ pc[w] = "steal_waiting"
        /\ v # w
        /\ tmutex[v] = Free
        /\ waiting[v] # <<>>
        /\ waiting' = [waiting EXCEPT ![w] = @ \o First(waiting[v]),
                                      ![v] = Rest(@)]
        /\ AdvanceStealFrom(w)
        /\ idx' = [idx EXCEPT ![w] = 0]
        /\ Goto(w, "wait")
        /\ UNCHANGED <<lockVars, claimed, next_queue, swapVars, poolVars, itemVars,
                       enqVars, mainVars, statVars, histVars>>

StealClaimed(w) ==
    LET v == Neighbor(w)
    IN  /\ pc[w] = "steal_claimed"
        /\ v # w
        /\ claimed[v] # <<>>
        /\ waiting' = [waiting EXCEPT ![w] = @ \o First(claimed[v])]
        /\ claimed' = [claimed EXCEPT ![v] = Rest(@)]
        /\ AdvanceStealFrom(w)
        /\ idx' = [idx EXCEPT ![w] = 0]
        /\ Goto(w, "wait")
        /\ UNCHANGED <<lockVars, next_queue, swapVars, poolVars, itemVars,
                       enqVars, mainVars, statVars, histVars>>

-----------------------------------------------------------------------------
(* wait_for_work, claim_work and process_work.                              *)

Outstanding == incomplete # 0 \/ swapped # 0
HasWork(w)  == claimed[w] # <<>> \/ waiting[w] # <<>>

KeepWaiting(w) ==
    /\ ~StoppedOnError
    /\ \/ state = "RUNNING" /\ ~(Outstanding /\ HasWork(w))
       \/ state = "STOPPING" /\ Outstanding /\ ~HasWork(w)

\* unlocks pool->mutex and sleeps in pthread_cond_wait(&tw->cv, &tw->mutex)
Sleep(w) ==
    /\ pc[w] = "wait"
    /\ KeepWaiting(w)
    /\ pmutex' = Free
    /\ tmutex' = [tmutex EXCEPT ![w] = Free]
    /\ Goto(w, "asleep")
    /\ UNCHANGED <<queueVars, turnVars, swapVars, poolVars, itemVars, enqVars,
                   idx, mainVars, statVars, histVars>>

SpuriousWakeup(w) ==
    /\ Spurious
    /\ pc[w] = "asleep"
    /\ Goto(w, "woken")
    /\ UNCHANGED <<lockVars, queueVars, turnVars, swapVars, poolVars, itemVars, enqVars,
                   idx, mainVars, statVars, histVars>>

\* pthread_cond_wait returns with tw->mutex
Reacquire(w) ==
    /\ pc[w] = "woken"
    /\ tmutex[w] = Free
    /\ tmutex' = [tmutex EXCEPT ![w] = w]
    /\ Goto(w, "relock")
    /\ UNCHANGED <<pmutex, queueVars, turnVars, swapVars, poolVars, itemVars, enqVars,
                   idx, mainVars, statVars, histVars>>

\* and pool->mutex is locked again, without another attempt to steal
Relock(w) ==
    /\ pc[w] = "relock"
    /\ pmutex = Free
    /\ pmutex' = w
    /\ Goto(w, "wait")
    /\ UNCHANGED <<tmutex, queueVars, turnVars, swapVars, poolVars, itemVars, enqVars,
                   idx, mainVars, statVars, histVars>>

MustExit == StoppedOnError \/ (state = "STOPPING" /\ ~Outstanding)

Leave(w) ==
    /\ pc[w] = "wait"
    /\ ~KeepWaiting(w)
    /\ MustExit
    /\ pmutex' = Free
    /\ tmutex' = [tmutex EXCEPT ![w] = Free]
    /\ idx' = [idx EXCEPT ![w] = 0]
    /\ Goto(w, "exit")
    /\ UNCHANGED <<queueVars, turnVars, swapVars, poolVars, itemVars, enqVars,
                   mainVars, statVars, histVars>>

Proceed(w) ==
    /\ pc[w] = "wait"
    /\ ~KeepWaiting(w)
    /\ ~MustExit
    /\ pmutex' = Free
    /\ Goto(w, "claim")
    /\ UNCHANGED <<tmutex, queueVars, turnVars, swapVars, poolVars, itemVars, enqVars,
                   idx, mainVars, statVars, histVars>>

ClaimWork(w) ==
    /\ pc[w] = "claim"
    /\ claimed' = [claimed EXCEPT ![w] = @ \o waiting[w]]
    /\ waiting' = [waiting EXCEPT ![w] = <<>>]
    /\ tmutex' = [tmutex EXCEPT ![w] = Free]
    /\ Goto(w, "pop")
    /\ UNCHANGED <<pmutex, turnVars, swapVars, poolVars, itemVars, enqVars,
                   idx, mainVars, statVars, histVars>>

PopWork(w) ==
    /\ pc[w] = "pop"
    /\ claimed[w] # <<>>
    /\ LET i == Head(claimed[w])
       IN  /\ qi' = [qi EXCEPT ![w] = i]
           /\ todo' = [todo EXCEPT ![w] = IF i = Token THEN <<>> ELSE Spawns[i]]
           /\ runs' = IF i = Token THEN runs ELSE [runs EXCEPT ![i] = @ + 1]
           /\ Goto(w, IF i = Token THEN "swap_prep" ELSE "run")
    /\ claimed' = [claimed EXCEPT ![w] = Tail(@)]
    /\ UNCHANGED <<lockVars, waiting, turnVars, swapVars, poolVars, work_count, count,
                   enqVars, idx, mainVars, statVars, accepted, swap_lost>>

\* mutant: every thread stops as soon as there has been an error
PopAfterError(w) ==
    /\ pc[w] = "pop"
    /\ claimed[w] = <<>> \/ StoppedOnError
    /\ Goto(w, "account")
    /\ UNCHANGED <<lockVars, queueVars, turnVars, swapVars, poolVars, itemVars, enqVars,
                   idx, mainVars, statVars, histVars>>

PopNothing(w) ==
    /\ pc[w] = "pop"
    /\ claimed[w] = <<>>
    /\ Goto(w, "account")
    /\ UNCHANGED <<lockVars, queueVars, turnVars, swapVars, poolVars, itemVars, enqVars,
                   idx, mainVars, statVars, histVars>>

\* the user function enqueues the next item it found
Spawn(w) ==
    /\ pc[w] = "run"
    /\ todo[w] # <<>>
    /\ new_work' = [new_work EXCEPT ![w] = Head(todo[w])]
    /\ todo' = [todo EXCEPT ![w] = Tail(@)]
    /\ Goto(w, "enqueue")
    /\ UNCHANGED <<lockVars, queueVars, turnVars, swapVars, poolVars, qi, work_count, count,
                   target, queue, idx, mainVars, statVars, histVars>>

\* mutant: a failed item is not counted
ProcessedUncounted(w, rc) ==
    /\ qi' = [qi EXCEPT ![w] = NoItem]
    /\ todo' = [todo EXCEPT ![w] = <<>>]
    /\ work_count' = [work_count EXCEPT ![w] = IF rc = 0 THEN @ + 1 ELSE @]
    /\ threads_successful' = [threads_successful EXCEPT ![w] =
                                 IF rc = 0 THEN Cap(@ + 1) ELSE @]

\* the function of the item returns rc; the caller gives pc and count
Processed(w, rc) ==
    /\ qi' = [qi EXCEPT ![w] = NoItem]
    /\ todo' = [todo EXCEPT ![w] = <<>>]
    /\ work_count' = [work_count EXCEPT ![w] = @ + 1]
    /\ threads_successful' = [threads_successful EXCEPT ![w] =
                                 IF rc = 0 THEN Cap(@ + 1) ELSE @]

RunSucceeds(w) ==
    /\ pc[w] = "run"
    /\ todo[w] = <<>>
    /\ Processed(w, 0)
    /\ Goto(w, "pop")
    /\ UNCHANGED <<lockVars, queueVars, turnVars, swapVars, poolVars, count, enqVars,
                   idx, mainVars, threads_started, histVars>>

\* a user function may give up before it has enqueued everything
RunFails(w) ==
    /\ pc[w] = "run"
    /\ qi[w] \in MayFail
    /\ Processed(w, 1)
    /\ Goto(w, IF props.stop_on_error THEN "error" ELSE "pop")
    /\ UNCHANGED <<lockVars, queueVars, turnVars, swapVars, poolVars, count, enqVars,
                   idx, mainVars, threads_started, histVars>>

SetErrored(w) ==
    /\ pc[w] = "error"
    /\ pmutex = Free
    /\ errored' = TRUE
    /\ Goto(w, "account")
    /\ UNCHANGED <<lockVars, queueVars, turnVars, swapVars, props, state, incomplete,
                   swapped, itemVars, enqVars, idx, mainVars, statVars, histVars>>

Account(w) ==
    /\ pc[w] = "account"
    /\ pmutex = Free
    /\ threads_started' = [threads_started EXCEPT ![w] = Cap(@ + work_count[w])]
    /\ incomplete' = incomplete - work_count[w]
    /\ work_count' = [work_count EXCEPT ![w] = 0]
    /\ pc' = [MainWoken EXCEPT ![w] = "lock"]
    /\ UNCHANGED <<lockVars, queueVars, turnVars, swapVars, props, state, swapped, errored,
                   qi, todo, count, enqVars, idx, mainVars, threads_successful, histVars>>

\* signal all threads to loop
ExitBroadcast(w) ==
    LET i == idx[w]
        last == i + 1 = NThreads
    IN  /\ pc[w] = "exit"
        /\ tmutex[i] = Free
        /\ pc' = [Woken(i) EXCEPT ![w] = IF last THEN "gone" ELSE "exit"]
        /\ idx' = [idx EXCEPT ![w] = IF last THEN 0 ELSE @ + 1]
        /\ UNCHANGED <<lockVars, queueVars, turnVars, swapVars, poolVars, itemVars,
                       enqVars, mainVars, statVars, histVars>>

-----------------------------------------------------------------------------
(* QPTPool_wait_swapped_once, run by whichever worker processes the Token   *)
(* on that worker's own swap file, and swap.c.                              *)

\* swap_read_prep: nothing to read
SwapEmpty(w) ==
    /\ pc[w] = "swap_prep"
    /\ tmutex[w] = Free
    /\ swap_write[w] = <<>>
    /\ swap_read' = [swap_read EXCEPT ![w] = <<>>]
    /\ Processed(w, 0)
    /\ Goto(w, "pop")
    /\ UNCHANGED <<lockVars, queueVars, turnVars, swap_write, swap_open, poolVars, count,
                   enqVars, idx, mainVars, threads_started, histVars>>

\* swap_read_prep: read from the file written so far, write to a new one
SwapPrep(w) ==
    /\ pc[w] = "swap_prep"
    /\ tmutex[w] = Free
    /\ swap_write[w] # <<>>
    /\ swap_read' = [swap_read EXCEPT ![w] = swap_write[w]]
    /\ swap_write' = [swap_write EXCEPT ![w] = <<>>]
    /\ Goto(w, "swap_read")
    /\ UNCHANGED <<lockVars, queueVars, turnVars, swap_open, poolVars, itemVars, enqVars,
                   idx, mainVars, statVars, histVars>>

\* swap_read_prep: no new file, and what was written is not read either
SwapPrepFails(w) ==
    /\ SwapMayFail
    /\ pc[w] = "swap_prep"
    /\ tmutex[w] = Free
    /\ swap_write[w] # <<>>
    /\ swap_read' = [swap_read EXCEPT ![w] = <<>>]
    /\ swap_write' = [swap_write EXCEPT ![w] = <<>>]
    /\ swap_open' = [swap_open EXCEPT ![w] = FALSE]
    /\ swap_lost' = TRUE
    /\ Processed(w, 0)
    /\ Goto(w, "pop")
    /\ UNCHANGED <<lockVars, queueVars, turnVars, poolVars, count, enqVars,
                   idx, mainVars, threads_started, accepted, runs>>

\* read_swap and QPTPool_enqueue_swappable
SwapRead(w) ==
    /\ pc[w] = "swap_read"
    /\ swap_read[w] # <<>>
    /\ new_work' = [new_work EXCEPT ![w] = Head(swap_read[w])]
    /\ swap_read' = [swap_read EXCEPT ![w] = Tail(@)]
    /\ count' = [count EXCEPT ![w] = @ + 1]
    /\ Goto(w, "enqueue")
    /\ UNCHANGED <<lockVars, queueVars, turnVars, swap_write, swap_open, poolVars,
                   qi, todo, work_count, target, queue, idx, mainVars, statVars, histVars>>

\* pool->swapped -= count, swap_read_done
SwapDone(w) ==
    /\ pc[w] = "swap_read"
    /\ swap_read[w] = <<>>
    /\ pmutex = Free
    /\ swapped' = swapped - count[w]
    /\ count' = [count EXCEPT ![w] = 0]
    /\ Processed(w, 0)
    /\ Goto(w, "pop")
    /\ UNCHANGED <<lockVars, queueVars, turnVars, swapVars, props, state, incomplete, errored,
                   enqVars, idx, mainVars, threads_started, histVars>>

-----------------------------------------------------------------------------
(* main(): the owner of the pool, which calls the functions of the header   *)
(* in any order its contract allows.                                        *)

DropsSwap(member) == member \in {"queue_limit", "swap_prefix"}

\* the QPTPool_set_* functions do nothing once the pool has been started
Set(member, new) ==
    /\ pc[Main] = "user"
    /\ pmutex = Free
    /\ state = "INITIALIZED"
    /\ <<member, new>> \in Settings
    /\ props' = CASE member = "next"          -> [props EXCEPT !.next = new.next]
                  [] member = "queue_limit"   -> [props EXCEPT !.queue_limit = new.queue_limit]
                  [] member = "swap_prefix"   -> props
                  [] member = "steal"         -> [props EXCEPT !.num = new.num,
                                                               !.denom = new.denom]
                  [] member = "stop_on_error" -> [props EXCEPT !.stop_on_error = TRUE]
    /\ swapped' = IF DropsSwap(member) THEN 0 ELSE swapped
    /\ IF member = "queue_limit" \/ (member = "swap_prefix" /\ props.queue_limit > 0)
       THEN /\ swap_write' = [w \in Workers |-> <<>>]
            /\ swap_open' \in IF props'.queue_limit = 0 THEN {[w \in Workers |-> FALSE]}
                              ELSE IF SwapMayFail THEN [Workers -> BOOLEAN]
                              ELSE {[w \in Workers |-> TRUE]}
       ELSE UNCHANGED <<swap_write, swap_open>>
    /\ UNCHANGED <<pc, lockVars, queueVars, turnVars, swap_read, state, incomplete, errored,
                   itemVars, enqVars, idx, mainVars, statVars, histVars>>

UserEnqueue(i) ==
    /\ pc[Main] = "user"
    /\ i \in Roots \ accepted
    /\ new_work' = [new_work EXCEPT ![Main] = i]
    /\ Goto(Main, "enqueue")
    /\ UNCHANGED <<lockVars, queueVars, turnVars, swapVars, poolVars, itemVars,
                   target, queue, idx, mainVars, statVars, histVars>>

UserEnqueueHere(i, q) ==
    /\ pc[Main] = "user"
    /\ i \in HereItems \ accepted
    /\ q = "SWAP" => i \in Swappable
    /\ new_work' = [new_work EXCEPT ![Main] = i]
    /\ target' = [target EXCEPT ![Main] = HereId[i]]
    /\ queue' = [queue EXCEPT ![Main] = q]
    /\ Goto(Main, "here")
    /\ UNCHANGED <<lockVars, queueVars, turnVars, swapVars, poolVars, itemVars,
                   idx, mainVars, statVars, histVars>>

\* QPTPool_start creates k threads; when that is not all of them it stops
\* the ones that it has created
Start(k) ==
    /\ pc[Main] = "user"
    /\ pmutex = Free
    /\ state # "RUNNING"
    /\ starts < MaxStarts
    /\ k = NThreads \/ StartMayFail
    /\ state' = "RUNNING"
    /\ starts' = starts + 1
    /\ started' = k
    /\ call' = IF k = NThreads THEN "user" ELSE "stop"
    /\ pc' = [p \in Procs |->
                 IF p = Main THEN (IF k = NThreads THEN "user" ELSE "wait_mem")
                 ELSE IF p < k THEN "lock" ELSE pc[p]]
    /\ UNCHANGED <<lockVars, queueVars, turnVars, swapVars, props, incomplete, swapped,
                   errored, itemVars, enqVars, idx, lte, statVars, histVars>>

\* QPTPool_wait_mem_lte, QPTPool_wait and QPTPool_stop; they return at once
\* unless the pool is running
UserWait(c, n) ==
    /\ pc[Main] = "user"
    /\ state = "RUNNING"
    /\ n > 0 => c = "wait_mem"
    /\ call' = c
    /\ lte' = n
    /\ Goto(Main, "wait_mem")
    /\ UNCHANGED <<lockVars, queueVars, turnVars, swapVars, poolVars, itemVars, enqVars,
                   idx, started, starts, statVars, histVars>>

\* mutant: off by one
StillInMemoryButOne == ~StoppedOnError /\ state = "RUNNING" /\ incomplete > lte + 1

StillInMemory == ~StoppedOnError /\ state = "RUNNING" /\ incomplete > lte

\* QPTPool_wait_mem_lte(ctx, lte): sleep in pthread_cond_wait, or return
WaitMem ==
    /\ pc[Main] = "wait_mem"
    /\ pmutex = Free
    /\ Goto(Main, CASE StillInMemory -> "wait_mem_asleep"
                    [] ~StillInMemory /\ call = "wait_mem" -> "user"
                    [] ~StillInMemory /\ call # "wait_mem" -> "wait_swapped")
    /\ IF ~StillInMemory /\ call = "wait_mem"
       THEN call' = "user" /\ lte' = 0
       ELSE UNCHANGED <<call, lte>>
    /\ UNCHANGED <<lockVars, queueVars, turnVars, swapVars, poolVars, itemVars, enqVars,
                   idx, started, starts, statVars, histVars>>

SpuriousMainWakeup ==
    /\ Spurious
    /\ pc[Main] = "wait_mem_asleep"
    /\ Goto(Main, "wait_mem")
    /\ UNCHANGED <<lockVars, queueVars, turnVars, swapVars, poolVars, itemVars, enqVars,
                   idx, mainVars, statVars, histVars>>

\* QPTPool_wait: while (pool->swapped) every thread is to read its swap
SwapRound ==
    /\ pc[Main] = "wait_swapped"
    /\ pmutex = Free
    /\ swapped # 0
    /\ new_work' = [new_work EXCEPT ![Main] = Token]
    /\ target' = [target EXCEPT ![Main] = 0]
    /\ queue' = [queue EXCEPT ![Main] = "WAIT"]
    /\ Goto(Main, "here")
    /\ UNCHANGED <<lockVars, queueVars, turnVars, swapVars, poolVars, itemVars,
                   idx, mainVars, statVars, histVars>>

WaitReturns ==
    /\ pc[Main] = "wait_swapped"
    /\ pmutex = Free
    /\ swapped = 0
    /\ Goto(Main, IF call = "stop" THEN "set_stopping" ELSE "user")
    /\ call' = IF call = "stop" THEN "stop" ELSE "user"
    /\ UNCHANGED <<lockVars, queueVars, turnVars, swapVars, poolVars, itemVars, enqVars,
                   idx, started, starts, lte, statVars, histVars>>

\* QPTPool_stop_threads
SetStopping ==
    /\ pc[Main] = "set_stopping"
    /\ pmutex = Free
    /\ state' = "STOPPING"
    /\ idx' = [idx EXCEPT ![Main] = 0]
    /\ Goto(Main, "stop_wake")
    /\ UNCHANGED <<lockVars, queueVars, turnVars, swapVars, props, incomplete, swapped,
                   errored, itemVars, enqVars, mainVars, statVars, histVars>>

StopBroadcast ==
    LET i == idx[Main]
        last == i + 1 = NThreads
    IN  /\ pc[Main] = "stop_wake"
        /\ tmutex[i] = Free
        /\ pc' = [Woken(i) EXCEPT ![Main] = IF last THEN "join" ELSE "stop_wake"]
        /\ idx' = [idx EXCEPT ![Main] = IF last THEN 0 ELSE @ + 1]
        /\ UNCHANGED <<lockVars, queueVars, turnVars, swapVars, poolVars, itemVars,
                       enqVars, mainVars, statVars, histVars>>

Join ==
    /\ pc[Main] = "join"
    /\ \A w \in Workers : w < started => pc[w] = "gone"
    /\ call' = "user"
    /\ Goto(Main, "user")
    /\ UNCHANGED <<lockVars, queueVars, turnVars, swapVars, poolVars, itemVars, enqVars,
                   idx, started, starts, lte, statVars, histVars>>

Destroy ==
    /\ pc[Main] = "user"
    /\ state # "RUNNING"
    /\ waiting' = [w \in Workers |-> <<>>]
    /\ claimed' = [w \in Workers |-> <<>>]
    /\ swap_write' = [w \in Workers |-> <<>>]
    /\ swap_open' = [w \in Workers |-> FALSE]
    /\ swap_read' = [w \in Workers |-> <<>>]
    /\ threads_started' = [w \in Workers |-> 0]
    /\ threads_successful' = [w \in Workers |-> 0]
    /\ Goto(Main, "destroyed")
    /\ UNCHANGED <<lockVars, turnVars, poolVars, itemVars, enqVars,
                   idx, mainVars, histVars>>

Terminated == pc[Main] = "destroyed" /\ UNCHANGED vars

-----------------------------------------------------------------------------
EnqueueSteps(p) ==
    \/ Enqueue(p) \/ LockTarget(p) \/ LockHere(p)
    \/ PlaceInMemory(p) \/ PlaceInSwap(p) \/ PlaceFails(p)
    \/ WakeTarget(p)

WorkerSteps(w) ==
    \/ LockThread(w) \/ LockPool(w)
    \/ StealNothing(w) \/ StealWaiting(w) \/ StealClaimed(w)
    \/ Sleep(w) \/ Reacquire(w) \/ Relock(w) \/ Leave(w) \/ Proceed(w)
    \/ ClaimWork(w) \/ PopWork(w) \/ PopNothing(w)
    \/ Spawn(w) \/ RunSucceeds(w) \/ RunFails(w) \/ SetErrored(w)
    \/ Account(w) \/ ExitBroadcast(w)
    \/ SwapEmpty(w) \/ SwapPrep(w) \/ SwapPrepFails(w) \/ SwapRead(w) \/ SwapDone(w)

\* the steps of main() inside a function of the pool
WaitSteps ==
    \/ WaitMem \/ SwapRound \/ WaitReturns
    \/ SetStopping \/ StopBroadcast \/ Join

\* the calls main() makes
UserSteps ==
    \/ \E s \in Settings : Set(s[1], s[2])
    \/ \E i \in Items : UserEnqueue(i)
    \/ \E i \in Items, q \in {"WAIT", "SWAP"} : UserEnqueueHere(i, q)
    \/ \E k \in 0 .. NThreads : Start(k)
    \/ \E c \in {"wait_mem", "wait", "stop"}, n \in LteCounts \cup {0} : UserWait(c, n)
    \/ Destroy

Next ==
    \/ \E p \in Procs : EnqueueSteps(p)
    \/ \E w \in Workers : WorkerSteps(w)
    \/ \E w \in Workers : SpuriousWakeup(w)
    \/ WaitSteps
    \/ SpuriousMainWakeup
    \/ UserSteps
    \/ Terminated

Spec == Init /\ [][Next]_vars

(***************************************************************************)
(* The operating system keeps running every thread that can run, and that  *)
(* is all: no mutex is assumed to be fair, main() is not assumed to make   *)
(* another call, and no spurious wakeup is assumed to happen.              *)
(***************************************************************************)
Fairness ==
    /\ \A w \in Workers : WF_vars(WorkerSteps(w) \/ EnqueueSteps(w))
    /\ WF_vars(WaitSteps \/ EnqueueSteps(Main))

FairSpec == Spec /\ Fairness

(***************************************************************************)
(* With work stealing a thread that stands before sll_pop_front can have   *)
(* its only item stolen, and the thief can have it stolen back before its  *)
(* own sll_pop_front, over and over.  Nothing in the code rules that out;  *)
(* StealingFairness says that a thread which finds itself in front of a    *)
(* non-empty claimed queue again and again is, in the end, the first to    *)
(* take the claimed_mutex.                                                 *)
(***************************************************************************)
StealingFairness == \A w \in Workers : SF_vars(PopWork(w))

StealingFairSpec == FairSpec /\ StealingFairness

-----------------------------------------------------------------------------
(* Properties.                                                              *)

ThreadTypes ==
    /\ pc \in [Procs -> WorkerPC \cup EnqueuePC \cup MainPC]
    /\ pc[Main] \in EnqueuePC \cup MainPC
    /\ \A w \in Workers : pc[w] \in WorkerPC \cup EnqueuePC
    /\ idx \in [Procs -> Workers]
LockTypes ==
    /\ tmutex \in [Workers -> Procs \cup {Free}]
    /\ pmutex \in Procs \cup {Free}
QueueTypes ==
    /\ waiting \in [Workers -> Seq(Work)]
    /\ claimed \in [Workers -> Seq(Work)]
TurnTypes ==
    /\ next_queue \in [Workers -> Workers]
    /\ steal_from \in [Workers -> Workers]
SwapTypes ==
    /\ swap_write \in [Workers -> Seq(Items)]
    /\ swap_open \in [Workers -> BOOLEAN]
    /\ swap_read \in [Workers -> Seq(Items)]
PoolTypes ==
    /\ props \in PropType
    /\ props.num > 0 => props.denom > 0
    /\ state \in {"INITIALIZED", "RUNNING", "STOPPING"}
    /\ incomplete \in Int
    /\ swapped \in Int
    /\ errored \in BOOLEAN
ItemTypes ==
    /\ qi \in [Workers -> Work \cup {NoItem}]
    /\ todo \in [Workers -> Seq(Items)]
    /\ work_count \in [Workers -> Nat]
    /\ count \in [Workers -> Nat]
EnqTypes ==
    /\ new_work \in [Procs -> Work \cup {NoItem}]
    /\ target \in [Procs -> Workers]
    /\ queue \in [Procs -> {"auto", "WAIT", "SWAP"}]
MainTypes ==
    /\ call \in {"user", "wait_mem", "wait", "stop"}
    /\ started \in 0 .. NThreads
    /\ starts \in 0 .. MaxStarts
    /\ lte \in Nat
StatTypes ==
    /\ threads_started \in [Workers -> 0 .. CountBound]
    /\ threads_successful \in [Workers -> 0 .. CountBound]
HistTypes ==
    /\ accepted \subseteq Items
    /\ runs \in [Items -> Nat]
    /\ swap_lost \in BOOLEAN

\* Every variable holds what its declaration in the C structures allows: an
\* index past the array of threads, or a queue that holds something other
\* than a work item, would break it.
TypeOK ==
    /\ ThreadTypes /\ LockTypes /\ QueueTypes /\ TurnTypes /\ SwapTypes
    /\ PoolTypes /\ ItemTypes /\ EnqTypes /\ MainTypes /\ StatTypes /\ HistTypes

\* The work of a thread: what it is processing and has processed but not yet
\* accounted for, all that is in memory, and all that is in its swap file or
\* was read from it and not yet subtracted.
Batch(w)    == work_count[w] + (IF qi[w] = NoItem THEN 0 ELSE 1)
InMemory(w) == Len(waiting[w]) + (Len(claimed[w]) + Batch(w))
InSwap(w)   == Len(swap_write[w]) + (Len(swap_read[w]) + count[w])

\* pool->incomplete is exactly the work in the queues, in the functions
\* being run and in the batches not yet accounted for, and pool->swapped the
\* work in the swap files plus what a reader has not yet subtracted: both are
\* kept by increments and batched decrements of different threads, and both
\* decide when a wait ends (QPTPool_enqueue*, worker_function,
\* QPTPool_wait_swapped_once).
CountersExact ==
    /\ pc[Main] # "destroyed" =>
           incomplete = SumFunction([w \in Workers |-> InMemory(w)])
    /\ (pc[Main] # "destroyed" /\ ~swap_lost) =>
           swapped = SumFunction([w \in Workers |-> InSwap(w)])

\* A worker that sleeps in wait_for_work with work in its own queues is about
\* to be woken by the thread that gave it that work: no broadcast is lost
\* between the test of wait_for_work and its pthread_cond_wait.
NoLostWork ==
    \A w \in Workers : pc[w] = "asleep" /\ HasWork(w) =>
        \E p \in Procs : pc[p] = "wake" /\ target[p] = w

\* A worker that sleeps although the pool wants its threads to exit will be
\* woken by somebody who has yet to broadcast to it: QPTPool_stop_threads, a
\* thread leaving worker_function, or a thread that will get there.
NoForgottenThread ==
    \A w \in Workers : pc[w] = "asleep" /\ MustExit =>
        \/ pc[Main] = "stop_wake" /\ idx[Main] <= w
        \/ \E v \in Workers :
              \/ pc[v] \notin {"idle", "asleep", "exit", "gone"}
              \/ pc[v] = "exit" /\ idx[v] <= w

\* main() sleeping in QPTPool_wait_mem with nothing left to wait for is about
\* to be woken by the thread that finishes its batch.
NoForgottenMain ==
    pc[Main] = "wait_mem_asleep" /\ ~StillInMemory =>
        \E w \in Workers : pc[w] = "account"

\* The statistics the tools print count every call of a user function
\* exactly once, whatever was stolen in between (QPTPool_threads_started);
\* with a queue limit they count the pool's own Tokens as well.
StatisticsExact ==
    (pc[Main] # "destroyed" /\ props.queue_limit = 0) =>
        SumFunction([w \in Workers |-> threads_started[w] + Batch(w)])
        = SumFunction(runs)

\* Where an accepted item is: in a queue, in a swap file, or in the hands of
\* the thread that read it from one and is putting it back.
Held(i) ==
    \E w \in Workers :
        \/ i \in Range(waiting[w]) \cup Range(claimed[w])
        \/ i \in Range(swap_write[w]) \cup Range(swap_read[w])
        \/ Rereading(w) /\ new_work[w] = i /\ pc[w] \in {"enqueue", "target", "place"}

\* What has become of an item.
StatusOf(i) ==
    IF \E w \in Workers : qi[w] = i THEN "running"
    ELSE IF Held(i) THEN "accepted"
    ELSE IF runs[i] > 0 THEN "done"
    ELSE IF i \in accepted THEN "dropped"
    ELSE "new"

\* main() waits for all of the work: in QPTPool_wait, in QPTPool_stop before
\* it stops the threads, and in a QPTPool_start that has failed.
ClientBlocked ==
    call \in {"wait", "stop"} /\ pc[Main] \notin {"set_stopping", "stop_wake", "join"}

Pool == INSTANCE WorkPool WITH
    status <- [i \in Items |-> StatusOf(i)],
    client <- IF ClientBlocked THEN "blocked" ELSE "free",
    phase  <- IF pc[Main] = "destroyed" THEN "closed"
              ELSE IF starts = 0 THEN "configuring" ELSE "started",
    failed <- StoppedOnError \/ swap_lost

\* The pool implements WorkPool: through enqueueing, claiming, stealing,
\* swapping and re-reading no accepted item is lost, run twice or run before
\* it was accepted, and QPTPool_wait and QPTPool_stop end only when all of
\* the accepted work, swapped work included, has been processed.
ImplementsWorkPool == Pool!Spec

\* Every wait of main() ends: QPTPool_wait_mem, QPTPool_wait, QPTPool_stop
\* and the clean-up of a QPTPool_start that could not create its threads.
CallsReturn == call # "user" ~> call = "user"

\* The states in which a wait does not end, and there are no others: work has
\* been swapped and an error keeps every thread from reading it, a swap file
\* was lost with its items still counted, or a start has failed and some of
\* the work is in the queues of threads that do not exist.
Stuck ==
    \/ StoppedOnError /\ swapped # 0
    \/ swap_lost
    \/ started < NThreads

\* A wait of main() that never returns is stuck for one of these reasons: no
\* other combination of settings, failures and calls makes QPTPool_wait_mem,
\* QPTPool_wait, QPTPool_stop or QPTPool_start hang.
HangsOnlyWhenStuck == call # "user" ~> (call = "user" \/ []Stuck)

\* Work that is in memory while the threads run is processed, whether or not
\* main() ever waits for it, unless the pool stops on an error.
WorkIsProcessed ==
    \A i \in Items :
        (state = "RUNNING" /\ \E w \in Workers : i \in Range(waiting[w]))
            ~> (runs[i] > 0 \/ StoppedOnError)

\* After an error, a thread that did not fail completes the queue it had
\* claimed before it stops.
ClaimedWorkIsCompleted ==
    \A i \in Items, w \in Workers :
        (/\ StoppedOnError
         /\ pc[w] = "run"
         /\ qi[w] \notin MayFail
         /\ i \in Range(claimed[w]))
            ~> (runs[i] > 0)

\* QPTPool_wait_mem_lte returns with no more than count items left, unless
\* the pool stops on an error.
WaitMemReturnsDone ==
    [][pc[Main] = "wait_mem" /\ call = "wait_mem" /\ call' = "user"
          => incomplete <= lte \/ StoppedOnError]_vars
=============================================================================
